----------------------------- MODULE MCIngestion -----------------------------
(***************************************************************************)
(* Small instances of Ingestion.                                           *)
(***************************************************************************)
EXTENDS IngestionProperties, TLC

CONSTANTS x, y

\* Two contents that share one passage.
MCTextsOf == x :> {1, 2} @@ y :> {2, 3}

MCSymmetry == Permutations(Threads) \cup Permutations(Files)
=============================================================================
