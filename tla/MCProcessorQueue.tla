-------------------------- MODULE MCProcessorQueue --------------------------
(***************************************************************************)
(* Small instances of ProcessorQueue.                                      *)
(***************************************************************************)
EXTENDS ProcessorQueueProperties, TLC

CONSTANTS j1, j2, j3

\* j1 and j2 ask for the same work, j3 for less urgent work of its own.
MCKindOf == [j \in Jobs |-> IF j = j3 THEN "digest" ELSE "wiki"]
MCPriorityOf == [j \in Jobs |-> IF j = j3 THEN "low" ELSE "high"]

\* Loops run the same code, and so do submitters (for the safety runs only).
MCSymmetry == Permutations(Loops) \cup Permutations(Submitters)
=============================================================================
