---------------------------- MODULE MCIdempotency ----------------------------
(***************************************************************************)
(* Small instances of Idempotency.                                         *)
(***************************************************************************)
EXTENDS IdempotencyProperties

CONSTANTS c1, c2, c3
=============================================================================
