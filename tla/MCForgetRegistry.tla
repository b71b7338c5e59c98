-------------------------- MODULE MCForgetRegistry --------------------------
(***************************************************************************)
(* Small instances of ForgetRegistry.                                      *)
(***************************************************************************)
EXTENDS ForgetRegistryProperties

CONSTANTS a, b

\* The clock of b is three appends behind that of a.
MCStamp == [m \in Machines |-> [k \in 1..MaxAppends |-> IF m = a THEN 2 * k + 7 ELSE 2 * k]]
=============================================================================
