---------------------------- MODULE MCForgetEngine ----------------------------
(***************************************************************************)
(* Small instances of ForgetEngine.                                        *)
(***************************************************************************)
EXTENDS ForgetEngineProperties

CONSTANTS a, b

MCForgets == (1..MaxAppends) \X Subjects

\* Whatever a records looks later than anything b does.
MCSkew == [m \in Machines |-> IF m = a THEN 25 ELSE 0]

\* One machine, where people ask for anything.
MCAlone == [k \in 1..MaxRequests |-> {a} \X Operations]

\* a trashed everything, b purged it, and a has not heard of that: a rest of Spec
\* after two requests.  The ids and stamps are those of the first three appends.
MCEntry(m, f, s, st, k) == [forget |-> f, subject |-> s, state |-> st, at |-> 2 * k + Skew[m]]

MCTrashedOnA == {MCEntry(a, <<1, s>>, s, "trashed", 1) : s \in Subjects}

MCPurgedOnB == UNION {{MCEntry(b, <<2, s>>, s, "purged", 2), MCEntry(b, <<1, s>>, s, "purged", 3)} :
                         s \in Subjects}

MCApplied(states) == {<<<<1, s>>, s, st>> : s \in Subjects, st \in states}

MCInit ==
    /\ copy = [m \in Machines |->
                 [n \in Machines |-> IF n = a THEN MCTrashedOnA ELSE IF m = b THEN MCPurgedOnB ELSE {}]]
    /\ receipts = [m \in Machines |-> IF m = a THEN {} ELSE {<<1, s>> : s \in Subjects}]
    /\ applied = [m \in Machines |-> MCApplied(IF m = a THEN {"trashed"} ELSE {"trashed", "purged"})]
    /\ log = [m \in Machines |-> IF m = a THEN {} ELSE {[subject |-> s, at |-> 4 + Skew[b]] : s \in Subjects}]
    /\ present = [m \in Machines |-> IF m = a THEN Subjects ELSE {}]
    /\ archived = [m \in Machines |-> [s \in Subjects |-> IF m = a THEN <<1, s>> ELSE None]]
    /\ rows = [m \in Machines |-> IF m = a THEN Subjects ELSE {}]
    /\ thread = [l \in Lanes |-> Idle]
    /\ appends = 3 /\ requests = 2 /\ failures = 0 /\ crashes = 0
    /\ asked = {<<1, s>> : s \in Subjects}
    /\ written = [m \in Machines |-> {}]

MCSpec == MCInit /\ [][Next]_vars /\ WF_vars(Progress)

\* From there, a restores and forgets once more.
MCMeets == <<{<<a, "trash">>}, {<<b, "purge">>},
             {<<a, "restore">>, <<a, "trash">>}, {<<a, "restore">>, <<a, "trash">>}>>
=============================================================================
