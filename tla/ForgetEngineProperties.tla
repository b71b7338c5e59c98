------------------------ MODULE ForgetEngineProperties ------------------------
(***************************************************************************)
(* What forgetting promises about the stores, and what its comments        *)
(* promise in its name.                                                    *)
(***************************************************************************)
EXTENDS ForgetEngine

Thread == [pc   : {"idle", "hide", "mark", "unhide", "receipt", "erase", "tombstone",
                   "record", "write", "list", "next"},
           op   : {"none", "trash", "forget", "restore", "purge", "ingest", "apply", "retry"},
           f    : Forgets \cup {None},
           s    : Subjects \cup {None},
           as   : States \cup {"none"},
           todo : SUBSET Entry]

\* A lane that is busy with a store knows whose content it handles, and one
\* that handles a forget knows which, and what it makes of it.
Equipped(t) ==
    /\ t.s \in Subjects <=> t.pc \notin {"idle", "list", "next"}
    /\ t.f \in Forgets <=> t.pc \notin {"idle", "list", "next", "write"}
    /\ t.as \in States <=> t.pc \notin {"idle", "list", "next", "write"}

\* Types; every lane has what it needs at each point.
TypeOK ==
    /\ copy \in [Machines -> [Machines -> SUBSET Entry]]
    /\ receipts \in [Machines -> SUBSET Forgets]
    /\ applied \in [Machines -> SUBSET (Forgets \X Subjects \X States)]
    /\ log \in [Machines -> SUBSET [subject : Subjects, at : Nat]]
    /\ present \in [Machines -> SUBSET Subjects]
    /\ archived \in [Machines -> [Subjects -> Forgets \cup {None}]]
    /\ rows \in [Machines -> SUBSET Subjects]
    /\ thread \in [Lanes -> Thread]
    /\ appends \in 0..MaxAppends
    /\ requests \in 0..MaxRequests /\ failures \in 0..MaxFailures /\ crashes \in 0..MaxCrashes
    /\ asked \subseteq Forgets
    /\ written \in [Machines -> SUBSET Subjects]
    /\ \A l \in Lanes : Equipped(thread[l])

\* Only what a person asked to erase is erased, on any machine: neither the
\* retries nor apply_remote nor the tombstone migration turns a trashed
\* artifact into a purged one (engine.py, tombstones.py).
ErasedOnlyIfAsked ==
    [][\A m \in Machines, s \in Subjects :
          s \in present[m] \ present'[m] => \E f \in asked : f[2] = s]_vars

\* A machine that recorded a purge holds the artifact no more, unless an ingest
\* has written it since: an adapter that raised, or a death in between, leaves
\* the subject unrecorded (_purge_subjects, record_tombstone).
RecordedIsErased ==
    \A m \in Machines : \A e \in copy[m][m] :
        e.state = "purged" => e.subject \notin present[m] \/ e.subject \in written[m]

Recorded(s, states) == {e \in UNION {copy[m][m] : m \in Machines} : e.subject = s /\ e.state \in states}

\* A purge that has started is finished on every machine that has its receipt,
\* whatever failed or died, unless its subject was restored, added again or
\* trashed once more meanwhile (retry_started_purges).
StartedPurgeErases ==
    \A m \in Machines, s \in Subjects :
        (\E f \in receipts[m] : f[2] = s) ~>
            \/ s \notin present[m] \/ s \in written[m]
            \/ Recorded(s, {"restored", "readded"}) # {}
            \/ \E d, e \in Recorded(s, {"trashed"}) : d.forget # e.forget

Present(m, s) == s \in present[m] /\ s \notin written[m]

\* What one machine recorded as purged is in the end erased on every other,
\* however far the clock of the one that purged is behind, unless it was added
\* again (apply_remote).
PurgeSpreads ==
    \A m \in Machines, s \in Subjects :
        Recorded(s, {"purged"}) # {} ~> ~Present(m, s) \/ Recorded(s, {"readded"}) # {}

\* m's folder has every entry there is, and its job has applied them all.
CaughtUp(m) == (\A n \in Machines : copy[m][n] = copy[n][n]) /\ Stale(m) = {}

\* A machine that has caught up holds nothing that any machine recorded as
\* purged, whichever restore or later forget the purge met on its way and
\* whatever the clocks say of their order, unless it was written there since or
\* added again (registry.py, _wins and _index; engine.py, apply_remote).
PurgeWins ==
    \A m \in Machines, s \in Subjects :
        CaughtUp(m) /\ Recorded(s, {"purged"}) # {} =>
            ~Present(m, s) \/ Recorded(s, {"readded"}) # {}

-----------------------------------------------------------------------------
(* What the comments say and the code does not do.                         *)

\* ingestion.py, _forget_gate: "the content comes back and the registry records
\* readded": what was added again is forgotten only at a person's request.
ReaddLasts ==
    [][\A m \in Machines, s \in Subjects :
          StateOf(View(m), s) = "readded" /\ requests' = requests =>
              StateOf(View(m), s)' = "readded"]_vars

=============================================================================
