----------------------------- MODULE ForgetEngine -----------------------------
(***************************************************************************)
(* Trash, restore, purge and re-ingest of artifacts over the forget        *)
(* registry (app/services/forget/engine.py), with the maintenance job that *)
(* brings each machine in line.  The registry answers from every entry its *)
(* folder holds; ForgetRegistry says when it does not.  A forget names one *)
(* subject, as on the delete routes.                                       *)
(***************************************************************************)
EXTENDS ForgetIndex

CONSTANTS Machines,
          Skew,           \* Skew[m]: how far m's clock is ahead
          MaxAppends,     \* how many entries are recorded at most
          Handlers,       \* the threads that serve requests
          MaxRequests,    \* how many requests people make
          Asks,           \* Asks[k]: what the k-th of them may be, and on which machine
          MaxFailures,    \* how many store calls fail
          MaxCrashes      \* how many processes die

Operations == {"trash", "forget", "restore", "purge", "ingest"}

ASSUME EngineAssumption ==
    /\ "job" \notin Handlers
    /\ Asks \in [1..MaxRequests -> SUBSET (Machines \X Operations)]
    /\ Forgets = (1..MaxAppends) \X Subjects
    /\ None \notin Entry \cup Forgets \cup Subjects
    /\ IsFiniteSet(Machines)
    /\ Skew \in [Machines -> Nat]
    /\ MaxAppends \in Nat /\ MaxRequests \in Nat /\ MaxFailures \in Nat /\ MaxCrashes \in Nat

\* The threads that forget: the request handlers and the maintenance job.
Lanes == Machines \X (Handlers \cup {"job"})

VARIABLES
    copy,       \* copy[m][n]: n's registry file as m's folder has it
    receipts,   \* receipts[m]: the forgets whose receipt m's folder has
    applied,    \* applied[m]: forget_applied.jsonl
    log,        \* log[m]: the tombstone log
    present,    \* present[m]: the artifacts that have their node
    archived,   \* archived[m][s]: the forget that archived s, or None
    rows,       \* rows[m]: the artifacts that have searchable chunks
    thread,     \* where each lane is, and for whom
    appends, requests, failures, crashes,
    asked,      \* history: the forgets a person wanted purged
    written     \* history: written[m]: what an ingest wrote

sync == <<copy, receipts>>
stores == <<present, archived, rows, written>>
counts == <<requests, failures, crashes>>
vars == <<sync, applied, log, stores, thread, appends, counts, asked>>

Idle == [pc |-> "idle", op |-> "none", f |-> None, s |-> None, as |-> "none", todo |-> {}]

Init == /\ copy = [m \in Machines |-> [n \in Machines |-> {}]]
        /\ receipts = [m \in Machines |-> {}]
        /\ applied = [m \in Machines |-> {}]
        /\ log = [m \in Machines |-> {}]
        /\ present = [m \in Machines |-> Subjects]
        /\ archived = [m \in Machines |-> [s \in Subjects |-> None]]
        /\ rows = [m \in Machines |-> Subjects]
        /\ thread = [l \in Lanes |-> Idle]
        /\ appends = 0 /\ requests = 0 /\ failures = 0 /\ crashes = 0
        /\ asked = {}
        /\ written = [m \in Machines |-> {}]

-----------------------------------------------------------------------------

\* Registry.latest() of m.
View(m) == UNION {copy[m][n] : n \in Machines}

Latest(m) == {Winner(View(m), s) : s \in {x \in Subjects : About(View(m), x) # {}}}

NewId(s) == <<appends + 1, s>>

New(m, f, s, st) ==
    [forget |-> f, subject |-> s, state |-> st, at |-> 2 * (appends + 1) + Skew[m]]

Append(m, es) ==
    /\ appends < MaxAppends
    /\ appends' = appends + 1
    /\ copy' = [copy EXCEPT ![m][m] = @ \cup es]
    /\ UNCHANGED receipts

Goto(l, t) == thread' = [thread EXCEPT ![l] = t]

At(l, pc) == thread[l].pc = pc

\* Mutant: the subject is kept.
DoneButBusy(t) == IF t.op \in {"apply", "retry"} THEN [t EXCEPT !.pc = "next", !.f = None, !.as = "none"]
                  ELSE Idle

\* What a lane does once it is through with one forget.
Done(t) == IF t.op \in {"apply", "retry"} THEN [t EXCEPT !.pc = "next", !.f = None, !.s = None, !.as = "none"]
           ELSE Idle

\* A store call succeeds, fails, or takes effect and still raises.
Outcomes == {"ok", "before", "after"}

Call(o) ==
    /\ o # "ok" => failures < MaxFailures
    /\ failures' = IF o = "ok" THEN failures ELSE failures + 1
    /\ UNCHANGED <<requests, crashes>>

Request(l, op) ==
    /\ requests < MaxRequests
    /\ l[2] \in Handlers /\ <<l[1], op>> \in Asks[requests + 1]
    /\ At(l, "idle")
    /\ requests' = requests + 1
    /\ UNCHANGED <<failures, crashes>>

Begin(l, pc, op, f, s, as) ==
    Goto(l, [pc |-> pc, op |-> op, f |-> f, s |-> s, as |-> as, todo |-> {}])

-----------------------------------------------------------------------------
(* Requests. *)

\* trash, or forget_permanently: recorded first, then hidden.
Trash(l, s, op) ==
    /\ Request(l, op)
    /\ Append(l[1], {New(l[1], NewId(s), s, "trashed")})
    /\ Begin(l, "hide", op, NewId(s), s, "trashed")
    /\ asked' = IF op = "forget" THEN asked \cup {NewId(s)} ELSE asked
    /\ UNCHANGED <<applied, log, stores>>

\* Refused once the purge has started here.
Restore(l, f) ==
    /\ Request(l, "restore")
    /\ ForgetEntries(View(l[1]), f, "trashed") # {}
    /\ f \notin receipts[l[1]]
    /\ Begin(l, "unhide", "restore", f, f[2], "restored")
    /\ UNCHANGED <<sync, applied, log, stores, appends, asked>>

\* purge, and empty_trash for each forget in the trash.
Purge(l, f) ==
    /\ Request(l, "purge")
    /\ ForgetEntries(View(l[1]), f, "trashed") # {}
    /\ Begin(l, "receipt", "purge", f, f[2], "purged")
    /\ asked' = asked \cup {f}
    /\ UNCHANGED <<sync, applied, log, stores, appends>>

\* An explicit ingest passes the forget gate: every live forget is cancelled.
Ingest(l, s) ==
    /\ Request(l, "ingest")
    /\ LET m == l[1] IN
       \/ /\ StateOf(View(m), s) \in ForgottenStates
          /\ Append(m, {New(m, f, s, "readded") :
                          f \in Live(View(m), s) \cup {Winner(View(m), s).forget}})
       \/ /\ StateOf(View(m), s) \notin ForgottenStates
          /\ UNCHANGED <<sync, appends>>
    /\ Begin(l, "write", "ingest", None, s, "none")
    /\ UNCHANGED <<applied, log, stores, asked>>

\* The artifact is written unless its node is there already.
Write(l) ==
    /\ At(l, "write")
    /\ LET m == l[1]  s == thread[l].s IN
       IF s \in present[m] THEN UNCHANGED stores
       ELSE /\ present' = [present EXCEPT ![m] = @ \cup {s}]
            /\ rows' = [rows EXCEPT ![m] = @ \cup {s}]
            /\ archived' = [archived EXCEPT ![m][s] = None]
            /\ written' = [written EXCEPT ![m] = @ \cup {s}]
    /\ Goto(l, Idle)
    /\ UNCHANGED <<sync, applied, log, appends, counts, asked>>

-----------------------------------------------------------------------------
(* The adapter's steps, for whoever calls them. *)

\* Mutant: a failed purge counts as done.
Regardless(t, o) == [t EXCEPT !.pc = IF t.op = "apply" THEN "mark" ELSE "record"]

\* A purge that raised leaves its subject as it is, to be retried.
Settled(t, o) ==
    IF o # "ok" THEN Done(t) ELSE [t EXCEPT !.pc = IF t.op = "apply" THEN "mark" ELSE "record"]

\* hide: archives what is visible.
Hide(l, o) ==
    /\ At(l, "hide")
    /\ Call(o)
    /\ LET m == l[1]  t == thread[l] IN
       /\ archived' = IF o = "before" \/ t.s \notin present[m] \/ archived[m][t.s] # None THEN archived
                      ELSE [archived EXCEPT ![m][t.s] = t.f]
       /\ Goto(l, CASE o = "ok"                     -> [t EXCEPT !.pc = "mark"]
                    [] o # "ok" /\ t.op = "forget"  -> [t EXCEPT !.pc = "receipt", !.as = "purged"]
                    [] OTHER                        -> Done(t))
    /\ UNCHANGED <<sync, applied, log, present, rows, written, appends, asked>>

\* restore: shows what this forget archived.
Unhide(l, o) ==
    /\ At(l, "unhide")
    /\ Call(o)
    /\ LET m == l[1]  t == thread[l] IN
       /\ archived' = IF o = "before" \/ archived[m][t.s] # t.f THEN archived
                      ELSE [archived EXCEPT ![m][t.s] = None]
       /\ Goto(l, Settled(t, o))
    /\ UNCHANGED <<sync, applied, log, present, rows, written, appends, asked>>

\* The purge has started: its receipt is written.
Receipt(l) ==
    /\ At(l, "receipt")
    /\ receipts' = [receipts EXCEPT ![l[1]] = @ \cup {thread[l].f}]
    /\ Goto(l, [thread[l] EXCEPT !.pc = "erase"])
    /\ UNCHANGED <<copy, applied, log, stores, appends, counts, asked>>

\* purge, first the node.  Without one, only the lineage is settled.
Erase(l, o) ==
    /\ At(l, "erase")
    /\ Call(o)
    /\ LET m == l[1]  t == thread[l] IN
       /\ present' = IF o = "before" THEN present ELSE [present EXCEPT ![m] = @ \ {t.s}]
       /\ archived' = IF o = "before" THEN archived ELSE [archived EXCEPT ![m][t.s] = None]
       /\ Goto(l, IF t.s \in present[m] /\ o = "ok" THEN [t EXCEPT !.pc = "tombstone"]
                  ELSE Settled(t, o))
    /\ UNCHANGED <<sync, applied, log, rows, written, appends, asked>>

\* Then the tombstone, its own entry in the registry and the chunks, where
\* failures are swallowed, and the lineage, where they are not.
RemoveRest(l, recorded, removed, o) ==
    /\ At(l, "tombstone")
    /\ o # "after"
    /\ LET faults == (IF recorded THEN 0 ELSE 1) + (IF removed THEN 0 ELSE 1)
                       + (IF o = "ok" THEN 0 ELSE 1) IN
       /\ failures + faults <= MaxFailures
       /\ failures' = failures + faults
       /\ UNCHANGED <<requests, crashes>>
    /\ LET m == l[1]  t == thread[l]  e == New(l[1], NewId(thread[l].s), thread[l].s, "purged") IN
       /\ log' = [log EXCEPT ![m] = @ \cup {[subject |-> t.s, at |-> e.at]}]
       /\ IF recorded THEN Append(m, {e}) ELSE UNCHANGED <<sync, appends>>
       /\ rows' = IF removed THEN [rows EXCEPT ![m] = @ \ {t.s}] ELSE rows
       /\ Goto(l, Settled(t, o))
    /\ UNCHANGED <<applied, present, archived, written, asked>>

\* What was done is recorded for the other machines.
Record(l) ==
    /\ At(l, "record")
    /\ LET t == thread[l] IN
       /\ Append(l[1], {New(l[1], t.f, t.s, t.as)})
       /\ Goto(l, [t EXCEPT !.pc = "mark"])
    /\ UNCHANGED <<applied, log, stores, counts, asked>>

\* _mark_applied; a permanent forget then goes on to its purge.
Mark(l) ==
    /\ At(l, "mark")
    /\ LET t == thread[l] IN
       /\ applied' = [applied EXCEPT ![l[1]] = @ \cup {<<t.f, t.s, t.as>>}]
       /\ Goto(l, IF t.op = "forget" /\ t.as = "trashed" THEN [t EXCEPT !.pc = "receipt", !.as = "purged"]
                  ELSE Done(t))
    /\ UNCHANGED <<sync, log, stores, appends, counts, asked>>

-----------------------------------------------------------------------------
(* The maintenance job. *)

Job(m) == <<m, "job">>

\* The rows of the tombstone log that the registry does not call purged.
Unrecorded(m) == {r \in log[m] : /\ StateOf(View(m), r.subject) # "purged"
                                 /\ \A x \in log[m] : x.subject = r.subject => r.at <= x.at}

\* What is not applied here yet.
Stale(m) == {e \in Latest(m) : <<e.forget, e.subject, e.state>> \notin applied[m]}

\* Mutant: whatever is in the trash is purged.
AnyTrashed(m) == {e \in Latest(m) : e.state = "trashed"}

\* Mutant: a purge that started is looked for among the finished ones.
AmongPurged(m) == {e \in Latest(m) : e.state = "purged" /\ e.forget \in receipts[m]}

\* The purges that started and did not finish.
Started(m) == {e \in Latest(m) : e.state = "trashed" /\ e.forget \in receipts[m]}

\* migrate_tombstones_to_registry.
Migrate(m) ==
    /\ At(Job(m), "idle")
    /\ Unrecorded(m) # {}
    /\ Append(m, {[New(m, NewId(r.subject), r.subject, "purged") EXCEPT !.at = r.at] :
                     r \in Unrecorded(m)})
    /\ Goto(Job(m), [Idle EXCEPT !.pc = "list"])
    /\ UNCHANGED <<applied, log, stores, counts, asked>>

\* apply_remote: what to apply, also when the migration raised or had nothing
\* to do.  A run with nothing to apply or to retry is left out.
List(m) ==
    /\ At(Job(m), "idle") \/ At(Job(m), "list")
    /\ At(Job(m), "idle") => Stale(m) \cup Started(m) # {}
    /\ Goto(Job(m), [Idle EXCEPT !.pc = "next", !.op = "apply", !.todo = Stale(m)])
    /\ UNCHANGED <<sync, applied, log, stores, appends, counts, asked>>

\* Mutant: what is purged elsewhere is only hidden here.
HideOnly(e) == [trashed |-> "hide", restored |-> "unhide", readded |-> "mark", purged |-> "hide"][e.state]

StepFor(e) == [trashed |-> "hide", restored |-> "unhide", readded |-> "mark", purged |-> "erase"][e.state]

ApplyOne(m, e) ==
    /\ At(Job(m), "next") /\ thread[Job(m)].op = "apply" /\ e \in thread[Job(m)].todo
    /\ Goto(Job(m), [pc |-> StepFor(e), op |-> "apply", f |-> e.forget, s |-> e.subject, as |-> e.state,
                     todo |-> thread[Job(m)].todo \ {e}])
    /\ UNCHANGED <<sync, applied, log, stores, appends, counts, asked>>

\* retry_started_purges: what to retry.
ListStarted(m) ==
    /\ At(Job(m), "next") /\ thread[Job(m)].op = "apply" /\ thread[Job(m)].todo = {}
    /\ Goto(Job(m), IF Started(m) = {} THEN Idle
                    ELSE [Idle EXCEPT !.pc = "next", !.op = "retry", !.todo = Started(m)])
    /\ UNCHANGED <<sync, applied, log, stores, appends, counts, asked>>

RetryOne(m, e) ==
    /\ At(Job(m), "next") /\ thread[Job(m)].op = "retry" /\ e \in thread[Job(m)].todo
    /\ Goto(Job(m), [pc |-> "receipt", op |-> "retry", f |-> e.forget, s |-> e.subject, as |-> "purged",
                     todo |-> thread[Job(m)].todo \ {e}])
    /\ UNCHANGED <<sync, applied, log, stores, appends, counts, asked>>

Finish(m) ==
    /\ At(Job(m), "next") /\ thread[Job(m)].op = "retry" /\ thread[Job(m)].todo = {}
    /\ Goto(Job(m), Idle)
    /\ UNCHANGED <<sync, applied, log, stores, appends, counts, asked>>

-----------------------------------------------------------------------------
(* The folder and the process. *)

Deliver(m, n) ==
    /\ copy[m][n] # copy[n][n]
    /\ copy' = [copy EXCEPT ![m][n] = copy[n][n]]
    /\ UNCHANGED <<receipts, applied, log, stores, thread, appends, counts, asked>>

DeliverReceipts(m, n) ==
    /\ ~(receipts[n] \subseteq receipts[m])
    /\ receipts' = [receipts EXCEPT ![m] = @ \cup receipts[n]]
    /\ UNCHANGED <<copy, applied, log, stores, thread, appends, counts, asked>>

Crash(m) ==
    /\ crashes < MaxCrashes
    /\ crashes' = crashes + 1
    /\ \E l \in Lanes : l[1] = m /\ thread[l] # Idle
    /\ thread' = [l \in Lanes |-> IF l[1] = m THEN Idle ELSE thread[l]]
    /\ UNCHANGED <<sync, applied, log, stores, appends, requests, failures, asked>>

-----------------------------------------------------------------------------

Continue(l) ==
    \/ \E o \in Outcomes : \/ Hide(l, o) \/ Unhide(l, o) \/ Erase(l, o)
                           \/ \E recorded, removed \in BOOLEAN : RemoveRest(l, recorded, removed, o)
    \/ Write(l) \/ Receipt(l) \/ Record(l) \/ Mark(l)

Maintain(m) ==
    \/ Migrate(m) \/ List(m) \/ ListStarted(m) \/ Finish(m)
    \/ \E e \in thread[Job(m)].todo : ApplyOne(m, e) \/ RetryOne(m, e)

\* What goes on by itself: threads run on, the job is scheduled again and
\* again, and the folder syncs.
Progress ==
    \/ \E l \in Lanes : Continue(l)
    \/ \E m \in Machines :
        \/ Maintain(m)
        \/ \E n \in Machines : Deliver(m, n) \/ DeliverReceipts(m, n)

Next ==
    \/ Progress
    \/ \E m \in Machines : Crash(m)
    \/ \E l \in Lanes :
        \/ \E s \in Subjects : Ingest(l, s) \/ \E op \in {"trash", "forget"} : Trash(l, s, op)
        \/ \E f \in Forgets : Restore(l, f) \/ Purge(l, f)

Spec == Init /\ [][Next]_vars

\* No more than that something goes on as long as something can: whatever is
\* left to do is finite, so everything gets its turn.
FairSpec == Spec /\ WF_vars(Progress)
=============================================================================
