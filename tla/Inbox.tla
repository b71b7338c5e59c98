--------------------------------- MODULE Inbox ---------------------------------
(***************************************************************************)
(* Filing Apple Mail from the inbox ledger: app/inbox/review.py (what is   *)
(* attempted), executor.py (one attempt, the replay of the outbox first)   *)
(* and ledger.py (decisions and outbox, in SQLite).  All of it runs on one *)
(* event loop and is interrupted only while ceridmail runs a command, so a *)
(* step here goes from the answer of one command to the next command.      *)
(* Accounts are included ones.  Left out: Gmail and Outlook, the policy    *)
(* hooks, messages the operator deletes while they are queued.             *)
(*                                                                         *)
(* `excused` holds the decisions whose recorded status and whose commands   *)
(* may come apart: those whose commands went to the outbox (its replay     *)
(* records nothing about them), those under way when the server died, and  *)
(* those requested while another task held them.  `unsure` holds those a    *)
(* command of which took effect without an answer: they are recorded failed. *)
(* "closed" is any of superseded, skipped and failed: nothing reads which.  *)
(***************************************************************************)
EXTENDS Integers, Sequences

CONSTANTS
    Messages,     \* the messages; a thread is one message
    Ids,          \* decision ids, in the order they are made
    Clients,      \* requests of the review queue under way at once
    Scheduler,    \* the triage job, which runs one instance at a time
    Actions,      \* what triage proposes: "archive", "keep", or "read" (any one command that moves nothing)
    MaxMishaps    \* bound: failed commands and deaths of the server

Tasks == Clients \cup {Scheduler}
None == 0
ASSUME IdsAssumption == Ids \subseteq Nat \ {None}
ASSUME ActionsAssumption == Actions \subseteq {"archive", "keep", "read"}

VARIABLES
    rows,      \* decisions
    outbox,    \* outbox, by decision: at most one row each
    task,      \* what each task is doing
    running,   \* whether Mail runs
    last,      \* history: the decision that moved each message last
    carried,   \* history: the decisions carried out once
    again,     \* history: those carried out again, though not excused
    unsure,    \* history: see above
    excused,   \* history: see above
    mishaps    \* what the bound counts

ledger == <<rows, outbox>>
history == <<last, carried, again, unsure>>
vars == <<ledger, task, running, history, excused, mishaps>>

NoRow == [message |-> None, action |-> "none", status |-> "none", undoes |-> None]

Idle == [stage |-> "idle", pass |-> {}, id |-> None, undoing |-> None,
         list |-> {}, row |-> None, stale |-> {}, todo |-> <<>>, answer |-> "none"]

Init ==
    /\ rows = [d \in Ids |-> NoRow]
    /\ outbox = {}
    /\ task = [t \in Tasks |-> Idle]
    /\ running \in BOOLEAN
    /\ last = [m \in Messages |-> None]
    /\ carried = {} /\ again = {}
    /\ unsure = {} /\ excused = {}
    /\ mishaps = 0

----------------------------------------------------------------------------
(* The ledger. *)

Known(d) == rows[d].status # "none"
Open(d) == rows[d].status = "proposed"

Fresh == {d \in Ids : ~Known(d) /\ \A e \in Ids : e < d => Known(e)}

\* propose(): the open proposal of the thread is superseded, in one transaction.
Proposed(d, r) ==
    [e \in Ids |-> IF e = d THEN r
                   ELSE IF Open(e) /\ rows[e].message = r.message
                        THEN [rows[e] EXCEPT !.status = "closed"]
                        ELSE rows[e]]

\* record(): unconditional.
Recorded(d, s) == [rows EXCEPT ![d].status = s]

\* What plan_apply makes of a decision, command by command.
Plan(r) == [archive |-> <<"move">>, keep |-> <<"flag", "move">>, read |-> <<"read">>, undo |-> <<"move">>][r.action]

----------------------------------------------------------------------------
(* An attempt at a decision, up to its next command. *)

\* The mailbox is looked up first, unless triage or an earlier attempt stored it;
\* an undo is given one.
FirstCalls(r) == IF r.action = "undo" THEN {"run"} ELSE {"find", "run"}

\* The rows of l are still to be replayed; after them comes the decision itself.
Onward(k, l) ==
    IF l = {}
    THEN {[k EXCEPT !.stage = stage, !.list = {}, !.row = None, !.stale = {},
                    !.todo = Plan(rows'[k.id]), !.answer = "none"] : stage \in FirstCalls(rows'[k.id])}
    ELSE {[k EXCEPT !.stage = "row", !.list = l \ {d}, !.row = d,
                    !.todo = Plan(rows'[d]), !.answer = "none"] : d \in l}

\* The outbox is listed by creation time, to the second, then by a random id:
\* rows are taken in any order.
Begun(pass, d) == Onward([Idle EXCEPT !.pass = pass, !.id = d], outbox')

\* auto_apply_pass goes on with the next decision it listed, whatever became of it.
Ended(pass) == IF pass = {} THEN {Idle} ELSE UNION {Begun(pass \ {d}, d) : d \in pass}

\* The row of d is another one from here on, or none: what the others listed is stale.
Outdated(d) ==
    [t \in Tasks |-> IF d \in task[t].list \cup {task[t].row}
                     THEN [task[t] EXCEPT !.stale = @ \cup {d}] ELSE task[t]]

Become(t, ks, others) == \E k \in ks : task' = [others EXCEPT ![t] = k]

Holds(k, d) == d \in {k.id} \cup k.pass

Overlapped(t, ds) == excused' = excused \cup {d \in ds : \E u \in Tasks \ {t} : Holds(task[u], d)}

----------------------------------------------------------------------------
(* Requests. *)

\* propose_triage, for a thread read from Mail with or without its mailbox.
ProposeTriage ==
    \E m \in Messages, a \in Actions, d \in Fresh :
        rows' = Proposed(d, [message |-> m, action |-> a, status |-> "proposed", undoes |-> None])

\* _eligible, for an account that applies by itself: an undo is not.
NotQueuedYet(r, d) == r.status = "proposed" /\ r.action \in Actions /\ d \notin outbox
Eligible(r, d) == r.status = "proposed" /\ r.action \in Actions

\* auto_apply_pass, over the decisions that are open now.
Pass ==
    LET open == {d \in Ids : Eligible(rows'[d], d)}
    IN /\ Become(Scheduler, Ended(open), task)
       /\ Overlapped(Scheduler, open)

\* record_and_apply: what triage read is proposed, and then one pass, if the
\* account applies by itself.
RecordAndApply(proposes, applies) ==
    /\ task[Scheduler].stage = "idle"
    /\ UNCHANGED outbox
    /\ IF proposes THEN ProposeTriage ELSE UNCHANGED rows
    /\ IF applies THEN Pass ELSE UNCHANGED <<task, excused>>
    /\ UNCHANGED <<running, history, mishaps>>

\* apply_ids, for one id.
Apply(t, d) ==
    /\ task[t].stage = "idle" /\ Open(d)
    /\ UNCHANGED ledger
    /\ Become(t, Begun({}, d), task)
    /\ Overlapped(t, {d})
    /\ UNCHANGED <<running, history, mishaps>>

\* undo_decision: the undo is a decision of its own, proposed and attempted.
Undo(t, d) ==
    /\ task[t].stage = "idle" /\ rows[d].status = "applied"
    /\ UNCHANGED outbox
    /\ \E u \in Fresh :
        /\ rows' = Proposed(u, [rows[d] EXCEPT !.action = "undo", !.status = "proposed", !.undoes = d])
        /\ Become(t, {[k EXCEPT !.undoing = d] : k \in Begun({}, u)}, task)
    /\ UNCHANGED <<running, history, excused, mishaps>>

\* skip_decision: the row of the outbox, if any, stays.
Skip(d) ==
    /\ Open(d)
    /\ rows' = Recorded(d, "closed")
    /\ UNCHANGED <<outbox, task, running, history, excused, mishaps>>

----------------------------------------------------------------------------
(* The command under way, and Mail. *)

Doer(k) == IF k.stage = "row" THEN k.row ELSE k.id
Target(k) == rows[Doer(k)].message
Asking(t) == task[t].stage # "idle" /\ task[t].answer = "none"

\* A command is carried out; a move is remembered as made by the decision it is for.
Effect(k) ==
    IF k.stage = "find" THEN UNCHANGED <<last, carried, again>>
    ELSE /\ IF k.todo = Plan(rows[Doer(k)])
            THEN /\ carried' = carried \cup ({Doer(k)} \ excused)
                 /\ again' = again \cup ({Doer(k)} \cap (carried \ excused))
            ELSE UNCHANGED <<carried, again>>
         /\ last' = [last EXCEPT ![Target(k)] = IF Head(k.todo) = "move" THEN Doer(k) ELSE @]

\* After a command that is not the last comes the next: nothing else is looked at.
Execute(t) ==
    /\ Asking(t) /\ running
    /\ Effect(task[t]) /\ UNCHANGED unsure
    /\ task' = IF task[t].stage # "find" /\ Len(task[t].todo) > 1
               THEN [task EXCEPT ![t].todo = Tail(@)]
               ELSE [task EXCEPT ![t].answer = "ok"]
    /\ UNCHANGED <<ledger, running, excused, mishaps>>

NotRunning(t) ==
    /\ Asking(t) /\ ~running
    /\ task' = [task EXCEPT ![t].answer = "off"]
    /\ UNCHANGED <<ledger, running, history, excused, mishaps>>

Toggle == running' = ~running /\ UNCHANGED <<ledger, task, history, excused, mishaps>>

----------------------------------------------------------------------------
(* The answer of a command, up to the next one. *)

Answered(t, stages, r) == task[t].stage \in stages /\ task[t].answer = r

\* A row was replayed: it leaves the outbox, and its decision is as before.
Replayed(t) ==
    /\ Answered(t, {"row"}, "ok")
    /\ UNCHANGED rows
    /\ LET d == task[t].row
       IN IF d \in task[t].stale
          THEN UNCHANGED outbox /\ Become(t, Onward(task[t], task[t].list), task)
          ELSE outbox' = outbox \ {d} /\ Become(t, Onward(task[t], task[t].list), Outdated(d))
    /\ UNCHANGED <<running, history, excused, mishaps>>

\* Mail is closed: the rest of the outbox waits, the decision is tried all the same.
GiveUpFlush(t) ==
    /\ Answered(t, {"row"}, "off")
    /\ UNCHANGED ledger
    /\ Become(t, Onward(task[t], {}), task)
    /\ UNCHANGED <<running, history, excused, mishaps>>

Found(t) ==
    /\ Answered(t, {"find"}, "ok")
    /\ task' = [task EXCEPT ![t].stage = "run", ![t].answer = "none"]
    /\ UNCHANGED <<ledger, running, history, excused, mishaps>>

\* All of the commands are queued, those carried out already as well, in place
\* of what was queued for the decision before.
Queue(t) ==
    /\ Answered(t, {"find", "run"}, "off")
    /\ UNCHANGED rows
    /\ outbox' = outbox \cup {task[t].id}
    /\ excused' = excused \cup {task[t].id}
    /\ Become(t, Ended(task[t].pass), Outdated(task[t].id))
    /\ UNCHANGED <<running, history, mishaps>>

Failed(t) ==
    /\ rows' = Recorded(task[t].id, "closed")
    /\ UNCHANGED outbox
    /\ Become(t, Ended(task[t].pass), task)
    /\ UNCHANGED <<running, excused>>

\* Automation denied, or no answer in 30 s: with or without effect, the attempt is
\* recorded as failed.
Fault(t) ==
    /\ Asking(t)
    /\ mishaps < MaxMishaps /\ mishaps' = mishaps + 1
    /\ \/ UNCHANGED history
       \/ /\ running /\ task[t].stage # "find"
          /\ Effect(task[t])
          /\ unsure' = unsure \cup {Doer(task[t])}
    /\ Failed(t)

\* undo_decision then records the decision undone; apply_ids of an undo does not.
OnlyItself(d, undone) == Recorded(d, "applied")
Outcome(d, undone) ==
    IF undone = None THEN Recorded(d, "applied")
    ELSE [Recorded(d, "applied") EXCEPT ![undone].status = "undone"]

Done(t) ==
    /\ Answered(t, {"run"}, "ok")
    /\ rows' = Outcome(task[t].id, task[t].undoing)
    /\ UNCHANGED outbox
    /\ Become(t, Ended(task[t].pass), task)
    /\ UNCHANGED <<running, history, excused, mishaps>>

\* The ledger and the mailbox outlive the server.
Crash ==
    /\ mishaps < MaxMishaps /\ mishaps' = mishaps + 1
    /\ task' = [t \in Tasks |-> Idle]
    /\ excused' = excused \cup {d \in Ids : \E t \in Tasks : task[t].id = d}
    /\ UNCHANGED <<ledger, running, history>>

----------------------------------------------------------------------------

Answer(t) == NotRunning(t) \/ Execute(t)
Resume(t) == Replayed(t) \/ GiveUpFlush(t) \/ Found(t) \/ Queue(t) \/ Done(t)

Next ==
    \/ Toggle \/ Crash
    \/ \E proposes, applies \in BOOLEAN : RecordAndApply(proposes, applies)
    \/ \E t \in Clients, d \in Ids : Apply(t, d) \/ Undo(t, d)
    \/ \E d \in Ids : Skip(d)
    \/ \E t \in Tasks : Answer(t) \/ Fault(t) \/ Resume(t)

Spec == Init /\ [][Next]_vars

\* A command is answered, at the latest by its timeout, its task goes on, and
\* triage comes round again, whether it reads anything or not.
FairSpec ==
    /\ Spec
    /\ WF_vars(RecordAndApply(FALSE, TRUE))
    /\ \A t \in Tasks : WF_vars(Answer(t)) /\ WF_vars(Resume(t))
===============================================================================
