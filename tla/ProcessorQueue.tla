--------------------------- MODULE ProcessorQueue ---------------------------
(***************************************************************************)
(* The background processor: RedisJobQueue and the enqueue helpers of      *)
(* app/db/redis/processor_queue.py together with the worker loops of       *)
(* app/processor/worker.py.  One action is one Redis command (or one run   *)
(* of a job body) of one process: a worker loop, a submitter, or the       *)
(* start-up recovery.  Every command may raise, with or without having     *)
(* been executed, and the server may die between any two commands.         *)
(***************************************************************************)
EXTENDS Integers, Sequences, FiniteSets

CONSTANTS
    Jobs,         \* job ids; an id is submitted at most once
    Loops,        \* the worker loops of the one ProcessorWorker
    Submitters,   \* schedulers, subscribers and routes that enqueue
    NoJob,        \* no job
    PriorityOf,   \* the priority of a job
    KindOf,       \* its job_type and payload, what duplicate collapse compares
    Slow,         \* jobs that may grow older than PROCESSOR_PENDING_STALE_TTL_S
    Expirable,    \* jobs whose record may outlive JOB_RECORD_TTL_S
    MaxRetries,   \* ProcessorWorker.max_retries
    MaxErrors,    \* bound: Redis commands that raise
    MaxCrashes,   \* bound: deaths of the server
    MaxStops      \* bound: graceful stops

Priorities == {"high", "medium", "low"}

ASSUME ConstantsAssumption ==
    /\ NoJob \notin Jobs
    /\ PriorityOf \in [Jobs -> Priorities]
    /\ MaxRetries \in Nat \ {0}
    /\ \A i, j \in Jobs : KindOf[i] = KindOf[j] => PriorityOf[i] = PriorityOf[j]

VARIABLES
    state,        \* cerid:proc:job:<id>, field state ("new": id not yet used)
    retry_count,  \* the same hash, field retry_count
    aged,         \* ids whose enqueued_at is older than the stale TTL
    list,         \* cerid:proc:queue:<priority>, the oldest id first
    running,      \* cerid:proc:running
    recent,       \* cerid:proc:recent
    paused,       \* cerid:proc:paused
    phase,        \* where ProcessorWorker.start and stop have got to
    todo,         \* running-set ids the recovery still has to look at
    orphan,       \* the one it is working on
    pc,           \* where each worker loop is
    job,          \* the job it popped
    seen,         \* JobRecord.retry_count as it was dequeued
    outcome,      \* how the run ended
    spc,          \* where each submitter is
    sjob,         \* the record it is to enqueue
    listed,       \* pending candidates of its duplicate scan
    active,       \* running candidates of its duplicate scan
    victim,       \* the stale marker it is pruning
    errors, crashes, stops,   \* what the bounds count
    failures      \* history: runs of each job that raised

record == <<state, retry_count, aged>>
index  == <<list, running, recent>>
worker == <<phase, todo, orphan>>
loop   == <<pc, job, seen, outcome>>
sub    == <<spc, sjob, listed, active, victim>>
faults == <<crashes, stops>>
vars   == <<record, index, paused, worker, loop, sub, errors, faults, failures>>

Terminal == {"completed", "failed", "held"}

\* Loop program points.  A loop between "load" and "repush" holds a job.
Holding == {"load", "mark", "register", "run", "settle", "unregister",
            "recent", "retry", "repush"}
LoopPoints == {"poll"} \cup Priorities \cup Holding

-----------------------------------------------------------------------------
(* One Redis command: answered, executed but the answer lost, or refused.  *)

Reply == {"ok", "lost", "refused"}
Executed(r) == r # "refused"
Raised(r)   == r # "ok"
Redis(r) == /\ errors' = IF Raised(r) THEN errors + 1 ELSE errors
            /\ errors' <= MaxErrors

\* LREM key 0 id.  An id is in a list at most once (AtMostOnePlace).
Lrem(s, j) ==
    IF \E k \in 1..Len(s) : s[k] = j
    THEN LET k == CHOOSE k \in 1..Len(s) : s[k] = j
         IN  [n \in 1..(Len(s) - 1) |-> IF n < k THEN s[n] ELSE s[n + 1]]
    ELSE s

Lpush(j) == list' = [list EXCEPT ![PriorityOf[j]] = Append(@, j)]

InList(j) == \E p \in Priorities : \E k \in 1..Len(list[p]) : list[p][k] = j

Serving == phase \in {"up", "stopping"}

Init ==
    /\ state = [j \in Jobs |-> "new"]
    /\ retry_count = [j \in Jobs |-> 0]
    /\ aged = {}
    /\ list = [p \in Priorities |-> <<>>]
    /\ running = {} /\ recent = {} /\ paused = FALSE
    /\ phase = "down" /\ todo = {} /\ orphan = NoJob
    /\ pc = [l \in Loops |-> "poll"]
    /\ job = [l \in Loops |-> NoJob]
    /\ seen = [l \in Loops |-> 0]
    /\ outcome = [l \in Loops |-> "none"]
    /\ spc = [s \in Submitters |-> "idle"]
    /\ sjob = [s \in Submitters |-> NoJob]
    /\ listed = [s \in Submitters |-> {}]
    /\ active = [s \in Submitters |-> {}]
    /\ victim = [s \in Submitters |-> NoJob]
    /\ errors = 0 /\ crashes = 0 /\ stops = 0
    /\ failures = [j \in Jobs |-> 0]

-----------------------------------------------------------------------------
(* Worker loops.                                                           *)

\* Going back to "poll" drops the job and everything known about it.
Step(l, next) ==
    /\ pc' = [pc EXCEPT ![l] = next]
    /\ IF next = "poll"
       THEN /\ job' = [job EXCEPT ![l] = NoJob]
            /\ seen' = [seen EXCEPT ![l] = 0]
            /\ outcome' = [outcome EXCEPT ![l] = "none"]
       ELSE UNCHANGED <<job, seen, outcome>>

\* dequeue: the paused flag is read before the lists are looked at.
PauseIgnored == TRUE
MayDequeue == ~paused

Poll(l, r) ==
    /\ phase = "up" /\ pc[l] = "poll"
    /\ Redis(r)
    /\ Step(l, IF Raised(r) \/ ~MayDequeue THEN "poll" ELSE "high")
    /\ UNCHANGED <<record, index, paused, worker, sub, faults, failures>>

\* priority_order(); after the last list the loop sleeps and polls again.
LowForgotten(p) == IF p = "high" THEN "medium" ELSE "poll"
NextPriority(p) == CASE p = "high" -> "medium" [] p = "medium" -> "low" [] p = "low" -> "poll"

\* dequeue: RPOP of the list of one priority, in priority_order().
Pop(l, r) ==
    /\ pc[l] \in Priorities
    /\ Redis(r)
    /\ LET q == list[pc[l]]
       IN  IF q # <<>> /\ Executed(r)
           THEN /\ list' = [list EXCEPT ![pc[l]] = Tail(@)]
                /\ IF Raised(r) THEN Step(l, "poll")
                   ELSE /\ pc' = [pc EXCEPT ![l] = "load"]
                        /\ job' = [job EXCEPT ![l] = Head(q)]
                        /\ UNCHANGED <<seen, outcome>>
           ELSE /\ Step(l, IF Raised(r) THEN "poll" ELSE NextPriority(pc[l]))
                /\ UNCHANGED list
    /\ UNCHANGED <<record, running, recent, paused, worker, sub, faults, failures>>

\* dequeue: the popped id's record; without one the pop is forgotten.
MissingOrPaused(j) == state[j] = "absent" \/ paused
Missing(j) == state[j] = "absent"

Load(l, r) ==
    /\ pc[l] = "load"
    /\ Redis(r)
    /\ IF Raised(r) \/ Missing(job[l])
       THEN Step(l, "poll")
       ELSE /\ pc' = [pc EXCEPT ![l] = "mark"]
            /\ seen' = [seen EXCEPT ![l] = retry_count[job[l]]]
            /\ UNCHANGED <<job, outcome>>
    /\ UNCHANGED <<record, index, paused, worker, sub, faults, failures>>

\* _execute abandons the tick when mark_running raised.
CarryOn == "run"
AbandonTick == "poll"

\* mark_running: the hash becomes RUNNING; _execute gives up on an error.
MarkRunning(l, r) ==
    /\ pc[l] = "mark"
    /\ Redis(r)
    /\ state' = IF Executed(r) THEN [state EXCEPT ![job[l]] = "running"] ELSE state
    /\ Step(l, IF Raised(r) THEN AbandonTick ELSE "register")
    /\ UNCHANGED <<retry_count, aged, index, paused, worker, sub, faults, failures>>

\* mark_running: SADD to the running set.
Register(l, r) ==
    /\ pc[l] = "register"
    /\ Redis(r)
    /\ running' = IF Executed(r) THEN running \cup {job[l]} ELSE running
    /\ Step(l, IF Raised(r) THEN AbandonTick ELSE "run")
    /\ UNCHANGED <<record, list, recent, paused, worker, sub, faults, failures>>

\* _execute: unknown type or bad payload ("rejected"), a cost-cap hold, an
\* exception of run() or a result.
Run(l, o) ==
    /\ pc[l] = "run"
    /\ o \in {"completed", "held", "failed", "rejected"}
    /\ pc' = [pc EXCEPT ![l] = "settle"]
    /\ outcome' = [outcome EXCEPT ![l] = o]
    /\ failures' = IF o = "failed" THEN [failures EXCEPT ![job[l]] = @ + 1] ELSE failures
    /\ UNCHANGED <<record, index, paused, worker, job, seen, sub, errors, faults>>

\* Only an exception of run() is retried, and errors of mark_* are swallowed.
AfterMark(o) == IF o = "failed" THEN "retry" ELSE "poll"

\* mark_completed, mark_held, mark_failed: save the terminal record,
Settle(l, r) ==
    /\ pc[l] = "settle"
    /\ Redis(r)
    /\ LET final == IF outcome[l] = "rejected" THEN "failed" ELSE outcome[l]
       IN  state' = IF Executed(r) THEN [state EXCEPT ![job[l]] = final] ELSE state
    /\ Step(l, IF Raised(r) THEN AfterMark(outcome[l]) ELSE "unregister")
    /\ UNCHANGED <<retry_count, aged, index, paused, worker, sub, faults, failures>>

\* then SREM from the running set,
UnregisterUnlessHeld(l, r) ==
    /\ pc[l] = "unregister"
    /\ Redis(r)
    /\ running' = IF Executed(r) /\ outcome[l] # "held" THEN running \ {job[l]} ELSE running
    /\ Step(l, IF Raised(r) THEN AfterMark(outcome[l]) ELSE "recent")
    /\ UNCHANGED <<record, list, recent, paused, worker, sub, faults, failures>>
Unregister(l, r) ==
    /\ pc[l] = "unregister"
    /\ Redis(r)
    /\ running' = IF Executed(r) THEN running \ {job[l]} ELSE running
    /\ Step(l, IF Raised(r) THEN AfterMark(outcome[l]) ELSE "recent")
    /\ UNCHANGED <<record, list, recent, paused, worker, sub, faults, failures>>

\* then ZADD to the recent index.
AddRecent(l, r) ==
    /\ pc[l] = "recent"
    /\ Redis(r)
    /\ recent' = IF Executed(r) THEN recent \cup {job[l]} ELSE recent
    /\ Step(l, AfterMark(outcome[l]))
    /\ UNCHANGED <<record, list, running, paused, worker, sub, faults, failures>>

\* _handle_failure: a PENDING record under the same id while budget remains.
OneTooMany(l) == seen[l] + 1 <= MaxRetries
HasBudget(l) == seen[l] + 1 < MaxRetries

Retry(l, r) ==
    /\ pc[l] = "retry"
    /\ HasBudget(l)
    /\ Redis(r)
    /\ IF Executed(r)
       THEN /\ state' = [state EXCEPT ![job[l]] = "pending"]
            /\ retry_count' = [retry_count EXCEPT ![job[l]] = seen[l] + 1]
            /\ aged' = aged \ {job[l]}
       ELSE UNCHANGED record
    /\ Step(l, IF Raised(r) THEN "poll" ELSE "repush")
    /\ UNCHANGED <<index, paused, worker, sub, faults, failures>>

Exhausted(l) ==
    /\ pc[l] = "retry"
    /\ ~HasBudget(l)
    /\ Step(l, "poll")
    /\ UNCHANGED <<record, index, paused, worker, sub, errors, faults, failures>>

Repush(l, r) ==
    /\ pc[l] = "repush"
    /\ Redis(r)
    /\ IF Executed(r) THEN Lpush(job[l]) ELSE UNCHANGED list
    /\ Step(l, "poll")
    /\ UNCHANGED <<record, running, recent, paused, worker, sub, faults, failures>>

-----------------------------------------------------------------------------
(* Submitters.                                                             *)

Forget(s) ==
    /\ spc' = [spc EXCEPT ![s] = "idle"]
    /\ sjob' = [sjob EXCEPT ![s] = NoJob]
    /\ listed' = [listed EXCEPT ![s] = {}]
    /\ active' = [active EXCEPT ![s] = {}]

Begin(s, j, point) ==
    /\ phase # "down"
    /\ spc[s] = "idle"
    /\ state[j] = "new"
    /\ \A t \in Submitters : sjob[t] # j
    /\ spc' = [spc EXCEPT ![s] = point]
    /\ sjob' = [sjob EXCEPT ![s] = j]
    /\ UNCHANGED <<record, index, paused, worker, loop, listed, active, victim, errors, faults, failures>>

\* enqueue / enqueue_job: a one-shot request, no duplicate check.
Enqueue(s, j) == Begin(s, j, "save")

\* enqueue_if_absent / enqueue_job_if_absent: find_active_job_id first.
EnqueueIfAbsent(s, j) == Begin(s, j, "lists")

SameKind(S, j) == {i \in S : KindOf[i] = KindOf[j]}

\* find_active_job_id: LRANGE.  Any error of the scan counts as "no duplicate".
ReadLists(s, r) ==
    /\ spc[s] = "lists"
    /\ Redis(r)
    /\ spc' = [spc EXCEPT ![s] = IF Raised(r) THEN "save" ELSE "members"]
    /\ listed' = IF Raised(r) THEN listed
                 ELSE [listed EXCEPT ![s] = SameKind({j \in Jobs : InList(j)}, sjob[s])]
    /\ UNCHANGED <<record, index, paused, worker, loop, sjob, active, victim, faults, failures>>

\* find_active_job_id: SMEMBERS.
ReadRunning(s, r) ==
    /\ spc[s] = "members"
    /\ Redis(r)
    /\ spc' = [spc EXCEPT ![s] = IF Raised(r) THEN "save" ELSE "match"]
    /\ active' = IF Raised(r) THEN active
                 ELSE [active EXCEPT ![s] = SameKind(running, sjob[s])]
    /\ UNCHANGED <<record, index, paused, worker, loop, sjob, listed, victim, faults, failures>>

\* The scan raised: the submission goes ahead.
MatchRaised(s, r) ==
    /\ spc[s] = "match"
    /\ Raised(r) /\ Redis(r)
    /\ spc' = [spc EXCEPT ![s] = "save"]
    /\ UNCHANGED <<record, index, paused, worker, loop, sjob, listed, active, victim, faults, failures>>

\* A pending candidate whose record is gone is passed over.
SkipMissing(s, e) ==
    /\ spc[s] = "match"
    /\ e \in listed[s] /\ state[e] = "absent"
    /\ listed' = [listed EXCEPT ![s] = @ \ {e}]
    /\ UNCHANGED <<record, index, paused, worker, loop, spc, sjob, active, victim, errors, faults, failures>>

\* A stale pending candidate is pruned, then the scan goes on.
FindStale(s, e) ==
    /\ spc[s] = "match"
    /\ e \in listed[s] /\ state[e] # "absent" /\ e \in aged
    /\ spc' = [spc EXCEPT ![s] = "lrem"]
    /\ victim' = [victim EXCEPT ![s] = e]
    /\ UNCHANGED <<record, index, paused, worker, loop, sjob, listed, active, errors, faults, failures>>

\* A live duplicate: nothing is enqueued.
Collapse(s, e) ==
    /\ spc[s] = "match"
    /\ state[e] # "absent"
    /\ \/ e \in listed[s] /\ e \notin aged
       \/ listed[s] = {} /\ e \in active[s]
    /\ Forget(s)
    /\ UNCHANGED <<record, index, paused, worker, loop, victim, errors, faults, failures>>

\* No duplicate found.
NoMatch(s) ==
    /\ spc[s] = "match"
    /\ listed[s] = {} /\ \A e \in active[s] : state[e] = "absent"
    /\ spc' = [spc EXCEPT ![s] = "save"]
    /\ UNCHANGED <<record, index, paused, worker, loop, sjob, listed, active, victim, errors, faults, failures>>

\* _prune_stale_pending swallows its errors; the scan drops the candidate.
PruneStep(s, r, next) ==
    LET to == IF Raised(r) THEN "match" ELSE next
    IN  /\ spc' = [spc EXCEPT ![s] = to]
        /\ IF to = "match"
           THEN /\ listed' = [listed EXCEPT ![s] = @ \ {victim[s]}]
                /\ victim' = [victim EXCEPT ![s] = NoJob]
           ELSE UNCHANGED <<listed, victim>>

PruneRemove(s, r) ==
    /\ spc[s] = "lrem"
    /\ Redis(r)
    /\ list' = IF Executed(r)
               THEN [list EXCEPT ![PriorityOf[victim[s]]] = Lrem(@, victim[s])]
               ELSE list
    /\ PruneStep(s, r, "fail")
    /\ UNCHANGED <<record, running, recent, paused, worker, loop, sjob, active, faults, failures>>

PruneFail(s, r) ==
    /\ spc[s] = "fail"
    /\ Redis(r)
    /\ state' = IF Executed(r) THEN [state EXCEPT ![victim[s]] = "failed"] ELSE state
    /\ PruneStep(s, r, "surface")
    /\ UNCHANGED <<retry_count, aged, index, paused, worker, loop, sjob, active, faults, failures>>

PruneRecent(s, r) ==
    /\ spc[s] = "surface"
    /\ Redis(r)
    /\ recent' = IF Executed(r) THEN recent \cup {victim[s]} ELSE recent
    /\ PruneStep(s, r, "match")
    /\ UNCHANGED <<record, list, running, paused, worker, loop, sjob, active, faults, failures>>

\* enqueue: the PENDING hash, then the LPUSH.  An error reaches the caller.
Save(s, r) ==
    /\ spc[s] = "save"
    /\ Redis(r)
    /\ state' = IF Executed(r) THEN [state EXCEPT ![sjob[s]] = "pending"] ELSE state
    /\ IF Raised(r) THEN Forget(s)
       ELSE /\ spc' = [spc EXCEPT ![s] = "push"]
            /\ UNCHANGED <<sjob, listed, active>>
    /\ UNCHANGED <<retry_count, aged, index, paused, worker, loop, victim, faults, failures>>

Push(s, r) ==
    /\ spc[s] = "push"
    /\ Redis(r)
    /\ IF Executed(r) THEN Lpush(sjob[s]) ELSE UNCHANGED list
    /\ Forget(s)
    /\ UNCHANGED <<record, running, recent, paused, worker, loop, victim, faults, failures>>

-----------------------------------------------------------------------------
(* Start, recovery, stop and death of the server.                          *)

\* start(): only when no loop is alive; recover_orphaned_running: SMEMBERS.  The
\* new process has none of the old one's submitters.
Start(r) ==
    /\ phase = "down"
    /\ \A s \in Submitters : spc[s] = "idle"
    /\ Redis(r)
    /\ phase' = IF Raised(r) THEN "up" ELSE "recover"
    /\ todo' = IF Raised(r) THEN {} ELSE running
    /\ UNCHANGED <<record, index, paused, orphan, loop, sub, faults, failures>>

\* start() swallows an error of the recovery and spawns the loops all the same.
Recovering(r, next, left) ==
    /\ phase' = IF Raised(r) THEN "up" ELSE next
    /\ todo' = IF Raised(r) THEN {} ELSE left
    /\ orphan' = IF Raised(r) \/ next = "recover" THEN NoJob ELSE orphan

UnfinishedOrPending(j) == state[j] \in {"running", "pending"}
AnyRecord(j) == state[j] # "absent"
NeverInterrupted(j) == FALSE
WasInterrupted(j) == state[j] = "running"

\* A job still RUNNING goes back to PENDING; any other is only unregistered.
Requeue(j, r) ==
    /\ phase = "recover" /\ j \in todo
    /\ Redis(r)
    /\ state' = IF WasInterrupted(j) /\ Executed(r)
                THEN [state EXCEPT ![j] = "pending"] ELSE state
    /\ phase' = IF Raised(r) THEN "up"
                ELSE IF WasInterrupted(j) THEN "repush" ELSE "srem"
    /\ todo' = IF Raised(r) THEN {} ELSE todo
    /\ orphan' = IF Raised(r) THEN NoJob ELSE j
    /\ UNCHANGED <<retry_count, aged, index, paused, loop, sub, faults, failures>>

RequeuePush(r) ==
    /\ phase = "repush"
    /\ Redis(r)
    /\ IF Executed(r) THEN Lpush(orphan) ELSE UNCHANGED list
    /\ Recovering(r, "srem", todo)
    /\ UNCHANGED <<record, running, recent, paused, loop, sub, faults, failures>>

RequeueDone(r) ==
    /\ phase = "srem"
    /\ Redis(r)
    /\ running' = IF Executed(r) THEN running \ {orphan} ELSE running
    /\ Recovering(r, "recover", todo \ {orphan})
    /\ UNCHANGED <<record, list, recent, paused, loop, sub, faults, failures>>

\* start(): the loops are spawned.
Spawn ==
    /\ phase = "recover" /\ todo = {}
    /\ phase' = "up"
    /\ UNCHANGED <<record, index, paused, todo, orphan, loop, sub, errors, faults, failures>>

\* stop(): the flag is set; a loop sees it when it comes back to "poll".
Stop ==
    /\ phase = "up"
    /\ stops < MaxStops
    /\ phase' = "stopping"
    /\ stops' = stops + 1
    /\ UNCHANGED <<record, index, paused, todo, orphan, loop, sub, errors, crashes, failures>>

\* stop(): every loop returned within _STOP_TIMEOUT_S.  Submitters in flight
\* go on: the scheduler is stopped after the worker.
Stopped ==
    /\ phase = "stopping"
    /\ \A l \in Loops : pc[l] = "poll"
    /\ phase' = "down"
    /\ UNCHANGED <<record, index, paused, todo, orphan, loop, sub, errors, faults, failures>>

\* The process dies, or stop() cancels loops that outlast the timeout.
Crash ==
    /\ phase # "down" \/ \E s \in Submitters : spc[s] # "idle"
    /\ crashes < MaxCrashes
    /\ crashes' = crashes + 1
    /\ phase' = "down" /\ todo' = {} /\ orphan' = NoJob
    /\ pc' = [l \in Loops |-> "poll"]
    /\ job' = [l \in Loops |-> NoJob]
    /\ seen' = [l \in Loops |-> 0]
    /\ outcome' = [l \in Loops |-> "none"]
    /\ spc' = [s \in Submitters |-> "idle"]
    /\ sjob' = [s \in Submitters |-> NoJob]
    /\ listed' = [s \in Submitters |-> {}]
    /\ active' = [s \in Submitters |-> {}]
    /\ victim' = [s \in Submitters |-> NoJob]
    /\ UNCHANGED <<record, index, paused, errors, stops, failures>>

-----------------------------------------------------------------------------
(* The user and the clock.                                                 *)

Pause == /\ ~paused /\ paused' = TRUE
         /\ UNCHANGED <<record, index, worker, loop, sub, errors, faults, failures>>

Resume == /\ paused /\ paused' = FALSE
          /\ UNCHANGED <<record, index, worker, loop, sub, errors, faults, failures>>

Age(j) ==
    /\ j \in Slow \ aged /\ state[j] # "new"
    /\ aged' = aged \cup {j}
    /\ UNCHANGED <<state, retry_count, index, paused, worker, loop, sub, errors, faults, failures>>

\* JOB_RECORD_TTL_S without a save: not while some process is handling the id.
Expire(j) ==
    /\ j \in Expirable /\ state[j] \notin {"new", "absent"}
    /\ \A l \in Loops : job[l] # j
    /\ \A s \in Submitters : sjob[s] # j /\ j \notin listed[s]
    /\ orphan # j
    /\ state' = [state EXCEPT ![j] = "absent"]
    /\ UNCHANGED <<retry_count, aged, index, paused, worker, loop, sub, errors, faults, failures>>

\* list_recent drops an index entry whose hash has expired.
ListRecent(j) ==
    /\ j \in recent /\ state[j] = "absent"
    /\ recent' = recent \ {j}
    /\ UNCHANGED <<record, list, running, paused, worker, loop, sub, errors, faults, failures>>

LoopStep(l) ==
    \/ \E r \in Reply :
          \/ Poll(l, r) \/ Pop(l, r) \/ Load(l, r) \/ MarkRunning(l, r) \/ Register(l, r)
          \/ Settle(l, r) \/ Unregister(l, r) \/ AddRecent(l, r)
          \/ Retry(l, r) \/ Repush(l, r)
    \/ \E o \in {"completed", "held", "failed", "rejected"} : Run(l, o)
    \/ Exhausted(l)

SubmitterStep(s) ==
    \/ \E r \in Reply :
          \/ ReadLists(s, r) \/ ReadRunning(s, r) \/ MatchRaised(s, r)
          \/ PruneRemove(s, r) \/ PruneFail(s, r) \/ PruneRecent(s, r)
          \/ Save(s, r) \/ Push(s, r)
    \/ \E e \in Jobs : SkipMissing(s, e) \/ FindStale(s, e) \/ Collapse(s, e)
    \/ NoMatch(s)

StarterStep ==
    \/ \E r \in Reply : Start(r) \/ RequeuePush(r) \/ RequeueDone(r)
    \/ \E r \in Reply, j \in Jobs : Requeue(j, r)
    \/ Spawn

Next ==
    \/ \E l \in Loops : LoopStep(l)
    \/ \E s \in Submitters : SubmitterStep(s)
    \/ \E s \in Submitters, j \in Jobs : Enqueue(s, j) \/ EnqueueIfAbsent(s, j)
    \/ StarterStep
    \/ Stop \/ Stopped \/ Crash
    \/ Pause \/ Resume
    \/ \E j \in Jobs : Age(j) \/ Expire(j) \/ ListRecent(j)

Spec == Init /\ [][Next]_vars

\* asyncio runs every ready task and a job body returns: each loop, submitter
\* and the start-up get their turn.  Nobody owes the system a Resume.
FairSpec ==
    /\ Spec
    /\ \A l \in Loops : WF_vars(LoopStep(l))
    /\ \A s \in Submitters : WF_vars(SubmitterStep(s))
    /\ WF_vars(StarterStep)
    /\ WF_vars(Stopped)
=============================================================================
