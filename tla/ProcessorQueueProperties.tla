---------------------- MODULE ProcessorQueueProperties ----------------------
(***************************************************************************)
(* What the background processor promises, and what its comments and       *)
(* documents promise in its name.                                          *)
(***************************************************************************)
EXTENDS ProcessorQueue

RecordTypes ==
    /\ state \in [Jobs -> {"new", "absent", "pending", "running"} \cup Terminal]
    /\ retry_count \in [Jobs -> 0..(MaxRetries - 1)]
    /\ aged \subseteq Jobs
    /\ failures \in [Jobs -> Nat]

IndexTypes ==
    /\ list \in [Priorities -> Seq(Jobs)]
    /\ running \subseteq Jobs /\ recent \subseteq Jobs
    /\ paused \in BOOLEAN

WorkerTypes ==
    /\ phase \in {"down", "recover", "repush", "srem", "up", "stopping"}
    /\ todo \subseteq Jobs
    /\ orphan \in Jobs \cup {NoJob}
    /\ orphan \in Jobs <=> phase \in {"repush", "srem"}

LoopTypes ==
    /\ pc \in [Loops -> LoopPoints]
    /\ job \in [Loops -> Jobs \cup {NoJob}]
    /\ seen \in [Loops -> 0..(MaxRetries - 1)]
    /\ outcome \in [Loops -> {"none", "completed", "held", "failed", "rejected"}]
    /\ \A l \in Loops :
          /\ job[l] \in Jobs <=> pc[l] \in Holding
          /\ pc[l] \in {"settle", "unregister", "recent", "retry"} => outcome[l] # "none"
          /\ pc[l] \in {"retry", "repush"} => outcome[l] = "failed"

SubmitterTypes ==
    /\ spc \in [Submitters -> {"idle", "lists", "members", "match", "lrem", "fail",
                               "surface", "save", "push"}]
    /\ sjob \in [Submitters -> Jobs \cup {NoJob}]
    /\ listed \in [Submitters -> SUBSET Jobs]
    /\ active \in [Submitters -> SUBSET Jobs]
    /\ victim \in [Submitters -> Jobs \cup {NoJob}]
    /\ \A s \in Submitters :
          /\ sjob[s] \in Jobs <=> spc[s] # "idle"
          /\ victim[s] \in Jobs <=> spc[s] \in {"lrem", "fail", "surface"}

CounterTypes == errors \in Nat /\ crashes \in Nat /\ stops \in Nat

\* Every variable has its type, a record never carries a retry_count the retry
\* budget does not allow, and a process holds a job exactly where it needs one.
TypeOK ==
    RecordTypes /\ IndexTypes /\ WorkerTypes /\ LoopTypes /\ SubmitterTypes /\ CounterTypes

-----------------------------------------------------------------------------
(* One owner per job.                                                      *)

HeldBy(j)     == {l \in Loops : pc[l] \in Holding /\ job[l] = j}
PushedBy(j)   == {s \in Submitters : spc[s] \in {"save", "push"} /\ sjob[s] = j}
Recovered(j)  == phase = "repush" /\ orphan = j

\* A job id is in one place at a time: once in one list, in the hands of one
\* worker loop, or about to be pushed by one submitter or by the recovery.
\* So no job ever runs twice at the same time, whatever commands fail,
\* whenever the server dies and whatever is pruned meanwhile
\* (dequeue, _handle_failure, recover_orphaned_running, _prune_stale_pending).
AtMostOnePlace ==
    /\ \A p, q \in Priorities : \A i \in 1..Len(list[p]), k \in 1..Len(list[q]) :
          list[p][i] = list[q][k] => p = q /\ i = k
    /\ \A j \in Jobs :
          /\ InList(j) => HeldBy(j) = {} /\ PushedBy(j) = {} /\ ~Recovered(j)
          /\ \A l, m \in HeldBy(j) : l = m
          /\ HeldBy(j) # {} => PushedBy(j) = {} /\ ~Recovered(j)
          /\ \A s, t \in PushedBy(j) : s = t
          /\ PushedBy(j) # {} => ~Recovered(j)

\* A job that ended COMPLETED or HELD is never queued or run again: the
\* recovery after a crash between saving the record and the SREM must not
\* requeue it (recover_orphaned_running, mark_completed, mark_held).
FinishedStaysOut ==
    \A j \in Jobs : state[j] \in {"completed", "held"} =>
        /\ ~InList(j) /\ ~Recovered(j)
        /\ \A l \in HeldBy(j) : pc[l] \in {"unregister", "recent"}

\* The run of a job raises at most MaxRetries times, plus once for every death
\* of the server and every command that raised: a death after run() raised and
\* before the retry record is saved gives the attempt back, and so does a
\* mark_failed that was refused (_handle_failure, recover_orphaned_running).
FailedRunsWithinBudget ==
    \A j \in Jobs : failures[j] <= MaxRetries + crashes + errors

\* While the loops are up and no command has raised, the running set holds
\* nothing but jobs some loop is executing or settling: a ghost would absorb
\* every duplicate submission (find_active_job_id exempts the running set from
\* its staleness check) until the next start.
NoGhosts ==
    errors = 0 /\ Serving =>
        \A j \in running : \E l \in HeldBy(j) : pc[l] \in {"run", "settle", "unregister"}

\* While a job's body runs, a death of the server leaves it registered, so the
\* next start finds it: it is in the running set, and its hash says RUNNING
\* unless it once was stale and a submitter's prune has come late.
RunningIsRegistered ==
    \A l \in Loops : pc[l] = "run" =>
        /\ job[l] \in running
        /\ state[job[l]] \in {"running", "failed"}
        /\ state[job[l]] = "failed" => job[l] \in Slow

\* Without deaths and errors a job that has neither ended nor expired is
\* always somewhere: queued, held by a loop, or in the hands of a submitter.
Somewhere(j) == \/ InList(j) \/ HeldBy(j) # {} \/ PushedBy(j) # {}
                \/ \E s \in Submitters : victim[s] = j
NothingLost ==
    errors = 0 /\ crashes = 0 =>
        \A j \in Jobs : state[j] \in {"pending", "running"} => Somewhere(j)

-----------------------------------------------------------------------------
(* What the queue implements.                                              *)

PlaceOf(j) ==
    CASE InList(j) -> "waiting"
      [] HeldBy(j) # {} -> "owned"
      [] ~InList(j) /\ HeldBy(j) = {} ->
            IF state[j] = "new" THEN "new"
            ELSE IF state[j] \in Terminal \cup {"absent"} /\ ~Recovered(j) THEN "ended"
            ELSE "adrift"

Pool == INSTANCE JobPool WITH Workers <- Loops,
                              place   <- [j \in Jobs |-> PlaceOf(j)],
                              holders <- [j \in Jobs |-> HeldBy(j)]

\* The lists, hashes and sets of the queue, at the grain of one Redis command,
\* implement the job pool: only a job in line is claimed, by one loop at a time,
\* and one that has ended (its record terminal or expired, in no list and in no
\* hand) is never taken up again, by no retry, prune, recovery or late command.
ImplementsJobPool == Pool!Spec

-----------------------------------------------------------------------------
(* Liveness.                                                               *)

\* Once the user leaves the queue resumed, every job that was enqueued ends: completed,
\* held, or failed with its retries used up, or its record expires; stops and
\* restarts only delay it, a death of the server may lose it.
EveryJobSettles ==
    \A j \in Jobs :
        <>[]~paused =>
            (state[j] = "pending" ~> state[j] \in Terminal \cup {"absent"} \/ crashes > 0)

\* Once the user leaves the queue paused, in-flight jobs finish and then no
\* loop touches a job again: pending jobs hold in the queue (pause, dequeue).
PauseQuiesces ==
    <>[]paused => <>[](\A l \in Loops : pc[l] = "poll")

\* A job whose body was running when the server died is queued again by the
\* next start (recover_orphaned_running).
InterruptedRunIsRepeated ==
    \A j \in Jobs :
        (phase = "down" /\ j \in running /\ state[j] = "running") ~> InList(j)

=============================================================================
