# Cerid AI: TLA+ models, checks and proofs

Cerid AI is a self-hosted personal knowledge base: a FastAPI/MCP server
(`src/src/mcp`), a web client (`src/src/web`), client SDKs and an inference
server (`src/stacks`).  The server keeps its data in ChromaDB (vectors), Neo4j
(graph), Redis (queues, caches, flags), SQLite (inbox ledger) and plain files in
a folder that a file-synchronisation service copies between the user's machines.
`core/` holds logic without I/O of its own and never imports `app/`.

Paths below are relative to `src/src/mcp`.

## 1. Inventory

| Component | State | Operations | Hard behaviours | What makes it correct |
|---|---|---|---|---|
| **Background processor** (`app/db/redis/processor_queue.py`, `app/processor/worker.py`) | Redis: one hash per job, one list per priority, running set, recent index, paused flag; in the process: loops, stop flag | enqueue (with and without duplicate collapse), dequeue, mark_running/completed/held/failed, retry, prune, recovery at start, stop, pause, resume, list_recent | every operation is a sequence of Redis commands; several loops, schedulers and request handlers interleave; commands raise with or without effect; the server dies between two commands; records expire | a job has one owner, a finished job stays finished, retries are bounded, an interrupted job is repeated, nothing is lost, every job ends |
| **Forget registry** (`core/forget/registry.py`) | one append-only file per machine in the synchronised folder; in each process an index and the files it was read from; a local snapshot | append, refresh, record_readd, queries | clocks of several machines, delayed files, unreachable folder, unreadable files, restarts, overlapping forgets of one subject | purged stays purged, no forget lapses unless entries were lost in one of the ways section 3.2 names, a re-add brings back, machines converge |
| **Forget engine** (`app/services/forget/engine.py`, `adapters.py`, `app/sync/tombstones.py`, `content_lifecycle.remove_content`, the maintenance job of `app/scheduler.py`) | receipts of started purges, `forget_applied.jsonl`, the tombstone log, what each store hides or has erased | trash, forget_permanently, restore, purge, empty_trash, retry_started_purges, apply_remote, migrate_tombstones_to_registry, the ingest gate | request threads and the job interleave; store calls fail with or without effect; the process dies between two steps; restore races purge; another machine decides otherwise | only what was asked for is erased, what is recorded as purged is gone, a started purge finishes, machines follow one another |
| **Idempotency middleware** (`app/middleware/idempotency.py`) | a sentinel or a result per (client, path, key) in Redis, each with a TTL | idempotent: claim, replay, 409, store, release | racing deliveries and retries, work that outlasts the sentinel, Redis errors with or without effect, a winner that dies | one run at a time, one answer for all deliveries, every further run explained by a tolerated event, nobody is locked out |
| **Circuit breaker** (`core/utils/circuit_breaker.py`) | stored state, failure count, time of the last failure | call, call_sync, record_success, record_failure, reset | calls that are answered in another state than they were admitted in; HALF_OPEN is derived and never stored; the count is not reset by a probe | stays shut for a whole timeout, trips for a dead service, keeps probing, closes for a healthy one |
| **Inbox ledger and executor** (`app/inbox`, `core/agents/inbox_apply.py`) | decisions, outbox, accounts, cursors in SQLite; the user's mailbox | propose, apply, undo, skip, automatic pass, queue, flush | a command takes up to 30 s, during which triage, requests and other passes go on; Mail opens and closes; replay repeats commands; a death between a command and its record | the ledger knows what moved a message, no decision is carried out twice, what is queued gets settled |
| **Ingestion and its recovery** (`app/services/ingestion.py`, `ingest_recovery.py`, `app/db/neo4j/artifacts.py`) | rows in Chroma (pending or committed, open or closed), a node per artifact in Neo4j, the dead-letter list in Redis | ingest_content, re-ingest of a changed file, rollback, the recovery job | three writes to two stores, each of which fails with or without effect; deaths in between; concurrent ingests; versions that drop and bring back passages | what retrieval shows is what the graph lists, what was answered is kept for as long as the dead-letter list has room, nothing stays pending |
| **Content lifecycle and folder scanner** (`content_lifecycle.py`, `folder_scanner.py`) | artifacts across four stores, scan state | replace, archive, remove, scan | one store failing of several | stores agree |
| **Model policy and spend** (`app/processor/model_policy.py`, `core/processor/mode.py`, `app/processor/metrics.py`) | spend of the month | resolve_job_model, record_completion | spend read before and written after a run | the cap holds |
| **Scheduler, hooks, job bodies** (`app/scheduler.py`, `app/processor/event_hooks.py`, `core/processor`) | cron table | enqueue, run | - | in the queue model they are submitters and outcomes |
| **Sync** (`app/sync`) | manifests, exported files, tombstones | export, import, merge, tombstone | delayed and conflicting files | merge is order-independent, deletions win |
| Lineage, retrieval and caches, agents, routing, private mode, limits, MCP clients, routers, web, SDKs, MLX server | small or external | - | mostly I/O, numeric scoring or formatting | not planned, see section 8 |

Interactions: routers, MCP tools, subscribers and the scheduler submit jobs to
the queue; job bodies call ingestion, the forget engine, agents and sync; agents
call models, and the graph driver calls Neo4j, through circuit breakers; write
routes run under the idempotency middleware; ingestion asks the forget registry
before it writes, and its recovery is a job of the processor; every read path
filters through the forget registry; sync and the forget registry share the
synchronised folder; the triage job proposes to the inbox ledger and applies what
accounts let it apply, while the review queue's requests use the same ledger.

## 2. Plan

| Order | Modules | Content |
|---|---|---|
| 1 (done) | `ProcessorQueue`, `ProcessorQueueProperties`, `MCProcessorQueue`, `ProcessorQueueProofs` | the job queue and its worker, at the grain of one Redis command |
| 2 (done) | `ForgetIndex`, `ForgetRegistry` with properties, MC module and two proof modules | how entries decide what is forgotten, and the files, snapshot, faults and clocks under it |
| 3 (done) | `ForgetEngine` with properties, MC module and a proof module | trash, restore, purge, re-ingest and the maintenance job over the registry's index |
| 4 (done) | `JobPool` | the abstract promise of the queue (a job is new, waiting, owned, adrift, ended), which `ProcessorQueue` implements under a refinement mapping |
| 5 (done) | `Idempotency`, `CircuitBreaker` with properties and MC modules | racing deliveries under one key, answers that come late |
| 6 (done) | `Ingestion` with properties and MC module | two stores, versions, and the recovery job |
| 7 (done) | `Inbox` with properties and MC module | decisions, outbox, replay, undo, the automatic pass |
| 8 (done) | `CircuitBreakerProofs`, `IdempotencyProofs` | every safety property of the two, for any number of callers and deliveries |
| 9 (done) | `ProcessorQueueProofs` | the running set, what is lost, and the step simulation of `JobPool`, all from `Ownership` |
| 10 (done) | `IngestionProofs` | types, who writes to which artifact, what is kept, and that the stores agree |
| 11 (done) | `InboxProofs` | types, one attempt per decision, and what the ledger knows of moves |
| 12 | `Forgetting`, `ModelPolicy` (spend), `ContentLifecycle` | the abstract specification of a subject (visible, hidden, erased) and the adapters of chunks, memories and conversations; the monthly cap; replace and archive across four stores |

A run that shows a divergence gives way to a run of a new module when there are
too many to check in one go; section 7 then keeps the description of the trace.
Eight such runs have given way to those of steps 5 to 7, or to a run that checks more
(`prune_overwrites_result`, `redis_disconnect`, `registry_bare_mount_point`,
`started_not_retried`, `orphaned_rows`, `forget_lapses`, `list_collapses`,
`deadletter_trimmed`).

The modules of a component depend on one another like this:

    ForgetIndex <- ForgetRegistry <- ForgetRegistryProperties <- MCForgetRegistry
         ^                                     ^---------------- ForgetRegistryProofs -> ForgetIndexProofs
         +--------- ForgetEngine <- ForgetEngineProperties <- MCForgetEngine
                                               ^---------------- ForgetEngineProofs   -> ForgetIndexProofs
    ProcessorQueue <- ProcessorQueueProperties <- MCProcessorQueue
                        |  JobPool (INSTANCE)
                                               ^- ProcessorQueueProofs
    Idempotency    <- IdempotencyProperties    <- MCIdempotency
                                               ^- IdempotencyProofs
    CircuitBreaker <- CircuitBreakerProperties <- MCCircuitBreaker
                                               ^- CircuitBreakerProofs
    Ingestion      <- IngestionProperties      <- MCIngestion
                                               ^- IngestionProofs
    Inbox          <- InboxProperties          <- MCInbox
                                               ^- InboxProofs

## 3. The models

### 3.1 The background processor

`ProcessorQueue.tla` takes one Redis command of one process as its atomic step.
Three kinds of process interleave:

* a **worker loop** (`pc`, `job`, `seen`, `outcome`) goes through
  `Poll` (the paused flag) - `Pop` (RPOP, once per priority) - `Load` -
  `MarkRunning` - `Register` (SADD) - `Run` - `Settle` - `Unregister` (SREM) -
  `AddRecent` (ZADD), and after a failed run `Retry` - `Repush` or `Exhausted`;
* a **submitter** (`spc`, `sjob`, `listed`, `active`, `victim`) either saves and
  pushes (`Enqueue`) or first scans for a duplicate (`EnqueueIfAbsent`):
  `ReadLists`, `ReadRunning`, then for each candidate `SkipMissing`, `FindStale`
  with the three commands of the prune, or `Collapse`; `NoMatch` or an error of
  the scan leads to `Save` and `Push`;
* the **starter** (`phase`, `todo`, `orphan`) is `ProcessorWorker.start` with
  `recover_orphaned_running`, followed by `Stop` and `Stopped`.

Each command takes a reply: `ok`, `lost` (executed, but the caller sees an
exception) or `refused` (not executed).  Each process reacts the way the code at
that point does: the loop's catch-all abandons the tick, `mark_*` errors are
swallowed, the scan fails open, the prune swallows, `start` swallows.  `Crash` is
the death of the process or the cancellation of loops that outlast
`_STOP_TIMEOUT_S`.

State to code:

| Variable | Code |
|---|---|
| `state`, `retry_count`, `aged` | `cerid:proc:job:<id>`: fields `state`, `retry_count`; `aged` holds the ids whose `enqueued_at` is past `PROCESSOR_PENDING_STALE_TTL_S` |
| `list` | `cerid:proc:queue:<priority>`, oldest first: LPUSH appends, RPOP takes the head |
| `running`, `recent`, `paused` | the sets and the flag of the same names |
| `phase`, `todo`, `orphan` | progress of `start`, `stop` and `recover_orphaned_running` |
| `failures` | history only: runs that raised |

Abstractions, each chosen so that no property can tell the difference:

* HSET and the EXPIRE after it are one step.  The load and the save of a
  `mark_*`, and of an entry of the recovery, are one step: the only other writer
  of that record is a late prune, whose HSET then falls before or after the pair.
* A job id has one priority, and jobs of the same kind the same priority, as in
  the code, where both come from the job class.  `KindOf` stands for the
  comparison of `job_type` and payload (or the `dedupe_payload` subset).
* The order in which the scan walks its candidates is left open (pending before
  running, as in the code).
* A record does not expire while some process has its id in hand (the TTL is 14
  days and every save renews it).  Retention trims of the recent index remove
  only entries that no property mentions.
* Progress ticks, metrics, logging and corrupt records are left out.  A loop that
  finds the load too high or the mode `disabled` does nothing and polls again; this
  is a stuttering step.
* Submitters may act during the recovery and after the worker has stopped,
  because `app/main.py` starts the scheduler before the worker and stops it after
  it.  They end with the process (`Start` waits for them to be idle; a death
  resets them).

### 3.2 The forget registry

`ForgetIndex.tla` is the pure part: an entry is a record of forget, subject,
state and stamp, and the operators say which entry decides a subject
(`_wins`, `_index`).  The index the code builds by scanning in sorted order is a
function of the *set* of entries, because `_wins` is total on the entries of one
forget about one subject; so no recursion is needed, and the order in which
files are read does not appear.

`ForgetRegistry.tla` adds the files and the process:

| Variable | Code |
|---|---|
| `copy[m][n]` | `{SYNC_DIR}/forget/registry-<n>.jsonl` as machine `m`'s folder has it; `Deliver` replaces it by `n`'s own |
| `mounted`, `stray` | whether `SYNC_DIR` is there, and what `append` wrote to the bare directory it created in its place |
| `snapshot` | the local copy of all entries, written after a complete load |
| `proc` | `_loaded`, `_all`, `_per_file` and `_signature` of the process-wide `Registry` |
| `served` | history: the entries the last answer of a machine was based on |
| `lost` | history: the machines that may have let go of entries they knew |

One action is one public call, which is atomic because `Registry` holds its lock
for it: `Look` stands for every query (each refreshes and answers from the
index), `Trash`, `Restore`, `Purge` and `RecordReadd` for a query followed by an
`append`.  `Refreshes` gives the outcomes of a refresh: files that vanish between
the listing and the stat, files that cannot be read, each at the cost of a fault.
The folder may be unmounted, the process may restart.

`lost` names the three ways in which this code lets go of entries: a load for which a
file was skipped because it was gone between the listing and the stat, a load that
took a file on the bare mount point for the whole registry, and a restart when the
process knew more than the snapshot holds, which a load with an unread file leaves
alone.  A machine is in `lost` from then on until a load reads every file.

Abstractions: a file is the set of its entries (the scan keeps the strongest
entry, so neither their order nor a repetition matters); a torn last line, which
the parser skips, and a snapshot that cannot be read or written are left out; the
machine id is unique, and one process per machine writes its file; `record_readd`
cancels every live forget, its restriction to the forgets of one requester is left
out; stamps come from `Stamp`, one clock per machine, and no two appends share a
stamp.

### 3.3 The forget engine

`ForgetEngine.tla` builds on `ForgetIndex` and takes for granted what
`ForgetRegistry` is about: here the registry answers from every entry its folder
holds.  Its steps are the store calls and registry writes between which other
threads of the same process, or a death, can come:

| Variable | Code |
|---|---|
| `copy`, `receipts` | the registry files and `{SYNC_DIR}/forget/receipts` as each machine's folder has them |
| `applied` | `forget_applied.jsonl`, the local list of (forget, subject, state) already applied |
| `log` | the tombstone log of `app/sync/tombstones.py` |
| `present`, `archived`, `rows` | the artifact's node, the forget its `archived` mark names, its searchable chunks |
| `thread[l]` | where the request thread or job `l` is, for which forget and subject, and what it will record |
| `asked`, `written` | history: forgets a person asked to purge; artifacts an ingest wrote again |

| Actions | Code |
|---|---|
| `Trash`, `Restore`, `Purge`, `Ingest` | the begin of a request, up to its first store call |
| `Hide`, `Unhide`, `Erase`, `RemoveRest` | the calls of the artifact adapter and of `remove_content`: node, tombstone, own registry entry, fan-out, lineage |
| `Receipt`, `Record`, `Mark` | the receipt before, the registry entry and the applied mark after the calls |
| `Migrate`, `List`, `ApplyOne`, `ListStarted`, `RetryOne`, `Finish` | `_forget_maintenance`: migrate_tombstones_to_registry, apply_remote, retry_started_purges, in this order |
| `Write` | the ingest past the gate |
| `Deliver`, `DeliverReceipts`, `Crash` | folder and process |

`Asks[k]` says which request may come k-th, and on which machine; the requests then
interleave freely.  A call either succeeds, raises without effect or raises after its effect
(`Outcomes`); failures the code swallows (the tombstone's own registry entry, the
fan-out to the chunks) are choices of `RemoveRest`.

Abstractions: a forget names one subject, as on the delete routes; artifacts only
(the other adapters have the same shape and wait for step 12 of the plan); lineage
is a call that may raise; `empty_trash` is a series of `Purge`, its retention
window and the exported tombstone file are left out; a run of the job that finds
nothing to do is left out; an ingest with mode `skip` changes nothing and is left
out; hiding and showing are one step each, because the check of the mark and the
mark itself are one statement and what follows it only fails or not.

### 3.4 The job pool

`JobPool.tla` is what a user of the processor may rely on: a job is claimed by one
worker at a time and only while it waits, and a job that has ended is never taken
up again.  It does not promise that a job survives a failure: it may be adrift.
`ProcessorQueueProperties` maps the queue to it: `PlaceOf` says *waiting* for an id
in a list, *owned* for one a loop holds, *ended* for a terminal or expired record
that neither list nor loop has, *new* before the submission, and *adrift* otherwise
(a record saved and not yet pushed, an interrupted job before its recovery, a job an
error left in no list).  Each Redis command is then a step of the pool or none.

### 3.5 The idempotency middleware

`Idempotency.tla` is `idempotent()` under one cache key.  Redis is called
synchronously, so deliveries interleave only where the work runs; `OwnTurn` says so.

| Variable | Code |
|---|---|
| `key`, `value` | what the key holds: nothing, the sentinel, or the result of a run |
| `setter` | history: the delivery whose sentinel it is |
| `pc`, `got` | where each delivery is, and the run whose result it has |
| `runs`, `outlived`, `missed`, `unstored` | history: successful runs, and the events the middleware tolerates |

`Claim`, `Replay`, `ClaimRaised`, `LookupRaised` and `LookupMissed` are the ways
through the head of the function, `Succeed`, `Fail`, `Store`, `StoreImpossible` and
`Release` the rest.  A 409 changes nothing and is a stuttering step.  A command has
the replies of section 3.1.  Sentinels expire under slow deliveries only, results
only once no delivery is in flight (24 hours).  Left out: requests without a key or
without Redis, which run the work and touch nothing of this.

### 3.6 The circuit breaker

`CircuitBreaker.tla` keeps `state`, `failure_count` (as far as it is compared) and
the `age` of the last counted failure.  A call is admitted (`Call`) and answered
later (`Succeed`, `Fail`, `NotCounted`); gated tasks, gated threads and streams,
which only record, share the breaker.  The asyncio lock is held over no `await`, so
success and failure are single steps.  The races of `call_sync` between threads are
left out, because nothing in the repository calls it from two; so is the table of
named breakers, which share nothing.

### 3.7 Ingestion and its recovery

`Ingestion.tla` takes one call to a store as its step.

| Variable | Code |
|---|---|
| `nodes` | the artifact's node: `content_hash`, `filename`, `source_path`, `chunk_ids` |
| `rows` | Chroma's rows: `cerid_state`, whether the version is closed, recovery attempts, file name |
| `dead` | the dead-letter list, oldest first, cut to its newest `DeadletterMax` entries (`_DEADLETTER_MAX`, 1000) after each push |
| `thread`, `job` | where each request and the recovery job are |
| `answered`, `buried` | history: rows of ingests answered with success; rows that were pushed to the dead-letter list |
| `excused` | history: events after which the stores may disagree |

A request goes through `CheckDuplicate` (and `NotePath`), `Find` by path and by name,
then either `ReadCurrent` - `Upsert` - `CloseRows` - `Stage` - `Update` - `Flip` -
`SetProperties` for a changed file or `Write` - `StageNew` - `Create` (or `Rollback`) -
`SetPath` - `FlipNew` for a new one; the job through `Scan`, and for each artifact
`Take` - `Count` - `ReadGraph` - `WriteArtifact` - `FlipRecovered`, or one `Bury` per
row (push and trim) and then `Purge`.  A re-ingest keeps the rows it has read as they
were (`cur`), and `CloseRows` writes them back, state and attempts included, with the
closed flag set.  Each step reacts to a call that raises as the code there does (swallow, go on
with the next search, leave the rows pending, answer an error).

`excused` names what the code does not defend against: *overlapped* (two writers at
one artifact, file or content; there is no lock), *unstaged* (a request that stops
between upserting and staging), *backlog* (a version written over rows still pending
from another one), *revived* (a first version written over a node that has moved
on), *reverted* (`CloseRows` writing an older state over a row that has another by
then), *collided* (two recovered nodes with the empty hash), *forwarded* (the recovery
repairing a node's list) and *unburied* (a failed dead-letter push).  The properties
make exceptions for some of them; section 7 says what happens then.

Abstractions: a content is a set of passages, chunk ids are (artifact, passage), as
the code hashes them; a request is not older than the 60 s after which the scan takes
a row; of several nodes that match a search any may be the first.  Left out: external
ids, force_reindex and prior hashes, lexical indexes, HyPE rows and caches (follow-ups
whose errors are swallowed), retirement of old versions, attachments; the forget gate
belongs to section 3.3.

### 3.8 The inbox

All of `app/inbox` runs on one event loop and yields only while `ceridmail` carries
out a command, so a step of `Inbox.tla` goes from the answer of a command to the next
command.

| Variable | Code |
|---|---|
| `rows`, `outbox` | the tables `decisions` and `outbox` |
| `task` | what a request or the triage job is doing: the decisions of its pass, the one at hand, the listed rows of the outbox and those that have become stale, the commands to go, the answer of the last |
| `running` | whether Mail is open |
| `last`, `carried`, `again` | history: who moved a message last; decisions carried out once, and again |
| `excused` | history: decisions that were queued, under way when the server died, or held by two tasks |
| `unsure` | history: decisions of which a command took effect but was not answered, so that they are recorded as failed |

`RecordAndApply`, `Apply`, `Undo` and `Skip` are the requests, `Execute`,
`NotRunning` and `Fault` what becomes of a command, `Replayed`, `GiveUpFlush`,
`Found`, `Queue`, `Failed` and `Done` what the executor makes of the answer.

Abstractions: *closed* stands for superseded, skipped and failed, which nothing
distinguishes; whether a mailbox must be looked up first is left open; the command
after a command that was carried out follows without another step; *archive* is a move,
*keep* a flag and a move, and *read* one command that moves nothing, which stands for
`mark_read`, `draft` and a `keep` without folder sorting; the effect of a
command that is not answered and the record of its failure are one step.  Left out:
Gmail and Outlook, which have no outbox, policy hooks, the actions flag and dry runs,
the cap of a pass, learning from corrections, and messages that disappear.

## 4. Properties

The `...Properties` modules state them; each has a comment that names the
code it is about.

| Module | Property | Says |
|---|---|---|
| Queue | `TypeOK` | types; a process holds a job exactly at the points where it needs one; `retry_count < MaxRetries` |
| | `AtMostOnePlace` | a job id is in one list slot, one loop, one submitter or the recovery, never in two: no job runs twice at once |
| | `FinishedStaysOut` | a completed or held job is never queued or run again |
| | `FailedRunsWithinBudget` | a job's runs raise at most `MaxRetries + crashes + errors` times |
| | `RunningIsRegistered` | while a body runs, the id is in the running set and its record says RUNNING (or FAILED by a late prune) |
| | `NoGhosts` | without errors, while the loops are up, the running set holds only jobs in execution |
| | `NothingLost` | without deaths and errors, an unfinished job is always somewhere |
| | `ImplementsJobPool` | refinement: whatever fails, only a job in line is claimed, by one loop, and what has ended is never taken up again |
| | `EveryJobSettles`, `PauseQuiesces`, `InterruptedRunIsRepeated` | liveness |
| Registry | `TypeOK` | types; a process that has not loaded knows nothing |
| | `PurgedStaysForgotten` | whatever the clocks say, a purge that was read forgets its subject until a re-add names it |
| | `AnyLiveForgetCounts` | restoring or cancelling one forget never ends another |
| | `IndexAgrees` | the entry the scan keeps for a subject forgets exactly when one of its forgets is live (proved; no run checks it) |
| | `ReaddBringsBack` | a re-add cancels by name and never by time |
| | `ForgetNeverLapses` | what one answer called forgotten the next calls forgotten, unless it has read the end of every live forget or the machine is in `lost` |
| | `MachinesConverge` | liveness: every machine ends up answering from every entry |
| Engine | `TypeOK` | types; every lane has what it needs at each point |
| | `ErasedOnlyIfAsked` | no step erases an artifact for which no purge was ever asked |
| | `RecordedIsErased` | a machine's own file calls an artifact purged only when its node is gone there, or was written again |
| | `StartedPurgeErases` | liveness: a started purge is finished on every machine that has its receipt, unless its subject was restored, added again or trashed once more |
| | `PurgeSpreads` | liveness: a purge recorded anywhere is carried out everywhere, unless the content was added again |
| | `PurgeWins` | a machine that has all entries and has applied them holds nothing that was recorded as purged anywhere, whichever restores and later forgets the purge met and whatever the clocks say, unless it was written there since or added again |
| | `ReaddLasts` | what was added again is not erased; violated (section 7) |
| Idempotency | `TypeOK` | types; a delivery has a result exactly where the code has one |
| | `OneAtATime` | without Redis errors and early expiry, one delivery works at a time |
| | `RunsAreAccounted` | each run after the first is paid for by an event the middleware tolerates; failed runs, and deletes of somebody else's key, cost none |
| | `AnswersAgree` | all deliveries are answered with the same run's result |
| | `EveryCallerAnswered` | liveness: neither a dead winner nor a failed delete wedges the key |
| Breaker | `TypeOK` | types; OPEN exactly when the threshold has been reached since the last close |
| | `StaysShut` | no call is let through before a whole timeout has passed since the last failure, however late its call was admitted |
| | `DeadServiceTrips`, `ProbesAgain`, `Recovers` | liveness: a dead service trips it for good, a probe is admitted again and again, a healthy service closes it |
| Ingestion | `ListedIsStored` | neither rollback nor purge takes a row from under a node, unless it was put on the dead-letter list first |
| | `StoresAgree` | at rest and with no event but *forwarded*, retrieval shows what the graph lists, and the list is that of the content whose hash the node has |
| | `AnsweredIsKept` | what was answered with success is stored, or was put on the dead-letter list and has left it only because the list was full |
| | `PendingResolves` | liveness: no row stays pending |
| Inbox | `LedgerKnows` | the decision that moved a message last is recorded as applied, and what it undid as undone, but for those excused or unsure |
| | `Once` | no decision is carried out twice, but for those excused |
| | `QueuedIsSettled` | liveness: with Mail open, every decision a pass may take is settled |

## 5. Runs

| Run | Bounds | Shows |
|---|---|---|
| `processor_safety` | two equivalent jobs, two loops, two submitters, one error, one death, one stop, one job that goes stale and may expire | the seven safety properties of the queue under every kind of failure |
| `processor_liveness` | two jobs of different priority, one loop, one submitter, pause and resume, one death, one stop, fairness | the liveness properties of the queue |
| `registry_index` | two machines, two forgets of one subject, three appends, every kind of fault, one of them | the index decides rightly whatever was read in whatever order |
| `registry_converges` | two machines, two appends, any three faults of all five kinds, fairness | no forget lapses except on a machine in `lost`, and machines converge |
| `engine_requests` | one machine, two request threads and the job, any two requests, one failing call, one death, fairness | the safety properties of the engine, and that a started purge finishes |
| `purge_arrives` | two machines; what was trashed on one was purged on the other, whose clock is behind; two requests, each a restore or a second trash, one failing call, fairness | a machine that has caught up holds nothing purged, though every stamp speaks for the restore, and a purge spreads |
| `idempotency` | three deliveries, two of them slow, two commands that raise, one failing run, one death, one expired result, fairness | the five properties of the middleware |
| `circuit_breaker` | three tasks, a thread, a stream, threshold 5, timeout of three ticks, one reset, fairness | the five properties of the breaker |
| `ingestion_requests` | two requests in flight, three in all, two contents sharing a passage, two files, one call that raises, one death, a dead-letter list of two | the stores agree |
| `ingestion_recovery` | one request at a time, two in all, three calls that raise, one death, a dead-letter list of one, fairness | what was answered or listed is lost only from a full dead-letter list, nothing stays pending |
| `inbox` | one message, two decisions of two commands, one request and the triage job, one failed command or death, fairness | the three properties of the inbox |
| `readded_is_erased` | one machine, one request thread, two requests | a documented statement the code does not keep (section 7) |

Bounds of the queue: `MaxErrors`, `MaxCrashes` and `MaxStops` cap the failures,
`MaxRetries` is 2 so that one retry and one exhaustion happen, `Slow` and
`Expirable` name the jobs whose clock may run out.  Two equivalent jobs are enough
for duplicate collapse and pruning (one pruned, one pruning); two loops for every
race between loops, since ownership concerns one job and the two processes that
could share it; one failure of each kind is a bound of the run only, which the
proofs of section 6 remove for the invariants and the refinement.  An id is submitted once,
as ids are fresh UUIDs, so every behaviour is finite apart from polling, pause and
resume.  `processor_safety` takes loops as interchangeable, and submitters too,
which is sound because no definition distinguishes them.  `processor_liveness` has no
error and one loop.  The refinement has also been checked with two loops, two
submitters, one error and one death on the jobs of `processor_safety`, without the
stop and the expiry (1,015,284 states); with those two the instance is too large to
be searched in full, and the proof takes over.

Bounds of the registry: `MaxAppends` and `MaxFaults`.  Three appends about one
subject give every order of trash, restore, purge and re-add of one forget, and
two overlapping forgets with the end of one; in `MCStamp` one clock is ahead of the
other by more than all events, so stamps contradict the order of events whenever
they can.  Two appends and three faults of any kind make every way of losing entries
happen, the longest of which (an unread file, an unmounted folder and a restart) takes
three, and being whole again after it.  The entries of an append to the bare mount point
reach no other machine, and its own goes on serving them if the folder that comes back
is still empty, as a query that finds no file keeps what is known: `MachinesConverge`
allows that.  The proofs remove all
bounds for the invariants and for `ForgetNeverLapses`.

Bounds of the engine: `MaxAppends` is more than the requests of a run can lead to
and so never cuts a behaviour short; `MaxRequests`, `MaxFailures` and `MaxCrashes`
cap what comes from outside.  Two requests of any kind give every pair that can race on
one machine (trash and restore, restore and purge, purge and purge, purge and ingest,
...), with the maintenance job as a third actor.  On two machines all that is too much:
`purge_arrives` starts where a trash on `a` was applied on both machines and then purged
on `b`, with nothing under way and nothing of the purge delivered, a state TLC reaches
from `Init` by these two requests (`MCInit`).  What is left to race is the delivery of
entries and receipts, the job, and two requests on `a` that could keep the purge from it.
The clock of `a` is ahead by more than all events, so every stamp speaks against the purge.
Larger instances were explored without a new case: from the state before the purge, with
the purge and one such request under way at once (safety), and with a death as well.
`PurgeWins` is proved without any of these bounds, and that a purge which has started ends
after failures and a death is what `StartedPurgeErases` checks on one machine.

Bounds of the middleware: three deliveries are the original, the retry that takes
over its key and a third that meets what those two left behind; two slow ones let a
sentinel expire under either.  Bounds of the breaker: its threshold is the one the
code uses for Neo4j and OpenRouter; the count stops at the threshold and the age at
the timeout, because the code compares no further.

Bounds of ingestion: two contents that share one passage make a version keep, drop and
bring back passages; two files bring the same content from two places and two contents
from one.  Three requests on two threads give every pair that meets, and a third that
finds the result; three calls that raise spend the budget of two recovery attempts and
fail the request as well.  Threads and files are interchangeable
in `ingestion_requests`, which checks an invariant only.  Larger instances were explored
without a new case: three contents with one thread (three requests and three faults, four
requests and one fault), two threads with a death, and two threads without symmetry.
The dead-letter list is as short as `DeadletterMax` makes it, so that it overflows: with
one entry every second push drops one.
The proofs of the three invariants need none of these bounds.

Bounds of the inbox: one message, since decisions about two share only the outbox, and
two decisions, the second a new proposal or the undo of the first.  Larger instances
(three decisions; two messages; a failed command and a death) were explored for safety
without a new case, and the proofs of `Once` and `LedgerKnows` need no bound.

Fairness of the queue (`FairSpec`): weak fairness of each loop, each submitter, the
starter and `Stopped`.  asyncio runs every ready task, and Redis calls and job
bodies are assumed to return; the starter's fairness says that the supervisor
restarts a dead server.  `EveryJobSettles` assumes that the user eventually leaves
the queue resumed: nobody owes the system a `Resume`.  It also assumes that the
throttle and the `disabled` mode do not last for ever.  Fairness of the registry:
folders come back, the service delivers, and each machine keeps asking without
meeting a fault every time.  Fairness of the engine: one weak fairness condition
on everything that goes on by itself (threads, the scheduled job, the folder);
what is left to do is finite once requests and failures end, so each part gets its
turn, and a condition per part would only say the same at greater cost.  Ingestion
has the same single condition, on requests under way and the scheduled recovery job.
Fairness of the middleware: a caller sends again until it has an answer, the work ends,
TTLs run out.  Fairness of the breaker: time passes, gated callers keep calling, and a
call that is not cancelled each time is answered by what the service does (strong
fairness, as a cancelled call is a new call later).  Fairness of the inbox: commands are
answered, at the latest by the 30 s timeout, tasks go on, and the triage job comes
round again.  Nothing is assumed of errors, deaths, stops, faults or requests: they may happen, never must.

The engine, registry, idempotency and ingestion runs, and only these, switch the
deadlock check off: once the bounded requests are used up or all are answered, nothing
is left to do.

## 6. Proofs

All theorems hold for every value of the constants that satisfies the assumptions
of the modules: any sets of jobs, loops, submitters, subjects, request threads,
callers, contents, passages, files and messages, any finite sets of machines and
deliveries, any clocks and thresholds, any number of errors, deaths, faults and requests.

| Module | Theorem | Statement |
|---|---|---|
| `ProcessorQueueProofs` | `TypeCorrect` | `Spec => []TypeOK` |
| `ProcessorQueueProofs` | `OneOwner` | `Spec => []AtMostOnePlace` |
| `ProcessorQueueProofs` | `FinishedForGood` | `Spec => []FinishedStaysOut` |
| `ProcessorQueueProofs` | `RunsWithinBudget` | `Spec => []FailedRunsWithinBudget` |
| `ProcessorQueueProofs` | `RunningAreRegistered` | `Spec => []RunningIsRegistered` |
| `ProcessorQueueProofs` | `NoGhostStays` | `Spec => []NoGhosts` |
| `ProcessorQueueProofs` | `NoJobIsLost` | `Spec => []NothingLost` |
| `ProcessorQueueProofs` | `QueueImplementsJobPool` | `Spec => ImplementsJobPool` |
| `ForgetRegistryProofs` | `RegistryTypes` | `Spec => []TypeOK` |
| `ForgetRegistryProofs` | `IndexAlwaysAgrees` | `Spec => []IndexAgrees` |
| `ForgetRegistryProofs` | `PurgedForGood` | `Spec => []PurgedStaysForgotten` |
| `ForgetRegistryProofs` | `AnyLiveForget` | `Spec => []AnyLiveForgetCounts` |
| `ForgetRegistryProofs` | `ReaddAlwaysBringsBack` | `Spec => []ReaddBringsBack` |
| `ForgetRegistryProofs` | `NoForgetLapses` | `Spec => ForgetNeverLapses` |
| `ForgetEngineProofs` | `EngineTypes` | `Spec => []TypeOK` |
| `ForgetEngineProofs` | `NoErasureUnasked` | `Spec => ErasedOnlyIfAsked` |
| `ForgetEngineProofs` | `PurgedIsErased` | `Spec => []RecordedIsErased` |
| `ForgetEngineProofs` | `PurgeAlwaysWins` | `Spec => []PurgeWins` |
| `IdempotencyProofs` | `DeliveriesTyped` | `Spec => []TypeOK` |
| `IdempotencyProofs` | `OneDeliveryAtATime` | `Spec => []OneAtATime` |
| `IdempotencyProofs` | `OneAnswer` | `Spec => []AnswersAgree` |
| `IdempotencyProofs` | `EveryRunIsPaidFor` | `Spec => []RunsAreAccounted` |
| `CircuitBreakerProofs` | `BreakerTypes` | `Spec => []TypeOK` |
| `CircuitBreakerProofs` | `ShutForTheTimeout` | `Spec => StaysShut` |
| `IngestionProofs` | `TypeCorrect` | `Spec => []Ty` |
| `IngestionProofs` | `AnsweredStaysKept` | `Spec => []AnsweredIsKept` |
| `IngestionProofs` | `ListedStaysStored` | `Spec => []ListedIsStored` |
| `IngestionProofs` | `StoresComeToAgree` | `Spec => []StoresAgree` |
| `InboxProofs` | `TypeCorrect` | `Spec => []Ty` |
| `InboxProofs` | `NothingTwice` | `Spec => []Once` |
| `InboxProofs` | `LedgerIsRight` | `Spec => []LedgerKnows` |

**Queue.**  `TypeOK` is inductive as it stands.  `AtMostOnePlace` is not: that a
popped, pushed or recovered id is nowhere else depends on what its record says.  The
inductive invariant `Ownership` adds to it

* `ListsInOrder`: an id occurs once in one list, that of its priority;
* `QueuedWaits`: the record of a queued id is pending, failed (a late prune) or
  expired, never new, running, completed or held;
* `LoopsOwn`, `SubmittersOwn`: what a loop or a submitter holds is in no list and in
  no other hand, and its record is in a state that fits the program point;
* `RecoveryOwns`: a RUNNING record in the set the recovery walks is in no list and no
  hand, because the recovery starts when no loop is alive.

The list operators (`LREM`, `LPUSH`, `RPOP`) get lemmas of their own, so that the
proof of a step speaks of membership only.  `FinishedStaysOut` follows from
`Ownership`.  The budget needs that the count a loop has `seen` is the recorded one
(`SeenIsRecorded`), that failed runs are covered by recorded retries plus deaths plus
errors (`FailedRunsCounted`), and where in its cycle a loop is (`RunsBudgeted`).

The other three invariants rest on `Ownership` too.  `Registered` follows a job through
its run: only stale jobs are written off (`victim`), and nobody but its loop removes it
from the running set.  `GhostsCleared` says of a history without errors that what is
registered is being run or settled while the loops are up, and that a recovery still has
all of it to look at: the set is as the last life left it until `todo` is empty.
`Accounted` says for a history without errors and deaths where a job with a record of
each kind is, which `NothingLost` needs for every point of every process, the late prune
included.  The refinement needs `Ownership` and `NeverListed`: `Place` and `Holders` are
what the abstract variables stand for, each command moves the place of one job at most
(`OnePlaceOnly` says which place follows from who holds what), and for each action the
proof names the step of the pool it is, or shows that no job's place changed.
`NeverListed` is what the steps of a submission need: an id that is being submitted is in no
other submitter's candidates, so nothing ends it between its save and its push.

**Registry.**  The index picks entries with CHOOSE, so that it finds one at all has
to be proved: `ForgetIndexProofs` shows that `Wins` has a best element in every
non-empty set of entries whose stamps are bounded (`BestWins`): a bounded set of
stamps has a greatest one, because the naturals are well-founded.  The bound is the
invariant `StampedByAppends`; with `NothingInvented` (what a process, snapshot or
folder holds was recorded by some machine) and `TypeOK` it forms `Inv`, from which
the four index theorems follow for any set of entries.  `NoForgetLapses` needs
`KnowledgeKept`: of a machine that is not in `lost`, the last answer is within what the
process, or failing it the snapshot, knows, and that is within the folder's copies; what
a process that runs knows beyond the snapshot is what a restart loses.  `WholeLoadKeeps`
says that a load of all the files of the folder, some of them perhaps unread, keeps what
the machine had answered from, and `ReadKeeps` that every refresh does which leaves the
machine out of `lost`.

**Engine.**  `TypeOK` needs `Bounded` (stamps are bounded, hence the index chooses
among entries that were read, `LatestWithin`).  `NoErasureUnasked` is carried by
`Authorized`: every entry in any copy of any file is about the subject its forget
names and, if it is a purge, warranted by a request; so is every row of the tombstone
log, every receipt, and what each thread is about to do (`Licensed`).  Only `Erase`
removes a node (`OnlyErase`), and its thread is licensed.  `PurgedIsErased` is carried
by `Erased`: recorded purges, purges marked as applied, tombstone rows, and threads about
to write any of these (`Owing`) all speak of a node that is gone; what is gone stays gone
until it is written (`GoneForGood`).  `PurgeAlwaysWins` joins that to the index: once a
purge is among the entries and no re-add is, the entry that decides the subject is a
purge (`PurgeDecides`), whatever the stamps; a machine that has read every entry and has
nothing left to apply has marked that one as applied, so the node is gone there.

**Middleware.**  `TypeOK` is inductive.  `OneAtATime` needs `Exclusive`: while Redis
answers and no sentinel runs out early, nobody works unprotected and whoever holds the
sentinel has set it, so all who work are the same delivery.  `AnswersAgree` needs
`Agreed` on top: whoever is answered has the stored result, and only failed work is
released; a delivery at work means an empty key, hence nobody answered yet
(`NoneAnsweredYet`).  `RunsAreAccounted` is not inductive: an event that is tolerated
allows a further run only later.  `Accounted` keeps the books: the runs so far, the
deliveries that may still run or free the key (`Owed`) and a key that is free for the
next claim (`Free`) never exceed one plus the tolerated events (`Paid`).  A claim
turns `Free` into debt, a run pays debt off, and every other increase is paid for.
The sets counted must be finite, so `Clients` is assumed to be.

**Breaker.**  `TypeOK` contains what makes it inductive: the breaker is OPEN exactly
when its count has reached the threshold.  So a failure that comes in late finds the
count at the threshold and only renews the time, and a success finds the derived
state OPEN and changes nothing; that leaves time and `reset` to end a rejection, which
is `StaysShut`.

**Ingestion.**  The invariants come in four layers, each proved with the ones below it.

* `Ty`: types, and what a request or the job has in hand at each point.
* `Apart`: unless *overlapped* has happened, requests in flight have contents of their
  own, and an artifact that one writes rows for is in no other request's hands and in
  none of the job's groups (`OneWriter`).  The code has no lock; this says what the
  event stands for.
* `KeptAll`: with no overlap and no failed dead-letter push, rows are kept (stored, on the
  dead-letter list, or pushed off it when it was full) for whoever counts on them: a request that wrote them, a group the recovery took up, an answered
  caller, a node that lists them (`NothingTaken`).  A rollback is of an artifact without
  a node and a purge comes after the dead letters, so neither deletes such a row.
  `AnsweredIsKept` and `ListedIsStored` are parts of it.
* `Agree`: while nothing but *forwarded* has happened, an artifact that nobody is between
  upserting and staging is `Balanced`: with nothing pending its open rows are those its
  node lists, otherwise the pending ones are all the open ones and it is not shown at
  all.  `StoresAgree` is the first case.  It is not inductive without what each request
  knows at each point (`Own`: a request about to close rows has read all that are to be
  closed), what the job's groups are (`JobAgrees`: exactly the pending rows of their
  artifacts) and that the node's list is that of its hash (`Lawful`).

Steps of a request touch one artifact; lemmas on the calls (`Wrote`, `Remarked`, `Shut`,
`Erased`) say what they do to its rows, and lemmas such as `BalancedStays` and
`OwnStays` carry everything else over.

**Inbox.**  `ActionsAssumption` limits what triage proposes to the three plans of section
3.8; an undo comes from a request only.
`Ty` says of each task which stage has which fields, and that an undo is about the
message of what it undoes.  `Once` needs `OneAttempt`: a decision that is not excused is
held by one task at most, and then not yet applied (`HeldOnce`); once a command of it was
carried out it is no longer open, unless the task is still at it (`AttemptedOnce`).
`LedgerKnows` needs `MovesAccounted` on top: the decision that moved a message last was
carried out, and its task has the answer and records next, or has recorded it
(`Accounted`); and no undo of it has been answered meanwhile (`UndoneByNow`).  Queued
decisions, decisions cut off by a death and those held twice are excused when that
happens and stay so, and so are, for `LedgerKnows` only, the unsure ones; the proof shows that a flush, which carries out listed decisions in
the middle of another one's attempt, touches no others.

Every invariant and every safety property of a step that a run checks is thus proved.  Only
model-checked are the liveness properties (`EveryJobSettles`, `PauseQuiesces`,
`InterruptedRunIsRepeated`, `MachinesConverge`, `StartedPurgeErases`, `PurgeSpreads`,
`EveryCallerAnswered`, `DeadServiceTrips`, `ProbesAgain`, `Recovers`, `PendingResolves`,
`QueuedIsSettled`), since fairness and ENABLED are outside what the prover does.  No RECURSIVE operator is used.

## 7. Where documents and code differ

One run shows a disagreement between the code and what the repository says of it; three
others were found by runs that have given way since (section 2).

* `readded_is_erased`.  `ingestion.py:1187` says of content that was purged and is added
  again that "the content comes back and the registry records" it;
  `migrate_tombstones_to_registry` looks only whether an artifact's state is *purged*, so
  it records a new purge of one that was added again, and the artifact is erased.
* `forget_lapses`.  `registry.py:15` says "An unreachable sync folder never makes a forget
  lapse".  A load with one unread file leaves the snapshot alone, though it has read the
  others; when the folder is unmounted and the process restarts after it, the process
  starts from that snapshot and no longer forgets what it did forget.
* `list_collapses`.  `ingest_recovery.py:360` says that the recovery lists all rows of an
  artifact, so that artifacts "no longer collapse to a single visible chunk".  A re-ingest
  reads rows while they are pending, the recovery commits them, and `_close_rows` writes
  the row that was dropped back as it was read, pending; the next recovery takes this one
  row for the artifact and sets the node's list to it alone.
* `deadletter_trimmed`.  `ingest_recovery.py:446` says that "every chunk's text + metadata
  survive even when Neo4j is permanently down (no silent loss)"; each push is followed by a
  trim to the newest 1000 entries, so what was dead-lettered and purged first is dropped.

These were met while modelling and have no run of their own:

* *Queue.*  A retry is saved under the failed job's id, so the failure record the
  worker's docstring promises to keep is overwritten.  A marker popped after the
  duplicate scan's snapshot is marked FAILED while it runs, though running entries
  are said to be exempt.  The recovery leaves `retry_count` as it is, so a job that
  kills the server runs again at every start, where BACKGROUND_JOBS.md says it
  retries per `retry_count`.  A popped job that is not registered yet is invisible
  to `enqueue_if_absent`.  HELD is a terminal record, while `select_job_model` speaks
  of a job that stays queued.  A second death between the recovery's save and its
  LPUSH strands the interrupted job.  A marker completed after the scan's snapshot is
  turned from COMPLETED into FAILED, where `JobState` says "Terminal states completed
  and failed cannot transition further".  An error between RPOP and `mark_running`
  leaves the job in no list, where BACKGROUND_JOBS.md:159 says of a Redis disconnect
  "Worker holds; no jobs lost".  A job whose `mark_*` failed stays in the running set, and
  absorbs duplicates, until the next start.
* *Registry.*  A file that vanishes between the listing and the stat is skipped, and
  the index and the snapshot are rebuilt without its entries, so its forgets lapse
  until it is back.  An append
  made while the folder is unmounted creates it on the bare mount point; the next
  refresh believes the one file there and overwrites the snapshot, where registry.py:15
  says "An unreachable sync folder never makes a forget lapse".
* *Engine.*  Adding a trashed artifact again records the re-add, but the archived node
  is found and a duplicate reported, so the content stays hidden.  When the lineage
  fails to settle after the tombstone was recorded, the artifact's state comes from
  that entry with its fresh id: the forget is retried no more and its receipt stays
  pending.  `restore` looks for the receipt first and records later, so a purge can
  start in between.  Of two overlapping forgets, restoring the one that hid the
  artifact shows it although the other is live.  A restore stamped by a clock that
  lags behind the trash does not count.  The hide of a trash that comes after the
  restore of the same forget hides the artifact for good.  `apply_remote` works
  through a list read once, so what is added again during the loop can be erased.  A
  purge that has started and failed is not retried once the same artifact is trashed
  again, where engine.py:8 says "the maintenance job retries it until every adapter is
  done".  A failure of the fan-out is swallowed after the node is gone, and every later
  purge returns before it, where content_lifecycle.py:326 says that no store "is ever
  left orphaned".
* *Idempotency.*  When the sentinel runs out under slow work, or a GET or SET fails, the
  work runs twice under one key; `RunsAreAccounted` counts exactly these events.  A slow
  loser may then overwrite or delete the other's result.
* *Ingestion.*  A death, or an upsert whose answer is lost, before the rows are staged
  leaves rows without a mark, which retrieval shows and the recovery does not find, where
  `_stage_chunks_pending` says they stay invisible "until Neo4j commits" (*unstaged*).
  The id of an artifact is the hash of its first content: when that content arrives from
  another file after the artifact has moved to a second version, MERGE puts the old list
  on the node of the new one, whose hash stays and whose closed rows stay closed
  (*revived*).  Recovered rows carry no content hash, so all recovered nodes get the
  empty one; the second violates the constraint, is taken for committed, and its rows
  become visible without a node (*collided*).  A version written over rows still
  pending from a failed one lets the recovery list old or closed rows later
  (*backlog*).  After a failed re-ingest the recovery puts the new list on the node and
  leaves the old hash, so the old content counts as a duplicate and cannot be restored
  (*forwarded*).  Nothing locks an artifact: two ingests of one new path make two
  artifacts, and a rollback that races the recovery deletes rows under a node
  (*overlapped*).  What `_close_rows` writes back may also take a recovery attempt off a row's
  counter (*reverted*, with the trace of `list_collapses` above); otherwise the counter is never reset.
* *Breaker.*  circuit_breaker.py:10 says of HALF_OPEN that "a single probe request is
  allowed"; nothing counts probes, so every call that comes before the first answer is let
  through, and the model does the same.
* *Inbox.*  A command that takes effect but is answered with an error, or too late, has
  moved the message while its decision is recorded as failed (executor.py:120), and no undo
  is offered for it; `LedgerKnows` leaves these decisions out (`unsure`).  A flush records nothing about the decisions it replays: a queued decision is
  attempted again by the next pass, so its commands run twice (two drafts), and a queued
  undo leaves what it undid *applied*.  Skipping or superseding a decision leaves its row
  in the outbox, and in the list a pass has read, so it is carried out all the same.  Two
  tasks that flush the same listing replay commands one of them has undone meanwhile.  A
  row whose message is gone fails every later attempt on any decision.  After a replay
  has moved a message, the attempt's `find` stores its new mailbox as the one to go back
  to, where executor.py:371 says that "a later undo can put it back".

## 8. Not modelled

Content lifecycle, the folder scanner, the spend accounting and the rest of sync have no
module yet; section 2 gives the order in which they follow.  In the modelled components,
what is left out is named as an abstraction in section 3: of the engine above all the
adapters of chunks, memories and conversations, forgets of several subjects, and
lineages; of the registry the cache of the read filter; of ingestion the indexes and
caches that follow the two stores; of the inbox the remote providers.  The modules cover
a small share of the repository's lines, because most of those are prompts, formatting,
scoring, routes and user interface.  Lineage, retrieval scoring, agents, routing, routers, the
web client, the SDKs and the inference server are left out for good: their behaviour
is formatting, numeric scoring, model calls or single database transactions, with no
protocol between processes that a state machine would explain.
