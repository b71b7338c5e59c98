------------------------------ MODULE Ingestion ------------------------------
(***************************************************************************)
(* ingest_content of app/services/ingestion.py for files known by their    *)
(* path, and the recovery job of app/services/ingest_recovery.py.  One     *)
(* ingest writes rows to Chroma (upsert, then "pending"), the artifact's   *)
(* node to Neo4j, and then "committed" to the rows.  Requests interleave   *)
(* between these calls, a call raises with or without effect, and the      *)
(* process dies between any two; the job takes what stays pending.         *)
(*                                                                         *)
(* excused records the events after which the stores may disagree:         *)
(*   overlapped  two requests, or a request and the job, at one artifact,  *)
(*               file or content at once (there is no lock);               *)
(*   unstaged    a request that stops between upserting and staging;       *)
(*   backlog     a version written over rows still pending from another;   *)
(*   reverted    closing a row puts back a mark it no longer has;          *)
(*   revived     a first version written over a node that has moved on;    *)
(*   collided    two recovered nodes with the empty content_hash;          *)
(*   forwarded   the recovery repairing the list of a node;                *)
(*   unburied    a dead-letter push that failed.                           *)
(***************************************************************************)
EXTENDS Integers, Sequences, FiniteSetsExt

CONSTANTS
    Contents,     \* contents; a content's hash is the id of the artifact made for it
    Texts,        \* passages
    TextsOf,      \* the passages a content is chunked into
    Files,        \* source paths, each with a name of its own
    Blank,        \* the empty content_hash
    None,         \* no node, no path, no file
    Threads,      \* requests in flight at once
    DeadletterMax,   \* entries the dead-letter list keeps (_DEADLETTER_MAX)
    MaxRequests, MaxFaults, MaxCrashes   \* bounds

Node == [hash : Contents \cup {Blank}, name : Files \cup {None}, path : Files \cup {None},
         listed : SUBSET Texts]

ASSUME ConstantsAssumption ==
    /\ TextsOf \in [Contents -> (SUBSET Texts) \ {{}}]
    /\ DeadletterMax \in Nat \ {0}
    /\ Blank \notin Contents /\ None \notin Contents \cup Files \cup {Blank} \cup Node

Keys == Contents \X Texts   \* rows: chunk ids hash the artifact id and the text

VARIABLES
    nodes,      \* Neo4j: each artifact's node, or None
    rows,       \* Chroma: each row's mark, closed flag, recovery attempts and file
    dead,       \* Redis: the dead-letter list, one row per entry, oldest first
    thread,     \* where each request is
    job,        \* where the recovery job is
    buried,     \* history: rows that were pushed to the list
    answered,   \* history: rows of ingests that were answered with success
    excused,    \* history: the events above
    requests, faults, crashes   \* what the bounds count

stores == <<nodes, rows, dead, buried>>
bounds == <<requests, faults, crashes>>
vars == <<stores, thread, job, answered, excused, bounds>>

Idle == [at |-> "idle", c |-> None, f |-> None, a |-> None, cur |-> <<>>, via |-> "path"]
NoGroup == [a |-> None, ids |-> {}, file |-> None, tries |-> 0]
Resting == [at |-> "idle", todo |-> {}, g |-> NoGroup, left |-> {}]
NoRow == [mark |-> "none", closed |-> FALSE, tries |-> 0, file |-> None]

Init ==
    /\ nodes = [c \in Contents |-> None]
    /\ rows = [k \in Keys |-> NoRow]
    /\ dead = <<>> /\ buried = {}
    /\ thread = [t \in Threads |-> Idle]
    /\ job = Resting
    /\ answered = {} /\ excused = {}
    /\ requests = 0 /\ faults = 0 /\ crashes = 0

Reply == {"ok", "lost", "refused"}
Executed(r) == r # "refused"
Raised(r) == r # "ok"
When(happened, what) == IF happened THEN {what} ELSE {}
Excuse(happened, what) == excused' = excused \cup When(happened, what)
Call(r) == faults' = (IF Raised(r) THEN faults + 1 ELSE faults) /\ faults' <= MaxFaults

There(a) == nodes[a] # None
Rows(a, S) == {a} \X S
Stored(a) == {x \in Texts : rows[<<a, x>>].mark # "none"}

\* upsert keeps the metadata it is not given: state, attempts; a fresh ingest
\* gives no version fields, so a closed row stays closed.
NeverReopened(old, f, reopen) == [old EXCEPT !.mark = IF @ = "none" THEN "bare" ELSE @, !.file = f]
Upserted(old, f, reopen) ==
    [old EXCEPT !.mark = IF @ = "none" THEN "bare" ELSE @,
                !.closed = IF reopen THEN FALSE ELSE @, !.file = f]
Written(K, f, reopen) == [k \in Keys |-> IF k \in K THEN Upserted(rows[k], f, reopen) ELSE rows[k]]
\* update skips rows that are not there.
Updated(K, F(_)) == [k \in Keys |-> IF k \in K /\ rows[k].mark # "none" THEN F(rows[k]) ELSE rows[k]]
Deleted(K) == [k \in Keys |-> IF k \in K THEN NoRow ELSE rows[k]]
Mark(m, row) == [row EXCEPT !.mark = m]
Pending(row) == Mark("pending", row)
Committed(row) == Mark("committed", row)

-----------------------------------------------------------------------------
(* The request: which artifact is this?                                    *)

Step(t, p) == thread' = [thread EXCEPT ![t].at = p]
Answer(t)  == thread' = [thread EXCEPT ![t] = Idle]
Calls(r) == Call(r) /\ UNCHANGED <<job, requests, crashes>>

Request(t, c, f) ==
    /\ thread[t].at = "idle" /\ requests < MaxRequests
    /\ requests' = requests + 1
    /\ thread' = [thread EXCEPT ![t] = [Idle EXCEPT !.at = "duplicate", !.c = c, !.f = f]]
    /\ Excuse(\E u \in Threads : thread[u].at # "idle" /\ (thread[u].c = c \/ thread[u].f = f), "overlapped")
    /\ UNCHANGED <<stores, job, answered, faults, crashes>>

\* _check_duplicate; an error counts as no duplicate.
CheckDuplicate(t, r) ==
    /\ thread[t].at = "duplicate"
    /\ r # "lost" /\ Calls(r)
    /\ LET same == {a \in Contents : There(a) /\ nodes[a].hash = thread[t].c} IN
       IF Raised(r) \/ same = {} THEN Step(t, "find")
       ELSE \E a \in same : thread' = [thread EXCEPT ![t].at = "note", ![t].a = a]
    /\ UNCHANGED <<stores, answered, excused>>

\* note_source_path: a node without a path adopts this one, and so does one
\* whose own file is gone; errors are swallowed.
NotePath(t, r, gone) ==
    /\ thread[t].at = "note"
    /\ Calls(r)
    /\ LET a == thread[t].a  f == thread[t].f IN
       IF Executed(r) /\ (nodes[a].path = None \/ (nodes[a].path # f /\ gone))
         THEN nodes' = [nodes EXCEPT ![a].path = f,
                                     ![a].name = IF nodes[a].path = None THEN @ ELSE f]
         ELSE UNCHANGED nodes
    /\ Answer(t)
    /\ UNCHANGED <<rows, dead, buried, answered, excused>>

\* find_artifact_by_source_path, then find_artifact_by_filename among the
\* nodes without a path; an error of either counts as not found.
Match(t) ==
    LET f == thread[t].f IN
    {a \in Contents :
        /\ There(a)
        /\ IF thread[t].via = "path" THEN nodes[a].path = f
                                     ELSE nodes[a].path = None /\ nodes[a].name = f}

Otherwise(t) == IF thread[t].via = "path" THEN [thread[t] EXCEPT !.at = "find", !.via = "name"]
                                          ELSE [thread[t] EXCEPT !.at = "write"]

Find(t, r) ==
    /\ thread[t].at = "find"
    /\ r # "lost" /\ Calls(r)
    /\ IF Raised(r) \/ Match(t) = {}
         THEN thread' = [thread EXCEPT ![t] = Otherwise(t)]
         ELSE \E a \in Match(t) :
                 thread' = [thread EXCEPT ![t] = IF nodes[a].hash = thread[t].c THEN Otherwise(t)
                                                 ELSE [@ EXCEPT !.at = "current", !.a = a]]
    /\ UNCHANGED <<stores, answered, excused>>

-----------------------------------------------------------------------------
(* _reingest_artifact: a new version of the artifact thread[t].a.  What it  *)
(* raises is caught around the search, which then goes on.                  *)

Reingest(t, p, r, next) ==
    /\ thread[t].at = p
    /\ Calls(r)
    /\ thread' = [thread EXCEPT ![t] = IF Raised(r) THEN Otherwise(t) ELSE [@ EXCEPT !.at = next]]

\* _current_version_rows: passages, and their rows as they are read.
Current(a) == {x \in Stored(a) : ~rows[<<a, x>>].closed}
CurrentRows(a) == [x \in Current(a) |-> rows[<<a, x>>]]

ReadCurrent(t, r) ==
    /\ thread[t].at = "current"
    /\ r # "lost" /\ Calls(r)
    /\ thread' = [thread EXCEPT ![t] = IF Raised(r) THEN Otherwise(t)
                     ELSE [@ EXCEPT !.at = "upsert", !.cur = CurrentRows(thread[t].a)]]
    /\ UNCHANGED <<stores, answered, excused>>

Contended(t, a) ==
    \/ a \in {g.a : g \in job.todo \cup {job.g}}
    \/ \E u \in Threads \ {t} : thread[u].a = a
PendingOf(a) == {x \in Texts : rows[<<a, x>>].mark = "pending"}
LeavesPending(a, c) == PendingOf(a) \ TextsOf[c] # {}

Upsert(t, r) ==
    /\ Reingest(t, "upsert", r, "close")
    /\ rows' = IF Executed(r) THEN Written(Rows(thread[t].a, TextsOf[thread[t].c]), thread[t].f, TRUE) ELSE rows
    /\ excused' = excused \cup When(r = "lost", "unstaged")
                          \cup When(Contended(t, thread[t].a), "overlapped")
                          \cup When(LeavesPending(thread[t].a, thread[t].c), "backlog")
    /\ UNCHANGED <<nodes, dead, buried, answered>>

\* _close_rows: the passages the new version dropped get all the metadata that
\* was read of them, closed; update keeps a field that was not there when read.
Close(row, seen) ==
    [seen EXCEPT !.closed = TRUE,
                 !.mark = IF @ = "bare" THEN row.mark ELSE @,
                 !.tries = IF @ = 0 THEN row.tries ELSE @]

CloseRows(t, r) ==
    LET a == thread[t].a  seen == thread[t].cur
        closing == {x \in DOMAIN seen \ TextsOf[thread[t].c] : rows[<<a, x>>].mark # "none"}
    IN
    /\ Reingest(t, "close", r, "stage")
    /\ rows' = IF Executed(r)
               THEN [k \in Keys |-> IF k \in Rows(a, closing) THEN Close(rows[k], seen[k[2]]) ELSE rows[k]]
               ELSE rows
    /\ excused' = excused \cup When(Raised(r), "unstaged")
                          \cup When(\E k \in Keys : rows'[k].mark # rows[k].mark, "reverted")
    /\ UNCHANGED <<nodes, dead, buried, answered>>

\* _stage_chunks_pending; errors are swallowed.
Stage(t, r) ==
    /\ thread[t].at = "stage"
    /\ Calls(r)
    /\ rows' = IF Executed(r) THEN Updated(Rows(thread[t].a, TextsOf[thread[t].c]), Pending) ELSE rows
    /\ Step(t, "update")
    /\ Excuse(~Executed(r), "unstaged")
    /\ UNCHANGED <<nodes, dead, buried, answered>>

Taken(a, h) == \E b \in Contents \ {a} : There(b) /\ nodes[b].hash = h

\* update_artifact, under the uniqueness constraint on content_hash; if it
\* fails the rows are left to the recovery.
Update(t, r) ==
    LET a == thread[t].a  c == thread[t].c  taken == Taken(a, c) IN
    /\ thread[t].at = "update"
    /\ Calls(r)
    /\ nodes' = IF Executed(r) /\ ~taken
                THEN [nodes EXCEPT ![a].hash = c, ![a].listed = TextsOf[c]] ELSE nodes
    /\ IF Raised(r) \/ taken THEN Answer(t) ELSE Step(t, "flip")
    /\ UNCHANGED <<rows, dead, buried, answered, excused>>

\* _flip_chunks_committed; errors are swallowed.
Flip(t, r) ==
    /\ thread[t].at = "flip"
    /\ Calls(r)
    /\ rows' = IF Executed(r) THEN Updated(Rows(thread[t].a, TextsOf[thread[t].c]), Committed) ELSE rows
    /\ Step(t, "properties")
    /\ UNCHANGED <<nodes, dead, buried, answered, excused>>

\* set_artifact_properties: the path, and the version.
SetProperties(t, r) ==
    LET a == thread[t].a  IN
    /\ thread[t].at = "properties"
    /\ Calls(r)
    /\ nodes' = IF Executed(r) /\ thread[t].via = "name"
                THEN [nodes EXCEPT ![a].path = thread[t].f] ELSE nodes
    /\ IF Raised(r)
         THEN thread' = [thread EXCEPT ![t] = Otherwise(t)] /\ UNCHANGED answered
         ELSE Answer(t) /\ answered' = answered \cup Rows(a, TextsOf[thread[t].c])
    /\ UNCHANGED <<rows, dead, buried, excused>>

-----------------------------------------------------------------------------
(* A new artifact.                                                         *)

Outgrown(c) ==
    \/ There(c) /\ (nodes[c].hash \notin {c, Blank} \/ nodes[c].listed # TextsOf[c])
    \/ \E x \in TextsOf[c] : rows[<<c, x>>].closed

\* The upsert is outside every try: an error goes to the caller.
Write(t, r) ==
    LET c == thread[t].c IN
    /\ thread[t].at = "write"
    /\ Calls(r)
    /\ rows' = IF Executed(r) THEN Written(Rows(c, TextsOf[c]), thread[t].f, FALSE) ELSE rows
    /\ IF Raised(r) THEN Answer(t) ELSE thread' = [thread EXCEPT ![t].at = "stagenew", ![t].a = c]
    /\ excused' = excused \cup When(r = "lost", "unstaged")
                          \cup When(Contended(t, c), "overlapped")
                          \cup When(LeavesPending(c, c), "backlog")
                          \cup When(Outgrown(c), "revived")
    /\ UNCHANGED <<nodes, dead, buried, answered>>

StageNew(t, r) ==
    /\ thread[t].at = "stagenew"
    /\ Calls(r)
    /\ rows' = IF Executed(r) THEN Updated(Rows(thread[t].a, TextsOf[thread[t].c]), Pending) ELSE rows
    /\ Step(t, "create")
    /\ Excuse(~Executed(r), "unstaged")
    /\ UNCHANGED <<nodes, dead, buried, answered>>

\* create_artifact's MERGE: a node of that id only gets the new list of chunks.
Merged(a, h, f, S) ==
    [nodes EXCEPT ![a] = IF There(a) THEN [@ EXCEPT !.listed = S]
                         ELSE [hash |-> h, name |-> f, path |-> None, listed |-> S]]

CollidesWithItself(c) == There(c) \/ Taken(c, c)
Collides(c) == ~There(c) /\ Taken(c, c)

Create(t, r) ==
    LET c == thread[t].c  taken == Collides(c) IN
    /\ thread[t].at = "create"
    /\ Calls(r)
    /\ nodes' = IF Executed(r) /\ ~taken THEN Merged(c, c, thread[t].f, TextsOf[c]) ELSE nodes
    /\ IF Raised(r) THEN Answer(t) ELSE Step(t, IF taken THEN "rollback" ELSE "setpath")
    /\ UNCHANGED <<rows, dead, buried, answered, excused>>

\* _rollback_chromadb; the answer is "duplicate".
Rollback(t, r) ==
    /\ thread[t].at = "rollback"
    /\ Calls(r)
    /\ rows' = IF Executed(r) THEN Deleted(Rows(thread[t].c, TextsOf[thread[t].c])) ELSE rows
    /\ Answer(t)
    /\ UNCHANGED <<nodes, dead, buried, answered, excused>>

SetPath(t, r) ==
    /\ thread[t].at = "setpath"
    /\ Calls(r)
    /\ nodes' = IF Executed(r) THEN [nodes EXCEPT ![thread[t].c].path = thread[t].f] ELSE nodes
    /\ IF Raised(r) THEN Answer(t) ELSE Step(t, "flipnew")
    /\ UNCHANGED <<rows, dead, buried, answered, excused>>

FlipNew(t, r) ==
    LET new == Rows(thread[t].c, TextsOf[thread[t].c]) IN
    /\ thread[t].at = "flipnew"
    /\ Calls(r)
    /\ rows' = IF Executed(r) THEN Updated(new, Committed) ELSE rows
    /\ answered' = answered \cup new
    /\ Answer(t)
    /\ UNCHANGED <<nodes, dead, buried, excused>>

-----------------------------------------------------------------------------
(* IngestRecoveryJob: a scan, then recover_artifact for each artifact in it. *)

Max_RECOVERY_ATTEMPTS == 2
Job(r) == Call(r) /\ UNCHANGED <<thread, answered, requests, crashes>>
Go(p) == job' = [job EXCEPT !.at = p]
Done  == job' = IF job.todo = {} THEN Resting ELSE [job EXCEPT !.at = "next"]

\* Rows pending for 60 s, longer than a request takes from staging to its answer.
Staged(t) ==
    IF thread[t].at \in {"update", "create", "rollback", "setpath", "flip", "flipnew"}
    THEN Rows(thread[t].a, TextsOf[thread[t].c]) ELSE {}
OpenOrphans(a) == {x \in PendingOf(a) : ~rows[<<a, x>>].closed /\ \A t \in Threads : <<a, x>> \notin Staged(t)}
Orphans(a) == {x \in PendingOf(a) : \A t \in Threads : <<a, x>> \notin Staged(t)}

\* The lead, whose metadata the node gets, is the first row Chroma returns.
Group(a, lead) ==
    [a |-> a, ids |-> Orphans(a), file |-> rows[<<a, lead>>].file,
     tries |-> 1 + Max({rows[<<a, x>>].tries : x \in Orphans(a)})]

Scan ==
    LET found == {a \in Contents : Orphans(a) # {}} IN
    /\ job.at = "idle" /\ found # {}
    /\ \E lead \in [found -> Texts] :
          /\ \A a \in found : lead[a] \in Orphans(a)
          /\ job' = [Resting EXCEPT !.at = "next", !.todo = {Group(a, lead[a]) : a \in found}]
    /\ Excuse(\E t \in Threads : thread[t].a \in found, "overlapped")
    /\ UNCHANGED <<stores, thread, answered, bounds>>

Take(g) ==
    /\ job.at = "next"
    /\ job' = [Resting EXCEPT !.at = "count", !.todo = job.todo \ {g}, !.g = g]
    /\ UNCHANGED <<stores, thread, answered, excused, bounds>>

JobRows == Rows(job.g.a, job.g.ids)

Count(r) ==
    LET Counted(row) == [row EXCEPT !.tries = job.g.tries] IN
    /\ job.at = "count"
    /\ Job(r)
    /\ rows' = IF Executed(r) THEN Updated(JobRows, Counted) ELSE rows
    /\ Go("read")
    /\ UNCHANGED <<nodes, dead, buried, excused>>

\* _graph_holds_chunks; an error counts as no.
ReadGraph(r) ==
    /\ job.at = "read"
    /\ r # "lost" /\ Job(r)
    /\ Go(IF ~Raised(r) /\ There(job.g.a) /\ nodes[job.g.a].listed = job.g.ids THEN "flip" ELSE "write")
    /\ UNCHANGED <<stores, excused>>

\* _write_artifact: the rows carry no content_hash, so the node gets an empty
\* one; a collision on it is taken for a node that is there.
WriteArtifact(r) ==
    LET a == job.g.a  taken == ~There(a) /\ Taken(a, Blank) IN
    /\ job.at = "write"
    /\ Job(r)
    /\ nodes' = IF Executed(r) /\ ~taken THEN Merged(a, Blank, job.g.file, job.g.ids) ELSE nodes
    /\ excused' = excused \cup When(taken /\ ~Raised(r), "collided")
                          \cup When(There(a) /\ Executed(r), "forwarded")
    /\ IF ~Raised(r) THEN Go("flip")
       ELSE IF job.g.tries < Max_RECOVERY_ATTEMPTS THEN Done
       ELSE job' = [job EXCEPT !.at = "bury", !.left = job.g.ids]
    /\ UNCHANGED <<rows, dead, buried>>

FlipRecovered(r) ==
    /\ job.at = "flip"
    /\ Job(r)
    /\ rows' = IF Executed(r) THEN Updated(JobRows, Committed) ELSE rows
    /\ Done
    /\ UNCHANGED <<nodes, dead, buried, excused>>

Buries(x) == job' = [job EXCEPT !.at = IF job.left = {x} THEN "purge" ELSE @, !.left = @ \ {x}]
Unburied(x, r) ==
    /\ job.at = "bury" /\ x \in job.left
    /\ Job(r)
    /\ Buries(x)
    /\ UNCHANGED <<stores, excused>>

\* _deadletter_orphan for one row, best effort: a push, then a trim to the newest.
Newest(list) == IF Len(list) <= DeadletterMax THEN list
                ELSE SubSeq(list, Len(list) - DeadletterMax + 1, Len(list))

Bury(x, r) ==
    LET k == <<job.g.a, x>>  pushed == Append(dead, k) IN
    /\ job.at = "bury" /\ x \in job.left
    /\ Job(r)
    /\ dead' = CASE r = "ok" -> Newest(pushed) [] r = "lost" -> pushed [] r = "refused" -> dead
    /\ buried' = IF Executed(r) THEN buried \cup {k} ELSE buried
    /\ Excuse(~Executed(r), "unburied")
    /\ Buries(x)
    /\ UNCHANGED <<nodes, rows>>

Purge(r) ==
    /\ job.at = "purge"
    /\ Job(r)
    /\ rows' = IF Executed(r) THEN Deleted(JobRows) ELSE rows
    /\ Done
    /\ UNCHANGED <<nodes, dead, buried, excused>>

-----------------------------------------------------------------------------

Crash ==
    /\ crashes < MaxCrashes
    /\ crashes' = crashes + 1
    /\ thread' = [t \in Threads |-> Idle]
    /\ job' = Resting
    /\ Excuse(\E t \in Threads : thread[t].at \in {"close", "stage", "stagenew"}, "unstaged")
    /\ UNCHANGED <<stores, answered, requests, faults>>

Serve(t, r) ==
    \/ CheckDuplicate(t, r) \/ Find(t, r) \/ (\E gone \in BOOLEAN : NotePath(t, r, gone))
    \/ ReadCurrent(t, r) \/ Upsert(t, r) \/ CloseRows(t, r) \/ Stage(t, r)
    \/ Update(t, r) \/ Flip(t, r) \/ SetProperties(t, r)
    \/ Write(t, r) \/ StageNew(t, r) \/ Create(t, r) \/ Rollback(t, r) \/ SetPath(t, r) \/ FlipNew(t, r)

Recover(r) ==
    Count(r) \/ ReadGraph(r) \/ WriteArtifact(r) \/ FlipRecovered(r) \/ Purge(r)
    \/ (\E x \in job.left : Bury(x, r))

GoesOn == (\E r \in Reply : (\E t \in Threads : Serve(t, r)) \/ Recover(r))
          \/ Scan \/ (\E g \in job.todo : Take(g))

Next ==
    \/ GoesOn
    \/ \E t \in Threads, c \in Contents, f \in Files : Request(t, c, f)
    \/ Crash

Spec == Init /\ [][Next]_vars

FairSpec == Spec /\ WF_vars(GoesOn)
=============================================================================
