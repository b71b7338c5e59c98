---------------------------- MODULE IngestionProofs ----------------------------
(***************************************************************************)
(* What is proved of ingestion and its recovery, for any contents, texts,   *)
(* files and requests, and any number of failed calls and deaths.          *)
(***************************************************************************)
EXTENDS IngestionProperties, TLAPS

-----------------------------------------------------------------------------
(* Types.                                                                  *)

\* The points of a request that re-ingests an artifact, that makes a new one, and
\* those from which it has written rows.
Reingesting == {"current", "upsert", "close", "stage", "update", "flip", "properties"}
MakingNew == {"stagenew", "create", "rollback", "setpath", "flipnew"}
Writing == {"close", "stage", "update", "flip", "properties"} \cup MakingNew
Points == {"idle", "duplicate", "note", "find", "write"} \cup Reingesting \cup MakingNew
JobPoints == {"idle", "next", "count", "read", "write", "flip", "bury", "purge"}

Row(r) ==
    r \in [mark : {"none", "bare", "pending", "committed"}, closed : BOOLEAN, tries : {r.tries},
          file : Files \cup {None}]

\* Rows as a request has read them.
Read(m) == DOMAIN m \in SUBSET Texts /\ \A s \in DOMAIN m : Row(m[s]) /\ m[s].mark # "none"

Thread(w) ==
    /\ w \in [at : Points, c : Contents \cup {None}, f : Files \cup {None}, a : Contents \cup {None},
              cur : {w.cur}, via : {"path", "name"}]
    /\ Read(w.cur)

StoreTypes ==
    /\ nodes \in [Contents -> Node \cup {None}]
    /\ \A b \in Contents, s \in Texts : Row(rows[<<b, s>>])
    /\ buried \subseteq Keys /\ answered \subseteq Keys

\* A request that goes on from an artifact has found its node, and one that makes
\* a new artifact makes the one named after its content.
ThreadTypes ==
    /\ DOMAIN thread = Threads
    /\ \A t \in Threads :
          /\ Thread(thread[t])
          /\ thread[t].at # "idle" => thread[t].c \in Contents /\ thread[t].f \in Files
          /\ thread[t].at \in Reingesting \cup {"note"} => thread[t].a \in Contents
               /\ There(thread[t].a)
          /\ thread[t].at \in MakingNew => thread[t].a = thread[t].c
          /\ thread[t].at \in {"setpath", "flipnew"} => There(thread[t].c)

Grp(g) ==
    /\ g.a \in Contents \/ (g.a = None /\ g.ids = {})
    /\ g.ids \subseteq Texts /\ g.file \in Files \cup {None}

JobTypes ==
    /\ job = [at |-> job.at, todo |-> job.todo, g |-> job.g, left |-> job.left]
    /\ job.left \subseteq job.g.ids /\ (job.at # "bury" => job.left = {})
    /\ job.at \in JobPoints
    /\ Grp(job.g) /\ \A g \in job.todo : Grp(g) /\ g.a \in Contents
    /\ job.at \notin {"idle", "next"} => job.g.a \in Contents
    /\ job.at = "idle" => job = Resting

Ty == StoreTypes /\ ThreadTypes /\ JobTypes

LEMMA Constants ==
  /\ \A c \in Contents : TextsOf[c] \in SUBSET Texts /\ TextsOf[c] # {}
  /\ Blank \notin Contents /\ None \notin Contents \cup Files /\ None # Blank /\ None \notin Node
  BY ConstantsAssumption

\* What each call to Chroma does to one row.
LEMMA MarkedRow ==
  ASSUME NEW r, Row(r), NEW m \in {"none", "bare", "pending", "committed"}
  PROVE  Row(Mark(m, r)) /\ Mark(m, r).mark = m /\ Mark(m, r).closed = r.closed
  BY DEF Row, Mark

LEMMA UpsertedRow ==
  ASSUME NEW r, Row(r), NEW f \in Files
  PROVE  /\ Row(Upserted(r, f, TRUE)) /\ Row(Upserted(r, f, FALSE))
         /\ Upserted(r, f, TRUE).mark = IF r.mark = "none" THEN "bare" ELSE r.mark
         /\ Upserted(r, f, FALSE).mark = IF r.mark = "none" THEN "bare" ELSE r.mark
         /\ Upserted(r, f, TRUE).closed = FALSE /\ Upserted(r, f, FALSE).closed = r.closed
  BY DEF Row, Upserted

\* Between two states: the rows of a with a text in S get mark m, if they are there.
Remarked(a, S, m) ==
    \A b \in Contents, s \in Texts :
        /\ Row(rows'[<<b, s>>]) /\ rows'[<<b, s>>].closed = rows[<<b, s>>].closed
        /\ rows'[<<b, s>>].mark = IF b = a /\ s \in S
             /\ rows[<<b, s>>].mark # "none" THEN m ELSE rows[<<b, s>>].mark

LEMMA PendingEffect ==
  ASSUME StoreTypes, NEW a \in Contents, NEW S \in SUBSET Texts,
         rows' = Updated(Rows(a, S), Pending)
  PROVE  Remarked(a, S, "pending")
<1>1. \A b \in Contents, s \in Texts :
        rows'[<<b, s>>] = IF b = a /\ s \in S
          /\ rows[<<b, s>>].mark # "none" THEN Mark("pending", rows[<<b, s>>])
                      ELSE rows[<<b, s>>]
  BY DEF Updated, Rows, Keys, Pending
<1>2. \A b \in Contents, s \in Texts :
        LET new == Mark("pending", rows[<<b, s>>]) IN
        Row(new) /\ new.mark = "pending" /\ new.closed = rows[<<b, s>>].closed
  BY MarkedRow DEF StoreTypes
<1> QED
  BY <1>1, <1>2 DEF Remarked, StoreTypes

LEMMA CommittedEffect ==
  ASSUME StoreTypes, NEW a \in Contents, NEW S \in SUBSET Texts,
         rows' = Updated(Rows(a, S), Committed)
  PROVE  Remarked(a, S, "committed")
<1>1. \A b \in Contents, s \in Texts :
        rows'[<<b, s>>] = IF b = a /\ s \in S
          /\ rows[<<b, s>>].mark # "none" THEN Mark("committed", rows[<<b, s>>])
                      ELSE rows[<<b, s>>]
  BY DEF Updated, Rows, Keys, Committed
<1>2. \A b \in Contents, s \in Texts :
        LET new == Mark("committed", rows[<<b, s>>]) IN
        Row(new) /\ new.mark = "committed" /\ new.closed = rows[<<b, s>>].closed
  BY MarkedRow DEF StoreTypes
<1> QED
  BY <1>1, <1>2 DEF Remarked, StoreTypes

\* The rows of a with a text in S are written; Reopened, they are open afterwards.
Wrote(a, S) ==
    \A b \in Contents, s \in Texts :
        /\ Row(rows'[<<b, s>>])
        /\ rows'[<<b, s>>].mark = IF b = a /\ s \in S /\ rows[<<b, s>>].mark = "none" THEN "bare"
                                  ELSE rows[<<b, s>>].mark
        /\ ~(b = a /\ s \in S) => rows'[<<b, s>>].closed = rows[<<b, s>>].closed

LEMMA ReopenEffect ==
  ASSUME StoreTypes, NEW a \in Contents, NEW S \in SUBSET Texts, NEW f \in Files,
         rows' = Written(Rows(a, S), f, TRUE)
  PROVE  Wrote(a, S) /\ \A s \in S : rows'[<<a, s>>].closed = FALSE
<1>1. \A b \in Contents, s \in Texts :
        rows'[<<b, s>>] = IF b = a /\ s \in S THEN Upserted(rows[<<b, s>>], f, TRUE)
                                             ELSE rows[<<b, s>>]
  BY DEF Written, Rows, Keys
<1>2. \A b \in Contents, s \in Texts : Row(rows[<<b, s>>])
  BY DEF StoreTypes
<1>3. \A b \in Contents, s \in Texts :
        /\ Row(Upserted(rows[<<b, s>>], f, TRUE))
        /\ Upserted(rows[<<b, s>>], f, TRUE).mark = (IF rows[<<b, s>>].mark = "none" THEN "bare"
                                                   ELSE rows[<<b, s>>].mark)
        /\ Upserted(rows[<<b, s>>], f, TRUE).closed = FALSE
  BY <1>2, UpsertedRow
<1>4. \A s \in S : rows'[<<a, s>>].closed = FALSE
  BY <1>1, <1>3
<1>5. \A b \in Contents, s \in Texts : ~(b = a /\ s \in S) => rows'[<<b, s>>] = rows[<<b, s>>]
  BY <1>1
<1>6. \A s \in S : rows'[<<a, s>>] = Upserted(rows[<<a, s>>], f, TRUE)
  BY <1>1
<1>7. ASSUME NEW b \in Contents, NEW s \in Texts
      PROVE  /\ Row(rows'[<<b, s>>])
             /\ rows'[<<b, s>>].mark =
                  IF b = a /\ s \in S /\ rows[<<b, s>>].mark = "none" THEN "bare"
                  ELSE rows[<<b, s>>].mark
             /\ ~(b = a /\ s \in S) => rows'[<<b, s>>].closed = rows[<<b, s>>].closed
  <2>1. CASE b = a /\ s \in S
    BY <1>3, <1>6, <2>1
  <2>2. CASE ~(b = a /\ s \in S)
    BY <1>2, <1>5, <2>2
  <2> QED
    BY <2>1, <2>2
<1>8. Wrote(a, S)
  BY <1>7 DEF Wrote
<1> QED
  BY <1>4, <1>8

LEMMA UpsertEffect ==
  ASSUME StoreTypes, NEW a \in Contents, NEW S \in SUBSET Texts, NEW f \in Files,
         rows' = Written(Rows(a, S), f, FALSE)
  PROVE  Wrote(a, S) /\ \A s \in S : rows'[<<a, s>>].closed = rows[<<a, s>>].closed
<1>1. \A b \in Contents, s \in Texts :
        rows'[<<b, s>>] = IF b = a /\ s \in S THEN Upserted(rows[<<b, s>>], f, FALSE)
                                             ELSE rows[<<b, s>>]
  BY DEF Written, Rows, Keys
<1>2. \A b \in Contents, s \in Texts : Row(rows[<<b, s>>])
  BY DEF StoreTypes
<1>3. \A b \in Contents, s \in Texts :
        /\ Row(Upserted(rows[<<b, s>>], f, FALSE))
        /\ Upserted(rows[<<b, s>>], f, FALSE).mark = (IF rows[<<b, s>>].mark = "none" THEN "bare"
                                                   ELSE rows[<<b, s>>].mark)
        /\ Upserted(rows[<<b, s>>], f, FALSE).closed = rows[<<b, s>>].closed
  BY <1>2, UpsertedRow
<1>4. \A s \in S : rows'[<<a, s>>].closed = rows[<<a, s>>].closed
  BY <1>1, <1>3
<1>5. \A b \in Contents, s \in Texts : ~(b = a /\ s \in S) => rows'[<<b, s>>] = rows[<<b, s>>]
  BY <1>1
<1>6. \A s \in S : rows'[<<a, s>>] = Upserted(rows[<<a, s>>], f, FALSE)
  BY <1>1
<1>7. ASSUME NEW b \in Contents, NEW s \in Texts
      PROVE  /\ Row(rows'[<<b, s>>])
             /\ rows'[<<b, s>>].mark =
                  IF b = a /\ s \in S /\ rows[<<b, s>>].mark = "none" THEN "bare"
                  ELSE rows[<<b, s>>].mark
             /\ ~(b = a /\ s \in S) => rows'[<<b, s>>].closed = rows[<<b, s>>].closed
  <2>1. CASE b = a /\ s \in S
    BY <1>3, <1>6, <2>1
  <2>2. CASE ~(b = a /\ s \in S)
    BY <1>2, <1>5, <2>2
  <2> QED
    BY <2>1, <2>2
<1>8. Wrote(a, S)
  BY <1>7 DEF Wrote
<1> QED
  BY <1>4, <1>8

Erased(a, S) ==
    \A b \in Contents, s \in Texts :
        /\ Row(rows'[<<b, s>>])
        /\ rows'[<<b, s>>].closed = IF b = a /\ s \in S THEN FALSE ELSE rows[<<b, s>>].closed
        /\ rows'[<<b, s>>].mark = IF b = a /\ s \in S THEN "none" ELSE rows[<<b, s>>].mark

LEMMA DeleteEffect ==
  ASSUME StoreTypes, NEW a \in Contents, NEW S \in SUBSET Texts, rows' = Deleted(Rows(a, S))
  PROVE  Erased(a, S)
<1>1. \A b \in Contents, s \in Texts :
        rows'[<<b, s>>] = IF b = a /\ s \in S THEN NoRow ELSE rows[<<b, s>>]
  BY DEF Deleted, Rows, Keys
<1>2. Row(NoRow) /\ NoRow.mark = "none" /\ NoRow.closed = FALSE
  BY DEF NoRow, Row
<1>3. \A b \in Contents, s \in Texts : Row(rows[<<b, s>>])
  BY DEF StoreTypes
<1> QED
  BY <1>1, <1>2, <1>3 DEF Erased

\* The rows of a with a text in S are closed, if they are there.
Shut(a, S) ==
    \A b \in Contents, s \in Texts :
        /\ Row(rows'[<<b, s>>]) /\ (rows'[<<b, s>>].mark = "none" <=> rows[<<b, s>>].mark = "none")
        /\ rows'[<<b, s>>].closed = IF b = a /\ s \in S /\ rows[<<b, s>>].mark # "none" THEN TRUE
                                ELSE rows[<<b, s>>].closed
SameMarks == \A b \in Contents, s \in Texts : rows'[<<b, s>>].mark = rows[<<b, s>>].mark

LEMMA ClosedRow ==
  ASSUME NEW r, Row(r), NEW q, Row(q), q.mark # "none", r.mark # "none"
  PROVE  Row(Close(r, q)) /\ Close(r, q).mark # "none" /\ Close(r, q).closed = TRUE
  BY DEF Row, Close

LEMMA CloseEffect ==
  ASSUME StoreTypes, NEW t \in Threads, NEW r \in Reply, CloseRows(t, r), Executed(r),
         thread[t].a \in Contents, Read(thread[t].cur)
  PROVE  Shut(thread[t].a, DOMAIN thread[t].cur \ TextsOf[thread[t].c])
<1>1. \A b \in Contents, s \in Texts :
        rows'[<<b, s>>] = IF b = thread[t].a /\ s \in DOMAIN thread[t].cur \ TextsOf[thread[t].c]
          /\ rows[<<b, s>>].mark # "none"
                      THEN Close(rows[<<b, s>>], thread[t].cur[s]) ELSE rows[<<b, s>>]
  BY DEF CloseRows, Rows, Keys
<1>2. \A b \in Contents, s \in Texts :
        s \in DOMAIN thread[t].cur /\ rows[<<b, s>>].mark # "none" =>
        LET new == Close(rows[<<b, s>>], thread[t].cur[s]) IN
        Row(new) /\ new.mark # "none" /\ new.closed = TRUE
  BY ClosedRow DEF Read, StoreTypes
<1>3. \A b \in Contents, s \in Texts : Row(rows[<<b, s>>])
  BY DEF StoreTypes
<1> QED
  BY <1>1, <1>2, <1>3 DEF Shut

\* A call that leaves mark and closed flag of every row.
SameRows == \A b \in Contents, s \in Texts :
                Row(rows'[<<b, s>>]) /\ rows'[<<b, s>>].mark = rows[<<b, s>>].mark
                  /\ rows'[<<b, s>>].closed = rows[<<b, s>>].closed

LEMMA CountEffect ==
  ASSUME StoreTypes, NEW r \in Reply, Count(r)
  PROVE  SameRows
<1> DEFINE Counted(row) == [row EXCEPT !.tries = job.g.tries]
<1>1. \A b \in Contents, s \in Texts : rows'[<<b, s>>] \in {rows[<<b, s>>], Counted(rows[<<b, s>>])}
  BY DEF Count, Updated, Rows, Keys, JobRows
<1>2. ASSUME NEW row, Row(row)
      PROVE  Row(Counted(row)) /\ Counted(row).mark = row.mark /\ Counted(row).closed = row.closed
  BY <1>2 DEF Row
<1> HIDE DEF Counted
<1> QED
  BY <1>1, <1>2 DEF SameRows, StoreTypes

LEMMA UntouchedRows == StoreTypes /\ UNCHANGED rows => SameRows
  BY DEF SameRows, StoreTypes

-----------------------------------------------------------------------------

Grown == \A b \in Contents : nodes[b] # None => nodes'[b] # None

\* A graph call gives an artifact a node, or changes fields of the one it has.
LEMMA NodeFields ==
  ASSUME NEW n \in Node, NEW f \in Files, NEW c \in Contents, NEW S \in SUBSET Texts
  PROVE  /\ [n EXCEPT !.path = f] \in Node /\ [n EXCEPT !.path = f, !.name = f] \in Node
         /\ [n EXCEPT !.path = f, !.name = n.name] \in Node
         /\ [n EXCEPT !.hash = c, !.listed = S] \in Node /\ [n EXCEPT !.listed = S] \in Node
  BY DEF Node

LEMMA NodeIsThere ==
  ASSUME Ty, NEW a \in Contents
  PROVE  /\ There(a) => nodes[a] \in Node
         /\ \A n \in Node : n # None
  BY Constants DEF Ty, StoreTypes, There

LEMMA MergedTyped ==
  ASSUME Ty, NEW a \in Contents, NEW h \in Contents \cup {Blank}, NEW f \in Files \cup {None},
         NEW S \in SUBSET Texts, nodes' = Merged(a, h, f, S)
  PROVE  nodes' \in [Contents -> Node \cup {None}] /\ Grown /\ nodes'[a] # None
<1>1. There(a) => [nodes[a] EXCEPT !.listed = S] \in Node
  BY NodeIsThere DEF Node
<1>2. [hash |-> h, name |-> f, path |-> None, listed |-> S] \in Node
  BY DEF Node
<1> QED
  BY <1>1, <1>2, NodeIsThere DEF Merged, Grown, Ty, StoreTypes

LEMMA NextNodes ==
  Ty /\ [Next]_vars => nodes' \in [Contents -> Node \cup {None}] /\ Grown
<1> SUFFICES ASSUME Ty, [Next]_vars PROVE nodes' \in [Contents -> Node \cup {None}] /\ Grown
  OBVIOUS
<1> DEFINE Fine == nodes' \in [Contents -> Node \cup {None}] /\ Grown
<1>0. UNCHANGED nodes => Fine
  BY DEF Ty, StoreTypes, Grown
<1>00. ASSUME NEW a \in Contents, NEW n \in Node, nodes' = [nodes EXCEPT ![a] = n] PROVE Fine
  BY <1>00, NodeIsThere DEF Ty, StoreTypes, Grown
<1> HIDE DEF Fine
<1>1. CASE UNCHANGED vars
  BY <1>0, <1>1 DEF vars, stores, Fine
<1>2. ASSUME NEW t \in Threads, NEW r \in Reply, CheckDuplicate(t, r) PROVE Fine
  BY <1>2, <1>0 DEF CheckDuplicate, stores
<1>3. ASSUME NEW t \in Threads, NEW r \in Reply, Find(t, r) PROVE Fine
  BY <1>3, <1>0 DEF Find, stores
<1>4. ASSUME NEW t \in Threads, NEW r \in Reply, NEW gone \in BOOLEAN, NotePath(t, r, gone)
       PROVE Fine
  <2>1. thread[t].a \in Contents /\ There(thread[t].a) /\ thread[t].f \in Files
          /\ thread[t].c \in Contents
    BY <1>4 DEF NotePath, Ty, ThreadTypes
  <2> DEFINE n == nodes[thread[t].a]
  <2>2. n \in Node
    BY <2>1, NodeIsThere
  <2>3. CASE UNCHANGED nodes
    BY <2>3, <1>0
  <2>4. CASE nodes' = [nodes EXCEPT ![thread[t].a].path = thread[t].f,
                              ![thread[t].a].name = IF n.path = None THEN @ ELSE thread[t].f]
    <3>1. nodes' = [nodes EXCEPT ![thread[t].a] = [n EXCEPT !.path = thread[t].f, !.name = n.name]]
          \/ nodes' = [nodes EXCEPT ![thread[t].a] = [n EXCEPT !.path = thread[t].f,
               !.name = thread[t].f]]
      BY <2>4
    <3> QED
      BY <2>1, <2>2, <3>1, <1>00, NodeFields
  <2> QED
    BY <1>4, <2>3, <2>4 DEF NotePath
<1>5. ASSUME NEW t \in Threads, NEW r \in Reply, ReadCurrent(t, r) PROVE Fine
  BY <1>5, <1>0 DEF ReadCurrent, stores
<1>6. ASSUME NEW t \in Threads, NEW r \in Reply, Upsert(t, r) PROVE Fine
  BY <1>6, <1>0 DEF Upsert, stores
<1>7. ASSUME NEW t \in Threads, NEW r \in Reply, CloseRows(t, r) PROVE Fine
  BY <1>7, <1>0 DEF CloseRows, stores
<1>8. ASSUME NEW t \in Threads, NEW r \in Reply, Stage(t, r) PROVE Fine
  BY <1>8, <1>0 DEF Stage, stores
<1>9. ASSUME NEW t \in Threads, NEW r \in Reply, Update(t, r) PROVE Fine
  <2>1. thread[t].a \in Contents /\ There(thread[t].a) /\ thread[t].f \in Files
          /\ thread[t].c \in Contents
    BY <1>9 DEF Update, Ty, ThreadTypes, Reingesting
  <2> DEFINE n == nodes[thread[t].a]
  <2>2. n \in Node /\ TextsOf[thread[t].c] \in SUBSET Texts
    BY <2>1, NodeIsThere, Constants
  <2>3. UNCHANGED nodes \/ nodes' = [nodes EXCEPT ![thread[t].a] =
                                 [n EXCEPT !.hash = thread[t].c, !.listed = TextsOf[thread[t].c]]]
    BY <1>9 DEF Update
  <2> QED
    BY <2>1, <2>2, <2>3, <1>0, <1>00, NodeFields
<1>10. ASSUME NEW t \in Threads, NEW r \in Reply, Flip(t, r) PROVE Fine
  BY <1>10, <1>0 DEF Flip, stores
<1>11. ASSUME NEW t \in Threads, NEW r \in Reply, SetProperties(t, r) PROVE Fine
  <2>1. thread[t].a \in Contents /\ There(thread[t].a) /\ thread[t].f \in Files
          /\ thread[t].c \in Contents
    BY <1>11 DEF SetProperties, Ty, ThreadTypes, Reingesting
  <2>2. nodes[thread[t].a] \in Node
    BY <2>1, NodeIsThere
  <2>3. UNCHANGED nodes \/ nodes' = [nodes EXCEPT ![thread[t].a] =
                                 [nodes[thread[t].a] EXCEPT !.path = thread[t].f]]
    BY <1>11 DEF SetProperties
  <2> QED
    BY <2>1, <2>2, <2>3, <1>0, <1>00, NodeFields, Constants
<1>12. ASSUME NEW t \in Threads, NEW r \in Reply, Write(t, r) PROVE Fine
  BY <1>12, <1>0 DEF Write, stores
<1>13. ASSUME NEW t \in Threads, NEW r \in Reply, StageNew(t, r) PROVE Fine
  BY <1>13, <1>0 DEF StageNew, stores
<1>14. ASSUME NEW t \in Threads, NEW r \in Reply, Create(t, r) PROVE Fine
  <2>1. thread[t].f \in Files /\ thread[t].c \in Contents
    BY <1>14 DEF Create, Ty, ThreadTypes
  <2>2. TextsOf[thread[t].c] \in SUBSET Texts
    BY <2>1, Constants
  <2>3. UNCHANGED nodes
          \/ nodes' = Merged(thread[t].c, thread[t].c, thread[t].f, TextsOf[thread[t].c])
    BY <1>14 DEF Create
  <2> QED
    BY <2>1, <2>2, <2>3, <1>0, MergedTyped DEF Fine
<1>15. ASSUME NEW t \in Threads, NEW r \in Reply, Rollback(t, r) PROVE Fine
  BY <1>15, <1>0 DEF Rollback, stores
<1>16. ASSUME NEW t \in Threads, NEW r \in Reply, SetPath(t, r) PROVE Fine
  <2>1. There(thread[t].c) /\ thread[t].f \in Files /\ thread[t].c \in Contents
    BY <1>16 DEF SetPath, Ty, ThreadTypes
  <2>2. nodes[thread[t].c] \in Node
    BY <2>1, NodeIsThere
  <2>3. UNCHANGED nodes \/ nodes' = [nodes EXCEPT ![thread[t].c] =
                                 [nodes[thread[t].c] EXCEPT !.path = thread[t].f]]
    BY <1>16 DEF SetPath
  <2> QED
    BY <2>1, <2>2, <2>3, <1>0, <1>00, NodeFields, Constants
<1>17. ASSUME NEW t \in Threads, NEW r \in Reply, FlipNew(t, r) PROVE Fine
  BY <1>17, <1>0 DEF FlipNew, stores
<1>18. ASSUME NEW r \in Reply, Count(r) PROVE Fine
  BY <1>18, <1>0 DEF Count, stores
<1>19. ASSUME NEW r \in Reply, ReadGraph(r) PROVE Fine
  BY <1>19, <1>0 DEF ReadGraph, stores
<1>20. ASSUME NEW r \in Reply, WriteArtifact(r) PROVE Fine
  <2>1. job.g.a \in Contents /\ job.g.file \in Files \cup {None} /\ job.g.ids \in SUBSET Texts
    BY <1>20 DEF WriteArtifact, Ty, JobTypes, Grp
  <2>2. UNCHANGED nodes \/ nodes' = Merged(job.g.a, Blank, job.g.file, job.g.ids)
    BY <1>20 DEF WriteArtifact
  <2> QED
    BY <2>1, <2>2, <1>0, MergedTyped DEF Fine
<1>21. ASSUME NEW r \in Reply, FlipRecovered(r) PROVE Fine
  BY <1>21, <1>0 DEF FlipRecovered, stores
<1>22. ASSUME NEW r \in Reply, NEW x \in job.left, Bury(x, r) PROVE Fine
  BY <1>22, <1>0 DEF Bury, stores
<1>23. ASSUME NEW r \in Reply, Purge(r) PROVE Fine
  BY <1>23, <1>0 DEF Purge, stores
<1>24. ASSUME Scan PROVE Fine
  BY <1>24, <1>0 DEF Scan, stores
<1>25. ASSUME NEW g \in job.todo, Take(g) PROVE Fine
  BY <1>25, <1>0 DEF Take, stores
<1>26. ASSUME NEW t \in Threads, NEW c \in Contents, NEW f \in Files, Request(t, c, f) PROVE
       Fine
  BY <1>26, <1>0 DEF Request, stores
<1>27. ASSUME Crash PROVE Fine
  BY <1>27, <1>0 DEF Crash, stores
<1>28. ASSUME NEW t \in Threads, NEW r \in Reply, Serve(t, r) PROVE Fine
  BY <1>28, <1>2, <1>3, <1>4, <1>5, <1>6, <1>7, <1>8, <1>9, <1>10, <1>11, <1>12, <1>13, <1>14,
     <1>15, <1>16, <1>17 DEF Serve
<1>29. ASSUME NEW r \in Reply, Recover(r) PROVE Fine
  BY <1>29, <1>18, <1>19, <1>20, <1>21, <1>22, <1>23 DEF Recover
<1> QED
  BY <1>1, <1>28, <1>29, <1>24, <1>25, <1>26, <1>27 DEF Next, GoesOn, Fine

-----------------------------------------------------------------------------
(* What each call that writes rows does to them.                           *)

LEMMA WriterTyped ==
  ASSUME Ty, NEW t \in Threads
  PROVE  /\ thread[t].at \in Reingesting \cup MakingNew => thread[t].a \in Contents
         /\ thread[t].at # "idle" => /\ thread[t].c \in Contents /\ thread[t].f \in Files
                                     /\ TextsOf[thread[t].c] \in SUBSET Texts
         /\ Read(thread[t].cur)
  BY Constants DEF Ty, ThreadTypes, Thread, Reingesting, MakingNew

LEMMA JobTyped ==
  Ty /\ job.at \notin {"idle", "next"} => job.g.a \in Contents /\ job.g.ids \in SUBSET Texts
  BY DEF Ty, JobTypes, Grp

LEMMA UpsertRows ==
  ASSUME Ty, NEW t \in Threads, NEW r \in Reply, Upsert(t, r)
  PROVE  /\ Executed(r) => Wrote(thread[t].a, TextsOf[thread[t].c])
         /\ Executed(r) => \A s \in TextsOf[thread[t].c] : rows'[<<thread[t].a, s>>].closed = FALSE
         /\ ~Executed(r) => SameRows
<1>1. thread[t].at = "upsert"
  BY DEF Upsert, Reingest
<1>2. /\ thread[t].a \in Contents \/ "upsert" = "write"
      /\ thread[t].c \in Contents /\ thread[t].f \in Files /\ TextsOf[thread[t].c] \in SUBSET Texts
      /\ Read(thread[t].cur)
  BY <1>1, WriterTyped DEF Reingesting, MakingNew
<1>3. CASE Executed(r)
  BY <1>2, <1>3, ReopenEffect DEF Upsert, Ty
<1>4. CASE ~Executed(r)
  BY <1>4, UntouchedRows DEF Upsert, Ty
<1> QED
  BY <1>3, <1>4

LEMMA WriteRows ==
  ASSUME Ty, NEW t \in Threads, NEW r \in Reply, Write(t, r)
  PROVE  /\ Executed(r) => Wrote(thread[t].c, TextsOf[thread[t].c])
         /\ Executed(r)
              => \A s \in TextsOf[thread[t].c] : rows'[<<thread[t].c,
                s>>].closed = rows[<<thread[t].c, s>>].closed
         /\ ~Executed(r) => SameRows
<1>1. thread[t].at = "write"
  BY DEF Write
<1>2. /\ thread[t].a \in Contents \/ "write" = "write"
      /\ thread[t].c \in Contents /\ thread[t].f \in Files /\ TextsOf[thread[t].c] \in SUBSET Texts
      /\ Read(thread[t].cur)
  BY <1>1, WriterTyped DEF Reingesting, MakingNew
<1>3. CASE Executed(r)
  BY <1>2, <1>3, UpsertEffect DEF Write, Ty
<1>4. CASE ~Executed(r)
  BY <1>4, UntouchedRows DEF Write, Ty
<1> QED
  BY <1>3, <1>4

LEMMA CloseRowsRows ==
  ASSUME Ty, NEW t \in Threads, NEW r \in Reply, CloseRows(t, r)
  PROVE  /\ Executed(r) => Shut(thread[t].a, DOMAIN thread[t].cur \ TextsOf[thread[t].c])
         /\ "reverted" \notin excused' => SameMarks
         /\ ~Executed(r) => SameRows
<1>1. thread[t].at = "close"
  BY DEF CloseRows, Reingest
<1>2. /\ thread[t].a \in Contents \/ "close" = "write"
      /\ thread[t].c \in Contents /\ thread[t].f \in Files /\ TextsOf[thread[t].c] \in SUBSET Texts
      /\ Read(thread[t].cur)
  BY <1>1, WriterTyped DEF Reingesting, MakingNew
<1>3. "reverted" \notin excused' => SameMarks
  BY DEF CloseRows, When, SameMarks, Keys
<1>4. CASE Executed(r)
  <2>1. thread[t].a \in Contents /\ StoreTypes
    BY <1>2 DEF Ty
  <2> QED
    BY <1>2, <1>3, <1>4, <2>1, CloseEffect
<1>5. CASE ~Executed(r)
  <2>1. UNCHANGED rows /\ StoreTypes
    BY <1>5 DEF CloseRows, Ty
  <2> QED
    BY <1>3, <1>5, <2>1, UntouchedRows
<1> QED
  BY <1>4, <1>5

LEMMA StageRows ==
  ASSUME Ty, NEW t \in Threads, NEW r \in Reply, Stage(t, r)
  PROVE  /\ Executed(r) => Remarked(thread[t].a, TextsOf[thread[t].c], "pending")
         /\ ~Executed(r) => SameRows
<1>1. thread[t].at = "stage"
  BY DEF Stage
<1>2. /\ thread[t].a \in Contents \/ "stage" = "write"
      /\ thread[t].c \in Contents /\ thread[t].f \in Files /\ TextsOf[thread[t].c] \in SUBSET Texts
      /\ Read(thread[t].cur)
  BY <1>1, WriterTyped DEF Reingesting, MakingNew
<1>3. CASE Executed(r)
  BY <1>2, <1>3, PendingEffect DEF Stage, Ty
<1>4. CASE ~Executed(r)
  BY <1>4, UntouchedRows DEF Stage, Ty
<1> QED
  BY <1>3, <1>4

LEMMA StageNewRows ==
  ASSUME Ty, NEW t \in Threads, NEW r \in Reply, StageNew(t, r)
  PROVE  /\ Executed(r) => Remarked(thread[t].a, TextsOf[thread[t].c], "pending")
         /\ ~Executed(r) => SameRows
<1>1. thread[t].at = "stagenew"
  BY DEF StageNew
<1>2. /\ thread[t].a \in Contents \/ "stagenew" = "write"
      /\ thread[t].c \in Contents /\ thread[t].f \in Files /\ TextsOf[thread[t].c] \in SUBSET Texts
      /\ Read(thread[t].cur)
  BY <1>1, WriterTyped DEF Reingesting, MakingNew
<1>3. CASE Executed(r)
  BY <1>2, <1>3, PendingEffect DEF StageNew, Ty
<1>4. CASE ~Executed(r)
  BY <1>4, UntouchedRows DEF StageNew, Ty
<1> QED
  BY <1>3, <1>4

LEMMA FlipRows ==
  ASSUME Ty, NEW t \in Threads, NEW r \in Reply, Flip(t, r)
  PROVE  /\ Executed(r) => Remarked(thread[t].a, TextsOf[thread[t].c], "committed")
         /\ ~Executed(r) => SameRows
<1>1. thread[t].at = "flip"
  BY DEF Flip
<1>2. /\ thread[t].a \in Contents \/ "flip" = "write"
      /\ thread[t].c \in Contents /\ thread[t].f \in Files /\ TextsOf[thread[t].c] \in SUBSET Texts
      /\ Read(thread[t].cur)
  BY <1>1, WriterTyped DEF Reingesting, MakingNew
<1>3. CASE Executed(r)
  BY <1>2, <1>3, CommittedEffect DEF Flip, Ty
<1>4. CASE ~Executed(r)
  BY <1>4, UntouchedRows DEF Flip, Ty
<1> QED
  BY <1>3, <1>4

LEMMA FlipNewRows ==
  ASSUME Ty, NEW t \in Threads, NEW r \in Reply, FlipNew(t, r)
  PROVE  /\ Executed(r) => Remarked(thread[t].c, TextsOf[thread[t].c], "committed")
         /\ ~Executed(r) => SameRows
<1>1. thread[t].at = "flipnew"
  BY DEF FlipNew
<1>2. /\ thread[t].a \in Contents \/ "flipnew" = "write"
      /\ thread[t].c \in Contents /\ thread[t].f \in Files /\ TextsOf[thread[t].c] \in SUBSET Texts
      /\ Read(thread[t].cur)
  BY <1>1, WriterTyped DEF Reingesting, MakingNew
<1>3. CASE Executed(r)
  BY <1>2, <1>3, CommittedEffect DEF FlipNew, Ty
<1>4. CASE ~Executed(r)
  BY <1>4, UntouchedRows DEF FlipNew, Ty
<1> QED
  BY <1>3, <1>4

LEMMA RollbackRows ==
  ASSUME Ty, NEW t \in Threads, NEW r \in Reply, Rollback(t, r)
  PROVE  /\ Executed(r) => Erased(thread[t].c, TextsOf[thread[t].c])
         /\ ~Executed(r) => SameRows
<1>1. thread[t].at = "rollback"
  BY DEF Rollback
<1>2. /\ thread[t].a \in Contents \/ "rollback" = "write"
      /\ thread[t].c \in Contents /\ thread[t].f \in Files /\ TextsOf[thread[t].c] \in SUBSET Texts
      /\ Read(thread[t].cur)
  BY <1>1, WriterTyped DEF Reingesting, MakingNew
<1>3. CASE Executed(r)
  BY <1>2, <1>3, DeleteEffect DEF Rollback, Ty
<1>4. CASE ~Executed(r)
  BY <1>4, UntouchedRows DEF Rollback, Ty
<1> QED
  BY <1>3, <1>4

LEMMA FlipRecoveredRows ==
  ASSUME Ty, NEW r \in Reply, FlipRecovered(r)
  PROVE  IF Executed(r) THEN Remarked(job.g.a, job.g.ids, "committed") ELSE SameRows
<1>1. job.g.a \in Contents /\ job.g.ids \in SUBSET Texts
  BY JobTyped DEF FlipRecovered
<1>2. CASE Executed(r)
  BY <1>1, <1>2, CommittedEffect DEF FlipRecovered, Ty, JobRows
<1>3. CASE ~Executed(r)
  BY <1>3, UntouchedRows DEF FlipRecovered, Ty
<1> QED
  BY <1>2, <1>3

LEMMA PurgeRows ==
  ASSUME Ty, NEW r \in Reply, Purge(r)
  PROVE  IF Executed(r) THEN Erased(job.g.a, job.g.ids) ELSE SameRows
<1>1. job.g.a \in Contents /\ job.g.ids \in SUBSET Texts
  BY JobTyped DEF Purge
<1>2. CASE Executed(r)
  BY <1>1, <1>2, DeleteEffect DEF Purge, Ty, JobRows
<1>3. CASE ~Executed(r)
  BY <1>3, UntouchedRows DEF Purge, Ty
<1> QED
  BY <1>2, <1>3

LEMMA NextRows ==
  Ty /\ [Next]_vars => \A b \in Contents, s \in Texts : Row(rows'[<<b, s>>])
<1> DEFINE Fine == \A b \in Contents, s \in Texts : Row(rows'[<<b, s>>])
<1> SUFFICES ASSUME Ty, [Next]_vars PROVE Fine
  OBVIOUS
<1>0. UNCHANGED rows => Fine
  BY DEF Ty, StoreTypes
<1>1. CASE UNCHANGED vars
  <2>1. UNCHANGED rows
    BY <1>1 DEF vars, stores
  <2> QED
    BY <2>1, <1>0
<1>2. ASSUME NEW t \in Threads, NEW r \in Reply, CheckDuplicate(t, r) PROVE Fine
  <2>1. UNCHANGED rows
    BY <1>2 DEF CheckDuplicate, stores
  <2> QED
    BY <2>1, <1>0
<1>3. ASSUME NEW t \in Threads, NEW r \in Reply, Find(t, r) PROVE Fine
  <2>1. UNCHANGED rows
    BY <1>3 DEF Find, stores
  <2> QED
    BY <2>1, <1>0
<1>4. ASSUME NEW t \in Threads, NEW r \in Reply, NEW gone \in BOOLEAN, NotePath(t, r, gone)
       PROVE Fine
  <2>1. UNCHANGED rows
    BY <1>4 DEF NotePath, stores
  <2> QED
    BY <2>1, <1>0
<1>5. ASSUME NEW t \in Threads, NEW r \in Reply, ReadCurrent(t, r) PROVE Fine
  <2>1. UNCHANGED rows
    BY <1>5 DEF ReadCurrent, stores
  <2> QED
    BY <2>1, <1>0
<1>6. ASSUME NEW t \in Threads, NEW r \in Reply, Upsert(t, r) PROVE Fine
  BY <1>6, UpsertRows DEF SameRows, Wrote
<1>7. ASSUME NEW t \in Threads, NEW r \in Reply, CloseRows(t, r) PROVE Fine
  BY <1>7, CloseRowsRows DEF SameRows, Shut
<1>8. ASSUME NEW t \in Threads, NEW r \in Reply, Stage(t, r) PROVE Fine
  BY <1>8, StageRows DEF SameRows, Remarked
<1>9. ASSUME NEW t \in Threads, NEW r \in Reply, Update(t, r) PROVE Fine
  <2>1. UNCHANGED rows
    BY <1>9 DEF Update, stores
  <2> QED
    BY <2>1, <1>0
<1>10. ASSUME NEW t \in Threads, NEW r \in Reply, Flip(t, r) PROVE Fine
  BY <1>10, FlipRows DEF SameRows, Remarked
<1>11. ASSUME NEW t \in Threads, NEW r \in Reply, SetProperties(t, r) PROVE Fine
  <2>1. UNCHANGED rows
    BY <1>11 DEF SetProperties, stores
  <2> QED
    BY <2>1, <1>0
<1>12. ASSUME NEW t \in Threads, NEW r \in Reply, Write(t, r) PROVE Fine
  BY <1>12, WriteRows DEF SameRows, Wrote
<1>13. ASSUME NEW t \in Threads, NEW r \in Reply, StageNew(t, r) PROVE Fine
  BY <1>13, StageNewRows DEF SameRows, Remarked
<1>14. ASSUME NEW t \in Threads, NEW r \in Reply, Create(t, r) PROVE Fine
  <2>1. UNCHANGED rows
    BY <1>14 DEF Create, stores
  <2> QED
    BY <2>1, <1>0
<1>15. ASSUME NEW t \in Threads, NEW r \in Reply, Rollback(t, r) PROVE Fine
  BY <1>15, RollbackRows DEF SameRows, Erased
<1>16. ASSUME NEW t \in Threads, NEW r \in Reply, SetPath(t, r) PROVE Fine
  <2>1. UNCHANGED rows
    BY <1>16 DEF SetPath, stores
  <2> QED
    BY <2>1, <1>0
<1>17. ASSUME NEW t \in Threads, NEW r \in Reply, FlipNew(t, r) PROVE Fine
  BY <1>17, FlipNewRows DEF SameRows, Remarked
<1>18. ASSUME NEW r \in Reply, Count(r) PROVE Fine
  BY <1>18, CountEffect DEF SameRows, Ty
<1>19. ASSUME NEW r \in Reply, ReadGraph(r) PROVE Fine
  <2>1. UNCHANGED rows
    BY <1>19 DEF ReadGraph, stores
  <2> QED
    BY <2>1, <1>0
<1>20. ASSUME NEW r \in Reply, WriteArtifact(r) PROVE Fine
  <2>1. UNCHANGED rows
    BY <1>20 DEF WriteArtifact, stores
  <2> QED
    BY <2>1, <1>0
<1>21. ASSUME NEW r \in Reply, FlipRecovered(r) PROVE Fine
  BY <1>21, FlipRecoveredRows DEF SameRows, Remarked
<1>22. ASSUME NEW r \in Reply, NEW x \in job.left, Bury(x, r) PROVE Fine
  <2>1. UNCHANGED rows
    BY <1>22 DEF Bury, stores
  <2> QED
    BY <2>1, <1>0
<1>23. ASSUME NEW r \in Reply, Purge(r) PROVE Fine
  BY <1>23, PurgeRows DEF SameRows, Erased
<1>24. ASSUME Scan PROVE Fine
  <2>1. UNCHANGED rows
    BY <1>24 DEF Scan, stores
  <2> QED
    BY <2>1, <1>0
<1>25. ASSUME NEW g \in job.todo, Take(g) PROVE Fine
  <2>1. UNCHANGED rows
    BY <1>25 DEF Take, stores
  <2> QED
    BY <2>1, <1>0
<1>26. ASSUME NEW t \in Threads, NEW c \in Contents, NEW f \in Files, Request(t, c, f) PROVE
       Fine
  <2>1. UNCHANGED rows
    BY <1>26 DEF Request, stores
  <2> QED
    BY <2>1, <1>0
<1>27. ASSUME Crash PROVE Fine
  <2>1. UNCHANGED rows
    BY <1>27 DEF Crash, stores
  <2> QED
    BY <2>1, <1>0
<1>28. ASSUME NEW t \in Threads, NEW r \in Reply, Serve(t, r) PROVE Fine
  BY <1>28, <1>2, <1>3, <1>4, <1>5, <1>6, <1>7, <1>8, <1>9, <1>10, <1>11, <1>12, <1>13, <1>14,
     <1>15, <1>16, <1>17 DEF Serve
<1>29. ASSUME NEW r \in Reply, Recover(r) PROVE Fine
  BY <1>29, <1>18, <1>19, <1>20, <1>21, <1>22, <1>23 DEF Recover
<1> QED
  BY <1>1, <1>28, <1>29, <1>24, <1>25, <1>26, <1>27 DEF Next, GoesOn

-----------------------------------------------------------------------------
(* Where requests and the job are.                                         *)

\* One request moves to w, which has found what its point asks for.
LEMMA OneMoves ==
  ASSUME Ty, Grown, NEW t \in Threads, NEW w, Thread(w), thread' = [thread EXCEPT ![t] = w],
         w.at # "idle" => w.c \in Contents /\ w.f \in Files,
         w.at \in Reingesting \cup {"note"} => w.a \in Contents /\ nodes'[w.a] # None,
         w.at \in MakingNew => w.a = w.c,
         w.at \in {"setpath", "flipnew"} => nodes'[w.c] # None
  PROVE  ThreadTypes'
<1>1. DOMAIN thread' = Threads /\ thread'[t] = w
        /\ \A u \in Threads \ {t} : thread'[u] = thread[u]
  BY DEF Ty, ThreadTypes
<1>2. ASSUME NEW u \in Threads \ {t}
      PROVE  /\ thread[u].at # "idle" => thread[u].c \in Contents /\ thread[u].f \in Files
             /\ thread[u].at \in Reingesting \cup {"note"} => thread[u].a \in Contents
                  /\ nodes'[thread[u].a] # None
             /\ thread[u].at \in MakingNew => thread[u].a = thread[u].c
             /\ thread[u].at \in {"setpath", "flipnew"} => nodes'[thread[u].c] # None
             /\ Thread(thread[u])
  BY DEF Ty, ThreadTypes, Grown, There
<1> QED
  BY <1>1, <1>2 DEF ThreadTypes, There

LEMMA IdleTyped == Thread(Idle) /\ Idle.at = "idle"
<1>1. Read(<<>>)
  BY DEF Read
<1> QED
  BY <1>1 DEF Idle, Thread, Points

LEMMA Answers ==
  ASSUME Ty, Grown, NEW t \in Threads, Answer(t)
  PROVE  ThreadTypes'
<1> QED
  BY IdleTyped, OneMoves DEF Answer, Reingesting, MakingNew

LEMMA SearchesOn ==
  ASSUME Ty, Grown, NEW t \in Threads, thread[t].at # "idle",
         thread' = [thread EXCEPT ![t] = Otherwise(t)]
  PROVE  ThreadTypes'
<1>1. Thread(Otherwise(t)) /\ Otherwise(t).at \in {"find", "write"}
      /\ Otherwise(t).c = thread[t].c /\ Otherwise(t).f = thread[t].f
  BY DEF Otherwise, Ty, ThreadTypes, Thread, Points
<1> QED
  BY <1>1, OneMoves DEF Ty, ThreadTypes, Reingesting, MakingNew

LEMMA NextThread ==
  Ty /\ [Next]_vars => ThreadTypes'
<1> SUFFICES ASSUME Ty, [Next]_vars PROVE ThreadTypes'
  OBVIOUS
<1>0. Grown
  BY NextNodes
<1>00. ASSUME NEW t \in Threads, NEW p \in Points, thread[t].at # "idle", Step(t, p),
              p \in Reingesting \cup {"note"} => thread[t].a \in Contents
                /\ nodes'[thread[t].a] # None,
              p \in MakingNew => thread[t].a = thread[t].c,
              p \in {"setpath", "flipnew"} => nodes'[thread[t].c] # None
       PROVE  ThreadTypes'
  <2>1. Thread([thread[t] EXCEPT !.at = p])
    BY <1>00 DEF Ty, ThreadTypes, Thread
  <2> QED
    BY <1>0, <1>00, <2>1, OneMoves DEF Step, Ty, ThreadTypes, Thread
<1> USE DEF Ty, ThreadTypes, Thread, Points, Reingesting, MakingNew, There
<1>1. CASE UNCHANGED vars
  BY <1>1 DEF vars, stores
<1>2. ASSUME NEW t \in Threads, NEW r \in Reply, CheckDuplicate(t, r) PROVE ThreadTypes'
  BY <1>2, <1>0 DEF CheckDuplicate, Calls, Step, Grown
<1>3. ASSUME NEW t \in Threads, NEW r \in Reply, Find(t, r) PROVE ThreadTypes'
  <2>1. thread[t].at = "find"
    BY <1>3 DEF Find
  <2>2. CASE thread' = [thread EXCEPT ![t] = Otherwise(t)]
    BY <1>0, <2>1, <2>2, SearchesOn
  <2>3. ASSUME NEW a \in Match(t),
                 thread' = [thread EXCEPT ![t] = [@ EXCEPT !.at = "current", !.a = a]]
        PROVE  ThreadTypes'
    <3> DEFINE w == [thread[t] EXCEPT !.at = "current", !.a = a]
    <3>1. a \in Contents /\ nodes'[a] # None
      BY <1>0, <2>3 DEF Grown, Match
    <3>2. Thread(w) /\ w.at = "current" /\ w.a = a /\ w.c = thread[t].c /\ w.f = thread[t].f
      BY <3>1
    <3>3. thread' = [thread EXCEPT ![t] = w] /\ w.c \in Contents /\ w.f \in Files
      BY <2>1, <2>3, <3>2
    <3> HIDE DEF w
    <3> QED
      BY <1>0, <3>1, <3>2, <3>3, OneMoves
  <2> QED
    BY <1>3, <2>2, <2>3 DEF Find
<1>4. ASSUME NEW t \in Threads, NEW r \in Reply, NEW gone \in BOOLEAN, NotePath(t, r, gone)
       PROVE ThreadTypes'
  BY <1>4, <1>0, IdleTyped DEF NotePath, Calls, Answer, Idle, Grown
<1>5. ASSUME NEW t \in Threads, NEW r \in Reply, ReadCurrent(t, r) PROVE ThreadTypes'
  <2>1. thread[t].at = "current" /\ r \in Reply
    BY <1>5 DEF ReadCurrent, Reingest
  <2>2. CASE thread' = [thread EXCEPT ![t] = Otherwise(t)]
    BY <1>0, <2>1, <2>2, SearchesOn
  <2>3. CASE thread' = [thread EXCEPT ![t] = [@ EXCEPT !.at = "upsert",
               !.cur = CurrentRows(thread[t].a)]]
    <3> DEFINE w == [thread[t] EXCEPT !.at = "upsert", !.cur = CurrentRows(thread[t].a)]
    <3>1. Read(CurrentRows(thread[t].a))
      BY <2>1, WriterTyped DEF Read, CurrentRows, Current, Stored, StoreTypes
    <3>2. Thread(w) /\ w.at = "upsert" /\ w.a = thread[t].a /\ w.c = thread[t].c /\ w.f = thread[t].f
      BY <3>1
    <3>3. /\ thread' = [thread EXCEPT ![t] = w] /\ nodes'[thread[t].a] # None
          /\ thread[t].a \in Contents /\ thread[t].c \in Contents /\ thread[t].f \in Files
      BY <1>0, <2>1, <2>3 DEF Grown
    <3> HIDE DEF w
    <3>4. w.a \in Contents /\ w.c \in Contents /\ w.f \in Files /\ nodes'[w.a] # None
          /\ w.at \notin MakingNew /\ w.at \notin {"setpath", "flipnew"} /\ Thread(w)
      BY <3>2, <3>3
    <3>5. Ty
      OBVIOUS
    <3> HIDE DEF Thread, ThreadTypes, Ty, Reingesting, MakingNew
    <3> QED
      BY <1>0, <3>3, <3>4, <3>5, OneMoves
  <2> QED
    BY <1>5, <2>2, <2>3 DEF ReadCurrent
<1>6. ASSUME NEW t \in Threads, NEW r \in Reply, Upsert(t, r) PROVE ThreadTypes'
  <2>1. thread[t].at = "upsert" /\ r \in Reply
    BY <1>6 DEF Upsert, Reingest
  <2>2. CASE thread' = [thread EXCEPT ![t] = Otherwise(t)]
    BY <1>0, <2>1, <2>2, SearchesOn
  <2>3. CASE thread' = [thread EXCEPT ![t] = [@ EXCEPT !.at = "close"]]
    BY <1>0, <2>1, <2>3 DEF Grown
  <2> QED
    BY <1>6, <2>2, <2>3 DEF Upsert, Reingest
<1>7. ASSUME NEW t \in Threads, NEW r \in Reply, CloseRows(t, r) PROVE ThreadTypes'
  <2>1. thread[t].at = "close" /\ r \in Reply
    BY <1>7 DEF CloseRows, Reingest
  <2>2. CASE thread' = [thread EXCEPT ![t] = Otherwise(t)]
    BY <1>0, <2>1, <2>2, SearchesOn
  <2>3. CASE thread' = [thread EXCEPT ![t] = [@ EXCEPT !.at = "stage"]]
    BY <1>0, <2>1, <2>3 DEF Grown
  <2> QED
    BY <1>7, <2>2, <2>3 DEF CloseRows, Reingest
<1>8. ASSUME NEW t \in Threads, NEW r \in Reply, Stage(t, r) PROVE ThreadTypes'
  BY <1>8, <1>0 DEF Stage, Calls, Step, Grown
<1>9. ASSUME NEW t \in Threads, NEW r \in Reply, Update(t, r) PROVE ThreadTypes'
  <2>1. CASE Answer(t)
    BY <1>0, <2>1, Answers
  <2>2. CASE Step(t, "flip")
    <3>1. thread[t].at = "update" /\ nodes'[thread[t].a] # None
      BY <1>9, <1>0 DEF Update, Grown
    <3> QED
      BY <1>00, <2>2, <3>1
  <2> QED
    BY <1>9, <2>1, <2>2 DEF Update
<1>10. ASSUME NEW t \in Threads, NEW r \in Reply, Flip(t, r) PROVE ThreadTypes'
  BY <1>10, <1>0 DEF Flip, Calls, Step, Grown
<1>11. ASSUME NEW t \in Threads, NEW r \in Reply, SetProperties(t, r) PROVE ThreadTypes'
  <2>1. thread[t].at = "properties"
    BY <1>11 DEF SetProperties
  <2>2. CASE thread' = [thread EXCEPT ![t] = Otherwise(t)]
    BY <1>0, <2>1, <2>2, SearchesOn
  <2> QED
    BY <1>11, <1>0, <2>2, Answers DEF SetProperties
<1>12. ASSUME NEW t \in Threads, NEW r \in Reply, Write(t, r) PROVE ThreadTypes'
  BY <1>12, <1>0, IdleTyped DEF Write, Calls, Answer, Idle, Grown
<1>13. ASSUME NEW t \in Threads, NEW r \in Reply, StageNew(t, r) PROVE ThreadTypes'
  BY <1>13, <1>0 DEF StageNew, Calls, Step, Grown
<1>14. ASSUME NEW t \in Threads, NEW r \in Reply, Create(t, r) PROVE ThreadTypes'
  <2>1. CASE Answer(t)
    BY <1>0, <2>1, Answers
  <2>2. CASE Step(t, "rollback")
    BY <1>14, <2>2, <1>00 DEF Create
  <2>3. CASE Step(t, "setpath") /\ r = "ok"
               /\ nodes' = Merged(thread[t].c, thread[t].c, thread[t].f, TextsOf[thread[t].c])
    <3>1. thread[t].at = "create" /\ thread[t].c \in Contents /\ thread[t].f \in Files \cup {None}
          /\ TextsOf[thread[t].c] \in SUBSET Texts /\ thread[t].a = thread[t].c
      BY <1>14, Constants DEF Create
    <3>2. nodes'[thread[t].c] # None
      BY <2>3, <3>1, MergedTyped
    <3> QED
      BY <1>00, <2>3, <3>1, <3>2
  <2> QED
    BY <1>14, <2>1, <2>2, <2>3 DEF Create, Raised, Executed, Reply
<1>15. ASSUME NEW t \in Threads, NEW r \in Reply, Rollback(t, r) PROVE ThreadTypes'
  BY <1>15, <1>0, IdleTyped DEF Rollback, Calls, Answer, Idle, Grown
<1>16. ASSUME NEW t \in Threads, NEW r \in Reply, SetPath(t, r) PROVE ThreadTypes'
  BY <1>16, <1>0, IdleTyped DEF SetPath, Calls, Step, Answer, Idle, Grown
<1>17. ASSUME NEW t \in Threads, NEW r \in Reply, FlipNew(t, r) PROVE ThreadTypes'
  BY <1>17, <1>0, IdleTyped DEF FlipNew, Calls, Answer, Idle, Grown
<1>18. ASSUME NEW r \in Reply, Count(r) PROVE ThreadTypes'
  BY <1>18, <1>0 DEF Count, Job, Go, Grown
<1>19. ASSUME NEW r \in Reply, ReadGraph(r) PROVE ThreadTypes'
  BY <1>19, <1>0 DEF ReadGraph, Job, Go, Grown
<1>20. ASSUME NEW r \in Reply, WriteArtifact(r) PROVE ThreadTypes'
  BY <1>20, <1>0 DEF WriteArtifact, Job, Go, Done, Grown
<1>21. ASSUME NEW r \in Reply, FlipRecovered(r) PROVE ThreadTypes'
  BY <1>21, <1>0 DEF FlipRecovered, Job, Done, Grown
<1>22. ASSUME NEW r \in Reply, NEW x \in job.left, Bury(x, r) PROVE ThreadTypes'
  BY <1>22, <1>0 DEF Bury, Job, Grown
<1>23. ASSUME NEW r \in Reply, Purge(r) PROVE ThreadTypes'
  BY <1>23, <1>0 DEF Purge, Job, Done, Grown
<1>24. ASSUME Scan PROVE ThreadTypes'
  BY <1>24, <1>0 DEF Scan, stores, Grown
<1>25. ASSUME NEW g \in job.todo, Take(g) PROVE ThreadTypes'
  BY <1>25, <1>0 DEF Take, stores, Grown
<1>26. ASSUME NEW t \in Threads, NEW c \in Contents, NEW f \in Files, Request(t, c, f) PROVE
       ThreadTypes'
  <2> DEFINE w == [Idle EXCEPT !.at = "duplicate", !.c = c, !.f = f]
  <2>1. Thread(w) /\ w.at = "duplicate" /\ w.c = c /\ w.f = f
    BY IdleTyped DEF Idle
  <2>2. thread' = [thread EXCEPT ![t] = w]
    BY <1>26 DEF Request
  <2> HIDE DEF w
  <2> QED
    BY <1>0, <2>1, <2>2, OneMoves
<1>27. ASSUME Crash PROVE ThreadTypes'
  BY <1>27, <1>0, IdleTyped DEF Crash, Idle, stores, Grown
<1>28. ASSUME NEW t \in Threads, NEW r \in Reply, Serve(t, r) PROVE ThreadTypes'
  BY <1>28, <1>2, <1>3, <1>4, <1>5, <1>6, <1>7, <1>8, <1>9, <1>10, <1>11, <1>12, <1>13, <1>14,
     <1>15, <1>16, <1>17 DEF Serve
<1>29. ASSUME NEW r \in Reply, Recover(r) PROVE ThreadTypes'
  BY <1>29, <1>18, <1>19, <1>20, <1>21, <1>22, <1>23 DEF Recover
<1> QED
  BY <1>1, <1>28, <1>29, <1>24, <1>25, <1>26, <1>27 DEF Next, GoesOn

LEMMA NextJob ==
  Ty /\ [Next]_vars => JobTypes'
<1> SUFFICES ASSUME Ty, [Next]_vars PROVE JobTypes'
  OBVIOUS
<1>0. UNCHANGED job => JobTypes'
  BY DEF Ty, JobTypes, Grp
<1>00. ASSUME job' = Resting PROVE JobTypes'
  BY <1>00 DEF Resting, NoGroup, JobTypes, JobPoints, Grp
<1>000. ASSUME NEW p \in JobPoints \ {"idle"}, job.at \notin {"idle", "next", "bury"}, Go(p)
        PROVE JobTypes'
  BY <1>000 DEF Go, Ty, JobTypes, Grp
<1>0000. ASSUME job.at \notin {"idle", "next", "bury"}, Done PROVE JobTypes'
  <2>1. CASE job' = Resting
    BY <2>1, <1>00
  <2>2. CASE job' = [job EXCEPT !.at = "next"]
    BY <1>0000, <2>2 DEF Ty, JobTypes, JobPoints, Grp
  <2> QED
    BY <1>0000, <2>1, <2>2 DEF Done
<1>1. CASE UNCHANGED vars
  BY <1>0, <1>1 DEF vars
<1>2. ASSUME NEW t \in Threads, NEW r \in Reply, CheckDuplicate(t, r) PROVE JobTypes'
  BY <1>2, <1>0 DEF CheckDuplicate, Calls
<1>3. ASSUME NEW t \in Threads, NEW r \in Reply, Find(t, r) PROVE JobTypes'
  BY <1>3, <1>0 DEF Find, Calls
<1>4. ASSUME NEW t \in Threads, NEW r \in Reply, NEW gone \in BOOLEAN, NotePath(t, r, gone)
       PROVE JobTypes'
  BY <1>4, <1>0 DEF NotePath, Calls
<1>5. ASSUME NEW t \in Threads, NEW r \in Reply, ReadCurrent(t, r) PROVE JobTypes'
  BY <1>5, <1>0 DEF ReadCurrent, Reingest, Calls
<1>6. ASSUME NEW t \in Threads, NEW r \in Reply, Upsert(t, r) PROVE JobTypes'
  BY <1>6, <1>0 DEF Upsert, Reingest, Calls
<1>7. ASSUME NEW t \in Threads, NEW r \in Reply, CloseRows(t, r) PROVE JobTypes'
  BY <1>7, <1>0 DEF CloseRows, Reingest, Calls
<1>8. ASSUME NEW t \in Threads, NEW r \in Reply, Stage(t, r) PROVE JobTypes'
  BY <1>8, <1>0 DEF Stage, Calls
<1>9. ASSUME NEW t \in Threads, NEW r \in Reply, Update(t, r) PROVE JobTypes'
  BY <1>9, <1>0 DEF Update, Calls
<1>10. ASSUME NEW t \in Threads, NEW r \in Reply, Flip(t, r) PROVE JobTypes'
  BY <1>10, <1>0 DEF Flip, Calls
<1>11. ASSUME NEW t \in Threads, NEW r \in Reply, SetProperties(t, r) PROVE JobTypes'
  BY <1>11, <1>0 DEF SetProperties, Calls
<1>12. ASSUME NEW t \in Threads, NEW r \in Reply, Write(t, r) PROVE JobTypes'
  BY <1>12, <1>0 DEF Write, Calls
<1>13. ASSUME NEW t \in Threads, NEW r \in Reply, StageNew(t, r) PROVE JobTypes'
  BY <1>13, <1>0 DEF StageNew, Calls
<1>14. ASSUME NEW t \in Threads, NEW r \in Reply, Create(t, r) PROVE JobTypes'
  BY <1>14, <1>0 DEF Create, Calls
<1>15. ASSUME NEW t \in Threads, NEW r \in Reply, Rollback(t, r) PROVE JobTypes'
  BY <1>15, <1>0 DEF Rollback, Calls
<1>16. ASSUME NEW t \in Threads, NEW r \in Reply, SetPath(t, r) PROVE JobTypes'
  BY <1>16, <1>0 DEF SetPath, Calls
<1>17. ASSUME NEW t \in Threads, NEW r \in Reply, FlipNew(t, r) PROVE JobTypes'
  BY <1>17, <1>0 DEF FlipNew, Calls
<1>18. ASSUME NEW r \in Reply, Count(r) PROVE JobTypes'
  BY <1>18, <1>000 DEF Count, JobPoints
<1>19. ASSUME NEW r \in Reply, ReadGraph(r) PROVE JobTypes'
  <2>1. Go("flip") \/ Go("write")
    BY <1>19 DEF ReadGraph
  <2> QED
    BY <1>19, <1>000, <2>1 DEF ReadGraph, JobPoints
<1>20. ASSUME NEW r \in Reply, WriteArtifact(r) PROVE JobTypes'
  <2>1. Go("flip") \/ job' = [job EXCEPT !.at = "bury", !.left = job.g.ids] \/ Done
    BY <1>20 DEF WriteArtifact
  <2>2. CASE job' = [job EXCEPT !.at = "bury", !.left = job.g.ids]
    BY <1>20, <2>2 DEF WriteArtifact, Ty, JobTypes, JobPoints, Grp
  <2> QED
    BY <1>20, <1>000, <1>0000, <2>1, <2>2 DEF WriteArtifact, JobPoints
<1>21. ASSUME NEW r \in Reply, FlipRecovered(r) PROVE JobTypes'
  BY <1>21, <1>0000 DEF FlipRecovered
<1>22. ASSUME NEW r \in Reply, NEW x \in job.left, Bury(x, r) PROVE JobTypes'
  BY <1>22 DEF Bury, Buries, Ty, JobTypes, JobPoints, Grp
<1>23. ASSUME NEW r \in Reply, Purge(r) PROVE JobTypes'
  BY <1>23, <1>0000 DEF Purge
<1>24. ASSUME Scan PROVE JobTypes'
  <2> DEFINE found == {a \in Contents : Orphans(a) # {}}
  <2>1. PICK lead \in [found -> Texts] :
           /\ \A a \in found : lead[a] \in Orphans(a)
           /\ job' = [Resting EXCEPT !.at = "next", !.todo = {Group(a, lead[a]) : a \in found}]
    BY <1>24 DEF Scan
  <2>2. ASSUME NEW a \in found PROVE Grp(Group(a, lead[a])) /\ Group(a, lead[a]).a = a
    <3>1. lead[a] \in Texts /\ a \in Contents
      BY <2>1
    <3>2. rows[<<a, lead[a]>>].file \in Files \cup {None}
      BY <3>1 DEF Ty, StoreTypes, Row
    <3>3. Orphans(a) \subseteq Texts
      BY DEF Orphans, PendingOf
    <3> QED
      BY <3>1, <3>2, <3>3 DEF Group, Grp
  <2>3. job'.at = "next" /\ job'.g = NoGroup /\ job'.todo = {Group(a, lead[a]) : a \in found}
        /\ job' = [at |-> job'.at, todo |-> job'.todo, g |-> job'.g, left |-> job'.left] /\ job'.left = {}
    BY <2>1 DEF Resting
  <2> HIDE DEF found
  <2>4. \A g \in job'.todo : Grp(g) /\ g.a \in Contents
    BY <2>2, <2>3 DEF found
  <2>5. Grp(NoGroup)
    BY DEF NoGroup, Grp
  <2> QED
    BY <2>3, <2>4, <2>5 DEF JobTypes, JobPoints, Grp
<1>25. ASSUME NEW g \in job.todo, Take(g) PROVE JobTypes'
  BY <1>25 DEF Take, Resting, Ty, JobTypes, JobPoints, Grp
<1>26. ASSUME NEW t \in Threads, NEW c \in Contents, NEW f \in Files, Request(t, c, f) PROVE
       JobTypes'
  BY <1>26, <1>0 DEF Request
<1>27. ASSUME Crash PROVE JobTypes'
  BY <1>27, <1>00 DEF Crash
<1>28. ASSUME NEW t \in Threads, NEW r \in Reply, Serve(t, r) PROVE JobTypes'
  BY <1>28, <1>2, <1>3, <1>4, <1>5, <1>6, <1>7, <1>8, <1>9, <1>10, <1>11, <1>12, <1>13, <1>14,
     <1>15, <1>16, <1>17 DEF Serve
<1>29. ASSUME NEW r \in Reply, Recover(r) PROVE JobTypes'
  BY <1>29, <1>18, <1>19, <1>20, <1>21, <1>22, <1>23 DEF Recover
<1> QED
  BY <1>1, <1>28, <1>29, <1>24, <1>25, <1>26, <1>27 DEF Next, GoesOn

LEMMA NextHistory ==
  Ty /\ [Next]_vars => buried' \subseteq Keys /\ answered' \subseteq Keys
<1> SUFFICES ASSUME Ty, [Next]_vars PROVE buried' \subseteq Keys /\ answered' \subseteq Keys
  OBVIOUS
<1>0. buried \subseteq Keys /\ answered \subseteq Keys
  BY DEF Ty, StoreTypes
<1>1. CASE UNCHANGED vars
  BY <1>0, <1>1 DEF vars, stores
<1>2. ASSUME NEW t \in Threads, NEW r \in Reply, CheckDuplicate(t, r) PROVE buried' \subseteq Keys
       /\ answered' \subseteq Keys
  BY <1>2, <1>0 DEF CheckDuplicate, Calls, stores
<1>3. ASSUME NEW t \in Threads, NEW r \in Reply, Find(t, r) PROVE buried' \subseteq Keys /\
       answered' \subseteq Keys
  BY <1>3, <1>0 DEF Find, Calls, stores
<1>4. ASSUME NEW t \in Threads, NEW r \in Reply, NEW gone \in BOOLEAN, NotePath(t, r, gone)
       PROVE buried' \subseteq Keys /\ answered' \subseteq Keys
  BY <1>4, <1>0 DEF NotePath, Calls, stores
<1>5. ASSUME NEW t \in Threads, NEW r \in Reply, ReadCurrent(t, r) PROVE buried' \subseteq Keys /\
       answered' \subseteq Keys
  BY <1>5, <1>0 DEF ReadCurrent, Reingest, Calls, stores
<1>6. ASSUME NEW t \in Threads, NEW r \in Reply, Upsert(t, r) PROVE buried' \subseteq Keys /\
       answered' \subseteq Keys
  BY <1>6, <1>0 DEF Upsert, Reingest, Calls, stores
<1>7. ASSUME NEW t \in Threads, NEW r \in Reply, CloseRows(t, r) PROVE buried' \subseteq Keys /\
       answered' \subseteq Keys
  BY <1>7, <1>0 DEF CloseRows, Reingest, Calls, stores
<1>8. ASSUME NEW t \in Threads, NEW r \in Reply, Stage(t, r) PROVE buried' \subseteq Keys /\
       answered' \subseteq Keys
  BY <1>8, <1>0 DEF Stage, Calls, stores
<1>9. ASSUME NEW t \in Threads, NEW r \in Reply, Update(t, r) PROVE buried' \subseteq Keys /\
       answered' \subseteq Keys
  BY <1>9, <1>0 DEF Update, Calls, stores
<1>10. ASSUME NEW t \in Threads, NEW r \in Reply, Flip(t, r) PROVE buried' \subseteq Keys /\
       answered' \subseteq Keys
  BY <1>10, <1>0 DEF Flip, Calls, stores
<1>11. ASSUME NEW t \in Threads, NEW r \in Reply, SetProperties(t, r) PROVE buried' \subseteq Keys
       /\ answered' \subseteq Keys
  <2>1. Rows(thread[t].a, TextsOf[thread[t].c]) \subseteq Keys
    BY <1>11, WriterTyped DEF SetProperties, Rows, Keys, Reingesting
  <2> QED
    BY <1>11, <1>0, <2>1 DEF SetProperties
<1>12. ASSUME NEW t \in Threads, NEW r \in Reply, Write(t, r) PROVE buried' \subseteq Keys /\
       answered' \subseteq Keys
  BY <1>12, <1>0 DEF Write, Calls, stores
<1>13. ASSUME NEW t \in Threads, NEW r \in Reply, StageNew(t, r) PROVE buried' \subseteq Keys /\
       answered' \subseteq Keys
  BY <1>13, <1>0 DEF StageNew, Calls, stores
<1>14. ASSUME NEW t \in Threads, NEW r \in Reply, Create(t, r) PROVE buried' \subseteq Keys /\
       answered' \subseteq Keys
  BY <1>14, <1>0 DEF Create, Calls, stores
<1>15. ASSUME NEW t \in Threads, NEW r \in Reply, Rollback(t, r) PROVE buried' \subseteq Keys /\
       answered' \subseteq Keys
  BY <1>15, <1>0 DEF Rollback, Calls, stores
<1>16. ASSUME NEW t \in Threads, NEW r \in Reply, SetPath(t, r) PROVE buried' \subseteq Keys /\
       answered' \subseteq Keys
  BY <1>16, <1>0 DEF SetPath, Calls, stores
<1>17. ASSUME NEW t \in Threads, NEW r \in Reply, FlipNew(t, r) PROVE buried' \subseteq Keys /\
       answered' \subseteq Keys
  <2>1. Rows(thread[t].c, TextsOf[thread[t].c]) \subseteq Keys
    BY <1>17, WriterTyped DEF FlipNew, Rows, Keys
  <2> QED
    BY <1>17, <1>0, <2>1 DEF FlipNew
<1>18. ASSUME NEW r \in Reply, Count(r) PROVE buried' \subseteq Keys /\ answered' \subseteq Keys
  BY <1>18, <1>0 DEF Count, Job, stores
<1>19. ASSUME NEW r \in Reply, ReadGraph(r) PROVE buried' \subseteq Keys /\ answered' \subseteq
       Keys
  BY <1>19, <1>0 DEF ReadGraph, Job, stores
<1>20. ASSUME NEW r \in Reply, WriteArtifact(r) PROVE buried' \subseteq Keys /\ answered'
       \subseteq Keys
  BY <1>20, <1>0 DEF WriteArtifact, Job, stores
<1>21. ASSUME NEW r \in Reply, FlipRecovered(r) PROVE buried' \subseteq Keys /\ answered'
       \subseteq Keys
  BY <1>21, <1>0 DEF FlipRecovered, Job, stores
<1>22. ASSUME NEW r \in Reply, NEW x \in job.left, Bury(x, r) PROVE buried' \subseteq Keys /\ answered' \subseteq Keys
  <2>1. <<job.g.a, x>> \in Keys
    BY <1>22, JobTyped DEF Bury, Keys, Ty, JobTypes
  <2> QED
    BY <1>22, <1>0, <2>1 DEF Bury, Job
<1>23. ASSUME NEW r \in Reply, Purge(r) PROVE buried' \subseteq Keys /\ answered' \subseteq Keys
  BY <1>23, <1>0 DEF Purge, Job, stores
<1>24. ASSUME Scan PROVE buried' \subseteq Keys /\ answered' \subseteq Keys
  BY <1>24, <1>0 DEF Scan, stores
<1>25. ASSUME NEW g \in job.todo, Take(g) PROVE buried' \subseteq Keys /\ answered' \subseteq Keys
  BY <1>25, <1>0 DEF Take, stores
<1>26. ASSUME NEW t \in Threads, NEW c \in Contents, NEW f \in Files, Request(t, c, f) PROVE
       buried' \subseteq Keys /\ answered' \subseteq Keys
  BY <1>26, <1>0 DEF Request, stores
<1>27. ASSUME Crash PROVE buried' \subseteq Keys /\ answered' \subseteq Keys
  BY <1>27, <1>0 DEF Crash, stores
<1>28. ASSUME NEW t \in Threads, NEW r \in Reply, Serve(t, r) PROVE buried' \subseteq Keys /\
       answered' \subseteq Keys
  BY <1>28, <1>2, <1>3, <1>4, <1>5, <1>6, <1>7, <1>8, <1>9, <1>10, <1>11, <1>12, <1>13, <1>14,
     <1>15, <1>16, <1>17 DEF Serve
<1>29. ASSUME NEW r \in Reply, Recover(r) PROVE buried' \subseteq Keys /\ answered' \subseteq Keys
  BY <1>29, <1>18, <1>19, <1>20, <1>21, <1>22, <1>23 DEF Recover
<1> QED
  BY <1>1, <1>28, <1>29, <1>24, <1>25, <1>26, <1>27 DEF Next, GoesOn

LEMMA InitTy == Init => Ty
<1> SUFFICES ASSUME Init PROVE Ty
  OBVIOUS
<1>1. StoreTypes
  BY DEF Init, StoreTypes, Keys, NoRow, Row
<1>2. ThreadTypes
  BY IdleTyped DEF Init, ThreadTypes, Thread, Idle, Points, Reingesting, MakingNew
<1>3. JobTypes
  BY DEF Init, JobTypes, JobPoints, Resting, NoGroup, Grp
<1> QED
  BY <1>1, <1>2, <1>3 DEF Ty

LEMMA NextTy == Ty /\ [Next]_vars => Ty'
<1> SUFFICES ASSUME Ty, [Next]_vars PROVE Ty'
  OBVIOUS
<1>1. StoreTypes'
  BY NextNodes, NextRows, NextHistory DEF StoreTypes
<1> QED
  BY <1>1, NextThread, NextJob DEF Ty

\* Every store holds what the code can put there, a request past its search has an
\* artifact with a node, and the recovery works on groups of that shape.
THEOREM TypeCorrect == Spec => []Ty
  BY InitTy, NextTy, PTL DEF Spec

-----------------------------------------------------------------------------
(* Where each step of a request takes it.                                  *)

Others(t) == \A u \in Threads \ {t} : thread'[u] = thread[u]
Answered(t) == Others(t) /\ thread'[t] = Idle
Moved(t, P) ==
    /\ Others(t) /\ thread'[t].at \in P
    /\ thread'[t].c = thread[t].c /\ thread'[t].a = thread[t].a /\ thread'[t].cur = thread[t].cur
Searching == {"find", "write"}

LEMMA MoveForms ==
  ASSUME Ty, NEW t \in Threads
  PROVE  /\ Answer(t) => Answered(t)
         /\ \A p : Step(t, p) => Moved(t, {p})
         /\ \A p : thread' = [thread EXCEPT ![t] = [@ EXCEPT !.at = p]] => Moved(t, {p})
         /\ thread' = [thread EXCEPT ![t] = Otherwise(t)] => Moved(t, Searching)
<1>1. DOMAIN thread = Threads /\ Thread(thread[t])
  BY DEF Ty, ThreadTypes
<1>2. Answer(t) => Answered(t)
  BY <1>1 DEF Answer, Answered, Others
<1>3. \A p : Step(t, p) => Moved(t, {p})
  BY <1>1 DEF Step, Moved, Others, Thread
<1>4. \A p : thread' = [thread EXCEPT ![t] = [@ EXCEPT !.at = p]] => Moved(t, {p})
  BY <1>1 DEF Moved, Others, Thread
<1>5. /\ Otherwise(t).at \in Searching
      /\ Otherwise(t).c = thread[t].c /\ Otherwise(t).a = thread[t].a
           /\ Otherwise(t).cur = thread[t].cur
  BY <1>1 DEF Otherwise, Searching, Thread
<1>6. thread' = [thread EXCEPT ![t] = Otherwise(t)] => Moved(t, Searching)
  BY <1>1, <1>5 DEF Moved, Others
<1> QED
  BY <1>2, <1>3, <1>4, <1>6

LEMMA CheckDuplicateMoves ==
  ASSUME Ty, NEW t \in Threads, NEW r \in Reply, CheckDuplicate(t, r)
  PROVE  /\ thread[t].at = "duplicate" /\ UNCHANGED job
         /\ (Moved(t, {"find"})
              \/ (Others(t) /\ thread'[t].at = "note" /\ thread'[t].c = thread[t].c))
<1>1. \/ Step(t, "find")
      \/ \E a \in Contents : thread' = [thread EXCEPT ![t].at = "note", ![t].a = a]
  BY DEF CheckDuplicate
<1>2. ASSUME NEW a \in Contents, thread' = [thread EXCEPT ![t].at = "note", ![t].a = a]
      PROVE  Others(t) /\ thread'[t].at = "note" /\ thread'[t].c = thread[t].c
  BY <1>2 DEF Ty, ThreadTypes, Thread, Others
<1>3. thread[t].at = "duplicate" /\ UNCHANGED job
  BY DEF CheckDuplicate, Calls
<1> QED
  BY <1>1, <1>2, <1>3, MoveForms

LEMMA FindMoves ==
  ASSUME Ty, NEW t \in Threads, NEW r \in Reply, Find(t, r)
  PROVE  /\ thread[t].at = "find" /\ UNCHANGED job
         /\ \/ Moved(t, Searching)
            \/ Others(t) /\ thread'[t].at = "current" /\ thread'[t].c = thread[t].c
<1>1. \/ thread' = [thread EXCEPT ![t] = Otherwise(t)]
      \/ \E a \in Contents : thread' = [thread EXCEPT ![t] = [@ EXCEPT !.at = "current", !.a = a]]
  BY DEF Find, Match
<1>2. ASSUME NEW a \in Contents,
               thread' = [thread EXCEPT ![t] = [@ EXCEPT !.at = "current", !.a = a]]
      PROVE  Others(t) /\ thread'[t].at = "current" /\ thread'[t].c = thread[t].c
  BY <1>2 DEF Ty, ThreadTypes, Thread, Others
<1>3. thread[t].at = "find" /\ UNCHANGED job
  BY DEF Find, Calls
<1> QED
  BY <1>1, <1>2, <1>3, MoveForms

LEMMA NotePathMoves ==
  ASSUME Ty, NEW t \in Threads, NEW r \in Reply, NEW gone \in BOOLEAN, NotePath(t, r, gone)
  PROVE  /\ thread[t].at = "note" /\ UNCHANGED job
         /\ (Answered(t))
  BY MoveForms DEF NotePath, Calls

LEMMA ReadCurrentMoves ==
  ASSUME Ty, NEW t \in Threads, NEW r \in Reply, ReadCurrent(t, r)
  PROVE  /\ thread[t].at = "current" /\ UNCHANGED job
         /\ \/ Moved(t, Searching)
            \/ /\ Others(t) /\ thread'[t].at = "upsert"
               /\ thread'[t].c = thread[t].c /\ thread'[t].a = thread[t].a
                    /\ thread'[t].cur = CurrentRows(thread[t].a)
<1>1. \/ thread' = [thread EXCEPT ![t] = Otherwise(t)]
      \/ thread' = [thread EXCEPT ![t] = [@ EXCEPT !.at = "upsert", !.cur = CurrentRows(thread[t].a)]]
  BY DEF ReadCurrent
<1>2. ASSUME thread' = [thread EXCEPT ![t] = [@ EXCEPT !.at = "upsert",
               !.cur = CurrentRows(thread[t].a)]]
      PROVE  /\ Others(t) /\ thread'[t].at = "upsert"
             /\ thread'[t].c = thread[t].c /\ thread'[t].a = thread[t].a
                  /\ thread'[t].cur = CurrentRows(thread[t].a)
  BY <1>2 DEF Ty, ThreadTypes, Thread, Others
<1>3. thread[t].at = "current" /\ UNCHANGED job
  BY DEF ReadCurrent, Calls
<1> QED
  BY <1>1, <1>2, <1>3, MoveForms

LEMMA UpsertMoves ==
  ASSUME Ty, NEW t \in Threads, NEW r \in Reply, Upsert(t, r)
  PROVE  /\ thread[t].at = "upsert" /\ UNCHANGED job
         /\ (IF Raised(r) THEN Moved(t, Searching) ELSE Moved(t, {"close"}))
  BY MoveForms DEF Upsert, Reingest, Calls

LEMMA CloseRowsMoves ==
  ASSUME Ty, NEW t \in Threads, NEW r \in Reply, CloseRows(t, r)
  PROVE  /\ thread[t].at = "close" /\ UNCHANGED job
         /\ (IF Raised(r) THEN Moved(t, Searching) ELSE Moved(t, {"stage"}))
  BY MoveForms DEF CloseRows, Reingest, Calls

LEMMA StageMoves ==
  ASSUME Ty, NEW t \in Threads, NEW r \in Reply, Stage(t, r)
  PROVE  /\ thread[t].at = "stage" /\ UNCHANGED job
         /\ (Moved(t, {"update"}))
  BY MoveForms DEF Stage, Calls

LEMMA UpdateMoves ==
  ASSUME Ty, NEW t \in Threads, NEW r \in Reply, Update(t, r)
  PROVE  /\ thread[t].at = "update" /\ UNCHANGED job
         /\ (Answered(t) \/ (Moved(t, {"flip"}) /\ r = "ok" /\ ~Taken(thread[t].a, thread[t].c)))
  BY MoveForms DEF Update, Calls, Raised

LEMMA FlipMoves ==
  ASSUME Ty, NEW t \in Threads, NEW r \in Reply, Flip(t, r)
  PROVE  /\ thread[t].at = "flip" /\ UNCHANGED job
         /\ (Moved(t, {"properties"}))
  BY MoveForms DEF Flip, Calls

LEMMA SetPropertiesMoves ==
  ASSUME Ty, NEW t \in Threads, NEW r \in Reply, SetProperties(t, r)
  PROVE  /\ thread[t].at = "properties" /\ UNCHANGED job
         /\ (Answered(t) \/ Moved(t, Searching))
  BY MoveForms DEF SetProperties, Calls

LEMMA WriteMoves ==
  ASSUME Ty, NEW t \in Threads, NEW r \in Reply, Write(t, r)
  PROVE  /\ thread[t].at = "write" /\ UNCHANGED job
         /\ \/ Raised(r) /\ Answered(t)
            \/ /\ ~Raised(r) /\ Others(t) /\ thread'[t].at = "stagenew"
               /\ thread'[t].c = thread[t].c /\ thread'[t].a = thread[t].c
<1>1. IF Raised(r) THEN Answer(t) ELSE thread' = [thread EXCEPT ![t].at = "stagenew",
        ![t].a = thread[t].c]
  BY DEF Write
<1>2. ASSUME thread' = [thread EXCEPT ![t].at = "stagenew", ![t].a = thread[t].c]
      PROVE  Others(t) /\ thread'[t].at = "stagenew" /\ thread'[t].c = thread[t].c
               /\ thread'[t].a = thread[t].c
  BY <1>2 DEF Ty, ThreadTypes, Thread, Others
<1>3. thread[t].at = "write" /\ UNCHANGED job
  BY DEF Write, Calls
<1> QED
  BY <1>1, <1>2, <1>3, MoveForms

LEMMA StageNewMoves ==
  ASSUME Ty, NEW t \in Threads, NEW r \in Reply, StageNew(t, r)
  PROVE  /\ thread[t].at = "stagenew" /\ UNCHANGED job
         /\ (Moved(t, {"create"}))
  BY MoveForms DEF StageNew, Calls

LEMMA CreateMoves ==
  ASSUME Ty, NEW t \in Threads, NEW r \in Reply, Create(t, r)
  PROVE  /\ thread[t].at = "create" /\ UNCHANGED job
         /\ \/ Answered(t)
            \/ r = "ok" /\ Collides(thread[t].c) /\ Moved(t, {"rollback"})
            \/ r = "ok" /\ ~Collides(thread[t].c) /\ Moved(t, {"setpath"})
  BY MoveForms DEF Create, Calls, Raised

LEMMA RollbackMoves ==
  ASSUME Ty, NEW t \in Threads, NEW r \in Reply, Rollback(t, r)
  PROVE  /\ thread[t].at = "rollback" /\ UNCHANGED job
         /\ (Answered(t))
  BY MoveForms DEF Rollback, Calls

LEMMA SetPathMoves ==
  ASSUME Ty, NEW t \in Threads, NEW r \in Reply, SetPath(t, r)
  PROVE  /\ thread[t].at = "setpath" /\ UNCHANGED job
         /\ (Answered(t) \/ Moved(t, {"flipnew"}))
  BY MoveForms DEF SetPath, Calls

LEMMA FlipNewMoves ==
  ASSUME Ty, NEW t \in Threads, NEW r \in Reply, FlipNew(t, r)
  PROVE  /\ thread[t].at = "flipnew" /\ UNCHANGED job
         /\ (Answered(t))
  BY MoveForms DEF FlipNew, Calls

\* The same of the job's steps.
Proceeds(p) == job'.at = p /\ job'.todo = job.todo /\ job'.g = job.g
Finished == job' = Resting \/ (Proceeds("next") /\ job.todo # {})

LEMMA JobForms ==
  ASSUME Ty
  PROVE  /\ \A p : Go(p) => Proceeds(p)
         /\ Done => Finished
  BY DEF Ty, JobTypes, Go, Done, Proceeds, Finished

LEMMA CountMoves ==
  ASSUME Ty, NEW r \in Reply, Count(r)
  PROVE  job.at = "count" /\ UNCHANGED thread /\ (Proceeds("read"))
  BY JobForms DEF Count, Job

LEMMA ReadGraphMoves ==
  ASSUME Ty, NEW r \in Reply, ReadGraph(r)
  PROVE  job.at = "read" /\ UNCHANGED thread /\ (Proceeds("flip") \/ Proceeds("write"))
  BY JobForms DEF ReadGraph, Job

LEMMA WriteArtifactMoves ==
  ASSUME Ty, NEW r \in Reply, WriteArtifact(r)
  PROVE  job.at = "write" /\ UNCHANGED thread /\ (Proceeds("flip") \/ (Proceeds("bury") /\ job'.left = job.g.ids) \/ Finished)
<1>1. job' = [job EXCEPT !.at = "bury", !.left = job.g.ids] =>
        Proceeds("bury") /\ job'.left = job.g.ids
  BY DEF Ty, JobTypes, Proceeds
<1> QED
  BY <1>1, JobForms DEF WriteArtifact, Job

LEMMA FlipRecoveredMoves ==
  ASSUME Ty, NEW r \in Reply, FlipRecovered(r)
  PROVE  job.at = "flip" /\ UNCHANGED thread /\ (Finished)
  BY JobForms DEF FlipRecovered, Job

LEMMA BuryMoves ==
  ASSUME Ty, NEW r \in Reply, NEW x \in job.left, Bury(x, r)
  PROVE  job.at = "bury" /\ UNCHANGED thread /\ job'.left = job.left \ {x}
         /\ (Proceeds("purge") \/ Proceeds("bury"))
  BY DEF Bury, Buries, Job, Ty, JobTypes, Proceeds

LEMMA PurgeMoves ==
  ASSUME Ty, NEW r \in Reply, Purge(r)
  PROVE  job.at = "purge" /\ UNCHANGED thread /\ (Finished)
  BY JobForms DEF Purge, Job

\* A scan gathers, for each artifact with orphans, the group of them.
LEMMA ScanShape ==
  ASSUME Ty, Scan
  PROVE  /\ job'.at = "next" /\ job'.g = NoGroup /\ UNCHANGED <<nodes, rows, buried, thread,
              answered>>
         /\ \A g \in job'.todo : g.a \in Contents /\ g.ids = Orphans(g.a) /\ Orphans(g.a) # {}
         /\ \A g, h \in job'.todo : g.a = h.a => g = h
         /\ excused \subseteq excused'
         /\ "overlapped" \notin excused' => \A t \in Threads, g \in job'.todo : thread[t].a # g.a
<1> DEFINE found == {a \in Contents : Orphans(a) # {}}
<1>1. PICK lead \in [found -> Texts] :
         job' = [Resting EXCEPT !.at = "next", !.todo = {Group(a, lead[a]) : a \in found}]
  BY DEF Scan
<1>2. job'.at = "next" /\ job'.g = NoGroup /\ job'.todo = {Group(a, lead[a]) : a \in found}
  BY <1>1 DEF Resting
<1>3. \A a \in found : Group(a, lead[a]).a = a /\ Group(a, lead[a]).ids = Orphans(a)
  BY DEF Group
<1>4. /\ excused \subseteq excused' /\ UNCHANGED <<nodes, rows, buried, thread, answered>>
      /\ "overlapped" \notin excused' => \A t \in Threads : thread[t].a \notin found
  BY DEF Scan, Excuse, When, stores
<1>5. \A g \in job'.todo : \E a \in found : g = Group(a, lead[a])
  BY <1>2
<1>6. \A a \in found : a \in Contents /\ Orphans(a) # {}
  OBVIOUS
<1> HIDE DEF found
<1> QED
  BY <1>2, <1>3, <1>4, <1>5, <1>6

-----------------------------------------------------------------------------
(* What each call that writes a node does to it.                           *)

SameLists ==
    \A b \in Contents :
        /\ nodes'[b] = None <=> nodes[b] = None
        /\ nodes[b] # None => nodes'[b].listed = nodes[b].listed /\ nodes'[b].hash = nodes[b].hash

LEMMA PathsOnly ==
  ASSUME Ty, NEW a \in Contents, There(a), NEW n \in Node, n.listed = nodes[a].listed,
         n.hash = nodes[a].hash,
         nodes' = [nodes EXCEPT ![a] = n]
  PROVE  SameLists
  BY NodeIsThere DEF SameLists, Ty, StoreTypes, There

LEMMA NotePathNodes ==
  ASSUME Ty, NEW t \in Threads, NEW r \in Reply, NEW gone \in BOOLEAN, NotePath(t, r, gone)
  PROVE  SameLists
<1>1. thread[t].a \in Contents /\ There(thread[t].a) /\ thread[t].f \in Files
  BY DEF NotePath, Ty, ThreadTypes
<1> DEFINE n == nodes[thread[t].a]
<1>2. n \in Node
  BY <1>1, NodeIsThere
<1>3. CASE UNCHANGED nodes
  BY <1>3 DEF SameLists
<1>4. ASSUME NEW g \in {n.name, thread[t].f},
               nodes' = [nodes EXCEPT ![thread[t].a] = [n EXCEPT !.path = thread[t].f, !.name = g]]
      PROVE  SameLists
  <2>1. /\ [n EXCEPT !.path = thread[t].f, !.name = g] \in Node
        /\ [n EXCEPT !.path = thread[t].f, !.name = g].listed = n.listed
        /\ [n EXCEPT !.path = thread[t].f, !.name = g].hash = n.hash
    BY <1>1, <1>2, <1>4 DEF Node
  <2> QED
    BY <1>1, <1>4, <2>1, PathsOnly
<1>5. \/ UNCHANGED nodes
      \/ \E g \in {n.name, thread[t].f} :
            nodes' = [nodes EXCEPT ![thread[t].a] = [n EXCEPT !.path = thread[t].f, !.name = g]]
  BY DEF NotePath
<1> QED
  BY <1>3, <1>4, <1>5

LEMMA SetPropertiesNodes ==
  ASSUME Ty, NEW t \in Threads, NEW r \in Reply, SetProperties(t, r)
  PROVE  SameLists
<1>1. thread[t].a \in Contents /\ There(thread[t].a) /\ thread[t].f \in Files
  BY DEF SetProperties, Ty, ThreadTypes, Reingesting
<1> DEFINE n == [nodes[thread[t].a] EXCEPT !.path = thread[t].f]
<1>2. n \in Node /\ n.listed = nodes[thread[t].a].listed /\ n.hash = nodes[thread[t].a].hash
  BY <1>1, NodeIsThere DEF Node
<1>3. UNCHANGED nodes \/ nodes' = [nodes EXCEPT ![thread[t].a] = n]
  BY DEF SetProperties
<1> HIDE DEF n
<1> QED
  BY <1>1, <1>2, <1>3, PathsOnly DEF SameLists

LEMMA SetPathNodes ==
  ASSUME Ty, NEW t \in Threads, NEW r \in Reply, SetPath(t, r)
  PROVE  SameLists
<1>1. thread[t].c \in Contents /\ There(thread[t].c) /\ thread[t].f \in Files
  BY DEF SetPath, Ty, ThreadTypes
<1> DEFINE n == [nodes[thread[t].c] EXCEPT !.path = thread[t].f]
<1>2. n \in Node /\ n.listed = nodes[thread[t].c].listed /\ n.hash = nodes[thread[t].c].hash
  BY <1>1, NodeIsThere DEF Node
<1>3. UNCHANGED nodes \/ nodes' = [nodes EXCEPT ![thread[t].c] = n]
  BY DEF SetPath
<1> HIDE DEF n
<1> QED
  BY <1>1, <1>2, <1>3, PathsOnly DEF SameLists

\* The node of a, and no other, is there afterwards with this hash and this list.
Lists(a, h, S) ==
    /\ \A b \in Contents \ {a} : nodes'[b] = nodes[b]
    /\ nodes'[a] # None /\ nodes'[a].hash = h /\ nodes'[a].listed = S

LEMMA MergedNodes ==
  ASSUME Ty, NEW a \in Contents, NEW h \in Contents \cup {Blank}, NEW f \in Files \cup {None},
         NEW S \in SUBSET Texts, nodes' = Merged(a, h, f, S)
  PROVE  Lists(a, IF There(a) THEN nodes[a].hash ELSE h, S)
<1>1. nodes'[a] # None
  BY MergedTyped
<1>2. \A b \in Contents \ {a} : nodes'[b] = nodes[b]
  BY DEF Merged, Ty, StoreTypes
<1>3. CASE There(a)
  <2>1. nodes'[a] = [nodes[a] EXCEPT !.listed = S] /\ nodes[a] \in Node
    BY <1>3, NodeIsThere DEF Merged, Ty, StoreTypes
  <2> QED
    BY <1>1, <1>2, <1>3, <2>1 DEF Lists, Node
<1>4. CASE ~There(a)
  <2>1. nodes'[a] = [hash |-> h, name |-> f, path |-> None, listed |-> S]
    BY <1>4 DEF Merged, Ty, StoreTypes
  <2> QED
    BY <1>1, <1>2, <1>4, <2>1 DEF Lists
<1> QED
  BY <1>3, <1>4

LEMMA UpdateNodes ==
  ASSUME Ty, NEW t \in Threads, NEW r \in Reply, Update(t, r)
  PROVE  IF Executed(r) /\ ~Taken(thread[t].a, thread[t].c)
         THEN Lists(thread[t].a, thread[t].c, TextsOf[thread[t].c]) ELSE UNCHANGED nodes
<1>1. thread[t].a \in Contents /\ There(thread[t].a) /\ thread[t].c \in Contents
  BY DEF Update, Ty, ThreadTypes, Reingesting
<1> DEFINE n == [nodes[thread[t].a] EXCEPT !.hash = thread[t].c, !.listed = TextsOf[thread[t].c]]
<1>2. n \in Node /\ n.hash = thread[t].c /\ n.listed = TextsOf[thread[t].c] /\ n # None
  BY <1>1, NodeIsThere, Constants DEF Node
<1>3. IF Executed(r) /\ ~Taken(thread[t].a, thread[t].c)
      THEN nodes' = [nodes EXCEPT ![thread[t].a] = n] ELSE UNCHANGED nodes
  BY DEF Update
<1> HIDE DEF n
<1> QED
  BY <1>1, <1>2, <1>3 DEF Lists, Ty, StoreTypes

LEMMA CreateNodes ==
  ASSUME Ty, NEW t \in Threads, NEW r \in Reply, Create(t, r)
  PROVE  LET c == thread[t].c IN
         IF Executed(r) /\ ~Collides(c)
         THEN Lists(c, IF There(c) THEN nodes[c].hash ELSE c, TextsOf[c]) ELSE UNCHANGED nodes
<1>1. thread[t].c \in Contents /\ thread[t].f \in Files /\ TextsOf[thread[t].c] \in SUBSET Texts
  BY Constants DEF Create, Ty, ThreadTypes
<1>2. IF Executed(r) /\ ~Collides(thread[t].c)
      THEN nodes' = Merged(thread[t].c, thread[t].c, thread[t].f,
        TextsOf[thread[t].c]) ELSE UNCHANGED nodes
  BY DEF Create
<1> QED
  BY <1>1, <1>2, MergedNodes

LEMMA WriteArtifactNodes ==
  ASSUME Ty, NEW r \in Reply, WriteArtifact(r)
  PROVE  LET a == job.g.a IN
         IF Executed(r) /\ ~(~There(a) /\ Taken(a, Blank))
         THEN Lists(a, IF There(a) THEN nodes[a].hash ELSE Blank, job.g.ids) ELSE UNCHANGED nodes
<1>1. job.g.a \in Contents /\ job.g.file \in Files \cup {None} /\ job.g.ids \in SUBSET Texts
  BY JobTyped DEF WriteArtifact, Ty, JobTypes, Grp
<1>2. IF Executed(r) /\ ~(~There(job.g.a) /\ Taken(job.g.a, Blank))
      THEN nodes' = Merged(job.g.a, Blank, job.g.file, job.g.ids) ELSE UNCHANGED nodes
  BY DEF WriteArtifact
<1> QED
  BY <1>1, <1>2, MergedNodes

-----------------------------------------------------------------------------
(* Who writes to what.                                                     *)

Groups == job.todo \cup {job.g}

\* Without an overlap, requests in flight have contents of their own, and an artifact
\* that rows are being written for is in no other request's hands, nor in the job's.
OneWriter ==
    /\ \A t, u \in Threads :
          t # u /\ thread[t].at # "idle" /\ thread[u].at # "idle" => thread[t].c # thread[u].c
    /\ \A t \in Threads : thread[t].at \in Writing => \A g \in Groups : g.a # thread[t].a
    /\ \A t, u \in Threads :
          t # u /\ thread[t].at \in Writing /\ thread[u].at \in Writing => thread[t].a # thread[u].a

Apart == "overlapped" \notin excused => OneWriter

LEMMA InitApart == Init => Apart
  BY DEF Init, Apart, OneWriter, Idle, Writing, MakingNew

\* A step that starts no request, no write and no recovery keeps them apart.
LEMMA StaysApart ==
  ASSUME Ty', Apart, excused \subseteq excused',
         \A u \in Threads : \/ thread'[u].at = "idle"
                            \/ thread[u].at # "idle" /\ thread'[u].c = thread[u].c,
         \A u \in Threads : thread'[u].at \in Writing => thread[u].at \in Writing
           /\ thread'[u].a = thread[u].a,
         \A g \in Groups' : g \in Groups \/ g.a = None
  PROVE  Apart'
<1>1. \A u \in Threads : thread'[u].at \in Writing => thread'[u].a # None
  BY Constants DEF Ty, ThreadTypes, Writing, Reingesting, MakingNew
<1> QED
  BY <1>1 DEF Apart, OneWriter

\* A request that starts to write has the artifact to itself, or is excused.
LEMMA StartsApart ==
  ASSUME Ty', Apart, excused \subseteq excused', NEW t \in Threads, NEW a \in Contents,
         Contended(t, a) => "overlapped" \in excused', UNCHANGED job, Others(t),
         thread[t].at # "idle", thread'[t].c = thread[t].c, thread'[t].a = a
  PROVE  Apart'
  BY DEF Apart, OneWriter, Contended, Others, Groups

LEMMA NextApart == Ty /\ Ty' /\ Apart /\ [Next]_vars => Apart'
<1> SUFFICES ASSUME Ty, Ty', Apart, [Next]_vars PROVE Apart'
  OBVIOUS
<1>1. CASE UNCHANGED vars
  BY <1>1 DEF vars, Apart, OneWriter, Groups
<1>2. ASSUME NEW t \in Threads, NEW r \in Reply, CheckDuplicate(t, r) PROVE Apart'
  <2>1. excused \subseteq excused'
    BY <1>2 DEF CheckDuplicate
  <2> QED
    BY <1>2, <2>1, CheckDuplicateMoves, StaysApart DEF Answered, Moved, Others, Idle, Searching,
       Writing, MakingNew, Groups
<1>3. ASSUME NEW t \in Threads, NEW r \in Reply, Find(t, r) PROVE Apart'
  <2>1. excused \subseteq excused'
    BY <1>3 DEF Find
  <2> QED
    BY <1>3, <2>1, FindMoves, StaysApart DEF Answered, Moved, Others, Idle, Searching, Writing,
       MakingNew, Groups
<1>4. ASSUME NEW t \in Threads, NEW r \in Reply, NEW gone \in BOOLEAN, NotePath(t, r, gone)
       PROVE Apart'
  <2>1. excused \subseteq excused'
    BY <1>4 DEF NotePath
  <2> QED
    BY <1>4, <2>1, NotePathMoves, StaysApart DEF Answered, Moved, Others, Idle, Searching,
       Writing, MakingNew, Groups
<1>5. ASSUME NEW t \in Threads, NEW r \in Reply, ReadCurrent(t, r) PROVE Apart'
  <2>1. excused \subseteq excused'
    BY <1>5 DEF ReadCurrent
  <2> QED
    BY <1>5, <2>1, ReadCurrentMoves, StaysApart DEF Answered, Moved, Others, Idle, Searching,
       Writing, MakingNew, Groups
<1>6. ASSUME NEW t \in Threads, NEW r \in Reply, Upsert(t, r) PROVE Apart'
  <2>1. /\ thread[t].at = "upsert" /\ UNCHANGED job
        /\ Moved(t, Searching) \/ Moved(t, {"close"})
    BY <1>6, UpsertMoves
  <2>2. /\ excused \subseteq excused' /\ thread[t].a \in Contents
        /\ Contended(t, thread[t].a) => "overlapped" \in excused'
    BY <1>6, <2>1, WriterTyped DEF Upsert, When, Reingesting
  <2> QED
    BY <2>1, <2>2, StartsApart DEF Moved
<1>7. ASSUME NEW t \in Threads, NEW r \in Reply, CloseRows(t, r) PROVE Apart'
  <2>1. excused \subseteq excused'
    BY <1>7 DEF CloseRows, Excuse
  <2> QED
    BY <1>7, <2>1, CloseRowsMoves, StaysApart DEF Answered, Moved, Others, Idle, Searching,
       Writing, MakingNew, Groups
<1>8. ASSUME NEW t \in Threads, NEW r \in Reply, Stage(t, r) PROVE Apart'
  <2>1. excused \subseteq excused'
    BY <1>8 DEF Stage, Excuse
  <2> QED
    BY <1>8, <2>1, StageMoves, StaysApart DEF Answered, Moved, Others, Idle, Searching, Writing,
       MakingNew, Groups
<1>9. ASSUME NEW t \in Threads, NEW r \in Reply, Update(t, r) PROVE Apart'
  <2>1. excused \subseteq excused'
    BY <1>9 DEF Update
  <2> QED
    BY <1>9, <2>1, UpdateMoves, StaysApart DEF Answered, Moved, Others, Idle, Searching, Writing,
       MakingNew, Groups
<1>10. ASSUME NEW t \in Threads, NEW r \in Reply, Flip(t, r) PROVE Apart'
  <2>1. excused \subseteq excused'
    BY <1>10 DEF Flip
  <2> QED
    BY <1>10, <2>1, FlipMoves, StaysApart DEF Answered, Moved, Others, Idle, Searching, Writing,
       MakingNew, Groups
<1>11. ASSUME NEW t \in Threads, NEW r \in Reply, SetProperties(t, r) PROVE Apart'
  <2>1. excused \subseteq excused'
    BY <1>11 DEF SetProperties
  <2> QED
    BY <1>11, <2>1, SetPropertiesMoves, StaysApart DEF Answered, Moved, Others, Idle, Searching,
       Writing, MakingNew, Groups
<1>12. ASSUME NEW t \in Threads, NEW r \in Reply, Write(t, r) PROVE Apart'
  <2>1. excused \subseteq excused' /\ (Contended(t, thread[t].c) => "overlapped" \in excused')
    BY <1>12 DEF Write, When
  <2>2. thread[t].at = "write" /\ UNCHANGED job /\ thread[t].c \in Contents
    BY <1>12, WriteMoves, WriterTyped
  <2>3. CASE Answered(t)
    BY <2>1, <2>2, <2>3, StaysApart DEF Answered, Others, Idle, Writing, MakingNew, Groups
  <2>4. CASE Others(t) /\ thread'[t].c = thread[t].c /\ thread'[t].a = thread[t].c
    BY <2>1, <2>2, <2>4, StartsApart
  <2> QED
    BY <1>12, <2>3, <2>4, WriteMoves
<1>13. ASSUME NEW t \in Threads, NEW r \in Reply, StageNew(t, r) PROVE Apart'
  <2>1. excused \subseteq excused'
    BY <1>13 DEF StageNew, Excuse
  <2> QED
    BY <1>13, <2>1, StageNewMoves, StaysApart DEF Answered, Moved, Others, Idle, Searching,
       Writing, MakingNew, Groups
<1>14. ASSUME NEW t \in Threads, NEW r \in Reply, Create(t, r) PROVE Apart'
  <2>1. excused \subseteq excused'
    BY <1>14 DEF Create
  <2> QED
    BY <1>14, <2>1, CreateMoves, StaysApart DEF Answered, Moved, Others, Idle, Searching, Writing,
       MakingNew, Groups
<1>15. ASSUME NEW t \in Threads, NEW r \in Reply, Rollback(t, r) PROVE Apart'
  <2>1. excused \subseteq excused'
    BY <1>15 DEF Rollback
  <2> QED
    BY <1>15, <2>1, RollbackMoves, StaysApart DEF Answered, Moved, Others, Idle, Searching,
       Writing, MakingNew, Groups
<1>16. ASSUME NEW t \in Threads, NEW r \in Reply, SetPath(t, r) PROVE Apart'
  <2>1. excused \subseteq excused'
    BY <1>16 DEF SetPath
  <2> QED
    BY <1>16, <2>1, SetPathMoves, StaysApart DEF Answered, Moved, Others, Idle, Searching, Writing,
       MakingNew, Groups
<1>17. ASSUME NEW t \in Threads, NEW r \in Reply, FlipNew(t, r) PROVE Apart'
  <2>1. excused \subseteq excused'
    BY <1>17 DEF FlipNew
  <2> QED
    BY <1>17, <2>1, FlipNewMoves, StaysApart DEF Answered, Moved, Others, Idle, Searching, Writing,
       MakingNew, Groups
<1>18. ASSUME NEW r \in Reply, Count(r) PROVE Apart'
  <2>1. excused \subseteq excused'
    BY <1>18 DEF Count, Excuse
  <2>2. \A g \in Groups' : g \in Groups \/ g.a = None
    BY <1>18, CountMoves DEF Groups, Proceeds, Finished, Resting, NoGroup
  <2> QED
    BY <1>18, <2>1, <2>2, CountMoves, StaysApart
<1>19. ASSUME NEW r \in Reply, ReadGraph(r) PROVE Apart'
  <2>1. excused \subseteq excused'
    BY <1>19 DEF ReadGraph, Excuse
  <2>2. \A g \in Groups' : g \in Groups \/ g.a = None
    BY <1>19, ReadGraphMoves DEF Groups, Proceeds, Finished, Resting, NoGroup
  <2> QED
    BY <1>19, <2>1, <2>2, ReadGraphMoves, StaysApart
<1>20. ASSUME NEW r \in Reply, WriteArtifact(r) PROVE Apart'
  <2>1. excused \subseteq excused'
    BY <1>20 DEF WriteArtifact, Excuse
  <2>2. \A g \in Groups' : g \in Groups \/ g.a = None
    BY <1>20, WriteArtifactMoves DEF Groups, Proceeds, Finished, Resting, NoGroup
  <2> QED
    BY <1>20, <2>1, <2>2, WriteArtifactMoves, StaysApart
<1>21. ASSUME NEW r \in Reply, FlipRecovered(r) PROVE Apart'
  <2>1. excused \subseteq excused'
    BY <1>21 DEF FlipRecovered, Excuse
  <2>2. \A g \in Groups' : g \in Groups \/ g.a = None
    BY <1>21, FlipRecoveredMoves DEF Groups, Proceeds, Finished, Resting, NoGroup
  <2> QED
    BY <1>21, <2>1, <2>2, FlipRecoveredMoves, StaysApart
<1>22. ASSUME NEW r \in Reply, NEW x \in job.left, Bury(x, r) PROVE Apart'
  <2>1. excused \subseteq excused'
    BY <1>22 DEF Bury, Excuse
  <2>2. \A g \in Groups' : g \in Groups \/ g.a = None
    BY <1>22, BuryMoves DEF Groups, Proceeds, Finished, Resting, NoGroup
  <2> QED
    BY <1>22, <2>1, <2>2, BuryMoves, StaysApart
<1>23. ASSUME NEW r \in Reply, Purge(r) PROVE Apart'
  <2>1. excused \subseteq excused'
    BY <1>23 DEF Purge, Excuse
  <2>2. \A g \in Groups' : g \in Groups \/ g.a = None
    BY <1>23, PurgeMoves DEF Groups, Proceeds, Finished, Resting, NoGroup
  <2> QED
    BY <1>23, <2>1, <2>2, PurgeMoves, StaysApart
<1>24. ASSUME Scan PROVE Apart'
  <2>1. \A g \in Groups' : g.a = None \/ g \in job'.todo
    BY <1>24, ScanShape DEF Groups, NoGroup
  <2>2. \A u \in Threads : thread'[u].at \in Writing => thread'[u].a # None
    BY Constants DEF Ty, ThreadTypes, Writing, Reingesting, MakingNew
  <2> QED
    BY <1>24, <2>1, <2>2, ScanShape DEF Apart, OneWriter
<1>25. ASSUME NEW g \in job.todo, Take(g) PROVE Apart'
  <2>1. excused' = excused /\ thread' = thread
    BY <1>25 DEF Take
  <2>2. \A h \in Groups' : h \in Groups
    BY <1>25 DEF Take, Groups
  <2> QED
    BY <2>1, <2>2, StaysApart
<1>26. ASSUME NEW t \in Threads, NEW c \in Contents, NEW f \in Files, Request(t, c, f) PROVE
       Apart'
  <2>1. /\ thread[t].at = "idle" /\ UNCHANGED job /\ Others(t)
        /\ thread'[t].at = "duplicate" /\ thread'[t].c = c
    BY <1>26 DEF Request, Others, Idle, Ty, ThreadTypes, Thread
  <2>2. /\ excused \subseteq excused'
        /\ "overlapped" \notin excused' => \A u \in Threads : thread[u].at # "idle"
             => thread[u].c # c
    BY <1>26 DEF Request, Excuse, When
  <2> QED
    BY <2>1, <2>2 DEF Apart, OneWriter, Others, Groups, Writing, MakingNew
<1>27. ASSUME Crash PROVE Apart'
  <2>1. excused \subseteq excused' /\ \A u \in Threads : thread'[u].at = "idle"
    BY <1>27 DEF Crash, Excuse, Idle
  <2>2. \A h \in Groups' : h.a = None
    BY <1>27 DEF Crash, Groups, Resting, NoGroup
  <2> QED
    BY <2>1, <2>2, StaysApart DEF Writing, MakingNew
<1>28. ASSUME NEW t \in Threads, NEW r \in Reply, Serve(t, r) PROVE Apart'
  BY <1>28, <1>2, <1>3, <1>4, <1>5, <1>6, <1>7, <1>8, <1>9, <1>10, <1>11, <1>12, <1>13, <1>14,
     <1>15, <1>16, <1>17 DEF Serve
<1>29. ASSUME NEW r \in Reply, Recover(r) PROVE Apart'
  BY <1>29, <1>18, <1>19, <1>20, <1>21, <1>22, <1>23 DEF Recover
<1> QED
  BY <1>1, <1>28, <1>29, <1>24, <1>25, <1>26, <1>27 DEF Next, GoesOn

LEMMA ExcusesStay == [Next]_vars => excused \subseteq excused'
<1> SUFFICES ASSUME [Next]_vars PROVE excused \subseteq excused'
  OBVIOUS
<1>1. CASE UNCHANGED vars
  BY <1>1 DEF vars
<1>2. ASSUME NEW t \in Threads, NEW r \in Reply, CheckDuplicate(t, r) PROVE excused \subseteq
       excused'
  BY <1>2 DEF CheckDuplicate
<1>3. ASSUME NEW t \in Threads, NEW r \in Reply, Find(t, r) PROVE excused \subseteq excused'
  BY <1>3 DEF Find
<1>4. ASSUME NEW t \in Threads, NEW r \in Reply, NEW gone \in BOOLEAN, NotePath(t, r, gone)
       PROVE excused \subseteq excused'
  BY <1>4 DEF NotePath
<1>5. ASSUME NEW t \in Threads, NEW r \in Reply, ReadCurrent(t, r) PROVE excused \subseteq
       excused'
  BY <1>5 DEF ReadCurrent
<1>6. ASSUME NEW t \in Threads, NEW r \in Reply, Upsert(t, r) PROVE excused \subseteq excused'
  BY <1>6 DEF Upsert
<1>7. ASSUME NEW t \in Threads, NEW r \in Reply, CloseRows(t, r) PROVE excused \subseteq
       excused'
  BY <1>7 DEF CloseRows, Excuse
<1>8. ASSUME NEW t \in Threads, NEW r \in Reply, Stage(t, r) PROVE excused \subseteq excused'
  BY <1>8 DEF Stage, Excuse
<1>9. ASSUME NEW t \in Threads, NEW r \in Reply, Update(t, r) PROVE excused \subseteq excused'
  BY <1>9 DEF Update
<1>10. ASSUME NEW t \in Threads, NEW r \in Reply, Flip(t, r) PROVE excused \subseteq excused'
  BY <1>10 DEF Flip
<1>11. ASSUME NEW t \in Threads, NEW r \in Reply, SetProperties(t, r) PROVE excused \subseteq
       excused'
  BY <1>11 DEF SetProperties
<1>12. ASSUME NEW t \in Threads, NEW r \in Reply, Write(t, r) PROVE excused \subseteq excused'
  BY <1>12 DEF Write
<1>13. ASSUME NEW t \in Threads, NEW r \in Reply, StageNew(t, r) PROVE excused \subseteq
       excused'
  BY <1>13 DEF StageNew, Excuse
<1>14. ASSUME NEW t \in Threads, NEW r \in Reply, Create(t, r) PROVE excused \subseteq excused'
  BY <1>14 DEF Create
<1>15. ASSUME NEW t \in Threads, NEW r \in Reply, Rollback(t, r) PROVE excused \subseteq
       excused'
  BY <1>15 DEF Rollback
<1>16. ASSUME NEW t \in Threads, NEW r \in Reply, SetPath(t, r) PROVE excused \subseteq excused'
  BY <1>16 DEF SetPath
<1>17. ASSUME NEW t \in Threads, NEW r \in Reply, FlipNew(t, r) PROVE excused \subseteq excused'
  BY <1>17 DEF FlipNew
<1>18. ASSUME NEW r \in Reply, Count(r) PROVE excused \subseteq excused'
  BY <1>18 DEF Count
<1>19. ASSUME NEW r \in Reply, ReadGraph(r) PROVE excused \subseteq excused'
  BY <1>19 DEF ReadGraph
<1>20. ASSUME NEW r \in Reply, WriteArtifact(r) PROVE excused \subseteq excused'
  BY <1>20 DEF WriteArtifact
<1>21. ASSUME NEW r \in Reply, FlipRecovered(r) PROVE excused \subseteq excused'
  BY <1>21 DEF FlipRecovered
<1>22. ASSUME NEW r \in Reply, NEW x \in job.left, Bury(x, r) PROVE excused \subseteq excused'
  BY <1>22 DEF Bury, Excuse
<1>23. ASSUME NEW r \in Reply, Purge(r) PROVE excused \subseteq excused'
  BY <1>23 DEF Purge
<1>24. ASSUME Scan PROVE excused \subseteq excused'
  BY <1>24 DEF Scan, Excuse
<1>25. ASSUME NEW g \in job.todo, Take(g) PROVE excused \subseteq excused'
  BY <1>25 DEF Take
<1>26. ASSUME NEW t \in Threads, NEW c \in Contents, NEW f \in Files, Request(t, c, f) PROVE
       excused \subseteq excused'
  BY <1>26 DEF Request, Excuse
<1>27. ASSUME Crash PROVE excused \subseteq excused'
  BY <1>27 DEF Crash, Excuse
<1>28. ASSUME NEW t \in Threads, NEW r \in Reply, Serve(t, r) PROVE excused \subseteq excused'
  BY <1>28, <1>2, <1>3, <1>4, <1>5, <1>6, <1>7, <1>8, <1>9, <1>10, <1>11, <1>12, <1>13, <1>14,
     <1>15, <1>16, <1>17 DEF Serve
<1>29. ASSUME NEW r \in Reply, Recover(r) PROVE excused \subseteq excused'
  BY <1>29, <1>18, <1>19, <1>20, <1>21, <1>22, <1>23 DEF Recover
<1> QED
  BY <1>1, <1>28, <1>29, <1>24, <1>25, <1>26, <1>27 DEF Next, GoesOn

-----------------------------------------------------------------------------
(* Nothing owed is lost.                                                   *)

Held(k) == rows[k].mark # "none" \/ k \in buried

\* Rows written for an artifact, taken up by the recovery, answered for, or listed by
\* a node are kept; a rollback is of an artifact without a node; a purge comes after
\* the dead letters.
NothingTaken ==
    /\ \A t \in Threads : thread[t].at \in Writing \ {"rollback"} =>
                              \A s \in TextsOf[thread[t].c] : Held(<<thread[t].a, s>>)
    /\ \A t \in Threads : thread[t].at = "rollback" => ~There(thread[t].c)
    /\ \A g \in Groups : \A s \in g.ids : Held(<<g.a, s>>)
    /\ \A k \in answered : Held(k) /\ There(k[1])
    /\ \A b \in Contents : There(b) => \A s \in nodes[b].listed : Held(<<b, s>>)
    /\ job.at \in {"bury", "purge"} => \A s \in job.g.ids \ job.left : <<job.g.a, s>> \in buried

Quiet == {"overlapped", "unburied"} \cap excused = {}
KeptAll == Quiet => NothingTaken

LEMMA InitKept == Init => KeptAll
  BY DEF Init, KeptAll, NothingTaken, Groups, Resting, NoGroup, There, Idle, Writing, MakingNew

Holds(k) == rows'[k].mark # "none" \/ k \in buried'

\* What a step that takes no row away has to show, part by part.
KeepsRows == \A b \in Contents, s \in Texts : Held(<<b, s>>) => Holds(<<b, s>>)
KeepsWriters ==
    \A u \in Threads : thread'[u].at \in Writing \ {"rollback"} =>
        \/ thread[u].at \in Writing \ {"rollback"} /\ thread'[u].a = thread[u].a
             /\ thread'[u].c = thread[u].c
        \/ \A s \in TextsOf[thread'[u].c] : Holds(<<thread'[u].a, s>>)
KeepsRollbacks == \A u \in Threads : thread'[u].at = "rollback" => nodes'[thread'[u].c] = None
KeepsGroups == \A g \in Groups' : g \in Groups \/ \A s \in g.ids : Holds(<<g.a, s>>)
KeepsAnswers == \A k \in answered' : k \in answered \/ (Holds(k) /\ nodes'[k[1]] # None)
KeepsLists ==
    \A b \in Contents : nodes'[b] # None =>
        \/ nodes[b] # None /\ nodes'[b].listed = nodes[b].listed
        \/ \A s \in nodes'[b].listed : Holds(<<b, s>>)
KeepsPurge == job'.at \in {"bury", "purge"} =>
                  \A s \in job'.g.ids \ job'.left : <<job'.g.a, s>> \in buried'

LEMMA StaysKept ==
  ASSUME Ty, Ty', NothingTaken, Grown, KeepsRows, KeepsWriters, KeepsRollbacks, KeepsGroups,
         KeepsAnswers,
         KeepsLists, KeepsPurge
  PROVE  NothingTaken'
<1> USE DEF KeepsRows, KeepsWriters, KeepsRollbacks, KeepsGroups, KeepsAnswers, KeepsLists,
      KeepsPurge
<1>1. \A u \in Threads : thread'[u].at \in Writing \ {"rollback"} =>
                              \A s \in TextsOf[thread'[u].c] : Holds(<<thread'[u].a, s>>)
  <2>1. \A u \in Threads : thread[u].at \in Writing => thread[u].a \in Contents
          /\ TextsOf[thread[u].c] \in SUBSET Texts
    BY WriterTyped DEF Writing, Reingesting, MakingNew
  <2> QED
    BY <2>1 DEF NothingTaken
<1>2. \A g \in Groups' : \A s \in g.ids : Holds(<<g.a, s>>)
  <2>1. \A g \in Groups : \A s \in g.ids : s \in Texts /\ g.a \in Contents \cup {None}
    BY DEF Groups, Ty, JobTypes, Grp
  <2>2. \A g \in Groups : g.a = None => g.ids = {}
    BY Constants DEF Groups, Ty, JobTypes, Grp
  <2> QED
    BY <2>1, <2>2 DEF NothingTaken
<1>3. \A k \in answered' : Holds(k) /\ nodes'[k[1]] # None
  <2>1. \A k \in answered : \E b \in Contents, s \in Texts : k = <<b, s>>
    BY DEF Ty, StoreTypes, Keys
  <2> QED
    BY <2>1 DEF NothingTaken, Grown, There
<1>4. \A b \in Contents : nodes'[b] # None => \A s \in nodes'[b].listed : Holds(<<b, s>>)
  <2>1. \A b \in Contents : nodes[b] # None => nodes[b].listed \in SUBSET Texts
    BY DEF Ty, StoreTypes, Node
  <2> QED
    BY <2>1 DEF NothingTaken, There
<1> QED
  BY <1>1, <1>2, <1>3, <1>4 DEF NothingTaken, Held, Holds, There

LEMMA KeepsWhatIsSame ==
  ASSUME Ty, NothingTaken, buried \subseteq buried'
  PROVE  /\ SameRows \/ UNCHANGED rows => KeepsRows
         /\ \A a, S : Wrote(a, S) \/ Shut(a, S) => KeepsRows
         /\ \A a, S : Remarked(a, S, "pending") \/ Remarked(a, S, "committed") => KeepsRows
         /\ UNCHANGED nodes \/ SameLists => KeepsLists
         /\ UNCHANGED answered => KeepsAnswers
         /\ UNCHANGED job => KeepsGroups /\ KeepsPurge
         /\ UNCHANGED thread => KeepsWriters
         /\ UNCHANGED <<nodes, thread>> => KeepsRollbacks
<1> USE DEF KeepsRows, KeepsWriters, KeepsRollbacks, KeepsGroups, KeepsAnswers, KeepsLists,
      KeepsPurge,
            Held, Holds
<1>1. SameRows \/ UNCHANGED rows => KeepsRows
  BY DEF SameRows
<1>2. \A a, S : Wrote(a, S) \/ Shut(a, S) => KeepsRows
  BY DEF Wrote, Shut
<1>3. \A a, S : Remarked(a, S, "pending") \/ Remarked(a, S, "committed") => KeepsRows
  BY DEF Remarked
<1>4. UNCHANGED nodes \/ SameLists => KeepsLists
  BY DEF SameLists
<1>5. UNCHANGED answered => KeepsAnswers
  OBVIOUS
<1>6. UNCHANGED job => KeepsGroups /\ KeepsPurge
  BY DEF Groups, NothingTaken
<1>7. UNCHANGED thread => KeepsWriters
  OBVIOUS
<1>8. UNCHANGED <<nodes, thread>> => KeepsRollbacks
  BY DEF NothingTaken, There
<1> QED
  BY <1>1, <1>2, <1>3, <1>4, <1>5, <1>6, <1>7, <1>8

\* A request's step that starts no write and no rollback.
LEMMA MovesKept ==
  ASSUME Ty, NothingTaken, SameLists, NEW t \in Threads,
         Others(t), thread'[t].at \notin Writing
         \/ (/\ thread[t].at \in Writing \ {"rollback"} /\ thread'[t].at # "rollback"
             /\ thread'[t].a = thread[t].a /\ thread'[t].c = thread[t].c)
  PROVE  KeepsWriters /\ KeepsRollbacks
<1>1. "rollback" \in Writing
  BY DEF Writing, MakingNew
<1>2. \A u \in Threads : thread[u].at = "rollback" => thread[u].c \in Contents
  BY DEF Ty, ThreadTypes
<1> QED
  BY <1>1, <1>2 DEF KeepsWriters, KeepsRollbacks, Others, NothingTaken, There, SameLists

LEMMA NextKept == Ty /\ Ty' /\ Apart /\ KeptAll /\ [Next]_vars => KeptAll'
<1> SUFFICES ASSUME Ty, Ty', Apart, KeptAll, [Next]_vars, Quiet' PROVE NothingTaken'
  BY DEF KeptAll
<1>0. OneWriter /\ NothingTaken /\ Grown
  BY NextNodes, ExcusesStay DEF Quiet, Apart, KeptAll
<1>00. UNCHANGED nodes => SameLists
  BY DEF SameLists
<1>1. CASE UNCHANGED vars
  <2>1. UNCHANGED <<nodes, rows, buried, thread, job, answered>>
    BY <1>1 DEF vars, stores
  <2>2. NothingTaken
    BY <1>0
  <2> QED
    BY <2>1, <2>2 DEF NothingTaken, Groups, Held, There
<1>2. ASSUME NEW t \in Threads, NEW r \in Reply, CheckDuplicate(t, r) PROVE NothingTaken'
  <2>1. UNCHANGED buried /\ KeepsRows
    BY <1>2, <1>0, KeepsWhatIsSame DEF CheckDuplicate, stores
  <2>2. SameLists
    BY <1>2, <1>00 DEF CheckDuplicate, stores
  <2>3. KeepsLists
    BY <1>0, <2>1, <2>2, KeepsWhatIsSame
  <2>4. KeepsWriters /\ KeepsRollbacks
    BY <1>2, <1>0, <2>2, CheckDuplicateMoves, MovesKept DEF Answered, Moved, Others, Idle,
       Searching, Writing, MakingNew
  <2>5. KeepsAnswers
    BY <1>2, <1>0, <2>1, KeepsWhatIsSame DEF CheckDuplicate
  <2>6. KeepsGroups /\ KeepsPurge
    BY <1>2, <1>0, <2>1, CheckDuplicateMoves, KeepsWhatIsSame
  <2> QED
    BY <1>0, <2>1, <2>3, <2>4, <2>5, <2>6, StaysKept
<1>3. ASSUME NEW t \in Threads, NEW r \in Reply, Find(t, r) PROVE NothingTaken'
  <2>1. UNCHANGED buried /\ KeepsRows
    BY <1>3, <1>0, KeepsWhatIsSame DEF Find, stores
  <2>2. SameLists
    BY <1>3, <1>00 DEF Find, stores
  <2>3. KeepsLists
    BY <1>0, <2>1, <2>2, KeepsWhatIsSame
  <2>4. KeepsWriters /\ KeepsRollbacks
    BY <1>3, <1>0, <2>2, FindMoves, MovesKept DEF Answered, Moved, Others, Idle, Searching, Writing,
       MakingNew
  <2>5. KeepsAnswers
    BY <1>3, <1>0, <2>1, KeepsWhatIsSame DEF Find
  <2>6. KeepsGroups /\ KeepsPurge
    BY <1>3, <1>0, <2>1, FindMoves, KeepsWhatIsSame
  <2> QED
    BY <1>0, <2>1, <2>3, <2>4, <2>5, <2>6, StaysKept
<1>4. ASSUME NEW t \in Threads, NEW r \in Reply, NEW gone \in BOOLEAN, NotePath(t, r, gone)
       PROVE NothingTaken'
  <2>1. UNCHANGED buried /\ KeepsRows
    BY <1>4, <1>0, KeepsWhatIsSame DEF NotePath, stores
  <2>2. SameLists
    BY <1>4, NotePathNodes
  <2>3. KeepsLists
    BY <1>0, <2>1, <2>2, KeepsWhatIsSame
  <2>4. KeepsWriters /\ KeepsRollbacks
    BY <1>4, <1>0, <2>2, NotePathMoves, MovesKept DEF Answered, Moved, Others, Idle, Searching,
       Writing, MakingNew
  <2>5. KeepsAnswers
    BY <1>4, <1>0, <2>1, KeepsWhatIsSame DEF NotePath
  <2>6. KeepsGroups /\ KeepsPurge
    BY <1>4, <1>0, <2>1, NotePathMoves, KeepsWhatIsSame
  <2> QED
    BY <1>0, <2>1, <2>3, <2>4, <2>5, <2>6, StaysKept
<1>5. ASSUME NEW t \in Threads, NEW r \in Reply, ReadCurrent(t, r) PROVE NothingTaken'
  <2>1. UNCHANGED buried /\ KeepsRows
    BY <1>5, <1>0, KeepsWhatIsSame DEF ReadCurrent, stores
  <2>2. SameLists
    BY <1>5, <1>00 DEF ReadCurrent, stores
  <2>3. KeepsLists
    BY <1>0, <2>1, <2>2, KeepsWhatIsSame
  <2>4. KeepsWriters /\ KeepsRollbacks
    BY <1>5, <1>0, <2>2, ReadCurrentMoves, MovesKept DEF Answered, Moved, Others, Idle, Searching,
       Writing, MakingNew
  <2>5. KeepsAnswers
    BY <1>5, <1>0, <2>1, KeepsWhatIsSame DEF ReadCurrent
  <2>6. KeepsGroups /\ KeepsPurge
    BY <1>5, <1>0, <2>1, ReadCurrentMoves, KeepsWhatIsSame
  <2> QED
    BY <1>0, <2>1, <2>3, <2>4, <2>5, <2>6, StaysKept
<1>6. ASSUME NEW t \in Threads, NEW r \in Reply, Upsert(t, r) PROVE NothingTaken'
  <2>1. UNCHANGED buried /\ KeepsRows
    BY <1>6, <1>0, UpsertRows, KeepsWhatIsSame DEF Upsert
  <2>2. SameLists
    BY <1>6, <1>00 DEF Upsert, stores
  <2>3. KeepsLists
    BY <1>0, <2>1, <2>2, KeepsWhatIsSame
  <2>4. KeepsWriters /\ KeepsRollbacks
    <3>1. CASE Moved(t, Searching)
      BY <1>0, <2>2, <3>1, MovesKept DEF Answered, Moved, Others, Idle, Searching, Writing,
         MakingNew
    <3>2. CASE Moved(t, {"close"}) /\ Executed(r)
      <4>1. thread[t].a \in Contents /\ TextsOf[thread[t].c] \in SUBSET Texts
        BY <1>6, UpsertMoves, WriterTyped DEF Reingesting
      <4>2. \A s \in TextsOf[thread[t].c] : rows'[<<thread[t].a, s>>].mark # "none"
        BY <1>6, <3>2, <4>1, UpsertRows DEF Wrote
      <4>3. KeepsWriters
        BY <3>2, <4>2 DEF KeepsWriters, Holds, Moved, Others
      <4>4. KeepsRollbacks
        BY <1>0, <2>2, <3>2 DEF KeepsRollbacks, Moved, Others, NothingTaken, SameLists, There, Ty,
           ThreadTypes
      <4> QED
        BY <4>3, <4>4
    <3> QED
      BY <1>6, <3>1, <3>2, UpsertMoves DEF Raised, Executed
  <2>5. KeepsAnswers
    BY <1>6, <1>0, <2>1, KeepsWhatIsSame DEF Upsert
  <2>6. KeepsGroups /\ KeepsPurge
    BY <1>6, <1>0, <2>1, UpsertMoves, KeepsWhatIsSame
  <2> QED
    BY <1>0, <2>1, <2>3, <2>4, <2>5, <2>6, StaysKept
<1>7. ASSUME NEW t \in Threads, NEW r \in Reply, CloseRows(t, r) PROVE NothingTaken'
  <2>1. UNCHANGED buried /\ KeepsRows
    BY <1>7, <1>0, CloseRowsRows, KeepsWhatIsSame DEF CloseRows
  <2>2. SameLists
    BY <1>7, <1>00 DEF CloseRows, stores
  <2>3. KeepsLists
    BY <1>0, <2>1, <2>2, KeepsWhatIsSame
  <2>4. KeepsWriters /\ KeepsRollbacks
    BY <1>7, <1>0, <2>2, CloseRowsMoves, MovesKept DEF Answered, Moved, Others, Idle, Searching,
       Writing, MakingNew
  <2>5. KeepsAnswers
    BY <1>7, <1>0, <2>1, KeepsWhatIsSame DEF CloseRows
  <2>6. KeepsGroups /\ KeepsPurge
    BY <1>7, <1>0, <2>1, CloseRowsMoves, KeepsWhatIsSame
  <2> QED
    BY <1>0, <2>1, <2>3, <2>4, <2>5, <2>6, StaysKept
<1>8. ASSUME NEW t \in Threads, NEW r \in Reply, Stage(t, r) PROVE NothingTaken'
  <2>1. UNCHANGED buried /\ KeepsRows
    BY <1>8, <1>0, StageRows, KeepsWhatIsSame DEF Stage
  <2>2. SameLists
    BY <1>8, <1>00 DEF Stage, stores
  <2>3. KeepsLists
    BY <1>0, <2>1, <2>2, KeepsWhatIsSame
  <2>4. KeepsWriters /\ KeepsRollbacks
    BY <1>8, <1>0, <2>2, StageMoves, MovesKept DEF Answered, Moved, Others, Idle, Searching,
       Writing, MakingNew
  <2>5. KeepsAnswers
    BY <1>8, <1>0, <2>1, KeepsWhatIsSame DEF Stage
  <2>6. KeepsGroups /\ KeepsPurge
    BY <1>8, <1>0, <2>1, StageMoves, KeepsWhatIsSame
  <2> QED
    BY <1>0, <2>1, <2>3, <2>4, <2>5, <2>6, StaysKept
<1>9. ASSUME NEW t \in Threads, NEW r \in Reply, Update(t, r) PROVE NothingTaken'
  <2>1. UNCHANGED buried /\ KeepsRows
    BY <1>9, <1>0, KeepsWhatIsSame DEF Update, stores
  <2>3. KeepsLists
    <3>1. thread[t].at = "update" /\ thread[t].a \in Contents
            /\ TextsOf[thread[t].c] \in SUBSET Texts
      BY <1>9, UpdateMoves, WriterTyped DEF Reingesting
    <3>2. \A s \in TextsOf[thread[t].c] : Holds(<<thread[t].a, s>>)
      BY <1>0, <2>1, <3>1 DEF NothingTaken, KeepsRows, Writing
    <3> QED
      BY <1>9, <3>1, <3>2, UpdateNodes DEF KeepsLists, Lists
  <2>4. KeepsWriters /\ KeepsRollbacks
    <3>1. \A b \in Contents : nodes[b] = None => nodes'[b] = None
      BY <1>9, UpdateNodes, UpdateMoves DEF Lists, Ty, ThreadTypes, There, Reingesting
    <3> QED
      BY <1>9, <1>0, <3>1, UpdateMoves DEF KeepsWriters, KeepsRollbacks, NothingTaken, Answered,
         Moved, Others,
         Idle, Writing, MakingNew, There, Ty, ThreadTypes
  <2>5. KeepsAnswers
    BY <1>9, <1>0, <2>1, KeepsWhatIsSame DEF Update
  <2>6. KeepsGroups /\ KeepsPurge
    BY <1>9, <1>0, <2>1, UpdateMoves, KeepsWhatIsSame
  <2> QED
    BY <1>0, <2>1, <2>3, <2>4, <2>5, <2>6, StaysKept
<1>10. ASSUME NEW t \in Threads, NEW r \in Reply, Flip(t, r) PROVE NothingTaken'
  <2>1. UNCHANGED buried /\ KeepsRows
    BY <1>10, <1>0, FlipRows, KeepsWhatIsSame DEF Flip
  <2>2. SameLists
    BY <1>10, <1>00 DEF Flip, stores
  <2>3. KeepsLists
    BY <1>0, <2>1, <2>2, KeepsWhatIsSame
  <2>4. KeepsWriters /\ KeepsRollbacks
    BY <1>10, <1>0, <2>2, FlipMoves, MovesKept DEF Answered, Moved, Others, Idle, Searching,
       Writing, MakingNew
  <2>5. KeepsAnswers
    BY <1>10, <1>0, <2>1, KeepsWhatIsSame DEF Flip
  <2>6. KeepsGroups /\ KeepsPurge
    BY <1>10, <1>0, <2>1, FlipMoves, KeepsWhatIsSame
  <2> QED
    BY <1>0, <2>1, <2>3, <2>4, <2>5, <2>6, StaysKept
<1>11. ASSUME NEW t \in Threads, NEW r \in Reply, SetProperties(t, r) PROVE NothingTaken'
  <2>1. UNCHANGED buried /\ KeepsRows
    BY <1>11, <1>0, KeepsWhatIsSame DEF SetProperties, stores
  <2>2. SameLists
    BY <1>11, SetPropertiesNodes
  <2>3. KeepsLists
    BY <1>0, <2>1, <2>2, KeepsWhatIsSame
  <2>4. KeepsWriters /\ KeepsRollbacks
    BY <1>11, <1>0, <2>2, SetPropertiesMoves, MovesKept DEF Answered, Moved, Others, Idle,
       Searching, Writing, MakingNew
  <2>5. KeepsAnswers
    <3>1. /\ thread[t].at = "properties" /\ thread[t].a \in Contents
               /\ TextsOf[thread[t].c] \in SUBSET Texts
          /\ There(thread[t].a) /\ thread[t].a = thread[t].a
      BY <1>11, SetPropertiesMoves, WriterTyped DEF Reingesting, MakingNew, Ty, ThreadTypes
    <3>2. \A s \in TextsOf[thread[t].c] : Holds(<<thread[t].a, s>>) /\ nodes'[thread[t].a] # None
      BY <1>0, <2>1, <3>1 DEF NothingTaken, KeepsRows, Writing, MakingNew, Grown, There
    <3>3. answered' \subseteq answered \cup Rows(thread[t].a, TextsOf[thread[t].c])
      BY <1>11 DEF SetProperties
    <3> QED
      BY <3>2, <3>3 DEF KeepsAnswers, Rows
  <2>6. KeepsGroups /\ KeepsPurge
    BY <1>11, <1>0, <2>1, SetPropertiesMoves, KeepsWhatIsSame
  <2> QED
    BY <1>0, <2>1, <2>3, <2>4, <2>5, <2>6, StaysKept
<1>12. ASSUME NEW t \in Threads, NEW r \in Reply, Write(t, r) PROVE NothingTaken'
  <2>1. UNCHANGED buried /\ KeepsRows
    BY <1>12, <1>0, WriteRows, KeepsWhatIsSame DEF Write
  <2>2. SameLists
    BY <1>12, <1>00 DEF Write, stores
  <2>3. KeepsLists
    BY <1>0, <2>1, <2>2, KeepsWhatIsSame
  <2>4. KeepsWriters /\ KeepsRollbacks
    <3>1. CASE Answered(t)
      BY <1>0, <2>2, <3>1, MovesKept DEF Answered, Moved, Others, Idle, Searching, Writing,
         MakingNew
    <3>2. CASE Others(t) /\ thread'[t].at = "stagenew" /\ thread'[t].c = thread[t].c
                 /\ thread'[t].a = thread[t].c /\ Executed(r)
      <4>1. thread[t].c \in Contents /\ TextsOf[thread[t].c] \in SUBSET Texts
        BY <1>12, WriteMoves, WriterTyped DEF Reingesting
      <4>2. \A s \in TextsOf[thread[t].c] : rows'[<<thread[t].c, s>>].mark # "none"
        BY <1>12, <3>2, <4>1, WriteRows DEF Wrote
      <4>3. KeepsWriters
        BY <3>2, <4>2 DEF KeepsWriters, Holds, Moved, Others
      <4>4. KeepsRollbacks
        BY <1>0, <2>2, <3>2 DEF KeepsRollbacks, Moved, Others, NothingTaken, SameLists, There, Ty,
           ThreadTypes
      <4> QED
        BY <4>3, <4>4
    <3> QED
      BY <1>12, <3>1, <3>2, WriteMoves DEF Raised, Executed
  <2>5. KeepsAnswers
    BY <1>12, <1>0, <2>1, KeepsWhatIsSame DEF Write
  <2>6. KeepsGroups /\ KeepsPurge
    BY <1>12, <1>0, <2>1, WriteMoves, KeepsWhatIsSame
  <2> QED
    BY <1>0, <2>1, <2>3, <2>4, <2>5, <2>6, StaysKept
<1>13. ASSUME NEW t \in Threads, NEW r \in Reply, StageNew(t, r) PROVE NothingTaken'
  <2>1. UNCHANGED buried /\ KeepsRows
    BY <1>13, <1>0, StageNewRows, KeepsWhatIsSame DEF StageNew
  <2>2. SameLists
    BY <1>13, <1>00 DEF StageNew, stores
  <2>3. KeepsLists
    BY <1>0, <2>1, <2>2, KeepsWhatIsSame
  <2>4. KeepsWriters /\ KeepsRollbacks
    BY <1>13, <1>0, <2>2, StageNewMoves, MovesKept DEF Answered, Moved, Others, Idle, Searching,
       Writing, MakingNew
  <2>5. KeepsAnswers
    BY <1>13, <1>0, <2>1, KeepsWhatIsSame DEF StageNew
  <2>6. KeepsGroups /\ KeepsPurge
    BY <1>13, <1>0, <2>1, StageNewMoves, KeepsWhatIsSame
  <2> QED
    BY <1>0, <2>1, <2>3, <2>4, <2>5, <2>6, StaysKept
<1>14. ASSUME NEW t \in Threads, NEW r \in Reply, Create(t, r) PROVE NothingTaken'
  <2>1. UNCHANGED buried /\ KeepsRows
    BY <1>14, <1>0, KeepsWhatIsSame DEF Create, stores
  <2>2. thread[t].at = "create" /\ thread[t].a = thread[t].c /\ thread[t].c \in Contents
        /\ TextsOf[thread[t].c] \in SUBSET Texts
    BY <1>14, CreateMoves, WriterTyped DEF MakingNew, Ty, ThreadTypes
  <2>3. KeepsLists
    <3>1. \A s \in TextsOf[thread[t].c] : Holds(<<thread[t].c, s>>)
      BY <1>0, <2>1, <2>2 DEF NothingTaken, KeepsRows, Writing, MakingNew
    <3> QED
      BY <1>14, <2>2, <3>1, CreateNodes DEF KeepsLists, Lists
  <2>4. KeepsWriters /\ KeepsRollbacks
    <3>1. KeepsWriters
      BY <1>14, CreateMoves DEF KeepsWriters, Answered, Moved, Others, Idle, Writing, MakingNew
    <3>2. ASSUME NEW u \in Threads, thread'[u].at = "rollback" PROVE nodes'[thread'[u].c] = None
      <4>1. CASE u = t
        BY <1>14, <3>2, <4>1, CreateMoves, CreateNodes DEF Answered, Moved, Idle, Collides, There
      <4>2. CASE u # t
        <5>1. thread'[u] = thread[u]
          BY <1>14, <4>2, CreateMoves DEF Answered, Moved, Others
        <5>2. thread[u].c \in Contents /\ ~There(thread[u].c) /\ thread[u].c # thread[t].c
          BY <1>0, <2>2, <3>2, <4>2, <5>1 DEF NothingTaken, OneWriter, Ty, ThreadTypes
        <5> QED
          BY <1>14, <2>2, <5>1, <5>2, CreateNodes DEF Lists, There
      <4> QED
        BY <4>1, <4>2
    <3> QED
      BY <3>1, <3>2 DEF KeepsRollbacks
  <2>5. KeepsAnswers
    BY <1>14, <1>0, <2>1, KeepsWhatIsSame DEF Create
  <2>6. KeepsGroups /\ KeepsPurge
    BY <1>14, <1>0, <2>1, CreateMoves, KeepsWhatIsSame
  <2> QED
    BY <1>0, <2>1, <2>3, <2>4, <2>5, <2>6, StaysKept
<1>15. ASSUME NEW t \in Threads, NEW r \in Reply, Rollback(t, r) PROVE NothingTaken'
  <2>1. /\ thread[t].at = "rollback" /\ thread[t].a = thread[t].c /\ thread[t].c \in Contents
        /\ TextsOf[thread[t].c] \in SUBSET Texts /\ ~There(thread[t].c)
    BY <1>15, <1>0, RollbackMoves, WriterTyped DEF NothingTaken, MakingNew, Ty, ThreadTypes
  <2>2. UNCHANGED <<nodes, buried, answered, job>> /\ Answered(t)
    BY <1>15, RollbackMoves DEF Rollback
  <2>3. \A b \in Contents, s \in Texts : b # thread[t].c /\ Held(<<b, s>>) => Holds(<<b, s>>)
    BY <1>15, <2>2, RollbackRows DEF Erased, SameRows, Held, Holds
  <2>4. \A u \in Threads : thread'[u].at \in Writing \ {"rollback"} =>
                              \A s \in TextsOf[thread'[u].c] : Holds(<<thread'[u].a, s>>)
    <3>1. ASSUME NEW u \in Threads, thread'[u].at \in Writing \ {"rollback"}
          PROVE  \A s \in TextsOf[thread[u].c] : Holds(<<thread[u].a, s>>)
      <4>1. u # t /\ thread'[u] = thread[u]
        BY <2>2, <3>1 DEF Answered, Others, Idle, Writing, MakingNew
      <4>2. thread[u].a # thread[t].c /\ thread[u].a \in Contents
              /\ TextsOf[thread[u].c] \in SUBSET Texts
        BY <1>0, <2>1, <3>1, <4>1, WriterTyped DEF OneWriter, Writing, MakingNew, Reingesting
      <4> QED
        BY <1>0, <2>3, <3>1, <4>1, <4>2 DEF NothingTaken
    <3>2. \A u \in Threads : thread'[u].at \in Writing => thread'[u] = thread[u]
      BY <2>2 DEF Answered, Others, Idle, Writing, MakingNew
    <3> QED
      BY <3>1, <3>2
  <2>5. \A g \in Groups : \A s \in g.ids : Holds(<<g.a, s>>)
    <3>1. ASSUME NEW g \in Groups, NEW s \in g.ids PROVE Holds(<<g.a, s>>)
      <4>1. g.a \in Contents /\ s \in Texts /\ g.a # thread[t].c
        BY <1>0, <2>1, <3>1 DEF Groups, Ty, JobTypes, Grp, OneWriter, Writing, MakingNew
      <4> QED
        BY <1>0, <2>3, <4>1 DEF NothingTaken
    <3> QED
      BY <3>1
  <2>6. \A k \in answered : Holds(k) /\ There(k[1])
    <3>1. \A k \in answered : \E b \in Contents, s \in Texts : k = <<b, s>>
      BY DEF Ty, StoreTypes, Keys
    <3> QED
      BY <1>0, <2>1, <2>3, <3>1 DEF NothingTaken
  <2>7. \A b \in Contents : There(b) => \A s \in nodes[b].listed : Holds(<<b, s>>)
    <3>1. \A b \in Contents : nodes[b] # None => nodes[b].listed \in SUBSET Texts
      BY DEF Ty, StoreTypes, Node
    <3> QED
      BY <1>0, <2>1, <2>3, <3>1 DEF NothingTaken, There
  <2>8. \A u \in Threads : thread'[u].at = "rollback" => ~There(thread'[u].c)
    BY <1>0, <2>2 DEF NothingTaken, Answered, Others, Idle
  <2>9. job.at \in {"bury", "purge"} => \A s \in job.g.ids \ job.left : <<job.g.a, s>> \in buried
    BY <1>0 DEF NothingTaken
  <2> QED
    BY <2>2, <2>4, <2>5, <2>6, <2>7, <2>8, <2>9 DEF NothingTaken, Held, Holds, There, Groups
<1>16. ASSUME NEW t \in Threads, NEW r \in Reply, SetPath(t, r) PROVE NothingTaken'
  <2>1. UNCHANGED buried /\ KeepsRows
    BY <1>16, <1>0, KeepsWhatIsSame DEF SetPath, stores
  <2>2. SameLists
    BY <1>16, SetPathNodes
  <2>3. KeepsLists
    BY <1>0, <2>1, <2>2, KeepsWhatIsSame
  <2>4. KeepsWriters /\ KeepsRollbacks
    BY <1>16, <1>0, <2>2, SetPathMoves, MovesKept DEF Answered, Moved, Others, Idle, Searching,
       Writing, MakingNew
  <2>5. KeepsAnswers
    BY <1>16, <1>0, <2>1, KeepsWhatIsSame DEF SetPath
  <2>6. KeepsGroups /\ KeepsPurge
    BY <1>16, <1>0, <2>1, SetPathMoves, KeepsWhatIsSame
  <2> QED
    BY <1>0, <2>1, <2>3, <2>4, <2>5, <2>6, StaysKept
<1>17. ASSUME NEW t \in Threads, NEW r \in Reply, FlipNew(t, r) PROVE NothingTaken'
  <2>1. UNCHANGED buried /\ KeepsRows
    BY <1>17, <1>0, FlipNewRows, KeepsWhatIsSame DEF FlipNew
  <2>2. SameLists
    BY <1>17, <1>00 DEF FlipNew, stores
  <2>3. KeepsLists
    BY <1>0, <2>1, <2>2, KeepsWhatIsSame
  <2>4. KeepsWriters /\ KeepsRollbacks
    BY <1>17, <1>0, <2>2, FlipNewMoves, MovesKept DEF Answered, Moved, Others, Idle, Searching,
       Writing, MakingNew
  <2>5. KeepsAnswers
    <3>1. /\ thread[t].at = "flipnew" /\ thread[t].c \in Contents
               /\ TextsOf[thread[t].c] \in SUBSET Texts
          /\ There(thread[t].c) /\ thread[t].c = thread[t].a
      BY <1>17, FlipNewMoves, WriterTyped DEF Reingesting, MakingNew, Ty, ThreadTypes
    <3>2. \A s \in TextsOf[thread[t].c] : Holds(<<thread[t].c, s>>) /\ nodes'[thread[t].c] # None
      BY <1>0, <2>1, <3>1 DEF NothingTaken, KeepsRows, Writing, MakingNew, Grown, There
    <3>3. answered' \subseteq answered \cup Rows(thread[t].c, TextsOf[thread[t].c])
      BY <1>17 DEF FlipNew
    <3> QED
      BY <3>2, <3>3 DEF KeepsAnswers, Rows
  <2>6. KeepsGroups /\ KeepsPurge
    BY <1>17, <1>0, <2>1, FlipNewMoves, KeepsWhatIsSame
  <2> QED
    BY <1>0, <2>1, <2>3, <2>4, <2>5, <2>6, StaysKept
<1>18. ASSUME NEW r \in Reply, Count(r) PROVE NothingTaken'
  <2>1. buried \subseteq buried' /\ KeepsRows
    BY <1>18, <1>0, CountEffect, KeepsWhatIsSame DEF Count, Ty
  <2>2. KeepsLists /\ KeepsRollbacks
    BY <1>18, <1>0, <1>00, <2>1, KeepsWhatIsSame DEF Count, Job, stores
  <2>3. KeepsWriters /\ KeepsAnswers
    BY <1>18, <1>0, <2>1, KeepsWhatIsSame DEF Count, Job
  <2>4. KeepsGroups
    BY <1>18, CountMoves DEF KeepsGroups, Groups, Proceeds, Finished, Resting, NoGroup
  <2>5. KeepsPurge
    BY <1>18, CountMoves DEF KeepsPurge, Proceeds, Finished, Resting
  <2> QED
    BY <1>0, <2>1, <2>2, <2>3, <2>4, <2>5, StaysKept
<1>19. ASSUME NEW r \in Reply, ReadGraph(r) PROVE NothingTaken'
  <2>1. buried \subseteq buried' /\ KeepsRows
    BY <1>19, <1>0, KeepsWhatIsSame DEF ReadGraph, stores
  <2>2. KeepsLists /\ KeepsRollbacks
    BY <1>19, <1>0, <1>00, <2>1, KeepsWhatIsSame DEF ReadGraph, Job, stores
  <2>3. KeepsWriters /\ KeepsAnswers
    BY <1>19, <1>0, <2>1, KeepsWhatIsSame DEF ReadGraph, Job
  <2>4. KeepsGroups
    BY <1>19, ReadGraphMoves DEF KeepsGroups, Groups, Proceeds, Finished, Resting, NoGroup
  <2>5. KeepsPurge
    BY <1>19, ReadGraphMoves DEF KeepsPurge, Proceeds, Finished, Resting
  <2> QED
    BY <1>0, <2>1, <2>2, <2>3, <2>4, <2>5, StaysKept
<1>20. ASSUME NEW r \in Reply, WriteArtifact(r) PROVE NothingTaken'
  <2>1. buried \subseteq buried' /\ KeepsRows
    BY <1>20, <1>0, KeepsWhatIsSame DEF WriteArtifact
  <2>2. KeepsLists /\ KeepsRollbacks
    <3>1. job.at = "write" /\ job.g.a \in Contents /\ job.g.ids \in SUBSET Texts
      BY <1>20, WriteArtifactMoves, JobTyped
    <3>2. \A s \in job.g.ids : Holds(<<job.g.a, s>>)
      BY <1>0, <2>1, <3>1 DEF NothingTaken, KeepsRows, Groups
    <3>3. KeepsLists
      BY <1>20, <3>1, <3>2, WriteArtifactNodes DEF KeepsLists, Lists
    <3>4. ASSUME NEW u \in Threads, thread[u].at = "rollback" PROVE nodes'[thread[u].c] = None
      <4>1. thread[u].c \in Contents /\ ~There(thread[u].c) /\ job.g.a # thread[u].c
        BY <1>0, <3>1, <3>4 DEF NothingTaken, OneWriter, Ty, ThreadTypes, Groups, Writing, MakingNew
      <4> QED
        BY <1>20, <3>1, <4>1, WriteArtifactNodes DEF Lists, There
    <3> QED
      BY <1>20, <3>3, <3>4 DEF KeepsRollbacks, WriteArtifact, Job
  <2>3. KeepsWriters /\ KeepsAnswers
    BY <1>20, <1>0, <2>1, KeepsWhatIsSame DEF WriteArtifact, Job
  <2>4. KeepsGroups
    BY <1>20, WriteArtifactMoves DEF KeepsGroups, Groups, Proceeds, Finished, Resting, NoGroup
  <2>5. KeepsPurge
    BY <1>20, WriteArtifactMoves DEF KeepsPurge, Proceeds, Finished, Resting
  <2> QED
    BY <1>0, <2>1, <2>2, <2>3, <2>4, <2>5, StaysKept
<1>21. ASSUME NEW r \in Reply, FlipRecovered(r) PROVE NothingTaken'
  <2>1. buried \subseteq buried' /\ KeepsRows
    BY <1>21, <1>0, FlipRecoveredRows, KeepsWhatIsSame DEF FlipRecovered
  <2>2. KeepsLists /\ KeepsRollbacks
    BY <1>21, <1>0, <1>00, <2>1, KeepsWhatIsSame DEF FlipRecovered, Job, stores
  <2>3. KeepsWriters /\ KeepsAnswers
    BY <1>21, <1>0, <2>1, KeepsWhatIsSame DEF FlipRecovered, Job
  <2>4. KeepsGroups
    BY <1>21, FlipRecoveredMoves DEF KeepsGroups, Groups, Proceeds, Finished, Resting, NoGroup
  <2>5. KeepsPurge
    BY <1>21, FlipRecoveredMoves DEF KeepsPurge, Proceeds, Finished, Resting
  <2> QED
    BY <1>0, <2>1, <2>2, <2>3, <2>4, <2>5, StaysKept
<1>22. ASSUME NEW r \in Reply, NEW x \in job.left, Bury(x, r) PROVE NothingTaken'
  <2>1. buried \subseteq buried' /\ KeepsRows
    BY <1>22, <1>0, KeepsWhatIsSame DEF Bury, KeepsRows, Held, Holds
  <2>2. KeepsLists /\ KeepsRollbacks
    BY <1>22, <1>0, <1>00, <2>1, KeepsWhatIsSame DEF Bury, Job, stores
  <2>3. KeepsWriters /\ KeepsAnswers
    BY <1>22, <1>0, <2>1, KeepsWhatIsSame DEF Bury, Job
  <2>4. KeepsGroups
    BY <1>22, BuryMoves DEF KeepsGroups, Groups, Proceeds, Finished, Resting, NoGroup
  <2>5. KeepsPurge
    <3>1. <<job.g.a, x>> \in buried' \/ "unburied" \in excused'
      BY <1>22 DEF Bury, Excuse, When
    <3>2. \A s \in job.g.ids \ job'.left : <<job.g.a, s>> \in buried'
      BY <1>22, <1>0, <2>1, <3>1, BuryMoves DEF Quiet, NothingTaken
    <3> QED
      BY <1>22, <3>2, BuryMoves DEF KeepsPurge, Proceeds
  <2> QED
    BY <1>0, <2>1, <2>2, <2>3, <2>4, <2>5, StaysKept
<1>23. ASSUME NEW r \in Reply, Purge(r) PROVE NothingTaken'
  <2>1. buried \subseteq buried' /\ KeepsRows
    <3>1. \A s \in job.g.ids : <<job.g.a, s>> \in buried
      BY <1>23, <1>0, PurgeMoves DEF NothingTaken, Ty, JobTypes
    <3> QED
      BY <1>23, <3>1, PurgeRows DEF Purge, KeepsRows, Held, Holds, Erased, SameRows
  <2>2. KeepsLists /\ KeepsRollbacks
    BY <1>23, <1>0, <1>00, <2>1, KeepsWhatIsSame DEF Purge, Job, stores
  <2>3. KeepsWriters /\ KeepsAnswers
    BY <1>23, <1>0, <2>1, KeepsWhatIsSame DEF Purge, Job
  <2>4. KeepsGroups
    BY <1>23, PurgeMoves DEF KeepsGroups, Groups, Proceeds, Finished, Resting, NoGroup
  <2>5. KeepsPurge
    BY <1>23, PurgeMoves DEF KeepsPurge, Proceeds, Finished, Resting
  <2> QED
    BY <1>0, <2>1, <2>2, <2>3, <2>4, <2>5, StaysKept
<1>24. ASSUME Scan PROVE NothingTaken'
  <2>1. buried \subseteq buried' /\ KeepsRows
    BY <1>24, <1>0, ScanShape, KeepsWhatIsSame
  <2>2. KeepsLists /\ KeepsRollbacks
    BY <1>24, <1>0, <1>00, <2>1, ScanShape, KeepsWhatIsSame
  <2>3. KeepsWriters /\ KeepsAnswers
    BY <1>24, <1>0, <2>1, ScanShape, KeepsWhatIsSame DEF Scan
  <2>4. KeepsGroups
    <3>1. \A g \in job'.todo : \A s \in g.ids : rows'[<<g.a, s>>].mark = "pending"
      <4>1. \A a \in Contents : \A s \in Orphans(a) : rows[<<a, s>>].mark = "pending"
        BY DEF Orphans, PendingOf
      <4> QED
        BY <1>24, <4>1, ScanShape
    <3> QED
      BY <1>24, <3>1, ScanShape DEF KeepsGroups, Groups, Holds, NoGroup
  <2>5. KeepsPurge
    BY <1>24, ScanShape DEF KeepsPurge
  <2> QED
    BY <1>0, <2>1, <2>2, <2>3, <2>4, <2>5, StaysKept
<1>25. ASSUME NEW g \in job.todo, Take(g) PROVE NothingTaken'
  <2>1. buried \subseteq buried' /\ KeepsRows
    BY <1>25, <1>0, KeepsWhatIsSame DEF Take, stores
  <2>2. KeepsLists /\ KeepsRollbacks
    BY <1>25, <1>0, <1>00, <2>1, KeepsWhatIsSame DEF Take, stores
  <2>3. KeepsWriters /\ KeepsAnswers
    BY <1>25, <1>0, <2>1, KeepsWhatIsSame DEF Take
  <2>4. KeepsGroups
    BY <1>25 DEF Take, Resting, KeepsGroups, Groups
  <2>5. KeepsPurge
    BY <1>25 DEF Take, Resting, KeepsPurge
  <2> QED
    BY <1>0, <2>1, <2>2, <2>3, <2>4, <2>5, StaysKept
<1>26. ASSUME NEW t \in Threads, NEW c \in Contents, NEW f \in Files, Request(t, c, f) PROVE
       NothingTaken'
  <2>1. UNCHANGED <<nodes, rows, buried, job, answered>>
    BY <1>26 DEF Request, stores
  <2>2. Others(t) /\ thread'[t].at = "duplicate"
    BY <1>26 DEF Request, Others, Idle, Ty, ThreadTypes, Thread
  <2>3. KeepsWriters /\ KeepsRollbacks
    BY <1>0, <1>00, <2>1, <2>2, MovesKept DEF Writing, MakingNew
  <2> QED
    BY <1>0, <2>1, <2>3, StaysKept, KeepsWhatIsSame
<1>27. ASSUME Crash PROVE NothingTaken'
  <2>1. UNCHANGED <<nodes, rows, buried, answered>> /\ \A u \in Threads : thread'[u].at = "idle"
    BY <1>27 DEF Crash, stores, Idle
  <2>2. KeepsWriters /\ KeepsRollbacks
    BY <2>1 DEF KeepsWriters, KeepsRollbacks, Writing, MakingNew
  <2>3. KeepsGroups /\ KeepsPurge
    BY <1>27 DEF Crash, KeepsGroups, KeepsPurge, Groups, Resting, NoGroup
  <2> QED
    BY <1>0, <2>1, <2>2, <2>3, StaysKept, KeepsWhatIsSame
<1>28. ASSUME NEW t \in Threads, NEW r \in Reply, Serve(t, r) PROVE NothingTaken'
  BY <1>28, <1>2, <1>3, <1>4, <1>5, <1>6, <1>7, <1>8, <1>9, <1>10, <1>11, <1>12, <1>13, <1>14,
     <1>15, <1>16, <1>17 DEF Serve
<1>29. ASSUME NEW r \in Reply, Recover(r) PROVE NothingTaken'
  BY <1>29, <1>18, <1>19, <1>20, <1>21, <1>22, <1>23 DEF Recover
<1> QED
  BY <1>1, <1>28, <1>29, <1>24, <1>25, <1>26, <1>27 DEF Next, GoesOn

\* A row that was pushed is on the list, or the list is full: it never gets shorter
\* than DeadletterMax again.
Listing ==
    /\ dead \in Seq(Keys)
    /\ \A k \in buried : OnList(k) \/ Len(dead) >= DeadletterMax

LEMMA TrimmedList ==
  ASSUME NEW list \in Seq(Keys)
  PROVE  /\ Newest(list) \in Seq(Keys)
         /\ Len(list) <= DeadletterMax => Newest(list) = list
         /\ Len(list) > DeadletterMax => Len(Newest(list)) = DeadletterMax
<1>1. DeadletterMax \in Nat \ {0} /\ Len(list) \in Nat
  BY ConstantsAssumption
<1>2. CASE Len(list) <= DeadletterMax
  BY <1>1, <1>2 DEF Newest
<1>3. CASE Len(list) > DeadletterMax
  <2>1. SubSeq(list, Len(list) - DeadletterMax + 1, Len(list)) \in Seq(Keys)
        /\ Len(SubSeq(list, Len(list) - DeadletterMax + 1, Len(list))) = DeadletterMax
    BY <1>1, <1>3
  <2> QED
    BY <1>1, <1>3, <2>1 DEF Newest
<1> QED
  BY <1>1, <1>2, <1>3

LEMMA PushedList ==
  ASSUME Listing, NEW k \in Keys, NEW pushed, pushed = Append(dead, k), buried' = buried \cup {k},
         dead' = pushed \/ dead' = Newest(pushed)
  PROVE  Listing'
<1>1. dead \in Seq(Keys) /\ pushed \in Seq(Keys) /\ Len(pushed) = Len(dead) + 1 /\ Len(dead) \in Nat
  BY DEF Listing
<1>2. /\ \A i \in 1..Len(dead) : pushed[i] = dead[i]
      /\ pushed[Len(pushed)] = k
  BY <1>1
<1>3. Range(dead) \cup {k} \subseteq Range(pushed)
  BY <1>1, <1>2 DEF Range
<1>4. DeadletterMax \in Nat
  BY ConstantsAssumption
<1>5. CASE dead' = pushed
  BY <1>1, <1>3, <1>4, <1>5 DEF Listing, OnList
<1>6. CASE dead' = Newest(pushed) /\ Len(pushed) <= DeadletterMax
  BY <1>1, <1>5, <1>6, TrimmedList
<1>7. CASE dead' = Newest(pushed) /\ Len(pushed) > DeadletterMax
  <2>1. dead' \in Seq(Keys) /\ Len(dead') = DeadletterMax
    BY <1>1, <1>7, TrimmedList
  <2> QED
    BY <1>4, <2>1 DEF Listing
<1> QED
  BY <1>1, <1>4, <1>5, <1>6, <1>7

LEMMA InitListing == Init => Listing
  BY DEF Init, Listing

LEMMA NextListing == Ty /\ Listing /\ [Next]_vars => Listing'
<1> SUFFICES ASSUME Ty, Listing, [Next]_vars PROVE Listing'
  OBVIOUS
<1>0. UNCHANGED <<dead, buried>> => Listing'
  BY DEF Listing, OnList
<1>1. ASSUME NEW r \in Reply, NEW x \in job.left, Bury(x, r) PROVE Listing'
  <2>1. <<job.g.a, x>> \in Keys
    BY <1>1, JobTyped DEF Bury, Keys, Ty, JobTypes
  <2>2. CASE r = "refused"
    BY <1>0, <1>1, <2>2 DEF Bury, Executed
  <2>3. CASE r # "refused"
    BY <1>1, <2>1, <2>3, PushedList DEF Bury, Executed, Reply
  <2> QED
    BY <2>2, <2>3
<1>2. ASSUME NEW r \in Reply, Count(r) \/ ReadGraph(r) \/ WriteArtifact(r) \/ FlipRecovered(r) \/ Purge(r)
      PROVE  UNCHANGED <<dead, buried>>
  BY <1>2 DEF Count, ReadGraph, WriteArtifact, FlipRecovered, Purge, stores
<1>3. ASSUME NEW t \in Threads, NEW r \in Reply, Serve(t, r) PROVE UNCHANGED <<dead, buried>>
  <2>1. CASE CheckDuplicate(t, r) \/ Find(t, r) \/ (\E gone \in BOOLEAN : NotePath(t, r, gone))
    BY <2>1 DEF CheckDuplicate, Find, NotePath, stores
  <2>2. CASE ReadCurrent(t, r) \/ Upsert(t, r) \/ CloseRows(t, r) \/ Stage(t, r)
    BY <2>2 DEF ReadCurrent, Upsert, CloseRows, Stage, stores
  <2>3. CASE Update(t, r) \/ Flip(t, r) \/ SetProperties(t, r)
    BY <2>3 DEF Update, Flip, SetProperties
  <2>4. CASE Write(t, r) \/ StageNew(t, r) \/ Create(t, r)
    BY <2>4 DEF Write, StageNew, Create
  <2>5. CASE Rollback(t, r) \/ SetPath(t, r) \/ FlipNew(t, r)
    BY <2>5 DEF Rollback, SetPath, FlipNew
  <2> QED
    BY <1>3, <2>1, <2>2, <2>3, <2>4, <2>5 DEF Serve
<1>4. ASSUME Scan \/ (\E g \in job.todo : Take(g)) \/ Crash \/ UNCHANGED vars
             \/ \E t \in Threads, c \in Contents, f \in Files : Request(t, c, f)
      PROVE  UNCHANGED <<dead, buried>>
  BY <1>4 DEF Scan, Take, Crash, Request, vars, stores
<1> QED
  BY <1>0, <1>1, <1>2, <1>3, <1>4 DEF Next, GoesOn, Recover

\* The rows of an ingest that was answered are stored or dead-lettered: only a rollback
\* and a purge delete rows, a rollback of an artifact no node stands for, and a purge
\* after the push to the dead-letter list (_rollback_chromadb, recover_artifact), which
\* drops entries only when it is full (_DEADLETTER_MAX).
THEOREM AnsweredStaysKept == Spec => []AnsweredIsKept
<1>1. KeptAll /\ Listing => AnsweredIsKept
  BY DEF KeptAll, Quiet, NothingTaken, AnsweredIsKept, Listing, Kept, Held
<1> QED
  BY <1>1, InitTy, NextTy, InitApart, NextApart, InitKept, NextKept, InitListing, NextListing, PTL
     DEF Spec

\* What a node lists in chunk_ids is stored or dead-lettered: a list is written after the
\* rows it names, and never by a request that shares the artifact with a deletion; the
\* dead-letter list keeps it while it is not full.
THEOREM ListedStaysStored == Spec => []ListedIsStored
<1>1. KeptAll /\ Listing => ListedIsStored
  BY DEF KeptAll, Quiet, NothingTaken, ListedIsStored, Listing, Kept, Held
<1> QED
  BY <1>1, InitTy, NextTy, InitApart, NextApart, InitKept, NextKept, InitListing, NextListing, PTL
     DEF Spec

-----------------------------------------------------------------------------
(* The stores agree.                                                       *)

Clean == excused \subseteq {"forwarded"} /\ buried = {}
Unstaged == {"close", "stage", "stagenew"}
ActiveGroups == job.todo \cup (IF job.at \in {"idle", "next"} THEN {} ELSE {job.g})

\* With nothing pending, the open rows of b are those its node lists; otherwise the
\* pending rows are the open ones, so nothing of b is shown and nothing is closed for good.
Balanced(b) ==
    IF PendingOf(b) = {} THEN Current(b) = (IF There(b) THEN nodes[b].listed ELSE {})
                         ELSE Current(b) = PendingOf(b)

\* What request t knows of the artifact it works on.
Own(t) ==
    \A a \in Contents : thread[t].a = a =>
        LET at == thread[t].at  T == TextsOf[thread[t].c] IN
        /\ at = "upsert" => Current(a) \subseteq DOMAIN thread[t].cur
        /\ at = "close" => T \subseteq Current(a) /\ Current(a) \subseteq DOMAIN thread[t].cur \cup T
             /\ PendingOf(a) \subseteq T
        /\ at \in {"stage", "stagenew"} => Current(a) = T /\ PendingOf(a) \subseteq T
        /\ at \in {"update", "create", "rollback", "setpath", "flip", "flipnew"} => Current(a) = T
             /\ PendingOf(a) = T
        /\ at \in {"setpath", "flip", "flipnew"} => nodes[a].listed = T
        /\ at \in {"stagenew", "create"} /\ There(a) => nodes[a].hash \in {thread[t].c, Blank}

Lawful(b) == There(b) /\ nodes[b].hash # Blank /\ "forwarded" \notin excused
  => nodes[b].listed = TextsOf[nodes[b].hash]

JobAgrees ==
    /\ \A g \in ActiveGroups : PendingOf(g.a) = g.ids /\ g.ids # {}
    /\ \A g, h \in job.todo : g.a = h.a => g = h
    /\ job.at \notin {"idle", "next"} => \A g \in job.todo : g.a # job.g.a
    /\ job.at = "flip" => There(job.g.a) /\ nodes[job.g.a].listed = job.g.ids
    /\ job.at # "purge"

Agreement ==
    /\ \A b \in Contents : (\A t \in Threads : thread[t].at \in Unstaged => thread[t].a # b)
         => Balanced(b)
    /\ \A t \in Threads : Own(t)
    /\ \A b \in Contents : Lawful(b)
    /\ JobAgrees

Agree == Clean => Agreement

\* What the calls do to the open and the pending rows of an artifact.
SetsSame(b) == Current(b)' = Current(b) /\ PendingOf(b)' = PendingOf(b)

LEMMA FlagsTyped ==
  ASSUME Ty, NEW b \in Contents, NEW s \in Texts
  PROVE  rows[<<b, s>>].closed \in BOOLEAN
           /\ rows[<<b, s>>].mark \in {"none", "bare", "pending", "committed"}
  BY DEF Ty, StoreTypes, Row

LEMMA SameSets ==
  ASSUME SameRows \/ UNCHANGED rows
  PROVE  \A b \in Contents : SetsSame(b)
  BY DEF SameRows, SetsSame, Current, Stored, PendingOf

LEMMA WroteSets ==
  ASSUME Ty, NEW a \in Contents, NEW S \in SUBSET Texts, Wrote(a, S),
         \A s \in S : rows'[<<a, s>>].closed = FALSE
  PROVE  /\ Current(a)' = Current(a) \cup S /\ PendingOf(a)' = PendingOf(a)
         /\ \A b \in Contents \ {a} : SetsSame(b)
<1>1. \A s \in Texts : /\ s \in Current(a)' <=> s \in Current(a) \cup S
                       /\ s \in PendingOf(a)' <=> s \in PendingOf(a)
  BY FlagsTyped DEF Wrote, Current, Stored, PendingOf
<1>2. \A b \in Contents \ {a} : SetsSame(b)
  BY DEF Wrote, SetsSame, Current, Stored, PendingOf
<1>3. /\ Current(a)' \subseteq Texts /\ Current(a) \subseteq Texts
      /\ PendingOf(a)' \subseteq Texts /\ PendingOf(a) \subseteq Texts
  BY DEF Current, Stored, PendingOf
<1> QED
  BY <1>1, <1>2, <1>3

LEMMA ShutSets ==
  ASSUME Ty, NEW a \in Contents, NEW S \in SUBSET Texts, Shut(a, S), SameMarks
  PROVE  /\ Current(a)' = Current(a) \ S /\ PendingOf(a)' = PendingOf(a)
         /\ \A b \in Contents \ {a} : SetsSame(b)
<1>1. \A s \in Texts : /\ s \in Current(a)' <=> s \in Current(a) \ S
                       /\ s \in PendingOf(a)' <=> s \in PendingOf(a)
  <2> SUFFICES ASSUME NEW s \in Texts
               PROVE  /\ s \in Current(a)' <=> s \in Current(a) \ S
                      /\ s \in PendingOf(a)' <=> s \in PendingOf(a)
    OBVIOUS
  <2>1. /\ rows[<<a, s>>].closed \in BOOLEAN /\ rows'[<<a, s>>].mark = rows[<<a, s>>].mark
        /\ rows[<<a, s>>].mark # "none" /\ s \in S => rows'[<<a, s>>].closed = TRUE
        /\ s \notin S => rows'[<<a, s>>].closed = rows[<<a, s>>].closed
    BY FlagsTyped DEF Shut, SameMarks
  <2> QED
    BY <2>1 DEF Current, Stored, PendingOf
<1>2. \A b \in Contents \ {a} : SetsSame(b)
  BY DEF Shut, SameMarks, SetsSame, Current, Stored, PendingOf
<1>3. /\ Current(a)' \subseteq Texts /\ Current(a) \subseteq Texts
      /\ PendingOf(a)' \subseteq Texts /\ PendingOf(a) \subseteq Texts
  BY DEF Current, Stored, PendingOf
<1> QED
  BY <1>1, <1>2, <1>3

LEMMA PendingSets ==
  ASSUME Ty, NEW a \in Contents, NEW S \in SUBSET Texts, Remarked(a, S, "pending"),
         S \subseteq Current(a)
  PROVE  /\ Current(a)' = Current(a) /\ PendingOf(a)' = PendingOf(a) \cup S
         /\ \A b \in Contents \ {a} : SetsSame(b)
<1>1. \A s \in Texts : /\ s \in Current(a)' <=> s \in Current(a)
                       /\ s \in PendingOf(a)' <=> s \in PendingOf(a) \cup S
  BY FlagsTyped DEF Remarked, Current, Stored, PendingOf
<1>2. \A b \in Contents \ {a} : SetsSame(b)
  BY DEF Remarked, SetsSame, Current, Stored, PendingOf
<1>3. /\ Current(a)' \subseteq Texts /\ Current(a) \subseteq Texts
      /\ PendingOf(a)' \subseteq Texts /\ PendingOf(a) \subseteq Texts
  BY DEF Current, Stored, PendingOf
<1> QED
  BY <1>1, <1>2, <1>3

LEMMA CommittedSets ==
  ASSUME Ty, NEW a \in Contents, NEW S \in SUBSET Texts, Remarked(a, S, "committed")
  PROVE  /\ Current(a)' = Current(a) /\ PendingOf(a)' = PendingOf(a) \ S
         /\ \A b \in Contents \ {a} : SetsSame(b)
<1>1. \A s \in Texts : /\ s \in Current(a)' <=> s \in Current(a)
                       /\ s \in PendingOf(a)' <=> s \in PendingOf(a) \ S
  BY FlagsTyped DEF Remarked, Current, Stored, PendingOf
<1>2. \A b \in Contents \ {a} : SetsSame(b)
  BY DEF Remarked, SetsSame, Current, Stored, PendingOf
<1>3. /\ Current(a)' \subseteq Texts /\ Current(a) \subseteq Texts
      /\ PendingOf(a)' \subseteq Texts /\ PendingOf(a) \subseteq Texts
  BY DEF Current, Stored, PendingOf
<1> QED
  BY <1>1, <1>2, <1>3

LEMMA ErasedSets ==
  ASSUME Ty, NEW a \in Contents, NEW S \in SUBSET Texts, Erased(a, S)
  PROVE  /\ Current(a)' = Current(a) \ S /\ PendingOf(a)' = PendingOf(a) \ S
         /\ \A b \in Contents \ {a} : SetsSame(b)
<1>1. \A s \in Texts : /\ s \in Current(a)' <=> s \in Current(a) \ S
                       /\ s \in PendingOf(a)' <=> s \in PendingOf(a) \ S
  BY FlagsTyped DEF Erased, Current, Stored, PendingOf
<1>2. \A b \in Contents \ {a} : SetsSame(b)
  BY DEF Erased, SetsSame, Current, Stored, PendingOf
<1>3. /\ Current(a)' \subseteq Texts /\ Current(a) \subseteq Texts
      /\ PendingOf(a)' \subseteq Texts /\ PendingOf(a) \subseteq Texts
  BY DEF Current, Stored, PendingOf
<1> QED
  BY <1>1, <1>2, <1>3

LEMMA InitAgree == Init => Agree
<1> SUFFICES ASSUME Init PROVE Agreement
  BY DEF Agree
<1>1. \A b \in Contents : Balanced(b)
  BY DEF Init, Balanced, PendingOf, Current, Stored, There, Keys, NoRow
<1>2. \A t \in Threads : Own(t)
  BY DEF Init, Own, Idle
<1>3. JobAgrees
  BY DEF Init, JobAgrees, ActiveGroups, Resting
<1> QED
  BY <1>1, <1>2, <1>3 DEF Init, Agreement, Lawful, There

\* The node of b keeps its hash and its list.
SameNode(b) ==
    /\ nodes'[b] = None <=> nodes[b] = None
    /\ nodes[b] # None => nodes'[b].listed = nodes[b].listed /\ nodes'[b].hash = nodes[b].hash

LEMMA SameNodes == SameLists => \A b \in Contents : SameNode(b)
  BY DEF SameLists, SameNode

LEMMA BalancedStays == \A b \in Contents : SetsSame(b) /\ SameNode(b) /\ Balanced(b) => Balanced(b)'
  BY DEF SetsSame, SameNode, Balanced, There

LEMMA LawfulStays ==
  excused \subseteq excused' => \A b \in Contents : SameNode(b) /\ Lawful(b) => Lawful(b)'
  BY DEF SameNode, Lawful, There

\* Another request's knowledge of its artifact, when that is left alone, or when rows it
\* has read of it are closed or deleted.
LEMMA OwnStays ==
  ASSUME Ty, NEW u \in Threads, thread'[u] = thread[u], Own(u),
         \A a \in Contents : thread[u].a = a =>
            \/ SetsSame(a) /\ SameNode(a)
            \/ thread[u].at \notin Writing /\ Current(a)' \subseteq Current(a)
            \/ thread[u].at \notin Writing /\ thread[u].at # "upsert"
  PROVE  Own(u)'
<1> SUFFICES ASSUME NEW a \in Contents, thread[u].a = a
             PROVE  (LET at == thread[u].at  T == TextsOf[thread[u].c] IN
                     /\ at = "upsert" => Current(a) \subseteq DOMAIN thread[u].cur
                     /\ at = "close" => T \subseteq Current(a)
                          /\ Current(a) \subseteq DOMAIN thread[u].cur \cup T /\ PendingOf(a) \subseteq T
                     /\ at \in {"stage", "stagenew"} => Current(a) = T /\ PendingOf(a) \subseteq T
                     /\ at \in {"update", "create", "rollback", "setpath", "flip", "flipnew"}
                          => Current(a) = T /\ PendingOf(a) = T
                     /\ at \in {"setpath", "flip", "flipnew"} => nodes[a].listed = T
                     /\ at \in {"stagenew", "create"} /\ There(a)
                          => nodes[a].hash \in {thread[u].c, Blank})'
  BY DEF Own
<1>1. CASE SetsSame(a) /\ SameNode(a)
  <2>1. thread[u].at \in {"setpath", "flip", "flipnew"} => nodes[a] # None
    BY DEF Ty, ThreadTypes, Reingesting, MakingNew, There
  <2> QED
    BY <1>1, <2>1 DEF Own, SetsSame, SameNode, There
<1>2. CASE thread[u].at \notin Writing /\ Current(a)' \subseteq Current(a)
  BY <1>2 DEF Own, Writing, MakingNew
<1>3. CASE thread[u].at \notin Writing /\ thread[u].at # "upsert"
  BY <1>3 DEF Writing, MakingNew
<1> QED
  BY <1>1, <1>2, <1>3

LEMMA JobStays ==
  ASSUME Ty, JobAgrees, UNCHANGED job,
         \A g \in Groups : g.a \in Contents => SetsSame(g.a) /\ SameNode(g.a)
  PROVE  JobAgrees'
<1>1. \A g \in ActiveGroups : g.a \in Contents /\ g \in Groups
  BY DEF ActiveGroups, Groups, Ty, JobTypes
<1>2. ActiveGroups' = ActiveGroups
  BY DEF ActiveGroups
<1>3. \A g \in ActiveGroups : PendingOf(g.a)' = PendingOf(g.a)
  BY <1>1 DEF SetsSame
<1>4. job.at = "flip" => job.g.a \in Contents /\ SameNode(job.g.a)
  BY DEF Groups, Ty, JobTypes
<1> QED
  BY <1>2, <1>3, <1>4 DEF JobAgrees, SameNode, There

\* A request's step that leaves the rows, and the lists of the nodes.
LEMMA AgreesUntouched ==
  ASSUME Ty, Agreement, excused \subseteq excused', NEW t \in Threads, Others(t), UNCHANGED job,
         \A b \in Contents : SetsSame(b), SameLists, Own(t)',
         thread[t].at \in Unstaged => thread'[t].at \in Unstaged /\ thread'[t].a = thread[t].a
  PROVE  Agreement'
<1>1. \A b \in Contents : SameNode(b)
  BY SameNodes
<1>2. ASSUME NEW b \in Contents, \A u \in Threads : thread'[u].at \in Unstaged => thread'[u].a # b
      PROVE  Balanced(b)'
  <2>1. \A u \in Threads : thread[u].at \in Unstaged => thread[u].a # b
    BY <1>2 DEF Others
  <2> QED
    BY <1>1, <2>1, BalancedStays DEF Agreement
<1>3. ASSUME NEW u \in Threads PROVE Own(u)'
  BY <1>1, OwnStays DEF Agreement, Others
<1>4. \A b \in Contents : Lawful(b)'
  BY <1>1, LawfulStays DEF Agreement
<1>5. JobAgrees'
  BY <1>1, JobStays DEF Agreement, Groups
<1> QED
  BY <1>2, <1>3, <1>4, <1>5 DEF Agreement

\* A request's step on the artifact it alone writes to.
LEMMA AgreesElsewhere ==
  ASSUME Ty, Agreement, excused \subseteq excused', NEW t \in Threads, NEW a \in Contents,
         Others(t), UNCHANGED job,
         \A b \in Contents \ {a} : SetsSame(b) /\ SameNode(b),
         \A u \in Threads \ {t} : thread[u].a = a =>
            thread[u].at \notin Writing
              /\ (thread[u].at # "upsert" \/ Current(a)' \subseteq Current(a)),
         \A g \in Groups : g.a # a,
         thread[t].at \in Unstaged => thread[t].a = a,
         (thread'[t].at \in Unstaged /\ thread'[t].a = a) \/ Balanced(a)',
         Own(t)', Lawful(a)'
  PROVE  Agreement'
<1>2. ASSUME NEW b \in Contents, \A u \in Threads : thread'[u].at \in Unstaged => thread'[u].a # b
      PROVE  Balanced(b)'
  <2>1. CASE b = a
    BY <1>2, <2>1
  <2>2. CASE b # a
    <3>1. \A u \in Threads : thread[u].at \in Unstaged => thread[u].a # b
      BY <1>2, <2>2 DEF Others
    <3> QED
      BY <2>2, <3>1, BalancedStays DEF Agreement
  <2> QED
    BY <2>1, <2>2
<1>3. ASSUME NEW u \in Threads PROVE Own(u)'
  <2>1. CASE u = t
    BY <2>1
  <2>2. CASE u # t
    <3>1. thread'[u] = thread[u] /\ Own(u)
      BY <2>2 DEF Others, Agreement
    <3>2. \A b \in Contents : thread[u].a = b =>
            \/ SetsSame(b) /\ SameNode(b)
            \/ thread[u].at \notin Writing /\ Current(b)' \subseteq Current(b)
            \/ thread[u].at \notin Writing /\ thread[u].at # "upsert"
      BY <2>2
    <3> QED
      BY <3>1, <3>2, OwnStays
  <2> QED
    BY <2>1, <2>2
<1>4. \A b \in Contents : Lawful(b)'
  BY LawfulStays DEF Agreement
<1>5. JobAgrees'
  BY JobStays DEF Agreement
<1> QED
  BY <1>2, <1>3, <1>4, <1>5 DEF Agreement

LEMMA DeadStay == [Next]_vars => buried \subseteq buried'
<1> SUFFICES ASSUME [Next]_vars PROVE buried \subseteq buried'
  OBVIOUS
<1>1. CASE UNCHANGED vars
  BY <1>1 DEF vars, stores
<1>2. ASSUME NEW t \in Threads, NEW r \in Reply, CheckDuplicate(t, r) PROVE buried \subseteq buried'
  BY <1>2 DEF CheckDuplicate, stores
<1>3. ASSUME NEW t \in Threads, NEW r \in Reply, Find(t, r) PROVE buried \subseteq buried'
  BY <1>3 DEF Find, stores
<1>4. ASSUME NEW t \in Threads, NEW r \in Reply, NEW gone \in BOOLEAN, NotePath(t, r, gone)
       PROVE buried \subseteq buried'
  BY <1>4 DEF NotePath
<1>5. ASSUME NEW t \in Threads, NEW r \in Reply, ReadCurrent(t, r) PROVE buried \subseteq buried'
  BY <1>5 DEF ReadCurrent, stores
<1>6. ASSUME NEW t \in Threads, NEW r \in Reply, Upsert(t, r) PROVE buried \subseteq buried'
  BY <1>6 DEF Upsert
<1>7. ASSUME NEW t \in Threads, NEW r \in Reply, CloseRows(t, r) PROVE buried \subseteq buried'
  BY <1>7 DEF CloseRows
<1>8. ASSUME NEW t \in Threads, NEW r \in Reply, Stage(t, r) PROVE buried \subseteq buried'
  BY <1>8 DEF Stage
<1>9. ASSUME NEW t \in Threads, NEW r \in Reply, Update(t, r) PROVE buried \subseteq buried'
  BY <1>9 DEF Update
<1>10. ASSUME NEW t \in Threads, NEW r \in Reply, Flip(t, r) PROVE buried \subseteq buried'
  BY <1>10 DEF Flip
<1>11. ASSUME NEW t \in Threads, NEW r \in Reply, SetProperties(t, r) PROVE buried \subseteq buried'
  BY <1>11 DEF SetProperties
<1>12. ASSUME NEW t \in Threads, NEW r \in Reply, Write(t, r) PROVE buried \subseteq buried'
  BY <1>12 DEF Write
<1>13. ASSUME NEW t \in Threads, NEW r \in Reply, StageNew(t, r) PROVE buried \subseteq buried'
  BY <1>13 DEF StageNew
<1>14. ASSUME NEW t \in Threads, NEW r \in Reply, Create(t, r) PROVE buried \subseteq buried'
  BY <1>14 DEF Create
<1>15. ASSUME NEW t \in Threads, NEW r \in Reply, Rollback(t, r) PROVE buried \subseteq buried'
  BY <1>15 DEF Rollback
<1>16. ASSUME NEW t \in Threads, NEW r \in Reply, SetPath(t, r) PROVE buried \subseteq buried'
  BY <1>16 DEF SetPath
<1>17. ASSUME NEW t \in Threads, NEW r \in Reply, FlipNew(t, r) PROVE buried \subseteq buried'
  BY <1>17 DEF FlipNew
<1>18. ASSUME NEW r \in Reply, Count(r) PROVE buried \subseteq buried'
  BY <1>18 DEF Count
<1>19. ASSUME NEW r \in Reply, ReadGraph(r) PROVE buried \subseteq buried'
  BY <1>19 DEF ReadGraph, stores
<1>20. ASSUME NEW r \in Reply, WriteArtifact(r) PROVE buried \subseteq buried'
  BY <1>20 DEF WriteArtifact
<1>21. ASSUME NEW r \in Reply, FlipRecovered(r) PROVE buried \subseteq buried'
  BY <1>21 DEF FlipRecovered
<1>22. ASSUME NEW r \in Reply, NEW x \in job.left, Bury(x, r) PROVE buried \subseteq buried'
  BY <1>22 DEF Bury
<1>23. ASSUME NEW r \in Reply, Purge(r) PROVE buried \subseteq buried'
  BY <1>23 DEF Purge
<1>24. ASSUME Scan PROVE buried \subseteq buried'
  BY <1>24 DEF Scan, stores
<1>25. ASSUME NEW g \in job.todo, Take(g) PROVE buried \subseteq buried'
  BY <1>25 DEF Take, stores
<1>26. ASSUME NEW t \in Threads, NEW c \in Contents, NEW f \in Files, Request(t, c, f) PROVE
       buried \subseteq buried'
  BY <1>26 DEF Request, stores
<1>27. ASSUME Crash PROVE buried \subseteq buried'
  BY <1>27 DEF Crash, stores
<1>28. ASSUME NEW t \in Threads, NEW r \in Reply, Serve(t, r) PROVE buried \subseteq buried'
  BY <1>28, <1>2, <1>3, <1>4, <1>5, <1>6, <1>7, <1>8, <1>9, <1>10, <1>11, <1>12, <1>13, <1>14,
     <1>15, <1>16, <1>17 DEF Serve
<1>29. ASSUME NEW r \in Reply, Recover(r) PROVE buried \subseteq buried'
  BY <1>29, <1>18, <1>19, <1>20, <1>21, <1>22, <1>23 DEF Recover
<1> QED
  BY <1>1, <1>28, <1>29, <1>24, <1>25, <1>26, <1>27 DEF Next, GoesOn

\* A point at which a request owes nothing to its artifact.
LEMMA NothingOwed ==
  ASSUME NEW t \in Threads,
         thread'[t].at \in {"idle", "duplicate", "note", "find", "write", "current", "properties"}
  PROVE  Own(t)'
  BY DEF Own

\* A step of a request that is writing for a: no other request is, nor is the job.
LEMMA WriterAgrees ==
  ASSUME Ty, OneWriter, Agreement, excused \subseteq excused', NEW t \in Threads,
         NEW a \in Contents,
         thread[t].a = a, thread[t].at \in Writing, Others(t), UNCHANGED job,
         \A b \in Contents \ {a} : SetsSame(b) /\ SameNode(b), Current(a)' \subseteq Current(a),
         (thread'[t].at \in Unstaged /\ thread'[t].a = a) \/ Balanced(a)',
         Own(t)', Lawful(a)'
  PROVE  Agreement'
<1>1. \A u \in Threads \ {t} : thread[u].a = a =>
            thread[u].at \notin Writing
              /\ (thread[u].at # "upsert" \/ Current(a)' \subseteq Current(a))
  BY DEF OneWriter
<1>2. \A g \in Groups : g.a # a
  BY DEF OneWriter
<1>3. thread[t].at \in Unstaged => thread[t].a = a
  OBVIOUS
<1> QED
  BY <1>1, <1>2, <1>3, AgreesElsewhere

\* A step of the job on the artifact of its group.
LEMMA JobWorks ==
  ASSUME Ty, OneWriter, Agreement, excused \subseteq excused', UNCHANGED thread, NEW a \in Contents,
         job.g.a = a,
         \A b \in Contents \ {a} : SetsSame(b) /\ SameNode(b), Current(a)' = Current(a),
           Balanced(a)', Lawful(a)',
         JobAgrees'
  PROVE  Agreement'
<1>1. ASSUME NEW b \in Contents, \A u \in Threads : thread'[u].at \in Unstaged => thread'[u].a # b
      PROVE  Balanced(b)'
  BY <1>1, BalancedStays DEF Agreement
<1>2. ASSUME NEW u \in Threads PROVE Own(u)'
  <2>1. \A b \in Contents : thread[u].a = b =>
            \/ SetsSame(b) /\ SameNode(b)
            \/ thread[u].at \notin Writing /\ Current(b)' \subseteq Current(b)
            \/ thread[u].at \notin Writing /\ thread[u].at # "upsert"
    BY DEF OneWriter, Groups
  <2> QED
    BY <2>1, OwnStays DEF Agreement
<1>3. \A b \in Contents : Lawful(b)'
  BY LawfulStays DEF Agreement
<1> QED
  BY <1>1, <1>2, <1>3 DEF Agreement

\* A step of the job that leaves the rows, and the lists of the nodes.
LEMMA JobUntouched ==
  ASSUME Ty, Agreement, excused \subseteq excused', UNCHANGED thread,
         \A b \in Contents : SetsSame(b), SameLists,
         JobAgrees'
  PROVE  Agreement'
<1>1. \A b \in Contents : SameNode(b)
  BY SameNodes
<1>2. ASSUME NEW b \in Contents, \A u \in Threads : thread'[u].at \in Unstaged => thread'[u].a # b
      PROVE  Balanced(b)'
  BY <1>1, <1>2, BalancedStays DEF Agreement
<1>3. ASSUME NEW u \in Threads PROVE Own(u)'
  BY <1>1, OwnStays DEF Agreement
<1>4. \A b \in Contents : Lawful(b)'
  BY <1>1, LawfulStays DEF Agreement
<1> QED
  BY <1>2, <1>3, <1>4 DEF Agreement

\* While the job works on a group and nothing overlaps, the rows of its artifact are the
\* pending rows of the group.
LEMMA GroupIsBalanced ==
  ASSUME Ty, OneWriter, Agreement, job.at \notin {"idle", "next"}, NEW a \in Contents, job.g.a = a
  PROVE  /\ PendingOf(a) = job.g.ids /\ job.g.ids # {} /\ Balanced(a) /\ Current(a) = job.g.ids
         /\ \A g \in job.todo : g.a \in Contents \ {a}
<1>1. job.g \in ActiveGroups
  BY DEF ActiveGroups
<1>2. Balanced(a)
  <2>1. job.g \in Groups
    BY DEF Groups
  <2>2. \A t \in Threads : thread[t].at \in Writing => thread[t].a # a
    BY <2>1 DEF OneWriter
  <2>3. Unstaged \subseteq Writing
    BY DEF Unstaged, Writing, MakingNew
  <2> QED
    BY <2>2, <2>3 DEF Agreement
<1>3. PendingOf(a) = job.g.ids /\ job.g.ids # {} /\ \A g \in job.todo : g.a # a
  BY <1>1 DEF Agreement, JobAgrees
<1> QED
  BY <1>2, <1>3 DEF Balanced, Ty, JobTypes

\* What is left of the job's part once the group in hand is done with.
LEMMA FinishedAgrees ==
  ASSUME Ty, JobAgrees, Finished, \A g \in job.todo : SetsSame(g.a)
  PROVE  JobAgrees'
<1>1. CASE job' = Resting
  BY <1>1 DEF JobAgrees, ActiveGroups, Resting
<1>2. CASE Proceeds("next")
  <2>1. ActiveGroups' = job.todo /\ job.todo \subseteq ActiveGroups
    BY <1>2 DEF Proceeds, ActiveGroups
  <2> QED
    BY <1>2, <2>1 DEF JobAgrees, Proceeds, SetsSame
<1> QED
  BY <1>1, <1>2 DEF Finished

LEMMA ProceedsAgrees ==
  ASSUME Ty, JobAgrees, NEW p \in JobPoints \ {"idle", "next", "purge"}, Proceeds(p),
         job.at \notin {"idle", "next"}, \A g \in ActiveGroups : SetsSame(g.a),
         p = "flip" => nodes'[job.g.a] # None /\ nodes'[job.g.a].listed = job.g.ids
  PROVE  JobAgrees'
<1>1. ActiveGroups' = ActiveGroups
  BY DEF Proceeds, ActiveGroups
<1> QED
  BY <1>1 DEF JobAgrees, Proceeds, SetsSame, There

LEMMA NextAgree == Ty /\ Ty' /\ Apart /\ KeptAll /\ Agree /\ [Next]_vars => Agree'
<1> SUFFICES ASSUME Ty, Ty', Apart, KeptAll, Agree, [Next]_vars, Clean' PROVE Agreement'
  BY DEF Agree
<1>0. /\ OneWriter /\ NothingTaken /\ Agreement
      /\ excused \subseteq excused' /\ excused' \subseteq {"forwarded"} /\ buried = {} /\ buried' = {}
  BY ExcusesStay, DeadStay DEF Clean, Quiet, Apart, KeptAll, Agree
<1>00. UNCHANGED nodes => SameLists
  BY DEF SameLists
<1>000. /\ DOMAIN thread = Threads /\ \A u \in Threads : Thread(thread[u])
        /\ \A u \in Threads : thread[u].at \in Writing => thread[u].a \in Contents
  BY DEF Ty, ThreadTypes, Writing, Reingesting, MakingNew
<1>1. CASE UNCHANGED vars
  <2>1. UNCHANGED <<nodes, rows, buried, thread, job, excused>>
    BY <1>1 DEF vars, stores
  <2>2. Agreement
    BY <1>0
  <2> QED
    BY <2>1, <2>2 DEF Agreement, Balanced, Own, Lawful, JobAgrees, ActiveGroups, PendingOf, Current,
       Stored, There
<1>2. ASSUME NEW t \in Threads, NEW r \in Reply, CheckDuplicate(t, r) PROVE Agreement'
  <2>1. UNCHANGED job /\ thread[t].at \notin Unstaged /\ Others(t)
    BY <1>2, CheckDuplicateMoves DEF Answered, Moved, Unstaged
  <2>2. SameLists /\ \A b \in Contents : SetsSame(b)
    <3>1. SameLists
      BY <1>2, <1>00 DEF CheckDuplicate, stores
    <3>2. UNCHANGED rows
      BY <1>2 DEF CheckDuplicate, stores
    <3> QED
      BY <3>1, <3>2, SameSets
  <2>3. Own(t)'
    BY <1>2, CheckDuplicateMoves, NothingOwed DEF Answered, Moved, Idle, Searching
  <2> QED
    BY <1>0, <2>1, <2>2, <2>3, AgreesUntouched
<1>3. ASSUME NEW t \in Threads, NEW r \in Reply, Find(t, r) PROVE Agreement'
  <2>1. UNCHANGED job /\ thread[t].at \notin Unstaged /\ Others(t)
    BY <1>3, FindMoves DEF Answered, Moved, Unstaged
  <2>2. SameLists /\ \A b \in Contents : SetsSame(b)
    <3>1. SameLists
      BY <1>3, <1>00 DEF Find, stores
    <3>2. UNCHANGED rows
      BY <1>3 DEF Find, stores
    <3> QED
      BY <3>1, <3>2, SameSets
  <2>3. Own(t)'
    BY <1>3, FindMoves, NothingOwed DEF Answered, Moved, Idle, Searching
  <2> QED
    BY <1>0, <2>1, <2>2, <2>3, AgreesUntouched
<1>4. ASSUME NEW t \in Threads, NEW r \in Reply, NEW gone \in BOOLEAN, NotePath(t, r, gone)
       PROVE Agreement'
  <2>1. UNCHANGED job /\ thread[t].at \notin Unstaged /\ Others(t)
    BY <1>4, NotePathMoves DEF Answered, Moved, Unstaged
  <2>2. SameLists /\ \A b \in Contents : SetsSame(b)
    <3>1. SameLists
      BY <1>4, NotePathNodes
    <3>2. UNCHANGED rows
      BY <1>4 DEF NotePath, stores
    <3> QED
      BY <3>1, <3>2, SameSets
  <2>3. Own(t)'
    BY <1>4, NotePathMoves, NothingOwed DEF Answered, Moved, Idle, Searching
  <2> QED
    BY <1>0, <2>1, <2>2, <2>3, AgreesUntouched
<1>5. ASSUME NEW t \in Threads, NEW r \in Reply, ReadCurrent(t, r) PROVE Agreement'
  <2>1. UNCHANGED job /\ thread[t].at \notin Unstaged /\ Others(t)
    BY <1>5, ReadCurrentMoves DEF Answered, Moved, Unstaged
  <2>2. SameLists /\ \A b \in Contents : SetsSame(b)
    <3>1. SameLists
      BY <1>5, <1>00 DEF ReadCurrent, stores
    <3>2. UNCHANGED rows
      BY <1>5 DEF ReadCurrent, stores
    <3> QED
      BY <3>1, <3>2, SameSets
  <2>3. Own(t)'
    <3>1. CASE Moved(t, Searching)
      BY <3>1, NothingOwed DEF Moved, Searching
    <3>2. CASE thread'[t].at = "upsert" /\ thread'[t].a = thread[t].a
                 /\ thread'[t].cur = CurrentRows(thread[t].a)
      BY <2>2, <3>2 DEF Own, SetsSame, CurrentRows
    <3> QED
      BY <1>5, <3>1, <3>2, ReadCurrentMoves
  <2> QED
    BY <1>0, <2>1, <2>2, <2>3, AgreesUntouched
<1>6. ASSUME NEW t \in Threads, NEW r \in Reply, Upsert(t, r) PROVE Agreement'
  <2>1. PICK a \in Contents, c \in Contents : thread[t].a = a /\ thread[t].c = c
    BY <1>6, UpsertMoves, WriterTyped DEF Reingesting
  <2>2. thread[t].at = "upsert" /\ thread[t].at \notin Unstaged /\ UNCHANGED job
    BY <1>6, UpsertMoves DEF Unstaged
  <2>3. Own(t) /\ TextsOf[c] \in SUBSET Texts
    BY <1>0, Constants DEF Agreement
  <2>4. /\ \A b \in Contents : SameNode(b)
        /\ \A b \in Contents : Lawful(b)'
    <3>1. \A b \in Contents : SameNode(b)
      BY <1>6, <1>00, SameNodes DEF Upsert
    <3> QED
      BY <1>0, <3>1, LawfulStays DEF Agreement
  <2>5. CASE r = "refused"
    <3>1. SameLists /\ (\A b \in Contents : SetsSame(b)) /\ Moved(t, Searching)
      BY <1>6, <1>00, <2>5, UpsertRows, UpsertMoves, SameSets DEF Upsert, Executed, Raised
    <3>2. Own(t)' /\ Others(t)
      BY <3>1, NothingOwed DEF Moved, Searching
    <3> QED
      BY <1>0, <2>2, <3>1, <3>2, AgreesUntouched
  <2>6. CASE r = "ok"
    <3>1. Moved(t, {"close"}) /\ Wrote(a, TextsOf[c])
            /\ \A s \in TextsOf[c] : rows'[<<a, s>>].closed = FALSE
      BY <1>6, <2>1, <2>6, UpsertRows, UpsertMoves DEF Executed, Raised
    <3>2. ~Contended(t, a) /\ ~LeavesPending(a, c)
      BY <1>6, <1>0, <2>1 DEF Upsert, When
    <3>3. /\ Current(a)' = Current(a) \cup TextsOf[c] /\ PendingOf(a)' = PendingOf(a)
          /\ \A b \in Contents \ {a} : SetsSame(b)
      BY <2>3, <3>1, WroteSets
    <3>4. Current(a) \subseteq DOMAIN thread[t].cur
      BY <2>1, <2>2, <2>3 DEF Own
    <3>5. Own(t)'
      BY <2>1, <3>1, <3>2, <3>3, <3>4 DEF Own, Moved, LeavesPending
    <3>6. /\ \A u \in Threads \ {t} : thread[u].a # a
          /\ \A g \in Groups : g.a # a
      BY <3>2 DEF Contended, Groups
    <3>7. Others(t) /\ thread'[t].at \in Unstaged /\ thread'[t].a = a
      BY <2>1, <3>1 DEF Moved, Unstaged
    <3> QED
      BY <1>0, <2>2, <2>4, <3>3, <3>5, <3>6, <3>7, AgreesElsewhere
  <2>7. r # "lost"
    BY <1>6, <1>0 DEF Upsert, When
  <2> QED
    BY <2>5, <2>6, <2>7 DEF Reply
<1>7. ASSUME NEW t \in Threads, NEW r \in Reply, CloseRows(t, r) PROVE Agreement'
  <2>1. PICK a \in Contents, c \in Contents : thread[t].a = a /\ thread[t].c = c
    BY <1>7, CloseRowsMoves, WriterTyped DEF Reingesting, MakingNew
  <2>2. thread[t].at = "close" /\ thread[t].at \in Writing /\ UNCHANGED job
    BY <1>7, CloseRowsMoves DEF Writing, MakingNew
  <2>3. Own(t) /\ TextsOf[c] \in SUBSET Texts /\ TextsOf[c] # {}
    BY <1>0, Constants DEF Agreement
  <2>4. Executed(r) /\ Moved(t, {"stage"})
    BY <1>7, <1>0, CloseRowsMoves DEF CloseRows, Excuse, When, Executed, Raised
  <2>5. /\ TextsOf[c] \subseteq Current(a) /\ Current(a) \subseteq DOMAIN thread[t].cur \cup TextsOf[c]
        /\ PendingOf(a) \subseteq TextsOf[c]
    BY <2>1, <2>2, <2>3 DEF Own
  <2>6. PICK dropped \in SUBSET Texts : dropped = DOMAIN thread[t].cur \ TextsOf[c]
    BY WriterTyped DEF Read
  <2>7. Shut(a, dropped) /\ SameMarks
    BY <1>7, <1>0, <2>1, <2>4, <2>6, CloseRowsRows
  <2>8. /\ Current(a)' = Current(a) \ dropped /\ PendingOf(a)' = PendingOf(a)
        /\ \A b \in Contents \ {a} : SetsSame(b)
    BY <2>7, ShutSets
  <2>9. Current(a)' = TextsOf[c] /\ PendingOf(a)' \subseteq TextsOf[c]
    BY <2>5, <2>6, <2>8
  <2>10. /\ \A b \in Contents : SameNode(b)
        /\ \A b \in Contents : Lawful(b)'
    <3>1. \A b \in Contents : SameNode(b)
      BY <1>7, <1>00, SameNodes DEF CloseRows
    <3> QED
      BY <1>0, <3>1, LawfulStays DEF Agreement
  <2>11. Own(t)'
    BY <2>1, <2>4, <2>9 DEF Own, Moved
  <2>12. thread'[t].at \in Unstaged /\ thread'[t].a = a
    BY <2>1, <2>4 DEF Moved, Unstaged
  <2> QED
    BY <1>0, <2>1, <2>2, <2>4, <2>8, <2>10, <2>11, <2>12, WriterAgrees DEF Moved
<1>8. ASSUME NEW t \in Threads, NEW r \in Reply, Stage(t, r) PROVE Agreement'
  <2>1. PICK a \in Contents, c \in Contents : thread[t].a = a /\ thread[t].c = c
    BY <1>8, StageMoves, WriterTyped DEF Reingesting, MakingNew
  <2>2. thread[t].at = "stage" /\ thread[t].at \in Writing /\ UNCHANGED job
    BY <1>8, StageMoves DEF Writing, MakingNew
  <2>3. Own(t) /\ TextsOf[c] \in SUBSET Texts /\ TextsOf[c] # {}
    BY <1>0, Constants DEF Agreement
  <2>4. Executed(r) /\ Moved(t, {"update"})
    BY <1>8, <1>0, StageMoves DEF Stage, Excuse, When
  <2>5. Current(a) = TextsOf[c] /\ PendingOf(a) \subseteq TextsOf[c]
    BY <2>1, <2>2, <2>3 DEF Own
  <2>6. Remarked(a, TextsOf[c], "pending")
    BY <1>8, <2>1, <2>4, StageRows
  <2>7. /\ Current(a)' = TextsOf[c] /\ PendingOf(a)' = TextsOf[c]
        /\ \A b \in Contents \ {a} : SetsSame(b)
    BY <2>3, <2>5, <2>6, PendingSets
  <2>8. /\ \A b \in Contents : SameNode(b)
        /\ \A b \in Contents : Lawful(b)'
    <3>1. \A b \in Contents : SameNode(b)
      BY <1>8, <1>00, SameNodes DEF Stage
    <3> QED
      BY <1>0, <3>1, LawfulStays DEF Agreement
  <2>9. Own(t)'
    BY <2>1, <2>2, <2>3, <2>4, <2>7, <2>8 DEF Own, Moved, SameNode, There
  <2>10. Balanced(a)'
    BY <2>3, <2>7 DEF Balanced
  <2> QED
    BY <1>0, <2>1, <2>2, <2>4, <2>5, <2>7, <2>8, <2>9, <2>10, WriterAgrees DEF Moved
<1>9. ASSUME NEW t \in Threads, NEW r \in Reply, Update(t, r) PROVE Agreement'
  <2>1. PICK a \in Contents, c \in Contents : thread[t].a = a /\ thread[t].c = c
    BY <1>9, UpdateMoves, WriterTyped DEF Reingesting, MakingNew
  <2>2. thread[t].at = "update" /\ thread[t].at \in Writing /\ UNCHANGED job
    BY <1>9, UpdateMoves DEF Writing, MakingNew
  <2>3. Own(t) /\ TextsOf[c] \in SUBSET Texts /\ TextsOf[c] # {}
    BY <1>0, Constants DEF Agreement
  <2>5. Current(a) = TextsOf[c] /\ PendingOf(a) = TextsOf[c]
    BY <2>1, <2>2, <2>3 DEF Own
  <2>6. \A b \in Contents : SetsSame(b)
    BY <1>9, SameSets DEF Update
  <2>7. CASE ~(Executed(r) /\ ~Taken(a, c))
    <3>1. SameLists
      BY <1>9, <1>00, <2>1, <2>7, UpdateNodes
    <3>2. Others(t) /\ thread'[t].at \in {"idle", "rollback"}
      BY <1>9, <2>1, <2>7, UpdateMoves DEF Answered, Moved, Idle, Executed
    <3>3. Own(t)'
      BY <3>2, NothingOwed, <2>2, <1>9, <2>1, <2>7, UpdateMoves DEF Answered, Moved, Idle, Executed
    <3> QED
      BY <1>0, <2>2, <2>6, <3>1, <3>2, <3>3, AgreesUntouched DEF Unstaged
  <2>8. CASE Executed(r) /\ ~Taken(a, c)
    <3>1. Lists(a, c, TextsOf[c])
      BY <1>9, <2>1, <2>8, UpdateNodes
    <3>2. \A b \in Contents \ {a} : SameNode(b)
      BY <3>1 DEF Lists, SameNode
    <3>3. Lawful(a)'
      BY <3>1 DEF Lawful, Lists
    <3>4. Balanced(a)'
      BY <2>3, <2>5, <2>6 DEF Balanced, SetsSame
    <3>5. Others(t) /\ (thread'[t].at = "idle"
            \/ (thread'[t].at = "flip" /\ thread'[t].a = a /\ thread'[t].c = c))
      BY <1>9, <2>1, <2>8, UpdateMoves DEF Answered, Moved, Idle
    <3>6. Own(t)'
      BY <2>5, <2>6, <3>1, <3>5 DEF Own, SetsSame, Lists
    <3> QED
      BY <1>0, <2>1, <2>2, <2>6, <3>2, <3>3, <3>4, <3>5, <3>6, WriterAgrees DEF SetsSame
  <2> QED
    BY <2>7, <2>8
<1>10. ASSUME NEW t \in Threads, NEW r \in Reply, Flip(t, r) PROVE Agreement'
  <2>1. PICK a \in Contents, c \in Contents : thread[t].a = a /\ thread[t].c = c
    BY <1>10, FlipMoves, WriterTyped DEF Reingesting, MakingNew
  <2>2. thread[t].at = "flip" /\ thread[t].at \in Writing /\ UNCHANGED job
    BY <1>10, FlipMoves DEF Writing, MakingNew
  <2>3. Own(t) /\ TextsOf[c] \in SUBSET Texts /\ TextsOf[c] # {}
    BY <1>0, Constants DEF Agreement
  <2>4. Own(t)' /\ Others(t)
    BY <1>10, FlipMoves, NothingOwed DEF Answered, Moved, Idle
  <2>5. /\ \A b \in Contents : SameNode(b)
        /\ \A b \in Contents : Lawful(b)'
    <3>1. \A b \in Contents : SameNode(b)
      BY <1>10, <1>00, SameNodes DEF Flip
    <3> QED
      BY <1>0, <3>1, LawfulStays DEF Agreement
  <2>6. CASE ~Executed(r)
    <3>1. SameLists /\ \A b \in Contents : SetsSame(b)
      BY <1>10, <1>00, <2>6, FlipRows, SameSets DEF Flip
    <3> QED
      BY <1>0, <2>2, <2>4, <3>1, AgreesUntouched DEF Unstaged
  <2>7. CASE Executed(r)
    <3>1. Current(a) = TextsOf[c] /\ PendingOf(a) = TextsOf[c] /\ nodes[a].listed = TextsOf[c]
      BY <2>1, <2>2, <2>3 DEF Own
    <3>2. There(a) /\ thread[t].a = thread[t].a
      BY <2>1, <2>2 DEF Ty, ThreadTypes, Reingesting, MakingNew
    <3>3. Remarked(a, TextsOf[c], "committed")
      BY <1>10, <2>1, <2>7, <3>2, FlipRows
    <3>4. /\ Current(a)' = TextsOf[c] /\ PendingOf(a)' = {}
          /\ \A b \in Contents \ {a} : SetsSame(b)
      BY <2>3, <3>1, <3>3, CommittedSets
    <3>5. Balanced(a)'
      BY <2>5, <3>1, <3>2, <3>4 DEF Balanced, SameNode, There
    <3> QED
      BY <1>0, <2>1, <2>2, <2>4, <2>5, <3>1, <3>4, <3>5, WriterAgrees
  <2> QED
    BY <2>6, <2>7
<1>11. ASSUME NEW t \in Threads, NEW r \in Reply, SetProperties(t, r) PROVE Agreement'
  <2>1. UNCHANGED job /\ thread[t].at \notin Unstaged /\ Others(t)
    BY <1>11, SetPropertiesMoves DEF Answered, Moved, Unstaged
  <2>2. SameLists /\ \A b \in Contents : SetsSame(b)
    <3>1. SameLists
      BY <1>11, SetPropertiesNodes
    <3>2. UNCHANGED rows
      BY <1>11 DEF SetProperties, stores
    <3> QED
      BY <3>1, <3>2, SameSets
  <2>3. Own(t)'
    BY <1>11, SetPropertiesMoves, NothingOwed DEF Answered, Moved, Idle, Searching
  <2> QED
    BY <1>0, <2>1, <2>2, <2>3, AgreesUntouched
<1>12. ASSUME NEW t \in Threads, NEW r \in Reply, Write(t, r) PROVE Agreement'
  <2>1. PICK c \in Contents : thread[t].c = c
    BY <1>12, WriteMoves, WriterTyped
  <2>2. thread[t].at = "write" /\ thread[t].at \notin Unstaged /\ UNCHANGED job
    BY <1>12, WriteMoves DEF Unstaged
  <2>3. TextsOf[c] \in SUBSET Texts
    BY Constants
  <2>4. /\ \A b \in Contents : SameNode(b)
        /\ \A b \in Contents : Lawful(b)'
    <3>1. \A b \in Contents : SameNode(b)
      BY <1>12, <1>00, SameNodes DEF Write
    <3> QED
      BY <1>0, <3>1, LawfulStays DEF Agreement
  <2>5. CASE r = "refused"
    <3>1. SameLists /\ (\A b \in Contents : SetsSame(b)) /\ Answered(t)
      BY <1>12, <1>00, <2>5, WriteRows, WriteMoves, SameSets DEF Write, Executed, Raised
    <3>2. Own(t)' /\ Others(t)
      BY <3>1, NothingOwed DEF Answered, Idle
    <3> QED
      BY <1>0, <2>2, <3>1, <3>2, AgreesUntouched
  <2>6. CASE r = "ok"
    <3>1. /\ Others(t) /\ thread'[t].at = "stagenew" /\ thread'[t].c = c /\ thread'[t].a = c
          /\ Wrote(c, TextsOf[c])
               /\ \A s \in TextsOf[c] : rows'[<<c, s>>].closed = rows[<<c, s>>].closed
      BY <1>12, <2>1, <2>6, WriteRows, WriteMoves DEF Executed, Raised
    <3>2. ~Contended(t, c) /\ ~LeavesPending(c, c) /\ ~Outgrown(c)
      BY <1>12, <1>0, <2>1 DEF Write, When
    <3>3. \A s \in TextsOf[c] : rows'[<<c, s>>].closed = FALSE
      <4>1. \A s \in TextsOf[c] : ~rows[<<c, s>>].closed /\ rows[<<c, s>>].closed \in BOOLEAN
        BY <2>3, <3>2, FlagsTyped DEF Outgrown
      <4> QED
        BY <3>1, <4>1
    <3>4. /\ Current(c)' = Current(c) \cup TextsOf[c] /\ PendingOf(c)' = PendingOf(c)
          /\ \A b \in Contents \ {c} : SetsSame(b)
      BY <2>3, <3>1, <3>3, WroteSets
    <3>5. /\ \A u \in Threads \ {t} : thread[u].a # c
          /\ \A g \in Groups : g.a # c
      BY <3>2 DEF Contended, Groups
    <3>6. Balanced(c)
      BY <1>0, <2>2, <3>5 DEF Agreement
    <3>7. Current(c) \subseteq TextsOf[c] /\ PendingOf(c) \subseteq TextsOf[c]
      BY <3>2, <3>6 DEF Balanced, LeavesPending, Outgrown
    <3>8. nodes'[c] # None => nodes'[c].hash \in {c, Blank}
      BY <2>4, <3>2 DEF Outgrown, SameNode, There
    <3>9. Own(t)'
      BY <3>1, <3>4, <3>7, <3>8 DEF Own, There
    <3>10. thread'[t].at \in Unstaged
      BY <3>1 DEF Unstaged
    <3> QED
      BY <1>0, <2>2, <2>4, <3>1, <3>4, <3>5, <3>9, <3>10, AgreesElsewhere
  <2>7. r # "lost"
    BY <1>12, <1>0 DEF Write, When
  <2> QED
    BY <2>5, <2>6, <2>7 DEF Reply
<1>13. ASSUME NEW t \in Threads, NEW r \in Reply, StageNew(t, r) PROVE Agreement'
  <2>1. PICK a \in Contents, c \in Contents : thread[t].a = a /\ thread[t].c = c
    BY <1>13, StageNewMoves, WriterTyped DEF Reingesting, MakingNew
  <2>2. thread[t].at = "stagenew" /\ thread[t].at \in Writing /\ UNCHANGED job
    BY <1>13, StageNewMoves DEF Writing, MakingNew
  <2>3. Own(t) /\ TextsOf[c] \in SUBSET Texts /\ TextsOf[c] # {}
    BY <1>0, Constants DEF Agreement
  <2>4. Executed(r) /\ Moved(t, {"create"})
    BY <1>13, <1>0, StageNewMoves DEF StageNew, Excuse, When
  <2>5. Current(a) = TextsOf[c] /\ PendingOf(a) \subseteq TextsOf[c]
    BY <2>1, <2>2, <2>3 DEF Own
  <2>6. Remarked(a, TextsOf[c], "pending")
    BY <1>13, <2>1, <2>4, StageNewRows
  <2>7. /\ Current(a)' = TextsOf[c] /\ PendingOf(a)' = TextsOf[c]
        /\ \A b \in Contents \ {a} : SetsSame(b)
    BY <2>3, <2>5, <2>6, PendingSets
  <2>8. /\ \A b \in Contents : SameNode(b)
        /\ \A b \in Contents : Lawful(b)'
    <3>1. \A b \in Contents : SameNode(b)
      BY <1>13, <1>00, SameNodes DEF StageNew
    <3> QED
      BY <1>0, <3>1, LawfulStays DEF Agreement
  <2>9. Own(t)'
    BY <2>1, <2>2, <2>3, <2>4, <2>7, <2>8 DEF Own, Moved, SameNode, There
  <2>10. Balanced(a)'
    BY <2>3, <2>7 DEF Balanced
  <2> QED
    BY <1>0, <2>1, <2>2, <2>4, <2>5, <2>7, <2>8, <2>9, <2>10, WriterAgrees DEF Moved
<1>14. ASSUME NEW t \in Threads, NEW r \in Reply, Create(t, r) PROVE Agreement'
  <2>1. PICK a \in Contents, c \in Contents : thread[t].a = a /\ thread[t].c = c
    BY <1>14, CreateMoves, WriterTyped DEF Reingesting, MakingNew
  <2>2. thread[t].at = "create" /\ thread[t].at \in Writing /\ UNCHANGED job
    BY <1>14, CreateMoves DEF Writing, MakingNew
  <2>3. Own(t) /\ TextsOf[c] \in SUBSET Texts /\ TextsOf[c] # {}
    BY <1>0, Constants DEF Agreement
  <2>4. thread[t].a = thread[t].c
    BY <2>2 DEF Ty, ThreadTypes, MakingNew
  <2>5. Current(a) = TextsOf[c] /\ PendingOf(a) = TextsOf[c]
    BY <2>1, <2>2, <2>3 DEF Own
  <2>6. \A b \in Contents : SetsSame(b)
    BY <1>14, SameSets DEF Create
  <2>7. CASE ~(Executed(r) /\ ~Collides(c))
    <3>1. SameLists
      BY <1>14, <1>00, <2>1, <2>7, CreateNodes
    <3>2. Others(t) /\ thread'[t].at \in {"idle", "rollback"}
      BY <1>14, <2>1, <2>7, CreateMoves DEF Answered, Moved, Idle, Executed
    <3>3. Own(t)'
      <4>1. CASE thread'[t].at = "idle"
        BY <4>1, NothingOwed
      <4>2. CASE thread'[t].at = "rollback"
        <5>1. thread'[t].a = a /\ thread'[t].c = c
          BY <1>14, <2>1, <4>2, CreateMoves DEF Answered, Moved, Idle
        <5> QED
          BY <2>5, <2>6, <4>2, <5>1 DEF Own, SetsSame
      <4> QED
        BY <3>2, <4>1, <4>2
    <3> QED
      BY <1>0, <2>2, <2>6, <3>1, <3>2, <3>3, AgreesUntouched DEF Unstaged
  <2>8. CASE Executed(r) /\ ~Collides(c)
    <3>1. PICK h \in {c, Blank} : Lists(a, h, TextsOf[c])
      <4>1. There(a) => nodes[a].hash \in {c, Blank}
        BY <2>1, <2>2, <2>3 DEF Own
      <4> QED
        BY <1>14, <2>1, <2>4, <2>8, <4>1, CreateNodes
    <3>2. \A b \in Contents \ {a} : SameNode(b)
      BY <3>1 DEF Lists, SameNode
    <3>3. Lawful(a)'
      BY <3>1, <2>1, <2>4 DEF Lawful, Lists
    <3>4. Balanced(a)'
      BY <2>3, <2>5, <2>6 DEF Balanced, SetsSame
    <3>5. Others(t) /\ (thread'[t].at = "idle"
            \/ (thread'[t].at = "setpath" /\ thread'[t].a = a /\ thread'[t].c = c))
      BY <1>14, <2>1, <2>8, CreateMoves DEF Answered, Moved, Idle
    <3>6. Own(t)'
      BY <2>5, <2>6, <3>1, <3>5 DEF Own, SetsSame, Lists
    <3> QED
      BY <1>0, <2>1, <2>2, <2>6, <3>2, <3>3, <3>4, <3>5, <3>6, WriterAgrees DEF SetsSame
  <2> QED
    BY <2>7, <2>8
<1>15. ASSUME NEW t \in Threads, NEW r \in Reply, Rollback(t, r) PROVE Agreement'
  <2>1. PICK a \in Contents, c \in Contents : thread[t].a = a /\ thread[t].c = c
    BY <1>15, RollbackMoves, WriterTyped DEF Reingesting, MakingNew
  <2>2. thread[t].at = "rollback" /\ thread[t].at \in Writing /\ UNCHANGED job
    BY <1>15, RollbackMoves DEF Writing, MakingNew
  <2>3. Own(t) /\ TextsOf[c] \in SUBSET Texts /\ TextsOf[c] # {}
    BY <1>0, Constants DEF Agreement
  <2>4. Own(t)' /\ Others(t)
    BY <1>15, RollbackMoves, NothingOwed DEF Answered, Idle
  <2>5. /\ \A b \in Contents : SameNode(b)
        /\ \A b \in Contents : Lawful(b)'
    <3>1. \A b \in Contents : SameNode(b)
      BY <1>15, <1>00, SameNodes DEF Rollback
    <3> QED
      BY <1>0, <3>1, LawfulStays DEF Agreement
  <2>6. CASE ~Executed(r)
    <3>1. SameLists /\ \A b \in Contents : SetsSame(b)
      BY <1>15, <1>00, <2>6, RollbackRows, SameSets DEF Rollback
    <3> QED
      BY <1>0, <2>2, <2>4, <3>1, AgreesUntouched DEF Unstaged
  <2>7. CASE Executed(r)
    <3>1. Current(a) = TextsOf[c] /\ PendingOf(a) = TextsOf[c]
      BY <2>1, <2>2, <2>3 DEF Own
    <3>2. ~There(a) /\ thread[t].c = a
      BY <1>0, <2>1, <2>2 DEF NothingTaken, Ty, ThreadTypes, MakingNew
    <3>3. Erased(a, TextsOf[c])
      BY <1>15, <2>1, <2>7, <3>2, RollbackRows
    <3>4. /\ Current(a)' = {} /\ PendingOf(a)' = {}
          /\ \A b \in Contents \ {a} : SetsSame(b)
      BY <2>3, <3>1, <3>3, ErasedSets
    <3>5. Balanced(a)'
      BY <2>5, <3>2, <3>4 DEF Balanced, SameNode, There
    <3> QED
      BY <1>0, <2>1, <2>2, <2>4, <2>5, <3>1, <3>4, <3>5, WriterAgrees
  <2> QED
    BY <2>6, <2>7
<1>16. ASSUME NEW t \in Threads, NEW r \in Reply, SetPath(t, r) PROVE Agreement'
  <2>1. UNCHANGED job /\ thread[t].at \notin Unstaged /\ Others(t)
    BY <1>16, SetPathMoves DEF Answered, Moved, Unstaged
  <2>2. SameLists /\ \A b \in Contents : SetsSame(b)
    <3>1. SameLists
      BY <1>16, SetPathNodes
    <3>2. UNCHANGED rows
      BY <1>16 DEF SetPath, stores
    <3> QED
      BY <3>1, <3>2, SameSets
  <2>3. Own(t)'
    <3>1. CASE Answered(t)
      BY <3>1, NothingOwed DEF Answered, Idle
    <3>2. CASE Moved(t, {"flipnew"})
      <4>1. thread[t].at = "setpath" /\ Own(t) /\ nodes[thread[t].a] # None
        BY <1>16, <1>0, SetPathMoves DEF Agreement, Ty, ThreadTypes, MakingNew, There
      <4> QED
        BY <2>2, <3>2, <4>1 DEF Own, SetsSame, SameLists, Moved
    <3> QED
      BY <1>16, <3>1, <3>2, SetPathMoves
  <2> QED
    BY <1>0, <2>1, <2>2, <2>3, AgreesUntouched
<1>17. ASSUME NEW t \in Threads, NEW r \in Reply, FlipNew(t, r) PROVE Agreement'
  <2>1. PICK a \in Contents, c \in Contents : thread[t].a = a /\ thread[t].c = c
    BY <1>17, FlipNewMoves, WriterTyped DEF Reingesting, MakingNew
  <2>2. thread[t].at = "flipnew" /\ thread[t].at \in Writing /\ UNCHANGED job
    BY <1>17, FlipNewMoves DEF Writing, MakingNew
  <2>3. Own(t) /\ TextsOf[c] \in SUBSET Texts /\ TextsOf[c] # {}
    BY <1>0, Constants DEF Agreement
  <2>4. Own(t)' /\ Others(t)
    BY <1>17, FlipNewMoves, NothingOwed DEF Answered, Moved, Idle
  <2>5. /\ \A b \in Contents : SameNode(b)
        /\ \A b \in Contents : Lawful(b)'
    <3>1. \A b \in Contents : SameNode(b)
      BY <1>17, <1>00, SameNodes DEF FlipNew
    <3> QED
      BY <1>0, <3>1, LawfulStays DEF Agreement
  <2>6. CASE ~Executed(r)
    <3>1. SameLists /\ \A b \in Contents : SetsSame(b)
      BY <1>17, <1>00, <2>6, FlipNewRows, SameSets DEF FlipNew
    <3> QED
      BY <1>0, <2>2, <2>4, <3>1, AgreesUntouched DEF Unstaged
  <2>7. CASE Executed(r)
    <3>1. Current(a) = TextsOf[c] /\ PendingOf(a) = TextsOf[c] /\ nodes[a].listed = TextsOf[c]
      BY <2>1, <2>2, <2>3 DEF Own
    <3>2. There(a) /\ thread[t].a = thread[t].c
      BY <2>1, <2>2 DEF Ty, ThreadTypes, Reingesting, MakingNew
    <3>3. Remarked(a, TextsOf[c], "committed")
      BY <1>17, <2>1, <2>7, <3>2, FlipNewRows
    <3>4. /\ Current(a)' = TextsOf[c] /\ PendingOf(a)' = {}
          /\ \A b \in Contents \ {a} : SetsSame(b)
      BY <2>3, <3>1, <3>3, CommittedSets
    <3>5. Balanced(a)'
      BY <2>5, <3>1, <3>2, <3>4 DEF Balanced, SameNode, There
    <3> QED
      BY <1>0, <2>1, <2>2, <2>4, <2>5, <3>1, <3>4, <3>5, WriterAgrees
  <2> QED
    BY <2>6, <2>7
<1>18. ASSUME NEW r \in Reply, Count(r) PROVE Agreement'
  <2>1. PICK a \in Contents : job.g.a = a
    BY <1>18, CountMoves, JobTyped
  <2>2. job.at = "count" /\ UNCHANGED thread
    BY <1>18, CountMoves
  <2>3. /\ PendingOf(a) = job.g.ids /\ job.g.ids # {} /\ Balanced(a) /\ Current(a) = job.g.ids
        /\ \A g \in job.todo : g.a \in Contents \ {a}
    BY <1>0, <2>1, <2>2, GroupIsBalanced
  <2>4. SameLists /\ \A b \in Contents : SetsSame(b)
    <3>1. SameLists
      BY <1>18, <1>00 DEF Count, stores
    <3>2. SameRows \/ UNCHANGED rows
      BY <1>18, CountEffect DEF Ty
    <3> QED
      BY <3>1, <3>2, SameSets
  <2>5. JobAgrees'
    <3>1. \A g \in ActiveGroups : SetsSame(g.a)
      BY <2>1, <2>3, <2>4 DEF ActiveGroups
    <3>2. Proceeds("read") /\ JobAgrees
      BY <1>18, <1>0, CountMoves DEF Agreement
    <3> QED
      BY <2>2, <3>1, <3>2, ProceedsAgrees DEF JobPoints
  <2> QED
    BY <1>0, <2>2, <2>4, <2>5, JobUntouched
<1>19. ASSUME NEW r \in Reply, ReadGraph(r) PROVE Agreement'
  <2>1. PICK a \in Contents : job.g.a = a
    BY <1>19, ReadGraphMoves, JobTyped
  <2>2. job.at = "read" /\ UNCHANGED thread
    BY <1>19, ReadGraphMoves
  <2>3. /\ PendingOf(a) = job.g.ids /\ job.g.ids # {} /\ Balanced(a) /\ Current(a) = job.g.ids
        /\ \A g \in job.todo : g.a \in Contents \ {a}
    BY <1>0, <2>1, <2>2, GroupIsBalanced
  <2>4. SameLists /\ \A b \in Contents : SetsSame(b)
    <3>1. SameLists
      BY <1>19, <1>00 DEF ReadGraph, stores
    <3>2. SameRows \/ UNCHANGED rows
      BY <1>19 DEF ReadGraph, stores
    <3> QED
      BY <3>1, <3>2, SameSets
  <2>5. JobAgrees'
    <3>1. \A g \in ActiveGroups : SetsSame(g.a)
      BY <2>1, <2>3, <2>4 DEF ActiveGroups
    <3>2. JobAgrees /\ UNCHANGED nodes
      BY <1>19, <1>0 DEF Agreement, ReadGraph, stores
    <3>3. CASE Proceeds("write")
      BY <2>2, <3>1, <3>2, <3>3, ProceedsAgrees DEF JobPoints
    <3>4. CASE Proceeds("flip")
      <4>1. nodes[job.g.a] # None /\ nodes[job.g.a].listed = job.g.ids
        BY <1>19, <3>4 DEF ReadGraph, Go, Proceeds, There, Ty, JobTypes
      <4> QED
        BY <2>2, <3>1, <3>2, <3>4, <4>1, ProceedsAgrees DEF JobPoints
    <3> QED
      BY <1>19, <3>3, <3>4, ReadGraphMoves
  <2> QED
    BY <1>0, <2>2, <2>4, <2>5, JobUntouched
<1>20. ASSUME NEW r \in Reply, WriteArtifact(r) PROVE Agreement'
  <2>1. PICK a \in Contents : job.g.a = a
    BY <1>20, WriteArtifactMoves, JobTyped
  <2>2. job.at = "write" /\ UNCHANGED thread
    BY <1>20, WriteArtifactMoves
  <2>3. /\ PendingOf(a) = job.g.ids /\ job.g.ids # {} /\ Balanced(a) /\ Current(a) = job.g.ids
        /\ \A g \in job.todo : g.a \in Contents \ {a}
    BY <1>0, <2>1, <2>2, GroupIsBalanced
  <2>4. \A b \in Contents : SetsSame(b)
    BY <1>20, SameSets DEF WriteArtifact
  <2>5. /\ \A b \in Contents \ {a} : SameNode(b)
        /\ Lawful(a)'
        /\ Executed(r) /\ ~Raised(r) => nodes'[a] # None /\ nodes'[a].listed = job.g.ids
    <3>1. CASE Executed(r) /\ ~(~There(a) /\ Taken(a, Blank))
      <4>1. PICK h : Lists(a, h, job.g.ids) /\ (There(a) \/ h = Blank)
        BY <1>20, <2>1, <3>1, WriteArtifactNodes
      <4>2. There(a) => "forwarded" \in excused'
        BY <1>20, <2>1, <3>1 DEF WriteArtifact, When
      <4> QED
        BY <4>1, <4>2 DEF Lists, SameNode, Lawful
    <3>2. CASE ~(Executed(r) /\ ~(~There(a) /\ Taken(a, Blank)))
      <4>1. SameLists /\ \A b \in Contents : SameNode(b)
        BY <1>20, <1>00, <2>1, <3>2, WriteArtifactNodes, SameNodes
      <4>2. Executed(r) => Raised(r)
        BY <1>20, <1>0, <2>1, <3>2 DEF WriteArtifact, When
      <4> QED
        BY <1>0, <4>1, <4>2, LawfulStays DEF Agreement
    <3> QED
      BY <3>1, <3>2
  <2>6. JobAgrees'
    <3>1. \A g \in ActiveGroups : SetsSame(g.a)
      BY <2>1, <2>3, <2>4 DEF ActiveGroups
    <3>2. CASE Finished
      BY <1>0, <2>3, <2>4, <3>2, FinishedAgrees DEF Agreement
    <3>3. CASE Proceeds("bury")
      BY <1>0, <2>2, <3>1, <3>3, ProceedsAgrees DEF Agreement, JobPoints
    <3>4. CASE Proceeds("flip")
      <4>1. r = "ok"
        <5>1. ~Raised(r) \/ Done \/ job' = [job EXCEPT !.at = "bury", !.left = job.g.ids]
          BY <1>20 DEF WriteArtifact
        <5>2. ~Done
          BY <3>4 DEF Done, Resting, Proceeds, Ty, JobTypes
        <5>3. job' # [job EXCEPT !.at = "bury", !.left = job.g.ids]
          BY <3>4 DEF Proceeds, Ty, JobTypes
        <5> QED
          BY <5>1, <5>2, <5>3 DEF Raised
      <4> QED
        BY <1>0, <2>1, <2>2, <2>5, <3>1, <3>4, <4>1, ProceedsAgrees DEF Agreement, JobPoints,
           Executed, Raised
    <3> QED
      BY <1>20, <3>2, <3>3, <3>4, WriteArtifactMoves
  <2>7. Balanced(a)'
    BY <2>3, <2>4 DEF Balanced, SetsSame
  <2> QED
    BY <1>0, <2>1, <2>2, <2>4, <2>5, <2>6, <2>7, JobWorks DEF SetsSame
<1>21. ASSUME NEW r \in Reply, FlipRecovered(r) PROVE Agreement'
  <2>1. PICK a \in Contents : job.g.a = a
    BY <1>21, FlipRecoveredMoves, JobTyped
  <2>2. job.at = "flip" /\ UNCHANGED thread
    BY <1>21, FlipRecoveredMoves
  <2>3. /\ PendingOf(a) = job.g.ids /\ job.g.ids # {} /\ Balanced(a) /\ Current(a) = job.g.ids
        /\ \A g \in job.todo : g.a \in Contents \ {a}
    BY <1>0, <2>1, <2>2, GroupIsBalanced
  <2>4. UNCHANGED nodes /\ SameLists
    BY <1>21, <1>00 DEF FlipRecovered
  <2>5. CASE ~Executed(r)
    <3>1. \A b \in Contents : SetsSame(b)
      BY <1>21, <2>5, FlipRecoveredRows, SameSets
    <3>2. JobAgrees'
      BY <1>21, <1>0, <2>3, <3>1, FlipRecoveredMoves, FinishedAgrees DEF Agreement
    <3> QED
      BY <1>0, <2>2, <2>4, <3>1, <3>2, JobUntouched
  <2>6. CASE Executed(r)
    <3>1. PICK S \in SUBSET Texts : job.g.ids = S
      BY <2>2, JobTyped
    <3>2. Remarked(a, S, "committed")
      BY <1>21, <2>1, <2>6, <3>1, FlipRecoveredRows
    <3>3. /\ Current(a)' = Current(a) /\ PendingOf(a)' = {}
          /\ \A b \in Contents \ {a} : SetsSame(b)
      BY <2>3, <3>1, <3>2, CommittedSets
    <3>4. There(a) /\ nodes[a].listed = S
      BY <1>0, <2>1, <2>2, <3>1 DEF Agreement, JobAgrees
    <3>5. Balanced(a)'
      BY <2>3, <2>4, <3>1, <3>3, <3>4 DEF Balanced, There
    <3>6. Lawful(a)' /\ \A b \in Contents \ {a} : SameNode(b)
      BY <1>0, <2>4, SameNodes, LawfulStays DEF Agreement
    <3>7. JobAgrees'
      BY <1>21, <1>0, <2>3, <3>3, FlipRecoveredMoves, FinishedAgrees DEF Agreement
    <3> QED
      BY <1>0, <2>1, <2>2, <3>3, <3>5, <3>6, <3>7, JobWorks
  <2> QED
    BY <2>5, <2>6
<1>22. ASSUME NEW r \in Reply, NEW x \in job.left, Bury(x, r) PROVE Agreement'
  BY <1>22, <1>0 DEF Bury, Excuse, When
<1>23. ASSUME NEW r \in Reply, Purge(r) PROVE Agreement'
  BY <1>23, <1>0, PurgeMoves DEF Agreement, JobAgrees
<1>24. ASSUME Scan PROVE Agreement'
  <2>1. \A b \in Contents : SetsSame(b)
    BY <1>24, ScanShape, SameSets
  <2>2. SameLists
    BY <1>24, <1>00, ScanShape
  <2>3. ASSUME NEW g \in job'.todo PROVE PendingOf(g.a)' = g.ids /\ g.ids # {}
    <3>1. g.a \in Contents /\ g.ids = Orphans(g.a) /\ Orphans(g.a) # {}
            /\ \A t \in Threads : thread[t].a # g.a
      BY <1>24, <1>0, ScanShape
    <3>2. Orphans(g.a) = PendingOf(g.a)
      BY <3>1 DEF Orphans, Staged, Rows
    <3> QED
      BY <2>1, <3>1, <3>2 DEF SetsSame
  <2>4. JobAgrees'
    <3>1. job'.at = "next" /\ \A g, h \in job'.todo : g.a = h.a => g = h
      BY <1>24, ScanShape
    <3>2. ActiveGroups' = job'.todo
      BY <3>1 DEF ActiveGroups
    <3> QED
      BY <2>3, <3>1, <3>2 DEF JobAgrees
  <2> QED
    BY <1>24, <1>0, <2>1, <2>2, <2>4, ScanShape, JobUntouched
<1>25. ASSUME NEW g \in job.todo, Take(g) PROVE Agreement'
  <2>1. UNCHANGED <<rows, nodes, thread>>
    BY <1>25 DEF Take, stores
  <2>2. SameLists /\ \A b \in Contents : SetsSame(b)
    BY <1>00, <2>1, SameSets
  <2>3. job.at = "next" /\ job'.at = "count" /\ job'.todo = job.todo \ {g} /\ job'.g = g
    BY <1>25 DEF Take, Resting
  <2>4. JobAgrees'
    <3>1. ActiveGroups' = ActiveGroups /\ ActiveGroups = job.todo
      BY <2>3 DEF ActiveGroups
    <3>2. \A h \in ActiveGroups : SetsSame(h.a)
      BY <2>2, <3>1 DEF Ty, JobTypes
    <3>3. JobAgrees
      BY <1>0 DEF Agreement
    <3>4. \A h \in ActiveGroups' : PendingOf(h.a)' = h.ids /\ h.ids # {}
      BY <3>1, <3>2, <3>3 DEF JobAgrees, SetsSame
    <3> QED
      BY <2>3, <3>1, <3>3, <3>4 DEF JobAgrees
  <2> QED
    BY <1>0, <2>1, <2>2, <2>4, JobUntouched
<1>26. ASSUME NEW t \in Threads, NEW c \in Contents, NEW f \in Files, Request(t, c, f) PROVE
       Agreement'
  <2>1. UNCHANGED <<rows, nodes, job>> /\ Others(t) /\ thread[t].at = "idle"
          /\ thread'[t].at = "duplicate"
    BY <1>26, <1>000 DEF Request, stores, Others, Idle
  <2>2. SameLists /\ \A b \in Contents : SetsSame(b)
    BY <1>00, <2>1, SameSets
  <2>3. Own(t)'
    BY <2>1, NothingOwed
  <2> QED
    BY <1>0, <2>1, <2>2, <2>3, AgreesUntouched DEF Unstaged
<1>27. ASSUME Crash PROVE Agreement'
  <2>1. UNCHANGED <<rows, nodes>> /\ job' = Resting /\ \A u \in Threads : thread'[u].at = "idle"
    BY <1>27 DEF Crash, stores, Idle
  <2>2. SameLists /\ \A b \in Contents : SetsSame(b)
    BY <1>00, <2>1, SameSets
  <2>3. \A b \in Contents : SameNode(b)
    BY <2>2, SameNodes
  <2>4. \A u \in Threads : thread[u].at \notin Unstaged
    BY <1>27, <1>0 DEF Crash, Excuse, When, Unstaged
  <2>5. \A b \in Contents : Balanced(b)' /\ Lawful(b)'
    BY <1>0, <2>2, <2>3, <2>4, BalancedStays, LawfulStays DEF Agreement
  <2>6. \A u \in Threads : Own(u)'
    BY <2>1, NothingOwed
  <2>7. JobAgrees'
    BY <2>1 DEF JobAgrees, ActiveGroups, Resting
  <2> QED
    BY <2>5, <2>6, <2>7 DEF Agreement
<1>28. ASSUME NEW t \in Threads, NEW r \in Reply, Serve(t, r) PROVE Agreement'
  BY <1>28, <1>2, <1>3, <1>4, <1>5, <1>6, <1>7, <1>8, <1>9, <1>10, <1>11, <1>12, <1>13, <1>14,
     <1>15, <1>16, <1>17 DEF Serve
<1>29. ASSUME NEW r \in Reply, Recover(r) PROVE Agreement'
  BY <1>29, <1>18, <1>19, <1>20, <1>21, <1>22, <1>23 DEF Recover
<1> QED
  BY <1>1, <1>28, <1>29, <1>24, <1>25, <1>26, <1>27 DEF Next, GoesOn

LEMMA AgreeingStores ==
  ASSUME Ty, Agree, Settled, excused \subseteq {"forwarded"}
  PROVE  \A a \in Contents :
            /\ Shown(a) = IF There(a) THEN nodes[a].listed ELSE {}
            /\ There(a) /\ nodes[a].hash # Blank /\ "forwarded" \notin excused
                  => nodes[a].listed = TextsOf[nodes[a].hash]
<1> SUFFICES ASSUME NEW a \in Contents
             PROVE  /\ Shown(a) = IF There(a) THEN nodes[a].listed ELSE {}
                    /\ Lawful(a)
  BY DEF Lawful
<1>1. Agreement
  BY DEF Agree, Clean, Settled
<1>2. Balanced(a)
  BY <1>1 DEF Settled, Agreement, Unstaged
<1>3. \A x \in Texts : rows[<<a, x>>].mark # "pending"
  BY DEF Settled, Keys
<1>4. PendingOf(a) = {}
  BY <1>3 DEF PendingOf
<1>5. Shown(a) = Current(a)
  BY <1>3, FlagsTyped DEF Shown, Current, Stored
<1> QED
  BY <1>1, <1>2, <1>4, <1>5 DEF Balanced, Agreement

\* At rest retrieval shows what the nodes list, and a node lists the passages of the
\* content it carries the hash of: a request hides what it writes until its node lists
\* it (stage_pending before the graph write, the flip to committed after it), closes
\* what its version no longer has, and scan_orphans with recover_artifact finishes the
\* write of whoever stopped half-way.
THEOREM StoresComeToAgree == Spec => []StoresAgree
<1>1. Ty /\ Agree => StoresAgree
  BY AgreeingStores DEF StoresAgree
<1> QED
  BY <1>1, InitTy, NextTy, InitApart, NextApart, InitKept, NextKept, InitAgree, NextAgree, PTL
     DEF Spec
================================================================================
