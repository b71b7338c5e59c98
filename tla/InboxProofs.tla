------------------------------ MODULE InboxProofs ------------------------------
(***************************************************************************)
(* What is proved of the inbox ledger and its executor, for any messages,  *)
(* decisions and requests, and any number of failed commands and deaths.   *)
(***************************************************************************)
EXTENDS InboxProperties, TLAPS

-----------------------------------------------------------------------------
(* Types.                                                                  *)

LEMMA Constants ==
  /\ Ids \subseteq Nat /\ None \notin Ids
  /\ "undo" \notin Actions /\ "none" \notin Actions /\ Actions \subseteq {"archive", "keep", "read"}
  BY IdsAssumption, ActionsAssumption DEF None

Statuses == {"proposed", "closed", "applied", "undone"}
AllActions == {"archive", "keep", "read", "undo"}
Todos == {<<"move">>, <<"flag", "move">>, <<"read">>}

Row == [message : Messages \cup {None}, action : AllActions \cup {"none"},
        status : Statuses \cup {"none"}, undoes : Ids \cup {None}]

\* An undo is of an earlier decision about the same message.
RowOk(d) ==
    /\ rows[d].status # "none" => rows[d].message \in Messages /\ rows[d].action \in AllActions
    /\ rows[d].undoes # None =>
          LET e == rows[d].undoes
          IN /\ rows[d].action = "undo" /\ e \in Ids /\ e # d
             /\ rows[e].status # "none" /\ rows[e].message = rows[d].message

RowTypes == rows \in [Ids -> Row] /\ \A d \in Ids : RowOk(d)

\* The fields of a task that are read.
Task == [stage : {"idle", "row", "find", "run"}, pass : SUBSET Ids, id : Ids \cup {None},
         undoing : Ids \cup {None}, list : SUBSET Ids, row : Ids \cup {None}, stale : SUBSET Ids,
         todo : Todos \cup {<<>>}, answer : {"none", "ok", "off"}]

\* A task at work has a decision, and the rest of its pass are other ones, none an undo;
\* the rows it replays are excused; it works through the plan of its decision, or of a row.
Working(k) ==
    /\ k.id \in Ids /\ Known(k.id) /\ k.id \notin k.pass
    /\ \A d \in k.pass : Known(d) /\ rows[d].undoes = None
    /\ k.undoing \in {None, rows[k.id].undoes}
    /\ k.list \subseteq excused
    /\ k.stage = "row" => k.row \in excused
    /\ k.stage = "find" => k.todo = Plan(rows[k.id])
    /\ k.todo \in {Plan(rows[Doer(k)]), <<"move">>}
    /\ k.todo = <<"move">> => rows[Doer(k)].action # "read"

Resting(k) ==
    k.stage = "idle" /\ k.id = None /\ k.pass = {} /\ k.undoing = None /\ k.list = {}
      /\ k.row = None

TaskTypes ==
    /\ task \in [Tasks -> Task]
    /\ \A t \in Tasks : IF task[t].stage = "idle" THEN Resting(task[t]) ELSE Working(task[t])

StoreTypes ==
    /\ outbox \subseteq excused
    /\ \A d \in excused \cup carried : d \in Ids /\ Known(d)
    /\ last \in [Messages -> Ids \cup {None}]
    /\ \A m \in Messages : last[m] # None => Known(last[m]) /\ rows[last[m]].message = m

Ty == RowTypes /\ TaskTypes /\ StoreTypes

LEMMA PlanOf ==
  ASSUME NEW r, r.action \in AllActions
  PROVE  /\ Plan(r) \in Todos
         /\ Plan(r) = <<"flag", "move">> <=> r.action = "keep"
         /\ Plan(r) = <<"read">> <=> r.action = "read"
  BY DEF Plan, Todos, AllActions

\* The commands of a plan, one by one.
LEMMA Commands ==
  ASSUME NEW p \in Todos
  PROVE  /\ Len(p) > 1 <=> p = <<"flag", "move">>
         /\ Head(p) = "move" <=> p = <<"move">>
         /\ p = <<"flag", "move">> => Tail(p) = <<"move">>
         /\ p # <<>> /\ <<"move">> # <<"flag", "move">> /\ <<"move">> # <<"read">>
<1>1. /\ Len(<<"move">>) = 1 /\ Len(<<"read">>) = 1 /\ Len(<<"flag", "move">>) = 2 /\ Len(<<>>) = 0
      /\ Head(<<"move">>) = "move" /\ Head(<<"read">>) = "read" /\ Head(<<"flag", "move">>) = "flag"
  OBVIOUS
<1>2. Tail(<<"flag", "move">>) = <<"move">>
  OBVIOUS
<1>3. <<"move">>[1] # <<"read">>[1]
  OBVIOUS
<1>4. p # <<>> /\ <<"move">> # <<"flag", "move">> /\ <<"move">> # <<"read">>
  BY <1>1, <1>3 DEF Todos
<1>5. <<"flag", "move">> # <<"read">>
  BY <1>1
<1>6. CASE p = <<"move">>
  BY <1>1, <1>4, <1>6
<1>7. CASE p = <<"read">>
  BY <1>1, <1>4, <1>5, <1>7
<1>8. CASE p = <<"flag", "move">>
  BY <1>1, <1>2, <1>4, <1>8
<1> QED
  BY <1>6, <1>7, <1>8 DEF Todos


-----------------------------------------------------------------------------
(* What a step does to the decisions.                                      *)

\* A decision once made stays, with its message and its action.
Grows ==
    \A d \in Ids : Known(d) =>
        /\ Known(d)' /\ rows'[d].message = rows[d].message
        /\ rows'[d].action = rows[d].action /\ rows'[d].undoes = rows[d].undoes

LEMMA GrownRow ==
  ASSUME Grows, NEW d \in Ids, RowOk(d), rows'[d].message = rows[d].message,
         rows'[d].action = rows[d].action, rows'[d].undoes = rows[d].undoes,
         rows'[d].status # "none" => rows[d].status # "none"
  PROVE  RowOk(d)'
<1>1. CASE rows[d].undoes = None
  BY <1>1 DEF RowOk
<1>2. CASE rows[d].undoes # None
  <2>1. PICK e \in Ids : e = rows[d].undoes
    BY <1>2 DEF RowOk
  <2>2. rows[e].status # "none" /\ rows[e].message = rows[d].message /\ e # d
          /\ rows[d].action = "undo"
    BY <1>2, <2>1 DEF RowOk
  <2>3. rows'[e].status # "none" /\ rows'[e].message = rows[e].message
    BY <2>2 DEF Grows, Known
  <2>4. rows'[d].undoes = e
    BY <2>1
  <2> QED
    BY <2>2, <2>3, <2>4 DEF RowOk
<1> QED
  BY <1>1, <1>2

LEMMA SameRows ==
  ASSUME RowTypes, UNCHANGED rows
  PROVE  RowTypes' /\ Grows
  BY DEF RowTypes, RowOk, Grows, Known

LEMMA RecordedRows ==
  ASSUME RowTypes, NEW d \in Ids, Known(d), NEW s \in Statuses, rows' = Recorded(d, s)
  PROVE  /\ RowTypes' /\ Grows
         /\ rows'[d].status = s /\ \A e \in Ids \ {d} : rows'[e].status = rows[e].status
<1>1. \A e \in Ids : rows'[e] = IF e = d THEN [rows[e] EXCEPT !.status = s] ELSE rows[e]
  BY DEF Recorded, RowTypes
<1>2. \A e \in Ids : rows'[e] \in Row
  BY <1>1 DEF RowTypes, Row
<1>3. rows' \in [Ids -> Row]
  BY <1>2 DEF Recorded, RowTypes
<1>4. \A e \in Ids : /\ rows'[e].message = rows[e].message /\ rows'[e].action = rows[e].action
                     /\ rows'[e].undoes = rows[e].undoes
                     /\ rows'[e].status = IF e = d THEN s ELSE rows[e].status
  BY <1>1 DEF RowTypes, Row
<1>5. \A e \in Ids : rows'[e].status # "none" <=> rows[e].status # "none"
  BY <1>4 DEF Known, Statuses
<1>6. Grows
  BY <1>4, <1>5 DEF Grows, Known
<1>7. \A e \in Ids : RowOk(e)'
  BY <1>4, <1>5, <1>6, GrownRow DEF RowTypes
<1> QED
  BY <1>3, <1>4, <1>6, <1>7 DEF RowTypes

\* A decision is made and supersedes the open one about its message.
Makes(d) ==
    /\ ~Known(d) /\ Known(d)' /\ rows'[d].status = "proposed"
    /\ \A e \in Ids \ {d} : \/ rows'[e].status = rows[e].status
                            \/ rows[e].status = "proposed" /\ rows'[e].status = "closed"

LEMMA ProposedRows ==
  ASSUME RowTypes, NEW d \in Fresh, NEW r \in Row, rows' = Proposed(d, r),
         r.message \in Messages, r.action \in AllActions, r.status = "proposed",
         r.undoes # None => r.action = "undo" /\ Known(r.undoes)
           /\ rows[r.undoes].message = r.message
  PROVE  /\ RowTypes' /\ Grows /\ Makes(d)
         /\ rows'[d] = r
<1>1. d \in Ids /\ ~Known(d)
  BY DEF Fresh
<1>2. \A e \in Ids : rows'[e] = IF e = d THEN r
                                ELSE IF Open(e) /\ rows[e].message = r.message
                                     THEN [rows[e] EXCEPT !.status = "closed"] ELSE rows[e]
  BY DEF Proposed
<1>3. \A e \in Ids \ {d} : /\ rows'[e].message = rows[e].message /\ rows'[e].action = rows[e].action
                           /\ rows'[e].undoes = rows[e].undoes
                           /\ \/ rows'[e].status = rows[e].status
                              \/ rows[e].status = "proposed" /\ rows'[e].status = "closed"
  <2> SUFFICES ASSUME NEW e \in Ids \ {d}
               PROVE  /\ rows'[e].message = rows[e].message /\ rows'[e].action = rows[e].action
                      /\ rows'[e].undoes = rows[e].undoes
                      /\ \/ rows'[e].status = rows[e].status
                         \/ rows[e].status = "proposed" /\ rows'[e].status = "closed"
    OBVIOUS
  <2>1. rows'[e] = rows[e] \/ (Open(e) /\ rows'[e] = [rows[e] EXCEPT !.status = "closed"])
    BY <1>2
  <2> QED
    BY <2>1 DEF RowTypes, Row, Open
<1>4. rows' \in [Ids -> Row]
  <2>1. \A e \in Ids : [rows[e] EXCEPT !.status = "closed"] \in Row /\ rows[e] \in Row
    BY DEF RowTypes, Row, Statuses
  <2>2. \A e \in Ids : rows'[e] \in Row
    BY <1>2, <2>1
  <2> QED
    BY <2>2 DEF Proposed
<1>5. rows'[d] = r /\ rows'[d].status # "none"
  BY <1>1, <1>2
<1>6. \A e \in Ids \ {d} : rows'[e].status # "none" <=> rows[e].status # "none"
  BY <1>3
<1>7. Grows
  BY <1>1, <1>3, <1>6 DEF Grows, Known
<1>8. \A e \in Ids \ {d} : RowOk(e)'
  BY <1>3, <1>6, <1>7, GrownRow DEF RowTypes
<1>9. RowOk(d)'
  <2>1. CASE r.undoes = None
    BY <1>5, <2>1 DEF RowOk
  <2>2. CASE r.undoes # None
    <3>1. PICK e \in Ids : e = r.undoes
      BY <2>2 DEF Row
    <3>2. e # d /\ rows'[e].status # "none" /\ rows'[e].message = r.message
      BY <1>1, <1>3, <1>6, <2>2, <3>1 DEF Known
    <3> QED
      BY <1>5, <2>2, <3>1, <3>2 DEF RowOk
  <2> QED
    BY <2>1, <2>2
<1> QED
  BY <1>1, <1>3, <1>4, <1>5, <1>7, <1>8, <1>9 DEF RowTypes, Makes, Known

LEMMA OutcomeRows ==
  ASSUME RowTypes, NEW d \in Ids, Known(d), NEW e \in Ids \cup {None},
         e # None => Known(e) /\ e # d, rows' = Outcome(d, e)
  PROVE  /\ RowTypes' /\ Grows
         /\ rows'[d].status = "applied" /\ (e # None => rows'[e].status = "undone")
         /\ \A b \in Ids \ {d, e} : rows'[b].status = rows[b].status
<1>1. CASE e = None
  BY <1>1, RecordedRows DEF Outcome, Statuses
<1>2. CASE e # None
  <2>1. e \in Ids /\ Known(e) /\ e # d
    BY <1>2
  <2>2. rows' = [[rows EXCEPT ![d].status = "applied"] EXCEPT ![e].status = "undone"]
    BY <1>2 DEF Outcome, Recorded
  <2>3. \A b \in Ids : rows'[b] = IF b = e THEN [rows[b] EXCEPT !.status = "undone"]
                                  ELSE IF b = d THEN [rows[b] EXCEPT !.status = "applied"] ELSE rows[b]
    BY <2>1, <2>2 DEF RowTypes
  <2>4. \A b \in Ids : /\ rows'[b] \in Row
                       /\ rows'[b].message = rows[b].message /\ rows'[b].action = rows[b].action
                       /\ rows'[b].undoes = rows[b].undoes
                       /\ rows'[b].status = IF b = e THEN "undone" ELSE IF b = d THEN "applied"
                                            ELSE rows[b].status
    <3>1. \A b \in Ids : /\ rows[b] \in Row /\ [rows[b] EXCEPT !.status = "undone"] \in Row
                         /\ [rows[b] EXCEPT !.status = "applied"] \in Row
      BY DEF RowTypes, Row, Statuses
    <3>2. \A b \in Ids : rows'[b] \in Row
      BY <2>3, <3>1
    <3>3. \A b \in Ids : /\ rows'[b].message = rows[b].message /\ rows'[b].action = rows[b].action
                         /\ rows'[b].undoes = rows[b].undoes
                         /\ rows'[b].status = IF b = e THEN "undone" ELSE IF b = d THEN "applied"
                                              ELSE rows[b].status
      <4> SUFFICES ASSUME NEW b \in Ids
                   PROVE  /\ rows'[b].message = rows[b].message /\ rows'[b].action = rows[b].action
                          /\ rows'[b].undoes = rows[b].undoes
                          /\ rows'[b].status = IF b = e THEN "undone" ELSE IF b = d THEN "applied"
                                               ELSE rows[b].status
        OBVIOUS
      <4>1. rows[b] \in Row
        BY DEF RowTypes
      <4> QED
        BY <2>3, <4>1 DEF Row
    <3> QED
      BY <3>2, <3>3
  <2>5. rows' \in [Ids -> Row]
    BY <2>2, <2>4 DEF RowTypes
  <2>6. \A b \in Ids : rows'[b].status # "none" <=> rows[b].status # "none"
    BY <2>1, <2>4 DEF Known
  <2>7. Grows
    BY <2>4, <2>6 DEF Grows, Known
  <2>8. \A b \in Ids : RowOk(b)'
    BY <2>4, <2>6, <2>7, GrownRow DEF RowTypes
  <2> QED
    BY <2>1, <2>4, <2>5, <2>7, <2>8 DEF RowTypes
<1> QED
  BY <1>1, <1>2

-----------------------------------------------------------------------------
(* What a step does to the tasks.                                          *)

\* All but what the outbox has gone stale of.
Alike(h, k) ==
    /\ h.stage = k.stage /\ h.pass = k.pass /\ h.id = k.id /\ h.undoing = k.undoing
    /\ h.list = k.list /\ h.row = k.row /\ h.todo = k.todo /\ h.answer = k.answer

\* The task goes on to an attempt at d, after the rows of l.
Starts(k, d, pass, u, l) ==
    /\ k.id = d /\ k.pass = pass /\ k.undoing = u /\ k.answer = "none" /\ k.list \subseteq l
    /\ \/ k.stage = "row" /\ k.row \in l /\ k.todo = Plan(rows'[k.row])
       \/ k.stage \in {"find", "run"} /\ k.todo = Plan(rows'[d])

Others(t) == task' \in [Tasks -> Task] /\ \A u \in Tasks \ {t} : Alike(task'[u], task[u])

\* The task is through with its decision.
Ends(t) ==
    /\ Others(t)
    /\ \/ Resting(task'[t])
       \/ \E d \in task[t].pass : Starts(task'[t], d, task[t].pass \ {d}, None, outbox')

LEMMA OnwardStarts ==
  ASSUME RowTypes', NEW k \in Task, NEW l \in SUBSET Ids, k.id \in Ids,
         rows'[k.id].status # "none", \A d \in l : rows'[d].status # "none",
         NEW h \in Onward(k, l)
  PROVE  h \in Task /\ Starts(h, k.id, k.pass, k.undoing, l)
<1>1. \A d \in l \cup {k.id} : Plan(rows'[d]) \in Todos
  BY PlanOf DEF RowTypes, RowOk
<1>2. CASE l = {}
  <2>1. PICK stage \in {"find", "run"} :
           h = [k EXCEPT !.stage = stage, !.list = {}, !.row = None, !.stale = {},
                         !.todo = Plan(rows'[k.id]), !.answer = "none"]
    BY <1>2 DEF Onward, FirstCalls
  <2> QED
    BY <1>1, <2>1 DEF Task, Starts
<1>3. CASE l # {}
  <2>1. PICK d \in l : h = [k EXCEPT !.stage = "row", !.list = l \ {d}, !.row = d,
                                     !.todo = Plan(rows'[d]), !.answer = "none"]
    BY <1>3 DEF Onward
  <2> QED
    BY <1>1, <2>1 DEF Task, Starts
<1> QED
  BY <1>2, <1>3

LEMMA BegunStarts ==
  ASSUME RowTypes', NEW d \in Ids, NEW pass \in SUBSET Ids, outbox' \in SUBSET Ids,
         rows'[d].status # "none", \A e \in outbox' : rows'[e].status # "none",
         NEW h \in Begun(pass, d)
  PROVE  h \in Task /\ Starts(h, d, pass, None, outbox')
<1>1. PICK k : k = [Idle EXCEPT !.pass = pass, !.id = d]
  OBVIOUS
<1>2. k \in Task /\ k.id = d /\ k.pass = pass /\ k.undoing = None
  BY <1>1 DEF Task, Idle
<1>3. PICK l : l = outbox'
  OBVIOUS
<1>4. h \in Onward(k, l)
  BY <1>1, <1>3 DEF Begun
<1>5. h \in Task /\ Starts(h, k.id, k.pass, k.undoing, l)
  BY <1>2, <1>3, <1>4, OnwardStarts
<1> QED
  BY <1>2, <1>3, <1>5

LEMMA EndedStarts ==
  ASSUME RowTypes', NEW pass \in SUBSET Ids, outbox' \in SUBSET Ids,
         \A e \in pass \cup outbox' : rows'[e].status # "none", NEW h \in Ended(pass)
  PROVE  /\ h \in Task
         /\ Resting(h) \/ \E d \in pass : Starts(h, d, pass \ {d}, None, outbox')
<1>1. CASE pass = {}
  BY <1>1 DEF Ended, Idle, Task, Resting
<1>2. CASE pass # {}
  <2>1. PICK d \in pass : h \in Begun(pass \ {d}, d)
    BY <1>2 DEF Ended
  <2> QED
    BY <2>1, BegunStarts
<1> QED
  BY <1>1, <1>2

\* Marking rows stale leaves the tasks as they are.
LEMMA OutdatedAlike ==
  ASSUME TaskTypes, NEW d \in Ids
  PROVE  /\ Outdated(d) \in [Tasks -> Task]
         /\ \A u \in Tasks : Alike(Outdated(d)[u], task[u])
<1>1. \A u \in Tasks : Outdated(d)[u] = task[u]
                           \/ Outdated(d)[u] = [task[u] EXCEPT !.stale = @ \cup {d}]
  BY DEF Outdated
<1>2. \A u \in Tasks : [task[u] EXCEPT !.stale = @ \cup {d}] \in Task
  BY DEF TaskTypes, Task
<1>3. \A u \in Tasks : Outdated(d)[u] \in Task
  BY <1>1, <1>2 DEF TaskTypes
<1>4. Outdated(d) \in [Tasks -> Task]
  BY <1>3 DEF Outdated
<1>5. \A u \in Tasks : Alike(Outdated(d)[u], task[u])
  <2> SUFFICES ASSUME NEW u \in Tasks PROVE Alike(Outdated(d)[u], task[u])
    OBVIOUS
  <2>1. task[u] \in Task
    BY DEF TaskTypes
  <2>2. CASE Outdated(d)[u] = task[u]
    BY <2>2 DEF Alike
  <2>3. CASE Outdated(d)[u] = [task[u] EXCEPT !.stale = @ \cup {d}]
    BY <2>1, <2>3 DEF Task, Alike
  <2> QED
    BY <1>1, <2>2, <2>3
<1> QED
  BY <1>4, <1>5

LEMMA BecomeMoves ==
  ASSUME TaskTypes, NEW t \in Tasks, NEW ks, NEW others \in [Tasks -> Task],
         \A k \in ks : k \in Task,
         \A u \in Tasks : Alike(others[u], task[u]), Become(t, ks, others)
  PROVE  Others(t) /\ task'[t] \in ks
  BY DEF Become, Others

LEMMA TaskAlike == TaskTypes => task \in [Tasks -> Task] /\ \A u \in Tasks : Alike(task[u], task[u])
  BY DEF TaskTypes, Alike

\* What keeps a task at work typed.
LEMMA WorkingStays ==
  ASSUME Ty, Grows, excused \subseteq excused', NEW k \in Task, NEW h \in Task, Alike(h, k),
         Working(k)
  PROVE  Working(h)'
<1>1. k.id \in Ids /\ Known(k.id) /\ Doer(k) \in Ids /\ Known(Doer(k))
  BY DEF Working, Doer, Ty, StoreTypes
<1>2. Doer(h) = Doer(k) /\ Doer(h)' = Doer(k)
  BY DEF Alike, Doer
<1>3. \A d \in Ids : Known(d) => Plan(rows'[d]) = Plan(rows[d]) /\ rows'[d].undoes = rows[d].undoes
                                 /\ rows'[d].action = rows[d].action
  BY DEF Grows, Plan
<1>4. h.pass \subseteq Ids
  BY DEF Task
<1>5. h.id \in Ids /\ Known(h.id)' /\ h.id \notin h.pass /\ h.undoing \in {None, rows'[h.id].undoes}
  BY <1>1, <1>3 DEF Working, Alike, Grows
<1>6. \A d \in h.pass : Known(d)' /\ rows'[d].undoes = None
  BY <1>3, <1>4 DEF Working, Alike, Grows
<1>7. h.list \subseteq excused' /\ (h.stage = "row" => h.row \in excused')
  BY DEF Working, Alike
<1>8. h.stage = "find" => h.todo = Plan(rows'[h.id])
  BY <1>1, <1>3 DEF Working, Alike
<1>9. h.todo \in {Plan(rows'[Doer(k)]), <<"move">>}
        /\ (h.todo = <<"move">> => rows'[Doer(k)].action # "read")
  BY <1>1, <1>3 DEF Working, Alike
<1> QED
  BY <1>2, <1>5, <1>6, <1>7, <1>8, <1>9 DEF Working

LEMMA OthersTyped ==
  ASSUME Ty, Grows, excused \subseteq excused', NEW t \in Tasks, Others(t)
  PROVE  \A u \in Tasks \ {t} : IF task'[u].stage = "idle" THEN Resting(task'[u]) ELSE Working(task[u])'
<1> SUFFICES ASSUME NEW u \in Tasks \ {t}
             PROVE  IF task'[u].stage = "idle" THEN Resting(task'[u]) ELSE Working(task[u])'
  OBVIOUS
<1>1. PICK k \in Task : k = task[u]
  BY DEF Ty, TaskTypes
<1>2. PICK h \in Task : h = task'[u]
  BY DEF Others
<1>3. Alike(h, k) /\ (IF k.stage = "idle" THEN Resting(k) ELSE Working(k))
  BY <1>1, <1>2 DEF Others, Ty, TaskTypes
<1>4. IF h.stage = "idle" THEN Resting(h) ELSE Working(h)'
  BY <1>3, WorkingStays DEF Alike, Resting
<1> QED
  BY <1>2, <1>4

LEMMA StartsWorking ==
  ASSUME RowTypes', NEW d \in Ids, Known(d)', NEW pass \in SUBSET Ids, NEW l \in SUBSET Ids, NEW u,
         d \notin pass, \A e \in pass : Known(e)' /\ rows'[e].undoes = None,
         u \in {None, rows'[d].undoes}, l \subseteq excused', excused' \subseteq Ids,
         \A e \in excused' : rows'[e].status # "none",
         NEW h \in Task, Starts(h, d, pass, u, l)
  PROVE  Working(h)' /\ h.stage # "idle"
<1>1. Doer(h) \in Ids /\ Known(Doer(h))' /\ Doer(h)' = Doer(h)
  BY DEF Starts, Doer, Known
<1>2. rows'[Doer(h)].action \in AllActions
  BY <1>1 DEF RowTypes, RowOk, Known
<1>3. h.todo = Plan(rows'[Doer(h)])
  BY DEF Starts, Doer
<1>4. h.todo = <<"move">> => rows'[Doer(h)].action # "read"
  BY <1>2, <1>3, PlanOf, Commands DEF Todos
<1>5. h.stage = "row" => h.row \in excused'
  BY DEF Starts
<1> QED
  BY <1>1, <1>3, <1>4, <1>5 DEF Starts, Working

\* The task in hand ends or goes on, the others stay.
LEMMA EndsTyped ==
  ASSUME Ty, RowTypes', Grows, excused \subseteq excused', NEW t \in Tasks, task[t].stage # "idle",
         Ends(t),
         outbox' \subseteq excused', \A e \in excused' : e \in Ids /\ Known(e)'
  PROVE  TaskTypes'
<1>1. PICK k \in Task : k = task[t]
  BY DEF Ty, TaskTypes
<1>2. PICK h \in Task : h = task'[t]
  BY DEF Ends, Others
<1>3. PICK l : l = outbox'
  OBVIOUS
<1>4. l \subseteq Ids /\ l \subseteq excused'
  BY <1>3
<1>5. k.pass \subseteq Ids /\ \A e \in k.pass : Known(e)' /\ rows'[e].undoes = None
  BY <1>1 DEF Ty, TaskTypes, Working, Task, Grows
<1>6. IF h.stage = "idle" THEN Resting(h) ELSE Working(h)'
  <2>1. CASE Resting(h)
    BY <2>1 DEF Resting
  <2>2. ASSUME NEW d \in k.pass, Starts(h, d, k.pass \ {d}, None, l)
        PROVE  Working(h)' /\ h.stage # "idle"
    <3>1. d \in Ids /\ Known(d)' /\ k.pass \ {d} \in SUBSET Ids /\ d \notin k.pass \ {d}
      BY <1>5
    <3>2. \A e \in k.pass \ {d} : Known(e)' /\ rows'[e].undoes = None
      BY <1>5
    <3>3. excused' \subseteq Ids /\ \A e \in excused' : rows'[e].status # "none"
      BY DEF Known
    <3> QED
      BY <1>4, <2>2, <3>1, <3>2, <3>3, StartsWorking
  <2> QED
    BY <1>1, <1>2, <1>3, <2>1, <2>2 DEF Ends
<1>7. IF task'[t].stage = "idle" THEN Resting(task'[t]) ELSE Working(task[t])'
  BY <1>2, <1>6
<1> QED
  BY <1>7, OthersTyped DEF Ends, Others, TaskTypes

\* What is remembered stays true.
LEMMA StoreStays ==
  ASSUME Ty, RowTypes', Grows, outbox' \subseteq excused',
         \A d \in excused' \cup carried' : d \in Ids /\ Known(d)',
         UNCHANGED last
  PROVE  StoreTypes'
<1>1. \A m \in Messages : last[m] # None =>
          rows'[last[m]].status # "none" /\ rows'[last[m]].message = m
  <2> SUFFICES ASSUME NEW m \in Messages, last[m] # None
               PROVE  rows'[last[m]].status # "none" /\ rows'[last[m]].message = m
    OBVIOUS
  <2>1. PICK d \in Ids : d = last[m]
    BY DEF Ty, StoreTypes
  <2>2. Known(d) /\ rows[d].message = m
    BY <2>1 DEF Ty, StoreTypes
  <2> QED
    BY <2>1, <2>2 DEF Grows, Known
<1> QED
  BY <1>1 DEF Ty, StoreTypes, Known

\* The steps, one by one.
LEMMA WorkingTask ==
  ASSUME Ty, NEW t \in Tasks, task[t].stage # "idle"
  PROVE  /\ task[t] \in Task /\ Working(task[t])
         /\ task[t].id \in Ids /\ Known(task[t].id) /\ task[t].pass \subseteq Ids \ {task[t].id}
         /\ Doer(task[t]) \in Ids /\ Known(Doer(task[t])) /\ Target(task[t]) \in Messages
         /\ rows[Doer(task[t])].action \in AllActions
<1>1. task[t] \in Task /\ Working(task[t])
  BY DEF Ty, TaskTypes
<1>2. Doer(task[t]) \in Ids /\ Known(Doer(task[t]))
  BY <1>1 DEF Working, Doer, Ty, StoreTypes
<1>3. RowOk(Doer(task[t]))
  BY <1>2 DEF Ty, RowTypes
<1> QED
  BY <1>1, <1>2, <1>3 DEF Working, Task, RowOk, Known, Target

LEMMA SameStore ==
  ASSUME Ty, UNCHANGED rows, outbox' \subseteq excused', UNCHANGED <<last, carried>>,
         \A d \in excused' : d \in Ids /\ Known(d)
  PROVE  StoreTypes'
<1>1. \A d \in excused' \cup carried' : d \in Ids /\ Known(d)'
  BY DEF Ty, StoreTypes, Known
<1>2. RowTypes' /\ Grows
  BY SameRows DEF Ty
<1> QED
  BY <1>1, <1>2, StoreStays

LEMMA EffectStore ==
  ASSUME Ty, RowTypes', Grows, NEW t \in Tasks, task[t].stage # "idle",
         Effect(task[t]), outbox' \subseteq excused', \A e \in excused' : e \in Ids /\ Known(e)'
  PROVE  StoreTypes'
<1>1. PICK w \in Ids : w = Doer(task[t])
  BY WorkingTask
<1>2. PICK n \in Messages : n = Target(task[t])
  BY WorkingTask
<1>3. Known(w) /\ rows[w].message = n
  BY <1>1, <1>2, WorkingTask DEF Target
<1>4. carried' \subseteq carried \cup {w}
  BY <1>1 DEF Effect, history
<1>5. last' = last \/ last' = [last EXCEPT ![n] = w]
  BY <1>1, <1>2 DEF Effect, history, Ty, StoreTypes
<1>6. \A e \in Ids : Known(e) => Known(e)' /\ rows'[e].message = rows[e].message
  BY DEF Grows
<1>7. \A e \in excused' \cup carried' : e \in Ids /\ Known(e)'
  BY <1>3, <1>4, <1>6 DEF Ty, StoreTypes
<1>8. last' \in [Messages -> Ids \cup {None}]
  BY <1>1, <1>5 DEF Ty, StoreTypes
<1>9. \A m \in Messages : last'[m] # None =>
          rows'[last'[m]].status # "none" /\ rows'[last'[m]].message = m
  <2> SUFFICES ASSUME NEW m \in Messages, last'[m] # None
               PROVE  rows'[last'[m]].status # "none" /\ rows'[last'[m]].message = m
    OBVIOUS
  <2>1. last'[m] = last[m] \/ (m = n /\ last'[m] = w)
    BY <1>1, <1>5 DEF Ty, StoreTypes
  <2>2. PICK e \in Ids : e = last'[m]
    BY <1>8
  <2>3. Known(e) /\ rows[e].message = m
    BY <1>3, <2>1, <2>2 DEF Ty, StoreTypes
  <2> QED
    BY <1>6, <2>2, <2>3 DEF Known
<1> QED
  BY <1>7, <1>8, <1>9 DEF StoreTypes, Known

\* t puts its task down or up, and the rest stays.
LEMMA OneTyped ==
  ASSUME Ty, Grows, excused \subseteq excused', NEW t \in Tasks, Others(t),
         IF task'[t].stage = "idle" THEN Resting(task'[t]) ELSE Working(task[t])'
  PROVE  TaskTypes'
  BY OthersTyped DEF Others, TaskTypes

LEMMA StartsTyped ==
  ASSUME Ty, RowTypes', Grows, excused \subseteq excused',
         \A e \in excused' : e \in Ids /\ Known(e)',
         NEW t \in Tasks, Others(t), NEW d \in Ids, Known(d)', NEW pass \in SUBSET Ids,
           d \notin pass,
         \A e \in pass : Known(e)' /\ rows'[e].undoes = None,
         NEW u, u \in {None, rows'[d].undoes}, NEW l, l \subseteq excused',
         Starts(task'[t], d, pass, u, l)
  PROVE  TaskTypes'
<1>1. PICK h \in Task : h = task'[t]
  BY DEF Others
<1>2. excused' \subseteq Ids /\ l \in SUBSET Ids /\ \A e \in excused' : rows'[e].status # "none"
  BY DEF Known
<1>3. Working(h)' /\ h.stage # "idle"
  BY <1>1, <1>2, StartsWorking
<1> QED
  BY <1>1, <1>3, OneTyped

\* t has started on d, with a pass to go through and an undo to record.
Started(t, d, pass, u) == Others(t) /\ Starts(task'[t], d, pass, u, outbox')

LEMMA BegunMoves ==
  ASSUME Ty, RowTypes', Grows, excused \subseteq excused',
         \A e \in excused' : e \in Ids /\ Known(e)',
         outbox' \subseteq excused', NEW t \in Tasks, NEW d \in Ids, Known(d)',
           NEW pass \in SUBSET Ids,
         d \notin pass, \A e \in pass : Known(e)' /\ rows'[e].undoes = None,
         Become(t, Begun(pass, d), task)
  PROVE  TaskTypes' /\ Started(t, d, pass, None)
<1>1. outbox' \in SUBSET Ids /\ rows'[d].status # "none"
        /\ \A e \in outbox' : rows'[e].status # "none"
  BY DEF Known
<1>2. \A h \in Begun(pass, d) : h \in Task /\ Starts(h, d, pass, None, outbox')
  BY <1>1, BegunStarts
<1>3. PICK ks : ks = Begun(pass, d)
  OBVIOUS
<1>4. PICK others : others = task
  OBVIOUS
<1>5. others \in [Tasks -> Task] /\ (\A u \in Tasks : Alike(others[u], task[u]))
        /\ \A k \in ks : k \in Task
  BY <1>2, <1>3, <1>4, TaskAlike DEF Ty
<1>6. Others(t) /\ task'[t] \in ks
  BY <1>3, <1>4, <1>5, BecomeMoves DEF Ty
<1>7. Started(t, d, pass, None)
  BY <1>2, <1>3, <1>6 DEF Started
<1>8. PICK l : l = outbox'
  OBVIOUS
<1>9. TaskTypes'
  BY <1>6, <1>7, <1>8, StartsTyped DEF Started
<1> QED
  BY <1>7, <1>9

\* t is through with its decision; what it had in hand was written to the outbox, or not.
LEMMA EndedMoves ==
  ASSUME Ty, RowTypes', Grows, excused \subseteq excused',
         \A e \in excused' : e \in Ids /\ Known(e)',
         outbox' \subseteq excused', NEW t \in Tasks, task[t].stage # "idle", NEW w \in Ids,
         \/ Become(t, Ended(task[t].pass), task)
         \/ Become(t, Ended(task[t].pass), Outdated(w))
  PROVE  TaskTypes' /\ Ends(t)
<1>1. PICK pass \in SUBSET Ids : pass = task[t].pass
  BY WorkingTask
<1>2. outbox' \in SUBSET Ids /\ \A e \in pass \cup outbox' : rows'[e].status # "none"
  BY <1>1, WorkingTask DEF Working, Grows, Known
<1>3. \A h \in Ended(pass) : h \in Task
        /\ (Resting(h) \/ \E d \in pass : Starts(h, d, pass \ {d}, None, outbox'))
  BY <1>2, EndedStarts
<1>4. PICK ks : ks = Ended(pass)
  OBVIOUS
<1>5. PICK others \in {task, Outdated(w)} : Become(t, ks, others)
  BY <1>1, <1>4
<1>6. others \in [Tasks -> Task] /\ (\A u \in Tasks : Alike(others[u], task[u]))
        /\ \A k \in ks : k \in Task
  BY <1>3, <1>4, <1>5, TaskAlike, OutdatedAlike DEF Ty
<1>7. Others(t) /\ task'[t] \in ks
  BY <1>5, <1>6, BecomeMoves DEF Ty
<1>8. Ends(t)
  BY <1>1, <1>3, <1>4, <1>7 DEF Ends
<1> QED
  BY <1>8, EndsTyped

\* t goes on from a row it replayed, or gave up.
GoesOn(t) ==
    /\ Others(t)
    /\ \E l \in SUBSET Ids : Starts(task'[t], task[t].id, task[t].pass, task[t].undoing, l)

LEMMA OnwardMoves ==
  ASSUME Ty, UNCHANGED <<rows, excused>>, NEW t \in Tasks, task[t].stage # "idle",
         NEW l \in SUBSET Ids, l \subseteq task[t].list, NEW w \in Ids,
         \/ Become(t, Onward(task[t], l), task)
         \/ Become(t, Onward(task[t], l), Outdated(w))
  PROVE  TaskTypes' /\ GoesOn(t)
<1>1. PICK k \in Task : k = task[t] /\ Working(k)
  BY WorkingTask
<1>2. RowTypes' /\ Grows
  BY SameRows DEF Ty
<1>3. k.id \in Ids /\ rows'[k.id].status # "none" /\ \A d \in l : d \in excused
        /\ rows'[d].status # "none"
  BY <1>1 DEF Working, Ty, StoreTypes, Known
<1>4. PICK ks : ks = Onward(k, l)
  OBVIOUS
<1>5. \A h \in ks : h \in Task /\ Starts(h, k.id, k.pass, k.undoing, l)
  BY <1>2, <1>3, <1>4, OnwardStarts
<1>6. PICK others \in {task, Outdated(w)} : Become(t, ks, others)
  BY <1>1, <1>4
<1>7. others \in [Tasks -> Task] /\ \A u \in Tasks : Alike(others[u], task[u])
  BY <1>6, TaskAlike, OutdatedAlike DEF Ty
<1>8. Others(t) /\ task'[t] \in ks
  BY <1>5, <1>6, <1>7, BecomeMoves DEF Ty
<1>9. GoesOn(t)
  BY <1>1, <1>5, <1>8 DEF GoesOn
<1>10. PICK d, pass, u : d = k.id /\ pass = k.pass /\ u = k.undoing
  OBVIOUS
<1>11. /\ d \in Ids /\ pass \in SUBSET Ids /\ d \notin pass /\ u \in {None, rows'[d].undoes}
       /\ Known(d)' /\ \A e \in pass : Known(e)' /\ rows'[e].undoes = None
  BY <1>1, <1>10 DEF Working, Known, Task
<1>12. l \subseteq excused' /\ excused \subseteq excused'
         /\ \A e \in excused' : e \in Ids /\ Known(e)'
  BY <1>3 DEF Ty, StoreTypes, Known
<1>13. Starts(task'[t], d, pass, u, l)
  BY <1>5, <1>8, <1>10
<1>14. TaskTypes'
  BY <1>2, <1>8, <1>11, <1>12, <1>13, StartsTyped
<1> QED
  BY <1>9, <1>14

\* t stays at its decision, with fields of its own.
Stays(t) ==
    /\ Others(t)
    /\ task'[t].id = task[t].id /\ task'[t].pass = task[t].pass
         /\ task'[t].undoing = task[t].undoing
    /\ task'[t].stage # "idle"

Proposes == UNCHANGED rows \/ \E d \in Ids : Makes(d) /\ rows'[d].undoes = None

\* The decisions the triage job takes up.
Listed == {d \in Ids : rows'[d].status = "proposed" /\ rows'[d].action \in Actions}

PassesOver(t) ==
    /\ Others(t)
    /\ Resting(task'[t]) \/ \E d \in Listed : Starts(task'[t], d, Listed \ {d}, None, outbox')

LEMMA RecordAndApplyMoves ==
  ASSUME Ty, NEW proposes \in BOOLEAN, NEW applies \in BOOLEAN, RecordAndApply(proposes, applies)
  PROVE  /\ Ty' /\ Grows /\ Proposes /\ UNCHANGED <<outbox, history>>
         /\ UNCHANGED <<task, excused>> \/ (PassesOver(Scheduler) /\ Overlapped(Scheduler, Listed))
<1>1. RowTypes' /\ Grows /\ Proposes
  <2>1. CASE UNCHANGED rows
    BY <2>1, SameRows DEF Ty, Proposes
  <2>2. CASE ProposeTriage
    <3>1. PICK m \in Messages, a \in Actions, d \in Fresh :
             rows' = Proposed(d,
               [message |-> m, action |-> a, status |-> "proposed", undoes |-> None])
      BY <2>2 DEF ProposeTriage
    <3>2. PICK r \in Row : r = [message |-> m, action |-> a, status |-> "proposed", undoes |-> None]
      BY Constants DEF Row, Statuses, AllActions
    <3>3. r.message \in Messages /\ r.action \in AllActions /\ r.status = "proposed"
            /\ r.undoes = None
      BY <3>2, Constants DEF AllActions
    <3>4. RowTypes' /\ Grows /\ Makes(d) /\ rows'[d] = r
      BY <3>1, <3>2, <3>3, ProposedRows DEF Ty
    <3> QED
      BY <3>3, <3>4 DEF Proposes, Fresh
  <2> QED
    BY <2>1, <2>2 DEF RecordAndApply
<1>2. UNCHANGED <<outbox, history>> /\ task[Scheduler].stage = "idle" /\ Scheduler \in Tasks
  BY DEF RecordAndApply, Tasks
<1>3. \A d \in excused : d \in Ids /\ Known(d)'
  BY <1>1 DEF Ty, StoreTypes, Grows
<1>4. \A d \in Listed : Known(d)' /\ rows'[d].undoes = None
  BY <1>1, Constants DEF Listed, RowTypes, RowOk, Known
<1>5. CASE UNCHANGED <<task, excused>>
  <2>1. Others(Scheduler)
    BY <1>5 DEF Ty, TaskTypes, Others, Alike
  <2>2. TaskTypes'
    BY <1>1, <1>2, <1>5, <2>1, OneTyped DEF Ty, TaskTypes
  <2>3. StoreTypes'
    BY <1>1, <1>2, <1>3, <1>5, StoreStays DEF Ty, StoreTypes, history, Grows
  <2> QED
    BY <1>1, <1>2, <1>5, <2>2, <2>3 DEF Ty
<1>6. CASE Pass
  <2>1. PICK open \in SUBSET Ids : open = Listed
    BY DEF Listed
  <2>2. Become(Scheduler, Ended(open), task) /\ Overlapped(Scheduler, open)
    BY <1>6, <2>1 DEF Pass, Eligible, Listed
  <2>3. excused \subseteq excused' /\ \A e \in excused' : e \in Ids /\ Known(e)'
    BY <1>3, <1>4, <2>1, <2>2 DEF Overlapped
  <2>4. outbox' \subseteq excused'
    BY <1>2, <2>3 DEF Ty, StoreTypes
  <2>5. outbox' \in SUBSET Ids /\ \A e \in open \cup outbox' : rows'[e].status # "none"
    BY <1>4, <2>1, <2>3, <2>4 DEF Known
  <2>6. \A h \in Ended(open) : h \in Task
          /\ (Resting(h) \/ \E d \in open : Starts(h, d, open \ {d}, None, outbox'))
    BY <1>1, <2>5, EndedStarts
  <2>7. PICK ks, others : ks = Ended(open) /\ others = task
    OBVIOUS
  <2>8. Others(Scheduler) /\ task'[Scheduler] \in ks
    BY <1>2, <2>2, <2>6, <2>7, TaskAlike, BecomeMoves DEF Ty
  <2>9. PassesOver(Scheduler)
    BY <2>1, <2>6, <2>7, <2>8 DEF PassesOver
  <2>10. TaskTypes'
    <3>1. CASE Resting(task'[Scheduler])
      BY <1>1, <1>2, <2>3, <2>8, <3>1, OneTyped DEF Resting
    <3>2. ASSUME NEW d \in open, Starts(task'[Scheduler], d, open \ {d}, None, outbox')
          PROVE  TaskTypes'
      <4>1. PICK pass, l : pass = open \ {d} /\ l = outbox'
        OBVIOUS
      <4>2. d \in Ids /\ Known(d)' /\ pass \in SUBSET Ids /\ d \notin pass /\ l \subseteq excused'
        BY <1>4, <2>1, <2>4, <4>1
      <4>3. \A e \in pass : Known(e)' /\ rows'[e].undoes = None
        BY <1>4, <2>1, <4>1
      <4> QED
        BY <1>1, <1>2, <2>3, <2>8, <3>2, <4>1, <4>2, <4>3, StartsTyped
    <3> QED
      BY <2>6, <2>7, <2>8, <3>1, <3>2
  <2>11. StoreTypes'
    BY <1>1, <1>2, <2>3, <2>4, StoreStays DEF Ty, StoreTypes, history, Grows
  <2> QED
    BY <1>1, <1>2, <2>1, <2>2, <2>9, <2>10, <2>11 DEF Ty
<1> QED
  BY <1>5, <1>6 DEF RecordAndApply

LEMMA ApplyMoves ==
  ASSUME Ty, NEW t \in Clients, NEW d \in Ids, Apply(t, d)
  PROVE  /\ Ty' /\ Grows /\ UNCHANGED <<rows, outbox, history>>
         /\ task[t].stage = "idle" /\ Open(d) /\ Started(t, d, {}, None) /\ Overlapped(t, {d})
<1>1. UNCHANGED <<rows, outbox, history>> /\ Known(d) /\ t \in Tasks
  BY DEF Apply, ledger, Open, Known, Tasks
<1>2. RowTypes' /\ Grows
  BY <1>1, SameRows DEF Ty
<1>3. excused \subseteq excused' /\ \A e \in excused' : e \in Ids /\ Known(e)
  BY <1>1 DEF Apply, Overlapped, Ty, StoreTypes
<1>4. \A e \in excused' : e \in Ids /\ Known(e)'
  BY <1>1, <1>3 DEF Known
<1>5. outbox' \subseteq excused' /\ Known(d)' /\ Become(t, Begun({}, d), task)
  BY <1>1, <1>3 DEF Ty, StoreTypes, Known, Apply
<1>6. TaskTypes' /\ Started(t, d, {}, None)
  BY <1>1, <1>2, <1>3, <1>4, <1>5, BegunMoves
<1>7. StoreTypes'
  BY <1>1, <1>3, <1>5, SameStore DEF history
<1> QED
  BY <1>1, <1>2, <1>6, <1>7 DEF Ty, Apply

LEMMA UndoMoves ==
  ASSUME Ty, NEW t \in Clients, NEW d \in Ids, Undo(t, d)
  PROVE  /\ Ty' /\ Grows /\ UNCHANGED <<outbox, history, excused>>
         /\ task[t].stage = "idle" /\ rows[d].status = "applied"
         /\ \E u \in Ids : Makes(u) /\ rows'[u].undoes = d /\ Started(t, u, {}, d)
<1>1. PICK u \in Fresh :
        /\ rows' = Proposed(u,
             [rows[d] EXCEPT !.action = "undo", !.status = "proposed", !.undoes = d])
        /\ Become(t, {[k EXCEPT !.undoing = d] : k \in Begun({}, u)}, task)
  BY DEF Undo
<1>2. UNCHANGED <<outbox, history, excused>> /\ task[t].stage = "idle" /\ rows[d].status = "applied"
        /\ t \in Tasks
  BY DEF Undo, Tasks
<1>3. PICK r : r = [rows[d] EXCEPT !.action = "undo", !.status = "proposed", !.undoes = d]
  OBVIOUS
<1>4. /\ r \in Row /\ r.message = rows[d].message /\ r.action = "undo" /\ r.status = "proposed"
           /\ r.undoes = d
      /\ r.message \in Messages /\ Known(d)
  BY <1>2, <1>3 DEF Ty, RowTypes, RowOk, Row, Statuses, AllActions, Known
<1>5. RowTypes' /\ Grows /\ Makes(u) /\ rows'[u] = r
  BY <1>1, <1>3, <1>4, ProposedRows DEF Ty, AllActions
<1>6. \A e \in excused' : e \in Ids /\ Known(e)'
  BY <1>2, <1>5 DEF Ty, StoreTypes, Grows
<1>7. /\ outbox' \subseteq excused' /\ excused \subseteq excused' /\ outbox' \in SUBSET Ids
      /\ \A e \in outbox' : rows'[e].status # "none"
  BY <1>2, <1>6 DEF Ty, StoreTypes, Known
<1>8. u \in Ids /\ Known(u)' /\ rows'[u].status # "none"
  BY <1>5 DEF Fresh, Makes, Known
<1>9. PICK ks, others : ks = {[k EXCEPT !.undoing = d] : k \in Begun({}, u)} /\ others = task
  OBVIOUS
<1>10. \A h \in ks : h \in Task /\ Starts(h, u, {}, d, outbox')
  <2> SUFFICES ASSUME NEW k \in Begun({}, u)
               PROVE  [k EXCEPT !.undoing = d] \in Task
                        /\ Starts([k EXCEPT !.undoing = d], u, {}, d, outbox')
    BY <1>9
  <2>1. k \in Task /\ Starts(k, u, {}, None, outbox')
    BY <1>5, <1>7, <1>8, BegunStarts
  <2>2. PICK h : h = [k EXCEPT !.undoing = d]
    OBVIOUS
  <2>3. h \in Task /\ h.stage = k.stage /\ h.id = k.id /\ h.pass = k.pass /\ h.undoing = d
          /\ h.list = k.list
        /\ h.row = k.row /\ h.todo = k.todo /\ h.answer = k.answer
    BY <2>1, <2>2 DEF Task
  <2> QED
    BY <2>1, <2>2, <2>3 DEF Starts
<1>11. Others(t) /\ task'[t] \in ks
  BY <1>1, <1>2, <1>9, <1>10, TaskAlike, BecomeMoves DEF Ty
<1>12. Started(t, u, {}, d)
  BY <1>10, <1>11 DEF Started
<1>13. PICK l : l = outbox'
  OBVIOUS
<1>14. TaskTypes'
  BY <1>2, <1>4, <1>5, <1>6, <1>7, <1>8, <1>11, <1>12, <1>13, StartsTyped DEF Started
<1>15. StoreTypes'
  BY <1>2, <1>5, <1>6, <1>7, StoreStays DEF Ty, StoreTypes, history, Grows
<1> QED
  BY <1>2, <1>4, <1>5, <1>8, <1>12, <1>14, <1>15 DEF Ty

LEMMA SkipMoves ==
  ASSUME Ty, NEW d \in Ids, Skip(d)
  PROVE  /\ Ty' /\ Grows /\ UNCHANGED <<outbox, task, history, excused>>
         /\ Open(d) /\ rows'[d].status = "closed"
              /\ \A e \in Ids \ {d} : rows'[e].status = rows[e].status
<1>1. UNCHANGED <<outbox, task, history, excused>> /\ Open(d) /\ Known(d)
        /\ rows' = Recorded(d, "closed")
  BY DEF Skip, Open, Known
<1>2. /\ RowTypes' /\ Grows
      /\ rows'[d].status = "closed" /\ \A e \in Ids \ {d} : rows'[e].status = rows[e].status
  BY <1>1, RecordedRows DEF Ty, Statuses
<1>3. Scheduler \in Tasks /\ Others(Scheduler)
  BY <1>1 DEF Tasks, Ty, TaskTypes, Others, Alike
<1>4. IF task'[Scheduler].stage = "idle" THEN Resting(task'[Scheduler]) ELSE Working(task[Scheduler])'
  <2>1. PICK k : k = task[Scheduler]
    OBVIOUS
  <2>2. k \in Task /\ (IF k.stage = "idle" THEN Resting(k) ELSE Working(k)) /\ Alike(k, k)
    BY <1>3, <2>1 DEF Ty, TaskTypes, Alike
  <2>3. IF k.stage = "idle" THEN Resting(k) ELSE Working(k)'
    BY <1>1, <1>2, <2>2, WorkingStays
  <2> QED
    BY <1>1, <2>1, <2>3
<1>5. TaskTypes'
  BY <1>1, <1>2, <1>3, <1>4, OneTyped
<1>6. \A e \in excused' \cup carried' : e \in Ids /\ Known(e)'
  BY <1>1, <1>2 DEF Ty, StoreTypes, Grows, history
<1>7. StoreTypes'
  BY <1>1, <1>2, <1>6, StoreStays DEF Ty, StoreTypes, history
<1> QED
  BY <1>1, <1>2, <1>5, <1>7 DEF Ty

\* The command in hand was carried out, or not.
ExecuteShape(t) ==
    /\ Stays(t) /\ task'[t].stage = task[t].stage
    /\ \/ task[t].stage # "find" /\ task[t].todo = <<"flag", "move">> /\ task'[t].todo = <<"move">>
          /\ task'[t].answer = "none"
       \/ (task[t].stage = "find" \/ task[t].todo # <<"flag", "move">>)
          /\ task'[t].answer = "ok" /\ task'[t].todo = task[t].todo

LEMMA StaysTyped ==
  ASSUME Ty, UNCHANGED <<rows, excused>>, NEW t \in Tasks, task[t].stage # "idle", Others(t),
         NEW h \in Task, h = task'[t], Working(h), h.stage # "idle"
  PROVE  TaskTypes'
<1>1. RowTypes' /\ Grows
  BY SameRows DEF Ty
<1>2. Working(h)'
  BY DEF Working, Known, Doer
<1> QED
  BY <1>1, <1>2, OneTyped

LEMMA ExecuteMoves ==
  ASSUME Ty, NEW t \in Tasks, Execute(t)
  PROVE  /\ Ty' /\ Grows /\ UNCHANGED <<rows, outbox, excused>>
         /\ Asking(t) /\ Effect(task[t]) /\ ExecuteShape(t)
<1>1. UNCHANGED <<rows, outbox, excused>> /\ Asking(t) /\ Effect(task[t])
        /\ task[t].stage # "idle"
  BY DEF Execute, ledger, Asking
<1>2. PICK k \in Task : k = task[t] /\ Working(k) /\ rows[Doer(k)].action \in AllActions
  BY <1>1, WorkingTask
<1>3. k.todo \in Todos /\ (k.todo = <<"flag", "move">> => rows[Doer(k)].action = "keep")
  <2>1. Plan(rows[Doer(k)]) \in Todos
          /\ (Plan(rows[Doer(k)]) = <<"flag", "move">> => rows[Doer(k)].action = "keep")
    BY <1>2, PlanOf
  <2> QED
    BY <2>1, <1>2, Commands DEF Working, Todos
<1>4. PICK h : h = IF k.stage # "find" /\ k.todo = <<"flag", "move">>
                  THEN [k EXCEPT !.todo = <<"move">>] ELSE [k EXCEPT !.answer = "ok"]
  OBVIOUS
<1>5. task' = [task EXCEPT ![t] = h]
  <2>1. CASE k.stage # "find" /\ k.todo = <<"flag", "move">>
    BY <1>2, <1>3, <1>4, <2>1, Commands DEF Execute
  <2>2. CASE ~(k.stage # "find" /\ k.todo = <<"flag", "move">>)
    BY <1>2, <1>3, <1>4, <2>2, Commands DEF Execute
  <2> QED
    BY <2>1, <2>2
<1>6. /\ h \in Task /\ h.stage = k.stage /\ h.pass = k.pass /\ h.id = k.id /\ h.undoing = k.undoing
      /\ h.list = k.list /\ h.row = k.row
      /\ \/ k.stage # "find" /\ k.todo = <<"flag", "move">> /\ h.todo = <<"move">>
              /\ h.answer = k.answer
         \/ (k.stage = "find" \/ k.todo # <<"flag", "move">>) /\ h.answer = "ok" /\ h.todo = k.todo
  BY <1>4 DEF Task, Todos
<1>7. Others(t) /\ task'[t] = h
  BY <1>5, <1>6 DEF Ty, TaskTypes, Others, Alike
<1>8. Working(h)
  BY <1>2, <1>3, <1>6 DEF Working, Doer
<1>9. ExecuteShape(t)
  BY <1>1, <1>2, <1>6, <1>7 DEF ExecuteShape, Stays, Asking
<1>10. RowTypes' /\ Grows
  BY <1>1, SameRows DEF Ty
<1>11. TaskTypes'
  BY <1>1, <1>2, <1>6, <1>7, <1>8, StaysTyped
<1>12. outbox' \subseteq excused' /\ \A e \in excused' : e \in Ids /\ Known(e)'
  BY <1>1 DEF Ty, StoreTypes, Known
<1>13. StoreTypes'
  BY <1>1, <1>10, <1>12, EffectStore
<1> QED
  BY <1>1, <1>9, <1>10, <1>11, <1>13 DEF Ty

LEMMA NotRunningMoves ==
  ASSUME Ty, NEW t \in Tasks, NotRunning(t)
  PROVE  /\ Ty' /\ Grows /\ UNCHANGED <<rows, outbox, history, excused>>
         /\ Asking(t) /\ Stays(t) /\ task'[t].stage = task[t].stage
         /\ task'[t].todo = task[t].todo /\ task'[t].answer = "off"
<1>1. UNCHANGED <<rows, outbox, history, excused>> /\ Asking(t) /\ task[t].stage # "idle"
  BY DEF NotRunning, ledger, Asking
<1>2. PICK k \in Task : k = task[t] /\ Working(k)
  BY <1>1, WorkingTask
<1>3. PICK h : h = [k EXCEPT !.answer = "off"]
  OBVIOUS
<1>4. /\ h \in Task /\ h.stage = k.stage /\ h.pass = k.pass /\ h.id = k.id /\ h.undoing = k.undoing
      /\ h.list = k.list /\ h.row = k.row /\ h.todo = k.todo /\ h.answer = "off"
  BY <1>3 DEF Task
<1>5. task' = [task EXCEPT ![t] = h]
  BY <1>2, <1>3 DEF NotRunning
<1>6. Others(t) /\ task'[t] = h
  BY <1>4, <1>5 DEF Ty, TaskTypes, Others, Alike
<1>7. Working(h)
  BY <1>2, <1>4 DEF Working, Doer
<1>8. TaskTypes' /\ RowTypes' /\ Grows
  BY <1>1, <1>4, <1>6, <1>7, <1>2, StaysTyped, SameRows DEF Ty
<1>9. outbox' \subseteq excused' /\ (\A d \in excused' : d \in Ids /\ Known(d)) /\ UNCHANGED <<last,
        carried>>
  BY <1>1 DEF Ty, StoreTypes, history
<1>10. StoreTypes'
  BY <1>1, <1>9, SameStore
<1> QED
  BY <1>1, <1>2, <1>4, <1>6, <1>8, <1>10 DEF Ty, Stays

LEMMA FoundMoves ==
  ASSUME Ty, NEW t \in Tasks, Found(t)
  PROVE  /\ Ty' /\ Grows /\ UNCHANGED <<rows, outbox, history, excused>>
         /\ task[t].stage = "find" /\ Stays(t) /\ task'[t].stage = "run"
         /\ task'[t].todo = Plan(rows[task[t].id]) /\ task'[t].answer = "none"
<1>1. UNCHANGED <<rows, outbox, history, excused>> /\ task[t].stage = "find"
  BY DEF Found, ledger, Answered
<1>2. PICK k \in Task : k = task[t] /\ Working(k)
  BY <1>1, WorkingTask
<1>3. PICK h : h = [k EXCEPT !.stage = "run", !.answer = "none"]
  OBVIOUS
<1>4. /\ h \in Task /\ h.stage = "run" /\ h.pass = k.pass /\ h.id = k.id /\ h.undoing = k.undoing
      /\ h.list = k.list /\ h.row = k.row /\ h.todo = k.todo /\ h.answer = "none"
  BY <1>3 DEF Task
<1>5. task' = [task EXCEPT ![t] = h]
  BY <1>2, <1>3 DEF Found
<1>6. Others(t) /\ task'[t] = h
  BY <1>4, <1>5 DEF Ty, TaskTypes, Others, Alike
<1>7. Working(h) /\ h.todo = Plan(rows[k.id])
  BY <1>1, <1>2, <1>4 DEF Working, Doer
<1>8. TaskTypes' /\ RowTypes' /\ Grows
  BY <1>1, <1>2, <1>4, <1>6, <1>7, StaysTyped, SameRows DEF Ty
<1>9. outbox' \subseteq excused' /\ (\A d \in excused' : d \in Ids /\ Known(d)) /\ UNCHANGED <<last,
        carried>>
  BY <1>1 DEF Ty, StoreTypes, history
<1>10. StoreTypes'
  BY <1>1, <1>9, SameStore
<1> QED
  BY <1>1, <1>2, <1>4, <1>6, <1>7, <1>8, <1>10 DEF Ty, Stays

\* The replay of a row is over: the next row, or the decision itself.
LEMMA ReplayMoves ==
  ASSUME Ty, NEW t \in Tasks, Replayed(t) \/ GiveUpFlush(t)
  PROVE  /\ Ty' /\ Grows /\ UNCHANGED <<rows, history, excused>>
         /\ task[t].stage = "row" /\ GoesOn(t)
<1>1. UNCHANGED <<rows, history, excused>> /\ task[t].stage = "row" /\ task[t].stage # "idle"
        /\ outbox' \subseteq outbox
  BY DEF Replayed, GiveUpFlush, ledger, Answered
<1>2. PICK k \in Task : k = task[t] /\ Working(k)
  BY <1>1, WorkingTask
<1>3. PICK w \in Ids : w = k.row
  BY <1>1, <1>2 DEF Working, Ty, StoreTypes
<1>4. PICK l \in SUBSET Ids : /\ l \subseteq k.list
                              /\ \/ Become(t, Onward(task[t], l), task)
                                 \/ Become(t, Onward(task[t], l), Outdated(w))
  <2>1. k.list \in SUBSET Ids /\ {} \in SUBSET Ids
    BY DEF Task
  <2>2. CASE Replayed(t)
    BY <1>2, <1>3, <2>1, <2>2 DEF Replayed
  <2>3. CASE GiveUpFlush(t)
    BY <1>2, <2>1, <2>3 DEF GiveUpFlush
  <2> QED
    BY <2>2, <2>3
<1>5. TaskTypes' /\ GoesOn(t)
  BY <1>1, <1>2, <1>3, <1>4, OnwardMoves
<1>6. outbox' \subseteq excused' /\ (\A d \in excused' : d \in Ids /\ Known(d)) /\ UNCHANGED <<last,
        carried>>
  BY <1>1 DEF Ty, StoreTypes, history
<1>7. StoreTypes'
  BY <1>1, <1>6, SameStore
<1> QED
  BY <1>1, <1>5, <1>7, SameRows DEF Ty

LEMMA QueueMoves ==
  ASSUME Ty, NEW t \in Tasks, Queue(t)
  PROVE  /\ Ty' /\ Grows /\ UNCHANGED <<rows, history>>
         /\ task[t].stage # "idle" /\ task[t].answer = "off" /\ Ends(t)
              /\ excused' = excused \cup {task[t].id}
<1>1. /\ UNCHANGED <<rows, history>> /\ task[t].stage # "idle"
           /\ excused' = excused \cup {task[t].id}
      /\ task[t].answer = "off"
      /\ outbox' = outbox \cup {task[t].id} /\ Become(t, Ended(task[t].pass), Outdated(task[t].id))
  BY DEF Queue, Answered
<1>2. PICK w \in Ids : w = task[t].id /\ Known(w)
  BY <1>1, WorkingTask
<1>3. RowTypes' /\ Grows
  BY <1>1, SameRows DEF Ty
<1>4. excused \subseteq excused' /\ outbox' \subseteq excused'
        /\ \A e \in excused' : e \in Ids /\ Known(e)
  BY <1>1, <1>2 DEF Ty, StoreTypes
<1>5. \A e \in excused' : e \in Ids /\ Known(e)'
  BY <1>1, <1>4 DEF Known
<1>6. TaskTypes' /\ Ends(t)
  BY <1>1, <1>2, <1>3, <1>4, <1>5, EndedMoves
<1>7. StoreTypes'
  BY <1>1, <1>4, SameStore DEF history
<1> QED
  BY <1>1, <1>3, <1>6, <1>7 DEF Ty

\* A command took effect before it failed.
Effects(t) == Effect(task[t]) /\ unsure' = unsure \cup {Doer(task[t])}

LEMMA FaultMoves ==
  ASSUME Ty, NEW t \in Tasks, Fault(t)
  PROVE  /\ Ty' /\ Grows /\ UNCHANGED <<outbox, excused>>
         /\ Asking(t) /\ (UNCHANGED history \/ Effects(t)) /\ Ends(t)
         /\ rows'[task[t].id].status = "closed"
         /\ \A e \in Ids \ {task[t].id} : rows'[e].status = rows[e].status
<1>1. /\ UNCHANGED <<outbox, excused>> /\ Asking(t) /\ task[t].stage # "idle"
      /\ (UNCHANGED history \/ Effects(t))
      /\ rows' = Recorded(task[t].id, "closed") /\ Become(t, Ended(task[t].pass), task)
  BY DEF Fault, Failed, Asking, Effects
<1>2. PICK w \in Ids : w = task[t].id /\ Known(w)
  BY <1>1, WorkingTask
<1>3. /\ RowTypes' /\ Grows
      /\ rows'[w].status = "closed" /\ \A e \in Ids \ {w} : rows'[e].status = rows[e].status
  BY <1>1, <1>2, RecordedRows DEF Ty, Statuses
<1>4. excused \subseteq excused' /\ outbox' \subseteq excused'
        /\ \A e \in excused' : e \in Ids /\ Known(e)'
  BY <1>1, <1>3 DEF Ty, StoreTypes, Grows
<1>5. TaskTypes' /\ Ends(t)
  BY <1>1, <1>2, <1>3, <1>4, EndedMoves
<1>6. StoreTypes'
  <2>1. CASE Effects(t)
    BY <1>1, <1>3, <1>4, <2>1, EffectStore DEF Effects
  <2>2. CASE UNCHANGED history
    BY <1>3, <1>4, <2>2, StoreStays DEF history, Ty, StoreTypes, Grows
  <2> QED
    BY <1>1, <2>1, <2>2
<1> QED
  BY <1>1, <1>2, <1>3, <1>5, <1>6 DEF Ty

LEMMA DoneMoves ==
  ASSUME Ty, NEW t \in Tasks, Done(t)
  PROVE  /\ Ty' /\ Grows /\ UNCHANGED <<outbox, history, excused>>
         /\ task[t].stage = "run" /\ task[t].answer = "ok" /\ Ends(t)
         /\ rows'[task[t].id].status = "applied"
         /\ task[t].undoing # None => rows'[task[t].undoing].status = "undone"
         /\ \A e \in Ids \ {task[t].id, task[t].undoing} : rows'[e].status = rows[e].status
<1>1. /\ UNCHANGED <<outbox, history, excused>> /\ task[t].stage = "run" /\ task[t].stage # "idle"
           /\ task[t].answer = "ok"
      /\ rows' = Outcome(task[t].id, task[t].undoing) /\ Become(t, Ended(task[t].pass), task)
  BY DEF Done, Answered
<1>2. PICK w \in Ids : w = task[t].id /\ Known(w)
  BY <1>1, WorkingTask
<1>3. PICK e \in Ids \cup {None} : e = task[t].undoing /\ (e # None => Known(e) /\ e # w)
  <2>1. task[t].undoing \in {None, rows[w].undoes} /\ RowOk(w)
    BY <1>1, <1>2, WorkingTask DEF Working, Ty, RowTypes
  <2> QED
    BY <2>1 DEF RowOk, Known
<1>4. /\ RowTypes' /\ Grows
      /\ rows'[w].status = "applied" /\ (e # None => rows'[e].status = "undone")
      /\ \A b \in Ids \ {w, e} : rows'[b].status = rows[b].status
  BY <1>1, <1>2, <1>3, OutcomeRows DEF Ty
<1>5. excused \subseteq excused' /\ outbox' \subseteq excused' /\ \A d \in excused' : d \in Ids
        /\ Known(d)'
  BY <1>1, <1>4 DEF Ty, StoreTypes, Grows
<1>6. TaskTypes' /\ Ends(t)
  BY <1>1, <1>2, <1>4, <1>5, EndedMoves
<1>7. StoreTypes'
  BY <1>1, <1>4, <1>5, StoreStays DEF history, Ty, StoreTypes, Grows
<1> QED
  BY <1>1, <1>2, <1>3, <1>4, <1>6, <1>7 DEF Ty

LEMMA CrashMoves ==
  ASSUME Ty, Crash
  PROVE  /\ Ty' /\ Grows /\ UNCHANGED <<rows, outbox, history>>
         /\ \A t \in Tasks : Resting(task'[t])
         /\ excused' = excused \cup {d \in Ids : \E t \in Tasks : task[t].id = d}
<1>1. /\ UNCHANGED <<rows, outbox, history>>
      /\ task' = [t \in Tasks |-> Idle]
      /\ excused' = excused \cup {d \in Ids : \E t \in Tasks : task[t].id = d}
  BY DEF Crash, ledger
<1>2. Idle \in Task /\ Resting(Idle)
  BY DEF Idle, Task, Resting
<1>3. TaskTypes' /\ \A t \in Tasks : Resting(task'[t])
  <2>1. task' \in [Tasks -> Task] /\ \A t \in Tasks : task'[t] = Idle
    BY <1>1, <1>2
  <2>2. \A t \in Tasks : Resting(task'[t]) /\ task'[t].stage = "idle"
    BY <1>2, <2>1 DEF Resting
  <2> QED
    BY <2>1, <2>2 DEF TaskTypes
<1>4. \A t \in Tasks : task[t].id \in Ids => Known(task[t].id)
  BY Constants DEF Ty, TaskTypes, Working, Resting
<1>5. outbox' \subseteq excused' /\ \A d \in excused' : d \in Ids /\ Known(d)
  BY <1>1, <1>4 DEF Ty, StoreTypes
<1>6. StoreTypes'
  BY <1>1, <1>5, SameStore DEF history
<1> QED
  BY <1>1, <1>3, <1>6, SameRows DEF Ty

LEMMA SameTyped == Ty /\ UNCHANGED <<ledger, task, history, excused>> => Ty'
  BY DEF Ty, RowTypes, RowOk, TaskTypes, StoreTypes, Working, Known, Doer, ledger, history

LEMMA InitTy == Init => Ty
<1> SUFFICES ASSUME Init PROVE Ty
  OBVIOUS
<1>1. RowTypes
  BY DEF Init, RowTypes, RowOk, Row, NoRow
<1>2. TaskTypes
  BY DEF Init, TaskTypes, Task, Idle, Resting
<1>3. StoreTypes
  BY DEF Init, StoreTypes
<1> QED
  BY <1>1, <1>2, <1>3 DEF Ty

LEMMA NextTy == Ty /\ [Next]_vars => Ty'
<1> SUFFICES ASSUME Ty, [Next]_vars PROVE Ty'
  OBVIOUS
<1>1. CASE UNCHANGED vars
  BY <1>1, SameTyped DEF vars
<1>2. CASE Toggle
  BY <1>2, SameTyped DEF Toggle
<1>3. \A t \in Clients : t \in Tasks
  BY DEF Tasks
<1> QED
  BY <1>1, <1>2, <1>3, CrashMoves, RecordAndApplyMoves, ApplyMoves, UndoMoves, SkipMoves,
     NotRunningMoves,
     ExecuteMoves, FaultMoves, ReplayMoves, FoundMoves, QueueMoves, DoneMoves DEF Next, Answer,
       Resume

\* Ids, records and commands are what the steps take them for, and what a task works on
\* is in the ledger (propose, plan_apply, the outbox's list).
THEOREM TypeCorrect == Spec => []Ty
  BY InitTy, NextTy, PTL DEF Spec

-----------------------------------------------------------------------------
(* Nothing is carried out twice.                                           *)

\* An attempt has begun: a command was answered, or the first one of two carried out.
Underway(k) == k.stage = "run" /\ (k.answer # "none" \/ k.todo # Plan(rows[k.id]))

\* One task at most has d in hand or in its pass, and then d is not applied yet; an undo
\* that is still open has its task, which knows what it undoes, and that is applied.
HeldOnce(d) ==
    /\ \A t, u \in Tasks : Holds(task[t], d) /\ Holds(task[u], d) => t = u
    /\ \A t \in Tasks : Holds(task[t], d) => rows[d].status \in {"proposed", "closed"}
    /\ rows[d].undoes # None =>
          /\ \A t \in Tasks : Holds(task[t], d) => task[t].undoing = rows[d].undoes
          /\ Open(d) => \E t \in Tasks : Holds(task[t], d)
    /\ \A t \in Tasks : task[t].undoing = d => rows[d].status \in {"applied", "undone"}

\* What was carried out is not open, unless its task is still at it.
AttemptedOnce(d) ==
    /\ d \in carried =>
          /\ Open(d) => \E t \in Tasks : Holds(task[t], d)
          /\ \A t \in Tasks : Holds(task[t], d) => task[t].id = d /\ Underway(task[t])
    /\ \A t \in Tasks : task[t].id = d /\ task[t].stage = "run" /\ task[t].todo # Plan(rows[d])
         => d \in carried

Single(d) == HeldOnce(d) /\ AttemptedOnce(d)

OneAttempt == \A d \in Ids \ excused : Single(d)

LEMMA InitSingle == Init => OneAttempt
<1> SUFFICES ASSUME Init, NEW d \in Ids PROVE Single(d)
  BY DEF OneAttempt
<1>1. \A t \in Tasks : ~Holds(task[t], d) /\ task[t].id # d /\ task[t].undoing # d
  BY Constants DEF Init, Idle, Holds
<1>2. rows[d].undoes = None /\ d \notin carried
  BY DEF Init, NoRow
<1> QED
  BY <1>1, <1>2 DEF Single, HeldOnce, AttemptedOnce

\* The status of d stays as far as an attempt at it goes.
StatusStays(d) ==
    \/ rows'[d].status = rows[d].status
    \/ rows[d].status = "proposed" /\ rows'[d].status = "closed"

LEMMA HoldsAlike ==
  ASSUME NEW d, NEW t \in Tasks, Others(t)
  PROVE  \A u \in Tasks \ {t} :
            /\ Holds(task'[u], d) <=> Holds(task[u], d)
            /\ task'[u].id = task[u].id /\ task'[u].undoing = task[u].undoing
                 /\ task'[u].stage = task[u].stage
            /\ task'[u].todo = task[u].todo /\ task'[u].answer = task[u].answer
  BY DEF Others, Alike, Holds

\* A held decision is in the ledger.
LEMMA HeldIsKnown ==
  ASSUME Ty, NEW d \in Ids, NEW t \in Tasks, Holds(task[t], d)
  PROVE  Known(d) /\ task[t].stage # "idle" /\ (task[t].id = d <=> d \notin task[t].pass)
         /\ (d \in task[t].pass => rows[d].undoes = None)
  BY Constants DEF Ty, TaskTypes, Resting, Working, Holds

\* t may have taken up d, gone on with it or let it go; the rest is as it was.
LEMMA SingleStays ==
  ASSUME Ty, Grows, NEW d \in Ids, Single(d), NEW t \in Tasks, Others(t),
         Holds(task'[t], d) => \/ Holds(task[t], d)
                               \/ \A u \in Tasks \ {t} : ~Holds(task[u], d),
         (\E u \in Tasks : Holds(task'[u], d)) => rows'[d].status \in {"proposed", "closed"},
         Holds(task'[t], d) /\ rows'[d].undoes # None => task'[t].undoing = rows'[d].undoes,
         Open(d)' => \/ Holds(task'[t], d)
                     \/ Open(d) /\ Known(d) /\ ~Holds(task[t], d)
                     \/ d \notin carried' /\ rows'[d].undoes = None,
         task'[t].undoing = d => rows'[d].status \in {"applied", "undone"},
         rows[d].status \in {"applied", "undone"} => rows'[d].status \in {"applied", "undone"},
         carried \subseteq carried',
         d \in carried' => /\ Holds(task'[t], d) => task'[t].id = d /\ Underway(task[t])'
                           /\ \/ d \in carried
                              \/ Holds(task[t], d) /\ \A u \in Tasks \ {t} : ~Holds(task[u], d),
         task'[t].id = d /\ task'[t].stage = "run" /\ task'[t].todo # Plan(rows'[d])
           => d \in carried'
  PROVE  Single(d)'
<1>1. \A u \in Tasks \ {t} :
            /\ Holds(task'[u], d) <=> Holds(task[u], d)
            /\ task'[u].id = task[u].id /\ task'[u].undoing = task[u].undoing
                 /\ task'[u].stage = task[u].stage
            /\ task'[u].todo = task[u].todo /\ task'[u].answer = task[u].answer
  BY HoldsAlike
<1>2. Known(d) => rows'[d].undoes = rows[d].undoes /\ Plan(rows'[d]) = Plan(rows[d])
  BY DEF Grows, Plan
<1>3. \A u \in Tasks \ {t} : Holds(task[u], d) => Known(d)
  BY HeldIsKnown
<1>4. \A u, v \in Tasks : Holds(task'[u], d) /\ Holds(task'[v], d) => u = v
  BY <1>1 DEF Single, HeldOnce
<1>5. rows'[d].undoes # None =>
          /\ \A u \in Tasks : Holds(task'[u], d) => task'[u].undoing = rows'[d].undoes
          /\ Open(d)' => \E u \in Tasks : Holds(task'[u], d)
  <2> SUFFICES ASSUME rows'[d].undoes # None
               PROVE  /\ \A u \in Tasks : Holds(task'[u], d) => task'[u].undoing = rows'[d].undoes
                      /\ Open(d)' => \E u \in Tasks : Holds(task'[u], d)
    OBVIOUS
  <2>1. \A u \in Tasks \ {t} : Holds(task'[u], d) => task'[u].undoing = rows'[d].undoes
    BY <1>1, <1>2, <1>3 DEF Single, HeldOnce
  <2>2. ASSUME Open(d), Known(d), ~Holds(task[t], d) PROVE \E u \in Tasks : Holds(task'[u], d)
    BY <1>1, <1>2, <2>2 DEF Single, HeldOnce
  <2> QED
    BY <2>1, <2>2
<1>6. \A u \in Tasks : task'[u].undoing = d => rows'[d].status \in {"applied", "undone"}
  BY <1>1 DEF Single, HeldOnce
<1>7. d \in carried' =>
          /\ Open(d)' => \E u \in Tasks : Holds(task'[u], d)
          /\ \A u \in Tasks : Holds(task'[u], d) => task'[u].id = d /\ Underway(task[u])'
  <2> SUFFICES ASSUME d \in carried'
               PROVE  /\ Open(d)' => \E u \in Tasks : Holds(task'[u], d)
                      /\ \A u \in Tasks : Holds(task'[u], d) => task'[u].id = d
                           /\ Underway(task[u])'
    OBVIOUS
  <2>1. ASSUME NEW u \in Tasks \ {t}, Holds(task'[u], d) PROVE task'[u].id = d /\ Underway(task[u])'
    <3>1. Holds(task[u], d) /\ d \in carried /\ Known(d)
      BY <1>1, <1>3, <2>1
    <3>2. task[u].id = d /\ Underway(task[u])
      BY <3>1 DEF Single, AttemptedOnce
    <3> QED
      BY <1>1, <1>2, <3>1, <3>2 DEF Underway
  <2>2. ASSUME Open(d), Known(d), ~Holds(task[t], d) PROVE \E u \in Tasks : Holds(task'[u], d)
    BY <1>1, <1>2, <2>2 DEF Single, AttemptedOnce
  <2> QED
    BY <2>1, <2>2
<1>8. \A u \in Tasks : task'[u].id = d /\ task'[u].stage = "run" /\ task'[u].todo # Plan(rows'[d])
        => d \in carried'
  <2>1. ASSUME NEW u \in Tasks \ {t}, task'[u].id = d, task'[u].stage = "run",
                 task'[u].todo # Plan(rows'[d])
        PROVE  d \in carried'
    <3>1. task[u].id = d /\ Known(d)
      BY <1>1, <1>3, <2>1 DEF Holds
    <3> QED
      BY <1>1, <1>2, <2>1, <3>1 DEF Single, AttemptedOnce
  <2> QED
    BY <2>1
<1>9. HeldOnce(d)'
  BY <1>4, <1>5, <1>6 DEF HeldOnce
<1>10. AttemptedOnce(d)'
  BY <1>7, <1>8 DEF AttemptedOnce
<1> QED
  BY <1>9, <1>10 DEF Single

\* A decision out of the pass is still to be attempted.
LEMMA InThePass ==
  ASSUME Ty, NEW d \in Ids \ excused, Single(d), NEW t \in Tasks, d \in task[t].pass
  PROVE  /\ d \notin carried /\ rows[d].undoes = None /\ Known(d) /\ task[t].id # d
         /\ Holds(task[t], d) /\ task[t].stage # "idle" /\ Doer(task[t]) # d
<1>1. Holds(task[t], d)
  BY DEF Holds
<1>2. Known(d) /\ task[t].stage # "idle" /\ task[t].id # d /\ rows[d].undoes = None
  BY <1>1, HeldIsKnown
<1>3. task[t].stage = "row" => task[t].row \in excused
  BY <1>2, WorkingTask DEF Working
<1> QED
  BY <1>1, <1>2, <1>3 DEF Single, AttemptedOnce, Doer

LEMMA EndsSingle ==
  ASSUME Ty, Grows, NEW d \in Ids \ excused, Single(d), NEW t \in Tasks, task[t].stage # "idle",
         Ends(t),
         carried \subseteq carried', d \in carried' => d \in carried \/ Doer(task[t]) = d,
         task[t].id = d => rows'[d].status \in {"closed", "applied"},
         task[t].id # d => \/ rows'[d].status = rows[d].status
                           \/ rows[d].status \in {"applied", "undone"} /\ rows'[d].status = "undone"
  PROVE  Single(d)'
<1>1. Others(t)
  BY DEF Ends
<1>2. \A u \in Tasks \ {t} : Holds(task'[u], d) <=> Holds(task[u], d)
  BY <1>1, HoldsAlike
<1>3. /\ task'[t].undoing # d
      /\ Holds(task'[t], d) => d \in task[t].pass
      /\ ~(task'[t].id = d /\ task'[t].stage = "run" /\ task'[t].todo # Plan(rows'[d]))
  <2>1. CASE Resting(task'[t])
    BY <2>1, Constants DEF Resting, Holds
  <2>2. ASSUME NEW e \in task[t].pass, Starts(task'[t], e, task[t].pass \ {e}, None, outbox')
        PROVE  /\ task'[t].undoing # d
               /\ Holds(task'[t], d) => d \in task[t].pass
               /\ ~(task'[t].id = d /\ task'[t].stage = "run" /\ task'[t].todo # Plan(rows'[d]))
    BY <2>2, Constants DEF Starts, Holds
  <2> QED
    BY <2>1, <2>2 DEF Ends
<1>4. d \in task[t].pass => d \notin carried' /\ rows[d].undoes = None /\ Known(d) /\ task[t].id # d
  BY InThePass
<1>5. d \in task[t].pass => rows'[d].undoes = None
  BY <1>4 DEF Grows
<1>6. Doer(task[t]) = d => task[t].id = d
  BY WorkingTask DEF Working, Doer
<1>7. ASSUME Holds(task[t], d) PROVE \A u \in Tasks \ {t} : ~Holds(task[u], d)
  BY <1>7 DEF Single, HeldOnce
<1>8. task[t].id = d => Holds(task[t], d) /\ ~Holds(task'[t], d)
  BY <1>3, <1>4 DEF Holds
<1>9. ASSUME NEW u \in Tasks, Holds(task'[u], d) PROVE rows'[d].status \in {"proposed", "closed"}
  <2>1. PICK v \in Tasks : Holds(task[v], d)
    BY <1>2, <1>3, <1>9 DEF Holds
  <2>2. rows[d].status \in {"proposed", "closed"}
    BY <2>1 DEF Single, HeldOnce
  <2>3. task[t].id # d
    BY <1>2, <1>7, <1>8, <1>9
  <2> QED
    BY <2>2, <2>3
<1>10. Open(d)' => \/ Holds(task'[t], d)
                   \/ Open(d) /\ Known(d) /\ ~Holds(task[t], d)
                   \/ d \notin carried' /\ rows'[d].undoes = None
  <2>1. CASE d \in task[t].pass
    BY <1>4, <1>5, <2>1
  <2>2. CASE d \notin task[t].pass /\ task[t].id # d
    BY <2>2 DEF Open, Known, Holds
  <2>3. CASE task[t].id = d
    BY <2>3 DEF Open
  <2> QED
    BY <2>1, <2>2, <2>3
<1>11. rows[d].status \in {"applied", "undone"} => rows'[d].status \in {"applied", "undone"}
  <2>1. task[t].id = d => rows[d].status \notin {"applied", "undone"}
    BY <1>8 DEF Single, HeldOnce
  <2> QED
    BY <2>1
<1>12. Holds(task'[t], d) => Holds(task[t], d) /\ rows'[d].undoes = None /\ d \notin carried'
  BY <1>3, <1>4, <1>5 DEF Holds
<1>13. d \in carried' => \/ d \in carried
                         \/ Holds(task[t], d) /\ \A u \in Tasks \ {t} : ~Holds(task[u], d)
  BY <1>6, <1>7, <1>8
<1> QED
  BY <1>1, <1>3, <1>9, <1>10, <1>11, <1>12, <1>13, SingleStays

\* t, which was idle, takes up some decisions, or none.
LEMMA StartsSingle ==
  ASSUME Ty, Grows, NEW d \in Ids \ excused, Single(d), NEW t \in Tasks, Others(t),
         task[t].stage = "idle",
         StatusStays(d)
           \/ (~Known(d) /\ rows'[d].status = "proposed"
                /\ (rows'[d].undoes # None => Holds(task'[t], d))),
         UNCHANGED carried,
         Holds(task'[t], d) => /\ \A u \in Tasks \ {t} : ~Holds(task[u], d)
                               /\ rows'[d].status = "proposed"
                               /\ rows'[d].undoes \in {None, task'[t].undoing} \/ Known(d),
         task'[t].undoing = d => rows[d].status = "applied",
         task'[t].id = d => task'[t].todo = Plan(rows'[d]) \/ task'[t].stage # "run"
  PROVE  Single(d)'
<1>1. ~Holds(task[t], d)
  BY HeldIsKnown
<1>2. \A u \in Tasks \ {t} : Holds(task'[u], d) <=> Holds(task[u], d)
  BY HoldsAlike
<1>3. \A u \in Tasks : Holds(task[u], d) => Known(d)
  BY HeldIsKnown
<1>4. d \in carried => Known(d)
  BY DEF Ty, StoreTypes
<1>5. Known(d) => rows'[d].undoes = rows[d].undoes
  BY DEF Grows
<1>6. StatusStays(d) \/ (~Known(d) /\ rows'[d].status = "proposed")
  OBVIOUS
<1>7. ASSUME Known(d), Holds(task'[t], d) PROVE d \notin carried /\ rows[d].undoes = None
  <2>1. Open(d) /\ \A u \in Tasks : ~Holds(task[u], d)
    BY <1>1, <1>6, <1>7 DEF StatusStays, Open
  <2> QED
    BY <2>1 DEF Single, HeldOnce, AttemptedOnce
<1>8. Holds(task'[t], d) => d \notin carried'
        /\ (rows'[d].undoes # None => task'[t].undoing = rows'[d].undoes)
  BY <1>4, <1>5, <1>7
<1>9. (\E u \in Tasks : Holds(task'[u], d)) => rows'[d].status \in {"proposed", "closed"}
  <2>1. ASSUME NEW u \in Tasks \ {t},
                 Holds(task'[u], d) PROVE rows'[d].status \in {"proposed", "closed"}
    <3>1. rows[d].status \in {"proposed", "closed"} /\ StatusStays(d)
      BY <1>2, <1>3, <1>6, <2>1 DEF Single, HeldOnce
    <3> QED
      BY <3>1 DEF StatusStays
  <2> QED
    BY <2>1
<1>10. Open(d)' => \/ Holds(task'[t], d)
                   \/ Open(d) /\ Known(d) /\ ~Holds(task[t], d)
                   \/ d \notin carried' /\ rows'[d].undoes = None
  BY <1>1, <1>4 DEF Open, StatusStays, Known
<1>11. rows[d].status \in {"applied", "undone"} => rows'[d].status \in {"applied", "undone"}
  BY DEF StatusStays, Known
<1>12. task'[t].undoing = d => rows'[d].status \in {"applied", "undone"}
  BY <1>11
<1>13. d \in carried' => d \in carried
  OBVIOUS
<1> QED
  BY <1>8, <1>9, <1>10, <1>11, <1>12, <1>13, SingleStays

\* t goes on with what it holds.
LEMMA StaysSingle ==
  ASSUME Ty, NEW d \in Ids \ excused, Single(d), NEW t \in Tasks, task[t].stage # "idle",
         UNCHANGED rows, Others(t), task'[t].id = task[t].id, task'[t].pass = task[t].pass,
         task'[t].undoing = task[t].undoing,
         carried \subseteq carried', d \in carried' => d \in carried \/ task[t].id = d,
         d \in carried' /\ task[t].id = d /\ (d \in carried => Underway(task[t]))
           => Underway(task[t])',
         task[t].id = d /\ task'[t].stage = "run" /\ task'[t].todo # Plan(rows[d]) => d \in carried'
  PROVE  Single(d)'
<1>1. Grows
  BY SameRows DEF Ty
<1>2. Holds(task'[t], d) <=> Holds(task[t], d)
  BY DEF Holds
<1>3. \A u \in Tasks \ {t} : Holds(task'[u], d) <=> Holds(task[u], d)
  BY HoldsAlike
<1>4. (\E u \in Tasks : Holds(task'[u], d)) => rows'[d].status \in {"proposed", "closed"}
  BY <1>2, <1>3 DEF Single, HeldOnce
<1>5. Holds(task'[t], d) /\ rows'[d].undoes # None => task'[t].undoing = rows'[d].undoes
  BY <1>2 DEF Single, HeldOnce
<1>6. Open(d)' => Open(d) /\ Known(d)
  BY DEF Open, Known
<1>7. task'[t].undoing = d => rows'[d].status \in {"applied", "undone"}
  BY DEF Single, HeldOnce
<1>8. d \in carried /\ Holds(task[t], d) => task[t].id = d /\ Underway(task[t])
  BY DEF Single, AttemptedOnce
<1>9. d \in carried' /\ Holds(task'[t], d) => task'[t].id = d /\ Underway(task[t])'
  BY <1>2, <1>8
<1>10. d \in carried' => \/ d \in carried
                         \/ Holds(task[t], d) /\ \A u \in Tasks \ {t} : ~Holds(task[u], d)
  BY DEF Single, HeldOnce, Holds
<1> QED
  BY <1>1, <1>2, <1>4, <1>5, <1>6, <1>7, <1>9, <1>10, SingleStays

LEMMA NextSingle == Ty /\ Ty' /\ OneAttempt /\ [Next]_vars => OneAttempt'
<1> SUFFICES ASSUME Ty, Ty', OneAttempt, [Next]_vars, NEW d \in Ids,
                      d \notin excused' PROVE Single(d)'
  BY DEF OneAttempt
<1>1. CASE UNCHANGED <<ledger, task, history, excused>>
  BY <1>1 DEF OneAttempt, Single, HeldOnce, AttemptedOnce, Underway, Open, Known, ledger, history
<1>2. CASE Crash
  <2>1. /\ UNCHANGED <<rows, history>> /\ \A t \in Tasks : Resting(task'[t])
        /\ excused' = excused \cup {e \in Ids : \E t \in Tasks : task[t].id = e}
    BY <1>2, CrashMoves
  <2>2. Single(d) /\ d \notin excused /\ \A t \in Tasks : task[t].id # d
    BY <2>1 DEF OneAttempt
  <2>3. \A t \in Tasks : ~Holds(task'[t], d) /\ task'[t].id # d /\ task'[t].undoing # d
    BY <2>1, Constants DEF Resting, Holds
  <2>4. \A t \in Tasks : Holds(task[t], d) => d \notin carried /\ rows[d].undoes = None
    BY <2>2, InThePass DEF Holds
  <2>5. d \in carried \/ rows[d].undoes # None => ~Open(d)
    BY <2>2, <2>4 DEF Single, HeldOnce, AttemptedOnce
  <2>6. UNCHANGED carried /\ (Open(d)' <=> Open(d))
    BY <2>1 DEF history, Open
  <2> QED
    BY <2>1, <2>3, <2>5, <2>6 DEF Single, HeldOnce, AttemptedOnce
<1>3. ASSUME NEW proposes \in BOOLEAN, NEW applies \in BOOLEAN, RecordAndApply(proposes, applies)
      PROVE  Single(d)'
  <2>1. /\ Grows /\ Proposes /\ UNCHANGED carried
        /\ UNCHANGED <<task, excused>> \/ (PassesOver(Scheduler) /\ Overlapped(Scheduler, Listed))
    BY <1>3, RecordAndApplyMoves DEF history
  <2>2. Scheduler \in Tasks /\ task[Scheduler].stage = "idle" /\ Resting(task[Scheduler])
    BY <1>3 DEF RecordAndApply, Tasks, Ty, TaskTypes
  <2>3. d \notin excused /\ Single(d)
    BY <2>1 DEF OneAttempt, Overlapped
  <2>4. StatusStays(d) \/ (~Known(d) /\ rows'[d].status = "proposed" /\ rows'[d].undoes = None)
    BY <2>1 DEF Proposes, Makes, StatusStays
  <2>5. Others(Scheduler)
    BY <2>1 DEF PassesOver, Ty, TaskTypes, Others, Alike
  <2>6. /\ Holds(task'[Scheduler], d) => d \in Listed
             /\ \A u \in Tasks \ {Scheduler} : ~Holds(task[u], d)
        /\ task'[Scheduler].undoing # d
        /\ task'[Scheduler].id = d => task'[Scheduler].todo = Plan(rows'[d])
             \/ task'[Scheduler].stage # "run"
    <3>1. CASE UNCHANGED <<task, excused>> \/ Resting(task'[Scheduler])
      BY <2>2, <3>1, Constants DEF Resting, Holds
    <3>2. ASSUME NEW e \in Listed, Starts(task'[Scheduler], e, Listed \ {e}, None, outbox'),
                 Overlapped(Scheduler, Listed)
          PROVE  /\ Holds(task'[Scheduler], d) => d \in Listed
                      /\ \A u \in Tasks \ {Scheduler} : ~Holds(task[u], d)
                 /\ task'[Scheduler].undoing # d
                 /\ task'[Scheduler].id = d => task'[Scheduler].todo = Plan(rows'[d])
                      \/ task'[Scheduler].stage # "run"
      <4>1. Holds(task'[Scheduler], d) => d \in Listed
        BY <3>2 DEF Starts, Holds
      <4>2. d \in Listed => \A u \in Tasks \ {Scheduler} : ~Holds(task[u], d)
        BY <3>2 DEF Overlapped
      <4> QED
        BY <3>2, <4>1, <4>2, Constants DEF Starts
    <3> QED
      BY <2>1, <3>1, <3>2 DEF PassesOver
  <2>7. d \in Listed => rows'[d].status = "proposed" /\ rows'[d].undoes = None
    BY Constants DEF Listed, Ty, RowTypes, RowOk
  <2> QED
    BY <2>1, <2>2, <2>3, <2>4, <2>5, <2>6, <2>7, StartsSingle
<1>4. ASSUME NEW t \in Clients, NEW e \in Ids, Apply(t, e) PROVE Single(d)'
  <2>1. /\ Grows /\ UNCHANGED <<rows, carried>> /\ task[t].stage = "idle" /\ Open(e)
             /\ Started(t, e, {}, None)
        /\ Overlapped(t, {e}) /\ t \in Tasks
    BY <1>4, ApplyMoves DEF history, Tasks
  <2>2. d \notin excused /\ Single(d)
    BY <2>1 DEF OneAttempt, Overlapped
  <2>3. /\ Others(t) /\ task'[t].undoing # d /\ (Holds(task'[t], d) => d = e)
        /\ task'[t].id = d => task'[t].todo = Plan(rows'[d]) \/ task'[t].stage # "run"
    BY <2>1, Constants DEF Started, Starts, Holds
  <2>4. d = e => /\ \A u \in Tasks \ {t} : ~Holds(task[u], d)
                 /\ Known(d) /\ rows'[d].status = "proposed"
    BY <2>1 DEF Overlapped, Open, Known
  <2>5. StatusStays(d)
    BY <2>1 DEF StatusStays
  <2> QED
    BY <2>1, <2>2, <2>3, <2>4, <2>5, StartsSingle
<1>5. ASSUME NEW t \in Clients, NEW e \in Ids, Undo(t, e) PROVE Single(d)'
  <2>1. /\ Grows /\ UNCHANGED <<carried, excused>> /\ task[t].stage = "idle"
             /\ rows[e].status = "applied" /\ t \in Tasks
    BY <1>5, UndoMoves DEF history, Tasks
  <2>2. PICK u \in Ids : Makes(u) /\ rows'[u].undoes = e /\ Started(t, u, {}, e)
    BY <1>5, UndoMoves
  <2>3. d \notin excused /\ Single(d)
    BY <2>1 DEF OneAttempt
  <2>4. /\ Others(t) /\ task'[t].undoing = e /\ (Holds(task'[t], d) <=> d = u)
        /\ task'[t].id = d => task'[t].todo = Plan(rows'[d]) \/ task'[t].stage # "run"
    BY <2>2 DEF Started, Starts, Holds
  <2>5. d = u => /\ \A v \in Tasks : ~Holds(task[v], d)
                 /\ ~Known(d) /\ rows'[d].status = "proposed"
    BY <2>2, HeldIsKnown DEF Makes
  <2>6. d # u => StatusStays(d)
    BY <2>2 DEF Makes, StatusStays
  <2>7. Holds(task'[t], d) => rows'[d].undoes \in {None, task'[t].undoing}
    BY <2>2, <2>4
  <2> QED
    BY <2>1, <2>3, <2>4, <2>5, <2>6, <2>7, StartsSingle
<1>6. ASSUME NEW e \in Ids, Skip(e) PROVE Single(d)'
  <2>1. /\ Grows /\ UNCHANGED <<task, carried, excused>> /\ Open(e) /\ rows'[e].status = "closed"
        /\ \A b \in Ids \ {e} : rows'[b].status = rows[b].status
    BY <1>6, SkipMoves DEF history
  <2>2. Single(d) /\ StatusStays(d)
    BY <2>1 DEF OneAttempt, StatusStays, Open
  <2>3. Known(d) => rows'[d].undoes = rows[d].undoes /\ Plan(rows'[d]) = Plan(rows[d])
    BY <2>1 DEF Grows, Plan
  <2>4. \A t \in Tasks : Holds(task[t], d) => Known(d)
    BY HeldIsKnown
  <2>5. Open(d)' => Open(d) /\ Known(d)
    BY <2>1 DEF Open, Known
  <2>6. \A t \in Tasks : (Holds(task'[t], d) <=> Holds(task[t], d)) /\ task'[t] = task[t]
    BY <2>1
  <2>7. HeldOnce(d)'
    BY <2>2, <2>3, <2>4, <2>5, <2>6, HeldIsKnown DEF Single, HeldOnce, StatusStays, Known
  <2>8. \A t \in Tasks : task[t].id = d => Known(d)
    BY <2>4 DEF Holds
  <2>9. AttemptedOnce(d)'
    BY <2>1, <2>2, <2>3, <2>4, <2>5, <2>6, <2>8 DEF Single, AttemptedOnce, Underway
  <2> QED
    BY <2>7, <2>9 DEF Single
<1>7. ASSUME NEW t \in Tasks, NotRunning(t) PROVE Single(d)'
  <2>1. /\ UNCHANGED <<rows, carried, excused>> /\ Asking(t) /\ Stays(t)
             /\ task'[t].stage = task[t].stage
        /\ task'[t].todo = task[t].todo /\ task'[t].answer = "off" /\ task[t].stage # "idle"
    BY <1>7, NotRunningMoves DEF history, Asking
  <2>2. d \notin excused /\ Single(d)
    BY <2>1 DEF OneAttempt
  <2>3. Underway(task[t]) => Underway(task[t])'
    BY <2>1 DEF Underway
  <2>4. task[t].id = d /\ task'[t].stage = "run" /\ task'[t].todo # Plan(rows[d]) => d \in carried'
    BY <2>1, <2>2 DEF Single, AttemptedOnce
  <2>5. d \in carried' /\ task[t].id = d /\ (d \in carried => Underway(task[t]))
          => Underway(task[t])'
    BY <2>1, <2>3
  <2>6. Others(t) /\ task'[t].id = task[t].id /\ task'[t].pass = task[t].pass
          /\ task'[t].undoing = task[t].undoing
    BY <2>1 DEF Stays
  <2>7. carried \subseteq carried' /\ (d \in carried' => d \in carried)
    BY <2>1
  <2> QED
    BY <2>1, <2>2, <2>4, <2>5, <2>6, <2>7, StaysSingle
<1>8. ASSUME NEW t \in Tasks, Execute(t) PROVE Single(d)'
  <2>1. /\ UNCHANGED <<rows, excused>> /\ Asking(t) /\ Effect(task[t])
             /\ ExecuteShape(t)
        /\ task[t].stage # "idle" /\ task[t].answer = "none"
    BY <1>8, ExecuteMoves DEF Asking
  <2>2. d \notin excused /\ Single(d)
    BY <2>1 DEF OneAttempt
  <2>3. /\ Others(t) /\ task'[t].id = task[t].id /\ task'[t].pass = task[t].pass
             /\ task'[t].undoing = task[t].undoing
        /\ task'[t].stage = task[t].stage
    BY <2>1 DEF ExecuteShape, Stays
  <2>4. task[t].stage = "row" => task[t].row \in excused
    BY <2>1, WorkingTask DEF Working
  <2>5. /\ carried \subseteq carried'
        /\ d \in carried' => d \in carried \/ (task[t].stage = "run" /\ task[t].id = d)
        /\ task[t].stage = "run" /\ task[t].id = d /\ task[t].todo = Plan(rows[d]) => d \in carried'
    <3>1. CASE task[t].stage = "find"
      BY <2>1, <3>1 DEF Effect, history
    <3>2. CASE task[t].stage = "row"
      BY <2>1, <2>2, <2>4, <3>2 DEF Effect, Doer
    <3>3. CASE task[t].stage = "run"
      BY <2>1, <2>2, <3>3 DEF Effect, Doer
    <3> QED
      BY <2>1, <3>1, <3>2, <3>3 DEF Ty, TaskTypes, Task
  <2>6. ASSUME d \in carried', task[t].id = d, d \in carried
                 => Underway(task[t]) PROVE Underway(task[t])'
    <3>1. task[t].stage = "run"
      BY <2>5, <2>6 DEF Underway
    <3>2. Plan(rows[d]) # <<"move">> \/ task[t].todo # <<"flag", "move">>
      <4>1. /\ Working(task[t]) /\ Doer(task[t]) = d /\ rows[d].action \in AllActions
        BY <2>1, <2>6, <3>1, WorkingTask DEF Doer
      <4> QED
        BY <4>1, Commands DEF Working, Todos
    <3>3. CASE task'[t].answer = "ok"
      BY <2>3, <3>1, <3>3 DEF Underway
    <3>4. CASE task[t].todo = <<"flag", "move">> /\ task'[t].todo = <<"move">>
      BY <2>1, <2>3, <2>6, <3>1, <3>2, <3>4 DEF Underway
    <3> QED
      BY <2>1, <3>3, <3>4 DEF ExecuteShape
  <2>7. task[t].id = d /\ task'[t].stage = "run" /\ task'[t].todo # Plan(rows[d]) => d \in carried'
    <3>1. task[t].id = d /\ task[t].stage = "run" /\ task[t].todo # Plan(rows[d]) => d \in carried'
      BY <2>2, <2>5 DEF Single, AttemptedOnce
    <3> QED
      BY <2>3, <2>5, <3>1
  <2> QED
    BY <2>1, <2>2, <2>3, <2>5, <2>6, <2>7, StaysSingle
<1>9. ASSUME NEW t \in Tasks, Fault(t) PROVE Single(d)'
  <2>1. /\ Grows /\ UNCHANGED excused /\ Asking(t) /\ (UNCHANGED history \/ Effects(t))
             /\ Ends(t)
        /\ rows'[task[t].id].status = "closed" /\ task[t].stage # "idle"
        /\ \A e \in Ids \ {task[t].id} : rows'[e].status = rows[e].status
    BY <1>9, FaultMoves DEF Asking
  <2>2. d \notin excused /\ Single(d)
    BY <2>1 DEF OneAttempt
  <2>3. carried \subseteq carried' /\ (d \in carried' => d \in carried \/ Doer(task[t]) = d)
    BY <2>1 DEF Effects, Effect, history
  <2> QED
    BY <2>1, <2>2, <2>3, EndsSingle
<1>10. ASSUME NEW t \in Tasks, Replayed(t) \/ GiveUpFlush(t) PROVE Single(d)'
  <2>1. UNCHANGED <<rows, carried, excused>> /\ task[t].stage = "row" /\ task[t].stage # "idle"
          /\ GoesOn(t)
    BY <1>10, ReplayMoves DEF history
  <2>2. d \notin excused /\ Single(d)
    BY <2>1 DEF OneAttempt
  <2>3. /\ Others(t) /\ task'[t].id = task[t].id /\ task'[t].pass = task[t].pass
             /\ task'[t].undoing = task[t].undoing
        /\ task'[t].id = d /\ task'[t].stage = "run" => task'[t].todo = Plan(rows'[d])
    BY <2>1 DEF GoesOn, Starts
  <2>4. ~Underway(task[t])
    BY <2>1 DEF Underway
  <2>5. task[t].id = d => d \notin carried
    BY <2>2, <2>4 DEF Single, AttemptedOnce, Holds
  <2>6. task[t].id = d /\ task'[t].stage = "run" /\ task'[t].todo # Plan(rows[d]) => d \in carried'
    BY <2>1, <2>3
  <2>7. d \in carried' /\ task[t].id = d /\ (d \in carried => Underway(task[t]))
          => Underway(task[t])'
    BY <2>1, <2>5
  <2> QED
    BY <2>1, <2>2, <2>3, <2>6, <2>7, StaysSingle
<1>11. ASSUME NEW t \in Tasks, Found(t) PROVE Single(d)'
  <2>1. /\ UNCHANGED <<rows, carried, excused>> /\ task[t].stage = "find" /\ task[t].stage # "idle"
             /\ Stays(t)
        /\ task'[t].todo = Plan(rows[task[t].id])
    BY <1>11, FoundMoves DEF history
  <2>2. d \notin excused /\ Single(d)
    BY <2>1 DEF OneAttempt
  <2>3. Others(t) /\ task'[t].id = task[t].id /\ task'[t].pass = task[t].pass
          /\ task'[t].undoing = task[t].undoing
    BY <2>1 DEF Stays
  <2>4. ~Underway(task[t])
    BY <2>1 DEF Underway
  <2>5. task[t].id = d => d \notin carried
    BY <2>2, <2>4 DEF Single, AttemptedOnce, Holds
  <2>6. task[t].id = d /\ task'[t].stage = "run" /\ task'[t].todo # Plan(rows[d]) => d \in carried'
    BY <2>1
  <2>7. d \in carried' /\ task[t].id = d /\ (d \in carried => Underway(task[t]))
          => Underway(task[t])'
    BY <2>1, <2>5
  <2>8. carried \subseteq carried' /\ (d \in carried' => d \in carried)
    BY <2>1
  <2> QED
    BY <2>1, <2>2, <2>3, <2>6, <2>7, <2>8, StaysSingle
<1>12. ASSUME NEW t \in Tasks, Queue(t) PROVE Single(d)'
  <2>1. /\ Grows /\ UNCHANGED <<rows, carried>> /\ task[t].stage # "idle" /\ Ends(t)
        /\ excused' = excused \cup {task[t].id}
    BY <1>12, QueueMoves DEF history
  <2>2. d \notin excused /\ Single(d) /\ task[t].id # d
    BY <2>1 DEF OneAttempt
  <2> QED
    BY <2>1, <2>2, EndsSingle
<1>13. ASSUME NEW t \in Tasks, Done(t) PROVE Single(d)'
  <2>1. /\ Grows /\ UNCHANGED <<carried, excused>> /\ task[t].stage # "idle" /\ Ends(t)
        /\ rows'[task[t].id].status = "applied"
        /\ task[t].undoing # None => rows'[task[t].undoing].status = "undone"
        /\ \A e \in Ids \ {task[t].id, task[t].undoing} : rows'[e].status = rows[e].status
    BY <1>13, DoneMoves DEF history
  <2>2. d \notin excused /\ Single(d)
    BY <2>1 DEF OneAttempt
  <2>3. task[t].id # d => \/ rows'[d].status = rows[d].status
                          \/ rows[d].status \in {"applied", "undone"} /\ rows'[d].status = "undone"
    <3>1. CASE task[t].undoing = d
      BY <2>1, <2>2, <3>1, Constants DEF Single, HeldOnce
    <3> QED
      BY <2>1, <3>1
  <2> QED
    BY <2>1, <2>2, <2>3, EndsSingle
<1>14. \A t \in Clients : t \in Tasks
  BY DEF Tasks
<1> QED
  BY <1>1, <1>2, <1>3, <1>4, <1>5, <1>6, <1>7, <1>8, <1>9, <1>10, <1>11, <1>12, <1>13
     DEF Next, Answer, Resume, vars, Toggle

\* What is carried out a second time is excused.
LEMMA NoSecondTime == Ty /\ OneAttempt /\ Once /\ [Next]_vars => Once'
<1> SUFFICES ASSUME Ty, OneAttempt, Once, [Next]_vars PROVE again' = again
  BY DEF Once
<1>1. CASE UNCHANGED vars \/ Toggle
  BY <1>1 DEF vars, history, Toggle
<1>2. ASSUME NEW t \in Tasks, task[t].stage # "idle", task[t].answer = "none", Effect(task[t])
      PROVE  again' = again
  <2>1. CASE task[t].stage = "find" \/ task[t].todo # Plan(rows[Doer(task[t])])
    BY <1>2, <2>1 DEF Effect, history
  <2>2. CASE task[t].stage # "find" /\ task[t].todo = Plan(rows[Doer(task[t])])
    <3>1. Doer(task[t]) \in Ids /\ (task[t].stage = "row" => Doer(task[t]) \in excused)
      BY <1>2, WorkingTask DEF Working, Doer
    <3>2. Doer(task[t]) \notin carried \ excused
      <4>1. CASE task[t].stage = "row"
        BY <3>1, <4>1
      <4>2. CASE task[t].stage # "row"
        <5>1. Doer(task[t]) = task[t].id /\ ~Underway(task[t])
          BY <1>2, <2>2, <4>2 DEF Doer, Underway
        <5> QED
          BY <3>1, <5>1 DEF OneAttempt, Single, AttemptedOnce, Holds
      <4> QED
        BY <4>1, <4>2
    <3> QED
      BY <1>2, <2>2, <3>2 DEF Effect
  <2> QED
    BY <2>1, <2>2
<1>3. ASSUME NEW t \in Tasks, Execute(t) PROVE again' = again
  BY <1>2, <1>3 DEF Execute, Asking
<1>4. ASSUME NEW t \in Tasks, Fault(t) PROVE again' = again
  BY <1>2, <1>4 DEF Fault, Asking, history
<1>5. CASE Crash \/ (\E proposes, applies \in BOOLEAN : RecordAndApply(proposes, applies))
           \/ (\E t \in Clients, d \in Ids : Apply(t, d) \/ Undo(t, d)) \/ (\E d \in Ids : Skip(d))
  BY <1>5 DEF Crash, RecordAndApply, Apply, Undo, Skip, history
<1>6. CASE \E t \in Tasks : NotRunning(t) \/ Resume(t)
  BY <1>6 DEF NotRunning, Resume, Replayed, GiveUpFlush, Found, Queue, Done, history
<1> QED
  BY <1>1, <1>3, <1>4, <1>5, <1>6 DEF Next, Answer

\* A draft is not made twice and a message not moved twice for one decision: it has one
\* task (apply_ids and auto_apply_pass look at open decisions only), which tries it once
\* and records what became of it, whether it was applied, skipped or failed.
THEOREM NothingTwice == Spec => []Once
<1>1. Init => Once
  BY DEF Init, Once
<1> QED
  BY <1>1, InitTy, NextTy, InitSingle, NextSingle, NoSecondTime, PTL DEF Spec

-----------------------------------------------------------------------------
(* The ledger knows what moved a message.                                  *)

\* The decision that moved a message last was carried out; its task has the answer of the
\* last command and records next, or has recorded it.
Accounted(d) ==
    /\ d \in carried
    /\ \A t \in Tasks : Holds(task[t], d) => task[t].stage = "run" /\ task[t].answer = "ok"
    /\ (\A t \in Tasks : ~Holds(task[t], d)) => Explained(d)

\* A decision whose undo has been answered is not the one that moved a message last.
UndoneByNow(d) ==
    \A t \in Tasks : ~(task[t].undoing = d /\ task[t].stage = "run" /\ task[t].answer = "ok")

Moved(m) ==
    last[m] # None /\ last[m] \notin excused \cup unsure =>
        Accounted(last[m]) /\ UndoneByNow(last[m])

MovesAccounted == \A m \in Messages : Moved(m)

LEMMA InitMoved == Init => MovesAccounted
  BY DEF Init, MovesAccounted, Moved

\* The explanation of d stays: it is applied, what it undid is undone, or excused.
LEMMA ExplainedStays ==
  ASSUME Ty, Grows, excused \subseteq excused', NEW d \in Ids, Explained(d),
         rows'[d].status = "applied",
         NEW e, e = rows[d].undoes,
         e # None /\ e \notin excused' /\ rows[e].status = "undone" => rows'[e].status = "undone"
  PROVE  Explained(d)'
<1>1. Known(d) /\ rows'[d].undoes = e
  BY DEF Explained, Known, Grows
<1>2. CASE e = None
  BY <1>1, <1>2 DEF Explained
<1>3. CASE e # None
  BY <1>1, <1>3 DEF Explained
<1> QED
  BY <1>2, <1>3

\* What t leaves alone stays accounted for.
LEMMA AccountedStays ==
  ASSUME Ty, Grows, excused \subseteq excused', NEW d \in Ids \ excused', Accounted(d),
         UndoneByNow(d),
         NEW t \in Tasks, Others(t), d \in carried',
         ~Holds(task[t], d), ~Holds(task'[t], d),
         rows[d].status = "applied" => rows'[d].status = "applied",
         \A e \in Ids \ excused' : rows[e].status = "undone" => rows'[e].status = "undone",
         ~(task'[t].undoing = d /\ task'[t].stage = "run" /\ task'[t].answer = "ok")
  PROVE  Accounted(d)' /\ UndoneByNow(d)'
<1>1. \A u \in Tasks \ {t} :
            /\ Holds(task'[u], d) <=> Holds(task[u], d)
            /\ task'[u].undoing = task[u].undoing /\ task'[u].stage = task[u].stage
            /\ task'[u].answer = task[u].answer
  BY HoldsAlike
<1>2. \A u \in Tasks : Holds(task'[u], d) => task'[u].stage = "run" /\ task'[u].answer = "ok"
  BY <1>1 DEF Accounted
<1>3. UndoneByNow(d)'
  BY <1>1 DEF UndoneByNow
<1>4. ASSUME \A u \in Tasks : ~Holds(task'[u], d) PROVE Explained(d)'
  <2>1. Explained(d)
    BY <1>1, <1>4 DEF Accounted
  <2>2. PICK e : e = rows[d].undoes
    OBVIOUS
  <2>3. e # None => e \in Ids
    BY <2>2 DEF Ty, RowTypes, RowOk
  <2> QED
    BY <2>1, <2>2, <2>3, ExplainedStays DEF Explained
<1> QED
  BY <1>2, <1>3, <1>4 DEF Accounted

\* A task waiting for an answer, or whose answer is not that of a run, has nothing to do
\* with what is accounted for.
LEMMA NotAccounted ==
  ASSUME NEW d, Accounted(d), NEW t \in Tasks, task[t].stage # "run" \/ task[t].answer # "ok"
  PROVE  ~Holds(task[t], d)
  BY DEF Accounted

LEMMA EndsHolds ==
  ASSUME NEW d \in Ids, NEW t \in Tasks, Ends(t)
  PROVE  task'[t].undoing # d /\ (Holds(task'[t], d) => d \in task[t].pass)
<1>1. CASE Resting(task'[t])
  BY <1>1, Constants DEF Resting, Holds
<1>2. ASSUME NEW e \in task[t].pass, Starts(task'[t], e, task[t].pass \ {e}, None, outbox')
      PROVE  task'[t].undoing # d /\ (Holds(task'[t], d) => d \in task[t].pass)
  BY <1>2, Constants DEF Starts, Holds
<1> QED
  BY <1>1, <1>2 DEF Ends

LEMMA NextMoved == Ty /\ Ty' /\ OneAttempt /\ MovesAccounted /\ [Next]_vars => MovesAccounted'
<1> SUFFICES ASSUME Ty, Ty', OneAttempt, MovesAccounted, [Next]_vars, NEW m \in Messages,
                      NEW d \in Ids,
                    last'[m] = d, d \notin excused', d \notin unsure'
             PROVE  Accounted(d)' /\ UndoneByNow(d)'
  <2>1. Ty' => \A n \in Messages : last'[n] # None => last'[n] \in Ids
    BY DEF Ty, StoreTypes
  <2> QED
    BY <2>1 DEF MovesAccounted, Moved
<1> d \notin unsure
  <2>1. unsure \subseteq unsure'
    BY DEF Next, vars, history, Answer, Resume, Toggle, Crash, RecordAndApply, Apply, Undo, Skip,
           NotRunning, Execute, Fault, Replayed, GiveUpFlush, Found, Queue, Done
  <2> QED
    BY <2>1
<1>0. d \notin excused /\ last[m] = d =>
        /\ Accounted(d) /\ UndoneByNow(d) /\ d \in carried /\ Known(d) /\ rows[d].message = m
             /\ Single(d)
        /\ \A t \in Tasks : Holds(task[t], d) => task[t].id = d
  <2> SUFFICES ASSUME d \notin excused, last[m] = d
               PROVE  /\ Accounted(d) /\ UndoneByNow(d) /\ d \in carried /\ Known(d)
                           /\ rows[d].message = m
                      /\ Single(d) /\ \A t \in Tasks : Holds(task[t], d) => task[t].id = d
    OBVIOUS
  <2>1. Accounted(d) /\ UndoneByNow(d) /\ Single(d)
    BY Constants DEF MovesAccounted, Moved, OneAttempt
  <2>2. Known(d) /\ rows[d].message = m
    BY Constants DEF Ty, StoreTypes
  <2> QED
    BY <2>1, <2>2 DEF Accounted, Single, AttemptedOnce
<1>1. CASE UNCHANGED <<ledger, task, history, excused>>
  <2>1. d \notin excused /\ last[m] = d /\ UNCHANGED <<rows, task, carried, excused>>
    BY <1>1 DEF history, ledger
  <2> QED
    BY <1>0, <2>1 DEF Accounted, UndoneByNow, Explained
<1>2. CASE Crash
  <2>1. /\ UNCHANGED <<rows, history>> /\ \A t \in Tasks : Resting(task'[t])
        /\ excused' = excused \cup {e \in Ids : \E t \in Tasks : task[t].id = e}
    BY <1>2, CrashMoves
  <2>2. d \notin excused /\ last[m] = d /\ UNCHANGED carried /\ \A t \in Tasks : task[t].id # d
    BY <2>1 DEF history
  <2>3. Explained(d)
    BY <1>0, <2>2 DEF Accounted
  <2>4. Explained(d)'
    BY <2>1, <2>3 DEF Explained
  <2>5. \A t \in Tasks : ~Holds(task'[t], d) /\ task'[t].stage = "idle"
    BY <2>1, Constants DEF Resting, Holds
  <2> QED
    BY <1>0, <2>2, <2>4, <2>5 DEF Accounted, UndoneByNow
<1>3. ASSUME NEW proposes \in BOOLEAN, NEW applies \in BOOLEAN, RecordAndApply(proposes, applies)
      PROVE  Accounted(d)' /\ UndoneByNow(d)'
  <2>1. /\ Grows /\ Proposes /\ UNCHANGED <<last, carried>>
        /\ UNCHANGED <<task, excused>> \/ (PassesOver(Scheduler) /\ Overlapped(Scheduler, Listed))
    BY <1>3, RecordAndApplyMoves DEF history
  <2>2. Scheduler \in Tasks /\ task[Scheduler].stage = "idle" /\ Resting(task[Scheduler])
    BY <1>3 DEF RecordAndApply, Tasks, Ty, TaskTypes
  <2>3. d \notin excused /\ last[m] = d /\ excused \subseteq excused'
    BY <2>1 DEF Overlapped
  <2>4. Others(Scheduler) /\ ~Holds(task[Scheduler], d)
    BY <2>1, <2>2, Constants DEF PassesOver, Ty, TaskTypes, Others, Alike, Resting, Holds
  <2>5. \A e \in Ids : Known(e) => StatusStays(e)
    BY <2>1 DEF Proposes, Makes, StatusStays
  <2>6. task'[Scheduler].undoing # d /\ ~Holds(task'[Scheduler], d)
    <3>1. CASE UNCHANGED <<task, excused>> \/ Resting(task'[Scheduler])
      BY <2>2, <3>1, Constants DEF Resting, Holds
    <3>2. ASSUME NEW e \in Listed, Starts(task'[Scheduler], e, Listed \ {e}, None, outbox'),
                 Overlapped(Scheduler, Listed)
          PROVE  task'[Scheduler].undoing # d /\ ~Holds(task'[Scheduler], d)
      <4>1. Holds(task'[Scheduler], d) => d \in Listed
        BY <3>2 DEF Starts, Holds
      <4>2. d \in Listed => Open(d)
        BY <1>0, <2>3, <2>5 DEF Listed, StatusStays, Open
      <4>3. Open(d) => \E u \in Tasks \ {Scheduler} : Holds(task[u], d)
        BY <1>0, <2>3, <2>4 DEF Single, AttemptedOnce
      <4>4. d \notin Listed
        BY <3>2, <4>2, <4>3 DEF Overlapped
      <4> QED
        BY <3>2, <4>1, <4>4, Constants DEF Starts
    <3> QED
      BY <2>1, <3>1, <3>2 DEF PassesOver
  <2>7. \A e \in Ids : rows[e].status \in {"applied", "undone"} => rows'[e].status = rows[e].status
    BY <2>5 DEF StatusStays, Known
  <2> QED
    BY <1>0, <2>1, <2>2, <2>3, <2>4, <2>6, <2>7, AccountedStays
<1>4. ASSUME NEW t \in Clients, NEW e \in Ids, Apply(t, e) PROVE Accounted(d)' /\ UndoneByNow(d)'
  <2>1. /\ Grows /\ UNCHANGED <<rows, last, carried>> /\ task[t].stage = "idle" /\ Open(e)
             /\ Started(t, e, {}, None)
        /\ Overlapped(t, {e}) /\ t \in Tasks
    BY <1>4, ApplyMoves DEF history, Tasks
  <2>2. d \notin excused /\ last[m] = d /\ excused \subseteq excused'
    BY <2>1 DEF Overlapped
  <2>3. Others(t) /\ task'[t].undoing # d /\ (Holds(task'[t], d) => d = e)
    BY <2>1, Constants DEF Started, Starts, Holds
  <2>4. ~Holds(task[t], d)
    BY <2>1, HeldIsKnown
  <2>5. d # e
    <3>1. Open(d) => \E u \in Tasks \ {t} : Holds(task[u], d)
      BY <1>0, <2>2, <2>4 DEF Single, AttemptedOnce
    <3> QED
      BY <2>1, <3>1 DEF Overlapped
  <2> QED
    BY <1>0, <2>1, <2>2, <2>3, <2>4, <2>5, AccountedStays
<1>5. ASSUME NEW t \in Clients, NEW e \in Ids, Undo(t, e) PROVE Accounted(d)' /\ UndoneByNow(d)'
  <2>1. /\ Grows /\ UNCHANGED <<last, carried, excused>> /\ task[t].stage = "idle" /\ t \in Tasks
    BY <1>5, UndoMoves DEF history, Tasks
  <2>2. PICK u \in Ids : Makes(u) /\ Started(t, u, {}, e)
    BY <1>5, UndoMoves
  <2>3. d \notin excused /\ last[m] = d
    BY <2>1
  <2>4. d # u
    BY <1>0, <2>2, <2>3 DEF Makes
  <2>5. /\ Others(t) /\ task'[t].answer = "none" /\ ~Holds(task'[t], d)
    BY <2>2, <2>4 DEF Started, Starts, Holds
  <2>6. ~Holds(task[t], d)
    BY <2>1, HeldIsKnown
  <2>7. \A b \in Ids : rows[b].status \in {"applied", "undone"} => rows'[b].status = rows[b].status
    BY <2>2 DEF Makes, Known
  <2> QED
    BY <1>0, <2>1, <2>3, <2>5, <2>6, <2>7, AccountedStays
<1>6. ASSUME NEW e \in Ids, Skip(e) PROVE Accounted(d)' /\ UndoneByNow(d)'
  <2>1. /\ Grows /\ UNCHANGED <<task, last, carried, excused>> /\ Open(e)
        /\ \A b \in Ids \ {e} : rows'[b].status = rows[b].status
    BY <1>6, SkipMoves DEF history
  <2>2. d \notin excused /\ last[m] = d
    BY <2>1
  <2>3. \A b \in Ids : rows[b].status \in {"applied", "undone"} => rows'[b].status = rows[b].status
    BY <2>1 DEF Open
  <2>4. PICK b : b = rows[d].undoes
    OBVIOUS
  <2>5. b # None => b \in Ids
    BY <2>4 DEF Ty, RowTypes, RowOk
  <2>6. Explained(d) => Explained(d)'
    BY <2>1, <2>3, <2>4, <2>5, ExplainedStays DEF Explained
  <2> QED
    BY <1>0, <2>1, <2>2, <2>6 DEF Accounted, UndoneByNow
<1>7. ASSUME NEW t \in Tasks, NotRunning(t) PROVE Accounted(d)' /\ UndoneByNow(d)'
  <2>1. /\ Grows /\ UNCHANGED <<rows, last, carried, excused>> /\ task[t].answer = "none"
             /\ task'[t].answer = "off"
        /\ Stays(t)
    BY <1>7, NotRunningMoves DEF history, Asking
  <2>2. d \notin excused /\ last[m] = d
    BY <2>1
  <2>3. ~Holds(task[t], d)
    BY <1>0, <2>1, <2>2, NotAccounted
  <2>4. Others(t) /\ ~Holds(task'[t], d)
    BY <2>1, <2>3 DEF Stays, Holds
  <2> QED
    BY <1>0, <2>1, <2>2, <2>3, <2>4, AccountedStays
<1>8. ASSUME NEW t \in Tasks, Execute(t) PROVE Accounted(d)' /\ UndoneByNow(d)'
  <2>1. /\ Grows /\ UNCHANGED <<rows, excused>> /\ Effect(task[t]) /\ ExecuteShape(t)
        /\ task[t].stage # "idle" /\ task[t].answer = "none"
    BY <1>8, ExecuteMoves DEF Asking
  <2>2. /\ Others(t) /\ task'[t].id = task[t].id /\ task'[t].pass = task[t].pass
             /\ task'[t].undoing = task[t].undoing
        /\ task'[t].stage = task[t].stage /\ d \notin excused
    BY <2>1 DEF ExecuteShape, Stays
  <2>3. Holds(task'[t], d) <=> Holds(task[t], d)
    BY <2>2 DEF Holds
  <2>4. /\ task[t] \in Task /\ Working(task[t]) /\ Doer(task[t]) \in Ids
             /\ rows[Doer(task[t])].action \in AllActions
        /\ task[t].id \in Ids /\ Target(task[t]) \in Messages
    BY <2>1, WorkingTask
  <2>5. /\ Plan(rows[Doer(task[t])]) \in Todos /\ task[t].todo \in Todos
        /\ rows[Doer(task[t])].action = "undo" => task[t].todo = <<"move">>
    <3>1. Plan(rows[Doer(task[t])]) \in Todos
          /\ (rows[Doer(task[t])].action = "undo" => Plan(rows[Doer(task[t])]) = <<"move">>)
      BY <2>4, PlanOf DEF Todos, Plan
    <3> QED
      BY <2>4, <3>1 DEF Working, Todos
  <2>6. carried \subseteq carried'
    BY <2>1 DEF Effect, history
  <2>7. /\ task[t].stage # "find" /\ task[t].todo = <<"move">> =>
               last'[Target(task[t])] = Doer(task[t])
        /\ last'[m] = last[m]
             \/ (task[t].stage # "find" /\ task[t].todo = <<"move">> /\ last'[m] = Doer(task[t]))
    <3>1. CASE task[t].stage = "find"
      BY <2>1, <3>1 DEF Effect, history
    <3>2. CASE task[t].stage # "find"
      <4>1. last' = [last EXCEPT ![Target(task[t])] = IF Head(task[t].todo) = "move" THEN Doer(task[t]) ELSE @]
        BY <2>1, <3>2 DEF Effect
      <4>2. Head(task[t].todo) = "move" <=> task[t].todo = <<"move">>
        BY <2>5, Commands
      <4> QED
        BY <2>4, <3>2, <4>1, <4>2 DEF Ty, StoreTypes
    <3> QED
      BY <3>1, <3>2
  <2>8. CASE last[m] = d
    <3>1. ~Holds(task[t], d)
      BY <1>0, <2>1, <2>2, <2>8, NotAccounted
    <3>2. ~(task'[t].undoing = d /\ task'[t].stage = "run" /\ task'[t].answer = "ok")
      <4> SUFFICES ASSUME task[t].undoing = d, task[t].stage = "run" PROVE FALSE
        BY <2>2
      <4>1. Doer(task[t]) = task[t].id /\ rows[task[t].id].undoes = d /\ RowOk(task[t].id)
        BY <2>4, Constants DEF Working, Doer, Ty, RowTypes
      <4>2. rows[task[t].id].action = "undo" /\ rows[task[t].id].message = m /\ task[t].id # d
        BY <1>0, <2>2, <2>8, <4>1, Constants DEF RowOk
      <4>3. Target(task[t]) = m /\ task[t].todo = <<"move">>
        BY <2>5, <4>1, <4>2 DEF Target
      <4> QED
        BY <2>7, <4>1, <4>2, <4>3
    <3> QED
      BY <1>0, <2>1, <2>2, <2>3, <2>6, <2>8, <3>1, <3>2, AccountedStays
  <2>9. CASE last[m] # d
    <3>1. task[t].stage # "find" /\ task[t].todo = <<"move">> /\ Doer(task[t]) = d
      BY <2>7, <2>9
    <3>2. task[t].stage = "run" /\ task[t].id = d /\ Holds(task[t], d)
      BY <2>1, <2>2, <2>4, <3>1 DEF Working, Doer, Task, Holds
    <3>3. Single(d) /\ \A u \in Tasks : Holds(task'[u], d) => u = t
      BY <2>2, <3>2, HoldsAlike DEF OneAttempt, Single, HeldOnce
    <3>4. task'[t].stage = "run" /\ task'[t].answer = "ok"
      BY <2>1, <2>2, <2>5, <3>1, <3>2, Commands DEF ExecuteShape
    <3>5. d \in carried'
      <4>1. CASE task[t].todo = Plan(rows[d])
        BY <2>1, <2>2, <3>1, <4>1 DEF Effect
      <4>2. CASE task[t].todo # Plan(rows[d])
        BY <2>6, <3>2, <3>3, <4>2 DEF Single, AttemptedOnce
      <4> QED
        BY <4>1, <4>2
    <3>6. \A u \in Tasks : task'[u].undoing # d
      <4>1. \A u \in Tasks : task[u].undoing # d
        BY <3>2, <3>3 DEF Single, HeldOnce
      <4> QED
        BY <2>2, <4>1, HoldsAlike
    <3> QED
      BY <2>3, <3>2, <3>3, <3>4, <3>5, <3>6 DEF Accounted, UndoneByNow
  <2> QED
    BY <2>8, <2>9
<1>9. ASSUME NEW t \in Tasks, Fault(t) PROVE Accounted(d)' /\ UndoneByNow(d)'
  <2>1. /\ Grows /\ UNCHANGED excused /\ task[t].answer = "none"
             /\ (UNCHANGED history \/ Effects(t)) /\ Ends(t)
        /\ task[t].stage # "idle" /\ \A e \in Ids \ {task[t].id} : rows'[e].status = rows[e].status
    BY <1>9, FaultMoves DEF Asking
  <2>2. d \notin excused /\ last[m] = d /\ carried \subseteq carried'
    <3>1. last' = last \/ (last' = [last EXCEPT ![Target(task[t])] = Doer(task[t])]
                            /\ d # Doer(task[t]))
          \/ last' = [last EXCEPT ![Target(task[t])] = @]
      BY <2>1 DEF Effects, Effect, history
    <3>2. carried \subseteq carried'
      BY <2>1 DEF Effects, Effect, history
    <3> QED
      BY <2>1, <3>1, <3>2, Constants DEF Ty, StoreTypes
  <2>3. ~Holds(task[t], d)
    BY <1>0, <2>1, <2>2, NotAccounted
  <2>4. Others(t) /\ ~Holds(task'[t], d) /\ task'[t].undoing # d
    BY <2>1, <2>3, EndsHolds DEF Ends, Holds
  <2>5. rows[d].status = "applied" => rows'[d].status = "applied"
    BY <2>1, <2>3 DEF Holds
  <2>6. \A e \in Ids \ excused' : rows[e].status = "undone" => rows'[e].status = "undone"
    BY <2>1 DEF OneAttempt, Single, HeldOnce, Holds
  <2> QED
    BY <1>0, <2>1, <2>2, <2>3, <2>4, <2>5, <2>6, AccountedStays
<1>10. ASSUME NEW t \in Tasks, Replayed(t) \/ GiveUpFlush(t) PROVE Accounted(d)' /\ UndoneByNow(d)'
  <2>1. Grows /\ UNCHANGED <<rows, last, carried, excused>> /\ task[t].stage = "row" /\ GoesOn(t)
    BY <1>10, ReplayMoves DEF history
  <2>2. d \notin excused /\ last[m] = d
    BY <2>1
  <2>3. ~Holds(task[t], d)
    BY <1>0, <2>1, <2>2, NotAccounted
  <2>4. Others(t) /\ ~Holds(task'[t], d) /\ task'[t].answer = "none"
    BY <2>1, <2>3 DEF GoesOn, Starts, Holds
  <2> QED
    BY <1>0, <2>1, <2>2, <2>3, <2>4, AccountedStays
<1>11. ASSUME NEW t \in Tasks, Found(t) PROVE Accounted(d)' /\ UndoneByNow(d)'
  <2>1. /\ Grows /\ UNCHANGED <<rows, last, carried, excused>> /\ task[t].stage = "find"
             /\ task'[t].answer = "none"
        /\ Stays(t)
    BY <1>11, FoundMoves DEF history
  <2>2. d \notin excused /\ last[m] = d
    BY <2>1
  <2>3. ~Holds(task[t], d)
    BY <1>0, <2>1, <2>2, NotAccounted
  <2>4. Others(t) /\ ~Holds(task'[t], d)
    BY <2>1, <2>3 DEF Stays, Holds
  <2> QED
    BY <1>0, <2>1, <2>2, <2>3, <2>4, AccountedStays
<1>12. ASSUME NEW t \in Tasks, Queue(t) PROVE Accounted(d)' /\ UndoneByNow(d)'
  <2>1. /\ Grows /\ UNCHANGED <<rows, last, carried>> /\ task[t].answer = "off" /\ Ends(t)
        /\ excused' = excused \cup {task[t].id}
    BY <1>12, QueueMoves DEF history
  <2>2. d \notin excused /\ last[m] = d /\ excused \subseteq excused'
    BY <2>1
  <2>3. ~Holds(task[t], d)
    BY <1>0, <2>1, <2>2, NotAccounted
  <2>4. Others(t) /\ ~Holds(task'[t], d) /\ task'[t].undoing # d
    BY <2>1, <2>3, EndsHolds DEF Ends, Holds
  <2> QED
    BY <1>0, <2>1, <2>2, <2>3, <2>4, AccountedStays
<1>13. ASSUME NEW t \in Tasks, Done(t) PROVE Accounted(d)' /\ UndoneByNow(d)'
  <2>1. /\ Grows /\ UNCHANGED <<last, carried, excused>> /\ task[t].stage = "run"
             /\ task[t].answer = "ok" /\ Ends(t)
        /\ rows'[task[t].id].status = "applied" /\ task[t].stage # "idle"
        /\ task[t].undoing # None => rows'[task[t].undoing].status = "undone"
        /\ \A e \in Ids \ {task[t].id, task[t].undoing} : rows'[e].status = rows[e].status
    BY <1>13, DoneMoves DEF history
  <2>2. d \notin excused /\ last[m] = d
    BY <2>1
  <2>3. Others(t) /\ task'[t].undoing # d /\ (Holds(task'[t], d) => d \in task[t].pass)
    BY <2>1, EndsHolds DEF Ends
  <2>4. \A e \in Ids \ excused' : rows[e].status = "undone" => rows'[e].status = "undone"
    <3> SUFFICES ASSUME NEW e \in Ids \ excused',
                          rows[e].status = "undone" PROVE rows'[e].status = "undone"
      OBVIOUS
    <3>1. e # task[t].id
      BY <2>1 DEF OneAttempt, Single, HeldOnce, Holds
    <3> QED
      BY <2>1, <3>1, Constants
  <2>5. CASE task[t].id = d
    <3>1. Holds(task[t], d) /\ d \notin task[t].pass /\ rows[d].status \notin {"applied", "undone"}
      BY <1>0, <2>1, <2>2, <2>5, WorkingTask DEF Holds, Single, HeldOnce
    <3>2. \A u \in Tasks : ~Holds(task'[u], d) /\ task'[u].undoing # d
      <4>1. \A u \in Tasks \ {t} : ~Holds(task[u], d) /\ task[u].undoing # d
        BY <1>0, <2>2, <3>1 DEF Single, HeldOnce
      <4>2. \A u \in Tasks \ {t} : ~Holds(task'[u], d) /\ task'[u].undoing # d
        BY <2>3, <4>1, HoldsAlike
      <4> QED
        BY <2>3, <3>1, <4>2
    <3>3. rows'[d].status = "applied" /\ rows'[d].undoes = rows[d].undoes
      BY <1>0, <2>1, <2>2, <2>5 DEF Grows
    <3>4. rows[d].undoes # None => rows'[rows[d].undoes].status = "undone"
      BY <1>0, <2>1, <2>2, <3>1 DEF Single, HeldOnce
    <3>5. Explained(d)'
      BY <3>3, <3>4 DEF Explained
    <3> QED
      BY <1>0, <2>1, <2>2, <3>2, <3>5 DEF Accounted, UndoneByNow
  <2>6. CASE task[t].id # d
    <3>1. ~Holds(task[t], d)
      BY <1>0, <2>2, <2>6
    <3>2. ~Holds(task'[t], d)
      BY <2>3, <3>1 DEF Holds
    <3>3. task[t].undoing # d
      BY <1>0, <2>1, <2>2 DEF UndoneByNow
    <3>4. rows[d].status = "applied" => rows'[d].status = "applied"
      BY <2>1, <2>6, <3>3
    <3> QED
      BY <1>0, <2>1, <2>2, <2>3, <2>4, <3>1, <3>2, <3>4, AccountedStays
  <2> QED
    BY <2>5, <2>6
<1>14. \A t \in Clients : t \in Tasks
  BY DEF Tasks
<1> QED
  BY <1>1, <1>2, <1>3, <1>4, <1>5, <1>6, <1>7, <1>8, <1>9, <1>10, <1>11, <1>12, <1>13
     DEF Next, Answer, Resume, vars, Toggle

\* With nothing under way for a message, the ledger tells what moved it: the task that had
\* it carried out recorded it as applied, and what it undid as undone, whatever was
\* proposed, skipped, replayed or superseded since (apply_decision, undo_decision); but for
\* a decision that is excused, or recorded failed by a command that took effect.
THEOREM LedgerIsRight == Spec => []LedgerKnows
<1>1. Ty /\ OneAttempt /\ MovesAccounted => LedgerKnows
  <2> SUFFICES ASSUME Ty, OneAttempt, MovesAccounted, NEW m \in Messages, NEW d \in Ids,
                      last[m] = d, d \notin excused \cup unsure, Settled(m)
               PROVE  Explained(d)
    <3>1. Ty => \A n \in Messages : last[n] # None => last[n] \in Ids
      BY DEF Ty, StoreTypes
    <3> QED
      BY <3>1 DEF LedgerKnows
  <2>1. Accounted(d) /\ Single(d) /\ rows[d].message = m /\ d \in carried
    BY Constants DEF MovesAccounted, Moved, OneAttempt, Ty, StoreTypes, Accounted
  <2>2. \A t \in Tasks : Holds(task[t], d) => task[t].id = d /\ task[t].stage = "run"
    BY <2>1 DEF Single, AttemptedOnce, Underway
  <2>3. \A t \in Tasks : ~Holds(task[t], d)
    BY <2>1, <2>2 DEF Settled
  <2> QED
    BY <2>1, <2>3 DEF Accounted
<1> QED
  BY <1>1, InitTy, NextTy, InitSingle, NextSingle, InitMoved, NextMoved, PTL DEF Spec
================================================================================
