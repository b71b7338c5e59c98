-------------------------- MODULE ForgetEngineProofs --------------------------
(***************************************************************************)
(* What is proved of the forget engine, for any machines, clocks, subjects *)
(* and request threads, and any number of requests, failures and deaths.   *)
(***************************************************************************)
EXTENDS ForgetEngineProperties, ForgetIndexProofs

\* The stamps made so far are bounded, so the index of a machine always finds
\* the entry that decides a subject.
Bounded ==
    \E t \in Nat : /\ \A m, n \in Machines : \A e \in copy[m][n] : e.at <= t
                   /\ \A m \in Machines : \A r \in log[m] : r.at <= t

-----------------------------------------------------------------------------
(* The entry that decides a subject is one of those that were read.        *)

LEMMA WinnerWithin ==
  ASSUME NEW E \in SUBSET Entry, NEW t \in Nat, \A e \in E : e.at <= t, NEW s
  PROVE  /\ About(E, s) # {} => Winner(E, s) \in About(E, s)
         /\ About(E, s) = {} => Winner(E, s) = None
<1>. DEFINE V         == Verdicts(E, s)
            forgotten == {e \in V : e.state \in ForgottenStates}
            other     == V \ forgotten
<1>1. \A X \in SUBSET About(E, s) : X # {} => Best(X) \in X
  <2>. SUFFICES ASSUME NEW X \in SUBSET About(E, s), X # {} PROVE Best(X) \in X
    OBVIOUS
  <2>1. X \in SUBSET Entry /\ \A e \in X : e.at <= t
    BY DEF About
  <2>. QED
    BY <2>1, BestWins
<1>2. V \subseteq About(E, s)
  <2>. SUFFICES ASSUME NEW f \in {e.forget : e \in About(E, s)} \ Cancelled(E, s)
                PROVE  Best(Standing(E, s, f)) \in About(E, s)
    BY DEF Verdicts
  <2>1. PICK e \in About(E, s) : e.forget = f
    OBVIOUS
  <2>2. e \in Standing(E, s, f)
    BY <2>1, StandingForgets
  <2>3. Standing(E, s, f) \in SUBSET About(E, s)
    BY DEF Standing
  <2>. QED
    BY <1>1, <2>2, <2>3
<1>3. Readds(E, s) \in SUBSET About(E, s)
  BY DEF Readds
<1>4. ASSUME About(E, s) # {}, Readds(E, s) = {} PROVE V # {}
  BY <1>4 DEF Verdicts, Cancelled
<1>5. About(E, s) = {} => V = {}
  BY DEF Verdicts
<1>6. forgotten \in SUBSET About(E, s) /\ other \in SUBSET About(E, s)
  BY <1>2
<1>7. CASE forgotten # {}
  <2>1. Winner(E, s) = Best(forgotten)
    BY <1>7 DEF Winner
  <2>. QED
    BY <1>1, <1>5, <1>6, <1>7, <2>1
<1>8. CASE forgotten = {} /\ other # {}
  <2>1. Winner(E, s) = Best(other)
    BY <1>8 DEF Winner
  <2>. QED
    BY <1>1, <1>5, <1>6, <1>8, <2>1
<1>9. CASE forgotten = {} /\ other = {}
  <2>1. Winner(E, s) = IF Readds(E, s) # {} THEN Best(Readds(E, s)) ELSE None
    BY <1>9 DEF Winner
  <2>. QED
    BY <1>1, <1>3, <1>4, <1>9, <2>1
<1>. QED
  BY <1>7, <1>8, <1>9

LEMMA ViewTyped == TypeOK => \A m \in Machines : View(m) \in SUBSET Entry
  BY DEF TypeOK, View

\* latest() gives entries that were read, and so is what an ingest cancels.
LEMMA LatestWithin ==
  ASSUME TypeOK, Bounded, NEW m \in Machines
  PROVE  /\ Latest(m) \subseteq View(m)
         /\ \A s \in Subjects : StateOf(View(m), s) # "unknown" => Winner(View(m), s) \in About(View(m), s)
<1>1. PICK t \in Nat : \A n \in Machines : \A e \in copy[m][n] : e.at <= t
  BY DEF Bounded
<1>2. \A e \in View(m) : e.at <= t
  BY <1>1 DEF View
<1>3. \A s : About(View(m), s) \subseteq View(m)
  BY DEF About
<1>4. \A s : /\ About(View(m), s) # {} => Winner(View(m), s) \in About(View(m), s)
             /\ About(View(m), s) = {} => Winner(View(m), s) = None
  BY <1>2, ViewTyped, WinnerWithin
<1>. QED
  BY <1>3, <1>4 DEF Latest, StateOf

-----------------------------------------------------------------------------
(* Types. *)

Busy == {"hide", "mark", "unhide", "receipt", "erase", "tombstone", "record"}

\* A thread that handles a forget of the subject s.
Handling(t) == t \in Thread /\ Equipped(t) /\ t.f \in Forgets /\ t.s \in Subjects /\ t.as \in States

LEMMA LaneTyped ==
  ASSUME TypeOK, NEW l \in Lanes
  PROVE  /\ l[1] \in Machines
         /\ thread[l] \in Thread /\ Equipped(thread[l])
         /\ thread[l].pc \in Busy => Handling(thread[l])
         /\ thread[l].pc = "write" => thread[l].s \in Subjects
<1>1. thread[l] \in Thread /\ Equipped(thread[l])
  BY DEF TypeOK
<1>. QED
  BY <1>1 DEF Lanes, Busy, Handling, Equipped

LEMMA IdleTyped == Idle \in Thread /\ Equipped(Idle)
  BY EngineAssumption DEF Idle, Thread, Equipped, States, ForgottenStates

LEMMA HeadingTyped ==
  ASSUME NEW t, Handling(t), NEW pc \in Busy, NEW as \in States
  PROVE  /\ [t EXCEPT !.pc = pc] \in Thread /\ Equipped([t EXCEPT !.pc = pc])
         /\ [t EXCEPT !.pc = pc, !.as = as] \in Thread /\ Equipped([t EXCEPT !.pc = pc, !.as = as])
  BY DEF Handling, Busy, Thread, Equipped

LEMMA DoneTyped ==
  ASSUME NEW t \in Thread
  PROVE  Done(t) \in Thread /\ Equipped(Done(t))
<1>1. CASE t.op \in {"apply", "retry"}
  <2>. DEFINE u == [t EXCEPT !.pc = "next", !.f = None, !.s = None, !.as = "none"]
  <2>1. Done(t) = u
    BY <1>1 DEF Done
  <2>2. u \in Thread /\ u.pc = "next" /\ u.f = None /\ u.s = None /\ u.as = "none"
    BY DEF Thread
  <2>. QED
    BY <2>1, <2>2, EngineAssumption DEF Equipped, States, ForgottenStates
<1>2. CASE t.op \notin {"apply", "retry"}
  BY <1>2, IdleTyped DEF Done
<1>. QED
  BY <1>1, <1>2

LEMMA SettledTyped ==
  ASSUME NEW t, Handling(t), NEW o
  PROVE  Settled(t, o) \in Thread /\ Equipped(Settled(t, o))
<1>1. CASE o # "ok"
  BY <1>1, DoneTyped DEF Settled, Handling
<1>2. CASE o = "ok" /\ t.op = "apply"
  BY <1>2, HeadingTyped DEF Settled, Busy, States, ForgottenStates
<1>3. CASE o = "ok" /\ t.op # "apply"
  BY <1>3, HeadingTyped DEF Settled, Busy, States, ForgottenStates
<1>. QED
  BY <1>1, <1>2, <1>3

\* A lane that goes on to a thread of the type keeps the lanes typed.
Threads == thread \in [Lanes -> Thread] /\ \A l \in Lanes : Equipped(thread[l])

LEMMA GotoTyped ==
  ASSUME TypeOK, NEW l \in Lanes, NEW t \in Thread, Equipped(t), Goto(l, t)
  PROVE  Threads'
  BY DEF TypeOK, Threads, Goto

LEMMA NewTyped ==
  ASSUME TypeOK, appends < MaxAppends, NEW m \in Machines, NEW s \in Subjects, NEW st \in States
  PROVE  /\ NewId(s) \in Forgets
         /\ \A f \in Forgets : New(m, f, s, st) \in Entry
<1>1. appends \in Nat /\ appends + 1 \in 1..MaxAppends
  BY EngineAssumption DEF TypeOK
<1>2. 2 * (appends + 1) + Skew[m] \in Nat
  BY <1>1, EngineAssumption
<1>. QED
  BY <1>1, <1>2, EngineAssumption DEF NewId, New, Entry

\* The registry as an append leaves it.
LEMMA AppendTyped ==
  ASSUME TypeOK, NEW m \in Machines, NEW es \in SUBSET Entry, Append(m, es)
  PROVE  /\ copy' \in [Machines -> [Machines -> SUBSET Entry]]
         /\ receipts' \in [Machines -> SUBSET Forgets]
         /\ appends' \in 0..MaxAppends
  BY EngineAssumption DEF TypeOK, Append

LEMMA AppendBounded ==
  ASSUME TypeOK, Bounded, NEW m \in Machines, NEW es \in SUBSET Entry, Append(m, es),
         NEW u \in Nat, \A e \in es : e.at <= u,
         \A n \in Machines : \A r \in log'[n] : r \in log[n] \/ r.at \in 0..u
  PROVE  Bounded'
<1>1. PICK t \in Nat : /\ \A k, n \in Machines : \A e \in copy[k][n] : e.at <= t
                       /\ \A n \in Machines : \A r \in log[n] : r.at <= t
  BY DEF Bounded
<1>2. t + u \in Nat
  OBVIOUS
<1>3. \A k, n \in Machines : \A e \in copy'[k][n] : e.at <= t + u
  <2>. SUFFICES ASSUME NEW k \in Machines, NEW n \in Machines, NEW e \in copy'[k][n]
                PROVE  e.at <= t + u
    OBVIOUS
  <2>1. e \in copy[k][n] \/ e \in es
    BY DEF Append, TypeOK
  <2>2. e \in Entry
    BY <2>1 DEF TypeOK
  <2>3. e.at \in Nat /\ (e.at <= t \/ e.at <= u)
    BY <1>1, <2>1, <2>2 DEF Entry
  <2>. QED
    BY <2>3
<1>4. \A n \in Machines : \A r \in log'[n] : r.at <= t + u
  <2>. SUFFICES ASSUME NEW n \in Machines, NEW r \in log'[n]
                PROVE  r.at <= t + u
    OBVIOUS
  <2>1. CASE r \in log[n]
    <3>1. r.at \in Nat
      BY <2>1 DEF TypeOK
    <3>. QED
      BY <1>1, <2>1, <3>1
  <2>2. CASE r.at \in 0..u
    BY <2>2
  <2>. QED
    BY <2>1, <2>2
<1>. QED
  BY <1>2, <1>3, <1>4 DEF Bounded

-----------------------------------------------------------------------------
(* Requests keep the types and the bound. *)

LEMMA TrashTyped ==
  ASSUME TypeOK, Bounded, NEW l \in Lanes, NEW s \in Subjects, NEW op \in {"trash", "forget"},
         Trash(l, s, op)
  PROVE  TypeOK' /\ Bounded'
<1>. DEFINE m == l[1]
            e == New(m, NewId(s), s, "trashed")
            t == [pc |-> "hide", op |-> op, f |-> NewId(s), s |-> s, as |-> "trashed", todo |-> {}]
<1>1. m \in Machines /\ appends < MaxAppends /\ Append(m, {e}) /\ Goto(l, t)
  BY LaneTyped DEF Trash, Append, Begin
<1>2. NewId(s) \in Forgets /\ e \in Entry
  BY <1>1, NewTyped DEF States, ForgottenStates
<1>3. t \in Thread /\ Equipped(t)
  BY <1>2 DEF Thread, Equipped, States, ForgottenStates
<1>. HIDE DEF e, t, m
<1>4. Threads'
  BY <1>1, <1>3, GotoTyped
<1>5. Bounded'
  <2>1. e.at \in Nat /\ UNCHANGED log
    BY <1>2 DEF Entry, Trash
  <2>. QED
    BY <1>1, <1>2, <2>1, AppendBounded
<1>6. /\ asked' \subseteq Forgets
      /\ requests' \in 0..MaxRequests /\ failures' = failures /\ crashes' = crashes
  BY <1>2, EngineAssumption DEF Trash, Request, TypeOK
<1>7. UNCHANGED <<applied, log, stores>>
  BY DEF Trash
<1>. QED
  BY <1>1, <1>2, <1>4, <1>5, <1>6, <1>7, AppendTyped DEF TypeOK, Threads, stores

LEMMA RestoreTyped ==
  ASSUME TypeOK, Bounded, NEW l \in Lanes, NEW f \in Forgets, Restore(l, f)
  PROVE  TypeOK' /\ Bounded'
<1>. DEFINE t == [pc |-> "unhide", op |-> "restore", f |-> f, s |-> f[2], as |-> "restored", todo |-> {}]
<1>1. f[2] \in Subjects
  BY EngineAssumption
<1>2. t \in Thread /\ Equipped(t)
  BY <1>1 DEF Thread, Equipped, States, ForgottenStates
<1>3. Threads'
  <2>1. Goto(l, t)
    BY DEF Restore, Begin
  <2>. HIDE DEF t
  <2>. QED
    BY <1>2, <2>1, GotoTyped
<1>4. requests' \in 0..MaxRequests /\ failures' = failures /\ crashes' = crashes
  BY EngineAssumption DEF Restore, Request, TypeOK
<1>5. UNCHANGED <<sync, applied, log, stores, appends, asked>>
  BY DEF Restore
<1>. QED
  BY <1>3, <1>4, <1>5 DEF TypeOK, Threads, Bounded, sync, stores

LEMMA PurgeTyped ==
  ASSUME TypeOK, Bounded, NEW l \in Lanes, NEW f \in Forgets, Purge(l, f)
  PROVE  TypeOK' /\ Bounded'
<1>. DEFINE t == [pc |-> "receipt", op |-> "purge", f |-> f, s |-> f[2], as |-> "purged", todo |-> {}]
<1>1. f[2] \in Subjects
  BY EngineAssumption
<1>2. t \in Thread /\ Equipped(t)
  BY <1>1 DEF Thread, Equipped, States, ForgottenStates
<1>3. Threads'
  <2>1. Goto(l, t)
    BY DEF Purge, Begin
  <2>. HIDE DEF t
  <2>. QED
    BY <1>2, <2>1, GotoTyped
<1>4. /\ requests' \in 0..MaxRequests /\ failures' = failures /\ crashes' = crashes
      /\ asked' = asked \cup {f}
  BY EngineAssumption DEF Purge, Request, TypeOK
<1>5. UNCHANGED <<sync, applied, log, stores, appends>>
  BY DEF Purge
<1>. QED
  BY <1>3, <1>4, <1>5 DEF TypeOK, Threads, Bounded, sync, stores

LEMMA IngestTyped ==
  ASSUME TypeOK, Bounded, NEW l \in Lanes, NEW s \in Subjects, Ingest(l, s)
  PROVE  TypeOK' /\ Bounded'
<1>. DEFINE m  == l[1]
            t  == [pc |-> "write", op |-> "ingest", f |-> None, s |-> s, as |-> "none", todo |-> {}]
            fs == Live(View(m), s) \cup {Winner(View(m), s).forget}
            es == {New(m, f, s, "readded") : f \in fs}
<1>1. m \in Machines
  BY LaneTyped
<1>2. t \in Thread /\ Equipped(t)
  BY EngineAssumption DEF Thread, Equipped, States, ForgottenStates
<1>3. Threads'
  <2>1. Goto(l, t)
    BY DEF Ingest, Begin
  <2>. HIDE DEF t
  <2>. QED
    BY <1>2, <2>1, GotoTyped
<1>4. /\ requests' \in 0..MaxRequests /\ failures' = failures /\ crashes' = crashes
      /\ UNCHANGED <<applied, log, stores, asked>>
  BY EngineAssumption DEF Ingest, Request, TypeOK
<1>5. CASE UNCHANGED <<sync, appends>>
  BY <1>3, <1>4, <1>5 DEF TypeOK, Threads, Bounded, sync, stores
<1>6. CASE StateOf(View(m), s) \in ForgottenStates /\ Append(m, es)
  <2>1. StateOf(View(m), s) # "unknown"
    BY <1>6 DEF ForgottenStates
  <2>2. Winner(View(m), s) \in Entry
    BY <1>1, <2>1, LatestWithin, ViewTyped DEF About
  <2>3. fs \subseteq Forgets
    BY <2>2 DEF Entry, Live
  <2>4. appends < MaxAppends
    BY <1>6 DEF Append
  <2>5. es \in SUBSET Entry
    BY <1>1, <2>3, <2>4, NewTyped DEF States
  <2>6. \A e \in es : e.at = 2 * (appends + 1) + Skew[m]
    BY DEF New
  <2>7. 2 * (appends + 1) + Skew[m] \in Nat
    BY <1>1, EngineAssumption DEF TypeOK
  <2>. HIDE DEF es, fs, m
  <2>8. Bounded'
    <3>1. \A e \in es : e.at <= 2 * (appends + 1) + Skew[m]
      BY <2>6, <2>7
    <3>. QED
      BY <1>1, <1>4, <1>6, <2>5, <2>7, <3>1, AppendBounded
  <2>. QED
    BY <1>1, <1>3, <1>4, <1>6, <2>5, <2>8, AppendTyped DEF TypeOK, Threads, stores
<1>. QED
  BY <1>5, <1>6 DEF Ingest

-----------------------------------------------------------------------------
(* So do the steps of the adapter. *)

LEMMA WriteTyped ==
  ASSUME TypeOK, Bounded, NEW l \in Lanes, Write(l)
  PROVE  TypeOK' /\ Bounded'
<1>1. l[1] \in Machines /\ thread[l].s \in Subjects
  BY LaneTyped DEF Write, At
<1>2. Threads'
  BY IdleTyped, GotoTyped DEF Write
<1>3. /\ present' \in [Machines -> SUBSET Subjects]
      /\ rows' \in [Machines -> SUBSET Subjects]
      /\ archived' \in [Machines -> [Subjects -> Forgets \cup {None}]]
      /\ written' \in [Machines -> SUBSET Subjects]
  <2>1. CASE thread[l].s \in present[l[1]]
    BY <2>1 DEF Write, TypeOK, stores
  <2>2. CASE thread[l].s \notin present[l[1]]
    <3>. DEFINE m == l[1]
                s == thread[l].s
    <3>1. /\ present' = [present EXCEPT ![m] = @ \cup {s}]
          /\ rows' = [rows EXCEPT ![m] = @ \cup {s}]
          /\ archived' = [archived EXCEPT ![m][s] = None]
          /\ written' = [written EXCEPT ![m] = @ \cup {s}]
      BY <2>2 DEF Write
    <3>2. m \in Machines /\ s \in Subjects
      BY <1>1
    <3>. HIDE DEF m, s
    <3>. QED
      BY <3>1, <3>2 DEF TypeOK
  <2>. QED
    BY <2>1, <2>2
<1>4. UNCHANGED <<sync, applied, log, appends, counts, asked>>
  BY DEF Write
<1>. QED
  BY <1>2, <1>3, <1>4 DEF TypeOK, Threads, Bounded, sync, counts

LEMMA CallTyped ==
  ASSUME TypeOK, NEW o, Call(o)
  PROVE  failures' \in 0..MaxFailures /\ requests' = requests /\ crashes' = crashes
  BY EngineAssumption DEF TypeOK, Call

LEMMA HideTyped ==
  ASSUME TypeOK, Bounded, NEW l \in Lanes, NEW o, Hide(l, o)
  PROVE  TypeOK' /\ Bounded'
<1>. DEFINE t == thread[l]
            u == CASE o = "ok"                     -> [t EXCEPT !.pc = "mark"]
                   [] o # "ok" /\ t.op = "forget"  -> [t EXCEPT !.pc = "receipt", !.as = "purged"]
                   [] OTHER                        -> Done(t)
<1>1. l[1] \in Machines /\ Handling(t)
  BY LaneTyped DEF Hide, At, Busy
<1>2. u \in Thread /\ Equipped(u)
  <2>1. CASE o = "ok"
    BY <1>1, <2>1, HeadingTyped DEF Busy, States, ForgottenStates
  <2>2. CASE o # "ok" /\ t.op = "forget"
    <3>1. u = [t EXCEPT !.pc = "receipt", !.as = "purged"]
      BY <2>2
    <3>2. "receipt" \in Busy /\ "purged" \in States
      BY DEF Busy, States, ForgottenStates
    <3>3. /\ [t EXCEPT !.pc = "receipt", !.as = "purged"] \in Thread
          /\ Equipped([t EXCEPT !.pc = "receipt", !.as = "purged"])
      BY <1>1, <3>2, HeadingTyped
    <3>. QED
      BY <3>1, <3>3
  <2>3. CASE o # "ok" /\ t.op # "forget"
    BY <1>1, <2>3, DoneTyped DEF Handling
  <2>. QED
    BY <2>1, <2>2, <2>3
<1>3. Threads'
  <2>1. Goto(l, u)
    BY DEF Hide
  <2>. HIDE DEF u
  <2>. QED
    BY <1>2, <2>1, GotoTyped
<1>4. archived' \in [Machines -> [Subjects -> Forgets \cup {None}]]
  BY <1>1 DEF Hide, TypeOK, Handling
<1>5. UNCHANGED <<sync, applied, log, present, rows, written, appends, asked>> /\ Call(o)
  BY DEF Hide
<1>. QED
  BY <1>3, <1>4, <1>5, CallTyped DEF TypeOK, Threads, Bounded, sync

LEMMA UnhideTyped ==
  ASSUME TypeOK, Bounded, NEW l \in Lanes, NEW o, Unhide(l, o)
  PROVE  TypeOK' /\ Bounded'
<1>1. l[1] \in Machines /\ Handling(thread[l])
  BY LaneTyped DEF Unhide, At, Busy
<1>2. Threads'
  <2>1. Goto(l, Settled(thread[l], o))
    BY DEF Unhide
  <2>. QED
    BY <1>1, <2>1, SettledTyped, GotoTyped
<1>3. archived' \in [Machines -> [Subjects -> Forgets \cup {None}]]
  BY <1>1 DEF Unhide, TypeOK, Handling
<1>4. UNCHANGED <<sync, applied, log, present, rows, written, appends, asked>> /\ Call(o)
  BY DEF Unhide
<1>. QED
  BY <1>2, <1>3, <1>4, CallTyped DEF TypeOK, Threads, Bounded, sync

LEMMA ReceiptTyped ==
  ASSUME TypeOK, Bounded, NEW l \in Lanes, Receipt(l)
  PROVE  TypeOK' /\ Bounded'
<1>1. l[1] \in Machines /\ Handling(thread[l])
  BY LaneTyped DEF Receipt, At, Busy
<1>2. Threads'
  <2>1. Goto(l, [thread[l] EXCEPT !.pc = "erase"])
    BY DEF Receipt
  <2>. QED
    BY <1>1, <2>1, HeadingTyped, GotoTyped DEF Busy, States, ForgottenStates
<1>3. receipts' \in [Machines -> SUBSET Forgets]
  BY <1>1 DEF Receipt, TypeOK, Handling
<1>4. UNCHANGED <<copy, applied, log, stores, appends, counts, asked>>
  BY DEF Receipt
<1>. QED
  BY <1>2, <1>3, <1>4 DEF TypeOK, Threads, Bounded, stores, counts

LEMMA EraseTyped ==
  ASSUME TypeOK, Bounded, NEW l \in Lanes, NEW o, Erase(l, o)
  PROVE  TypeOK' /\ Bounded'
<1>. DEFINE t == thread[l]
            u == IF t.s \in present[l[1]] /\ o = "ok" THEN [t EXCEPT !.pc = "tombstone"] ELSE Settled(t, o)
<1>1. l[1] \in Machines /\ Handling(t)
  BY LaneTyped DEF Erase, At, Busy
<1>2. u \in Thread /\ Equipped(u)
  BY <1>1, SettledTyped, HeadingTyped DEF Busy, States, ForgottenStates
<1>3. Threads'
  <2>1. Goto(l, u)
    BY DEF Erase
  <2>. HIDE DEF u
  <2>. QED
    BY <1>2, <2>1, GotoTyped
<1>4. /\ present' \in [Machines -> SUBSET Subjects]
      /\ archived' \in [Machines -> [Subjects -> Forgets \cup {None}]]
  BY <1>1 DEF Erase, TypeOK, Handling
<1>5. UNCHANGED <<sync, applied, log, rows, written, appends, asked>> /\ Call(o)
  BY DEF Erase
<1>. QED
  BY <1>3, <1>4, <1>5, CallTyped DEF TypeOK, Threads, Bounded, sync

LEMMA RemoveRestTyped ==
  ASSUME TypeOK, Bounded, NEW l \in Lanes, NEW o, NEW recorded \in BOOLEAN, NEW removed \in BOOLEAN,
         RemoveRest(l, recorded, removed, o)
  PROVE  TypeOK' /\ Bounded'
<1>. DEFINE m == l[1]
            t == thread[l]
            e == New(m, NewId(t.s), t.s, "purged")
            faults == (IF recorded THEN 0 ELSE 1) + (IF removed THEN 0 ELSE 1)
                        + (IF o = "ok" THEN 0 ELSE 1)
<1>1. m \in Machines /\ Handling(t) /\ t.s \in Subjects
  BY LaneTyped DEF RemoveRest, At, Busy, Handling
<1>2. Threads'
  <2>1. Goto(l, Settled(t, o))
    BY DEF RemoveRest
  <2>. QED
    BY <1>1, <2>1, SettledTyped, GotoTyped
<1>3. failures' \in 0..MaxFailures /\ requests' = requests /\ crashes' = crashes
  <2>1. faults \in Nat /\ failures + faults <= MaxFailures /\ failures' = failures + faults
    BY DEF RemoveRest
  <2>. HIDE DEF faults
  <2>2. failures \in Nat /\ MaxFailures \in Nat
    BY EngineAssumption DEF TypeOK
  <2>3. requests' = requests /\ crashes' = crashes
    BY DEF RemoveRest
  <2>. QED
    BY <2>1, <2>2, <2>3
<1>4. e.at \in Nat
  BY <1>1, EngineAssumption DEF TypeOK, New
<1>5. log' = [log EXCEPT ![m] = @ \cup {[subject |-> t.s, at |-> e.at]}]
  BY DEF RemoveRest
<1>6. rows' \in [Machines -> SUBSET Subjects]
  <2>1. rows' = IF removed THEN [rows EXCEPT ![m] = @ \ {t.s}] ELSE rows
    BY DEF RemoveRest
  <2>. QED
    BY <1>1, <2>1 DEF TypeOK
<1>7. UNCHANGED <<applied, present, archived, written, asked>>
  BY DEF RemoveRest
<1>8. IF recorded THEN Append(m, {e}) ELSE UNCHANGED <<sync, appends>>
  BY DEF RemoveRest
<1>9. recorded => e \in Entry
  BY <1>1, <1>8, NewTyped DEF Append, States, ForgottenStates
<1>. HIDE DEF e, m, t
<1>10. log' \in [Machines -> SUBSET [subject : Subjects, at : Nat]]
  BY <1>1, <1>4, <1>5 DEF TypeOK
<1>11. \A n \in Machines : \A r \in log'[n] : r \in log[n] \/ r.at \in 0..(e.at)
  BY <1>1, <1>4, <1>5 DEF TypeOK
<1>12. CASE recorded
  <2>1. Append(m, {e}) /\ e \in Entry
    BY <1>8, <1>9, <1>12
  <2>2. Bounded'
    BY <1>1, <1>4, <1>11, <2>1, AppendBounded
  <2>. QED
    BY <1>1, <1>2, <1>3, <1>6, <1>7, <1>10, <2>1, <2>2, AppendTyped DEF TypeOK, Threads
<1>13. CASE ~recorded
  <2>1. UNCHANGED <<copy, receipts, appends>>
    BY <1>8, <1>13 DEF sync
  <2>2. Bounded'
    <3>1. PICK u \in Nat : /\ \A k, n \in Machines : \A x \in copy[k][n] : x.at <= u
                           /\ \A n \in Machines : \A r \in log[n] : r.at <= u
      BY DEF Bounded
    <3>2. \A k, n \in Machines : \A x \in copy'[k][n] : x.at <= u + e.at
      <4>1. \A k, n \in Machines : \A x \in copy[k][n] : x.at \in Nat
        BY DEF TypeOK, Entry
      <4>. QED
        BY <1>4, <2>1, <3>1, <4>1
    <3>3. \A n \in Machines : \A r \in log'[n] : r.at <= u + e.at
      <4>1. \A n \in Machines : \A r \in log[n] : r.at \in Nat
        BY DEF TypeOK
      <4>. QED
        BY <1>4, <1>11, <3>1, <4>1
    <3>4. u + e.at \in Nat
      BY <1>4
    <3>. QED
      BY <3>2, <3>3, <3>4 DEF Bounded
  <2>. QED
    BY <1>2, <1>3, <1>6, <1>7, <1>10, <2>1, <2>2 DEF TypeOK, Threads
<1>. QED
  BY <1>12, <1>13

LEMMA RecordTyped ==
  ASSUME TypeOK, Bounded, NEW l \in Lanes, Record(l)
  PROVE  TypeOK' /\ Bounded'
<1>. DEFINE m == l[1]
            t == thread[l]
            e == New(m, t.f, t.s, t.as)
<1>1. m \in Machines /\ Handling(t) /\ t.s \in Subjects /\ t.f \in Forgets
  BY LaneTyped DEF Record, At, Busy, Handling
<1>2. appends < MaxAppends /\ Append(m, {e}) /\ Goto(l, [t EXCEPT !.pc = "mark"])
  BY DEF Record, Append
<1>3. Threads'
  BY <1>1, <1>2, HeadingTyped, GotoTyped DEF Busy, States, ForgottenStates
<1>4. UNCHANGED <<applied, log, stores, counts, asked>>
  BY DEF Record
<1>5. t.as \in States
  BY <1>1 DEF Handling
<1>6. e \in Entry /\ e.at \in Nat
  BY <1>1, <1>2, <1>5, NewTyped DEF Entry
<1>. HIDE DEF e, m, t
<1>7. Bounded'
  BY <1>1, <1>2, <1>4, <1>6, AppendBounded
<1>. QED
  BY <1>1, <1>2, <1>3, <1>4, <1>6, <1>7, AppendTyped DEF TypeOK, Threads, stores, counts

LEMMA MarkTyped ==
  ASSUME TypeOK, Bounded, NEW l \in Lanes, Mark(l)
  PROVE  TypeOK' /\ Bounded'
<1>. DEFINE t == thread[l]
            u == IF t.op = "forget" /\ t.as = "trashed" THEN [t EXCEPT !.pc = "receipt", !.as = "purged"]
                 ELSE Done(t)
<1>1. l[1] \in Machines /\ Handling(t)
  BY LaneTyped DEF Mark, At, Busy
<1>2. u \in Thread /\ Equipped(u)
  BY <1>1, HeadingTyped, DoneTyped DEF Busy, States, ForgottenStates, Handling
<1>3. Threads'
  <2>1. Goto(l, u)
    BY DEF Mark
  <2>. HIDE DEF u
  <2>. QED
    BY <1>2, <2>1, GotoTyped
<1>4. UNCHANGED <<sync, log, stores, appends, counts, asked>>
  BY DEF Mark
<1>5. applied' \in [Machines -> SUBSET (Forgets \X Subjects \X States)]
  <2>1. <<t.f, t.s, t.as>> \in Forgets \X Subjects \X States
    BY <1>1 DEF Handling
  <2>2. applied' = [applied EXCEPT ![l[1]] = @ \cup {<<t.f, t.s, t.as>>}]
    BY DEF Mark
  <2>. HIDE DEF t
  <2>. QED
    BY <1>1, <2>1, <2>2 DEF TypeOK
<1>. QED
  BY <1>3, <1>4, <1>5 DEF TypeOK, Threads, Bounded, sync, stores, counts

-----------------------------------------------------------------------------
(* So do the maintenance job, the folder and the death of a process. *)

LEMMA JobLane == \A m \in Machines : Job(m) \in Lanes /\ Job(m)[1] = m
  BY DEF Job, Lanes

LEMMA MigrateTyped ==
  ASSUME TypeOK, Bounded, NEW m \in Machines, Migrate(m)
  PROVE  TypeOK' /\ Bounded'
<1>. DEFINE es == {[New(m, NewId(r.subject), r.subject, "purged") EXCEPT !.at = r.at] : r \in Unrecorded(m)}
<1>1. \A r \in Unrecorded(m) : r \in log[m] /\ r.subject \in Subjects /\ r.at \in Nat
  BY DEF Unrecorded, TypeOK
<1>2. appends < MaxAppends /\ Append(m, es) /\ Goto(Job(m), [Idle EXCEPT !.pc = "list"])
  BY DEF Migrate, Append
<1>3. es \in SUBSET Entry
  <2>. SUFFICES ASSUME NEW r \in Unrecorded(m)
                PROVE  [New(m, NewId(r.subject), r.subject, "purged") EXCEPT !.at = r.at] \in Entry
    OBVIOUS
  <2>1. New(m, NewId(r.subject), r.subject, "purged") \in Entry
    BY <1>1, <1>2, NewTyped DEF States, ForgottenStates
  <2>. QED
    BY <1>1, <2>1 DEF Entry
<1>4. Threads'
  <2>1. [Idle EXCEPT !.pc = "list"] \in Thread /\ Equipped([Idle EXCEPT !.pc = "list"])
    BY EngineAssumption DEF Idle, Thread, Equipped, States, ForgottenStates
  <2>. QED
    BY <1>2, <2>1, JobLane, GotoTyped
<1>5. PICK u \in Nat : \A n \in Machines : \A r \in log[n] : r.at <= u
  BY DEF Bounded
<1>6. \A e \in es : e.at <= u
  <2>. SUFFICES ASSUME NEW r \in Unrecorded(m)
                PROVE  [New(m, NewId(r.subject), r.subject, "purged") EXCEPT !.at = r.at].at <= u
    OBVIOUS
  <2>. QED
    BY <1>1, <1>5 DEF New
<1>7. UNCHANGED <<applied, log, stores, counts, asked>>
  BY DEF Migrate
<1>. HIDE DEF es
<1>8. Bounded'
  BY <1>2, <1>3, <1>6, <1>7, AppendBounded
<1>. QED
  BY <1>2, <1>3, <1>4, <1>7, <1>8, AppendTyped DEF TypeOK, Threads, stores, counts

\* What the job looks at has been read.
LEMMA TodoTyped ==
  ASSUME TypeOK, Bounded, NEW m \in Machines
  PROVE  Stale(m) \in SUBSET Entry /\ Started(m) \in SUBSET Entry
  BY LatestWithin, ViewTyped DEF Stale, Started

LEMMA JobGotoTyped ==
  ASSUME TypeOK, Bounded, NEW m \in Machines, NEW t \in Thread, Equipped(t), Goto(Job(m), t),
         UNCHANGED <<sync, applied, log, stores, appends, counts, asked>>
  PROVE  TypeOK' /\ Bounded'
<1>1. Threads'
  BY JobLane, GotoTyped
<1>. QED
  BY <1>1 DEF TypeOK, Threads, Bounded, sync, stores, counts

LEMMA WaitingTyped ==
  ASSUME NEW op \in {"apply", "retry"}, NEW todo \in SUBSET Entry
  PROVE  LET t == [Idle EXCEPT !.pc = "next", !.op = op, !.todo = todo] IN t \in Thread /\ Equipped(t)
  BY EngineAssumption DEF Idle, Thread, Equipped, States, ForgottenStates

LEMMA MaintainTyped ==
  ASSUME TypeOK, Bounded, NEW m \in Machines, Maintain(m)
  PROVE  TypeOK' /\ Bounded'
<1>1. CASE Migrate(m)
  BY <1>1, MigrateTyped
<1>2. CASE List(m)
  <2>1. /\ Goto(Job(m), [Idle EXCEPT !.pc = "next", !.op = "apply", !.todo = Stale(m)])
        /\ UNCHANGED <<sync, applied, log, stores, appends, counts, asked>>
    BY <1>2 DEF List
  <2>. QED
    BY <2>1, TodoTyped, WaitingTyped, JobGotoTyped
<1>3. CASE ListStarted(m)
  <2>. DEFINE t == IF Started(m) = {} THEN Idle
                   ELSE [Idle EXCEPT !.pc = "next", !.op = "retry", !.todo = Started(m)]
  <2>1. Goto(Job(m), t) /\ UNCHANGED <<sync, applied, log, stores, appends, counts, asked>>
    BY <1>3 DEF ListStarted
  <2>2. t \in Thread /\ Equipped(t)
    BY TodoTyped, WaitingTyped, IdleTyped
  <2>. HIDE DEF t
  <2>. QED
    BY <2>1, <2>2, JobGotoTyped
<1>4. CASE Finish(m)
  BY <1>4, IdleTyped, JobGotoTyped DEF Finish
<1>5. ASSUME NEW e \in thread[Job(m)].todo, ApplyOne(m, e)
      PROVE  TypeOK' /\ Bounded'
  <2>. DEFINE t == [pc |-> StepFor(e), op |-> "apply", f |-> e.forget, s |-> e.subject, as |-> e.state,
                    todo |-> thread[Job(m)].todo \ {e}]
  <2>1. Goto(Job(m), t) /\ UNCHANGED <<sync, applied, log, stores, appends, counts, asked>>
    BY <1>5 DEF ApplyOne
  <2>2. thread[Job(m)].todo \in SUBSET Entry /\ e \in Entry
    BY JobLane, LaneTyped DEF Thread
  <2>3. StepFor(e) \in {"hide", "unhide", "mark", "erase"}
    BY <2>2 DEF StepFor, Entry, States, ForgottenStates
  <2>4. t \in Thread /\ Equipped(t)
    BY <2>2, <2>3 DEF Thread, Equipped, Entry
  <2>. HIDE DEF t
  <2>. QED
    BY <2>1, <2>4, JobGotoTyped
<1>6. ASSUME NEW e \in thread[Job(m)].todo, RetryOne(m, e)
      PROVE  TypeOK' /\ Bounded'
  <2>. DEFINE t == [pc |-> "receipt", op |-> "retry", f |-> e.forget, s |-> e.subject, as |-> "purged",
                    todo |-> thread[Job(m)].todo \ {e}]
  <2>1. Goto(Job(m), t) /\ UNCHANGED <<sync, applied, log, stores, appends, counts, asked>>
    BY <1>6 DEF RetryOne
  <2>2. thread[Job(m)].todo \in SUBSET Entry /\ e \in Entry
    BY JobLane, LaneTyped DEF Thread
  <2>3. t \in Thread /\ Equipped(t)
    BY <2>2 DEF Thread, Equipped, Entry, States, ForgottenStates
  <2>. HIDE DEF t
  <2>. QED
    BY <2>1, <2>3, JobGotoTyped
<1>. QED
  BY <1>1, <1>2, <1>3, <1>4, <1>5, <1>6 DEF Maintain

LEMMA FolderTyped ==
  ASSUME TypeOK, Bounded, NEW m \in Machines, NEW n \in Machines,
         Deliver(m, n) \/ DeliverReceipts(m, n)
  PROVE  TypeOK' /\ Bounded'
<1>1. CASE Deliver(m, n)
  <2>1. /\ copy' = [copy EXCEPT ![m][n] = copy[n][n]]
        /\ UNCHANGED <<receipts, applied, log, stores, thread, appends, counts, asked>>
    BY <1>1 DEF Deliver
  <2>2. copy' \in [Machines -> [Machines -> SUBSET Entry]]
    BY <2>1 DEF TypeOK
  <2>3. Bounded'
    <3>1. PICK t \in Nat : /\ \A k, j \in Machines : \A e \in copy[k][j] : e.at <= t
                           /\ \A j \in Machines : \A r \in log[j] : r.at <= t
      BY DEF Bounded
    <3>2. \A k, j \in Machines : copy'[k][j] = copy[k][j] \/ copy'[k][j] = copy[n][n]
      BY <2>1 DEF TypeOK
    <3>3. /\ \A k, j \in Machines : \A e \in copy'[k][j] : e.at <= t
          /\ \A j \in Machines : \A r \in log'[j] : r.at <= t
      BY <2>1, <3>1, <3>2
    <3>. QED
      BY <3>3 DEF Bounded
  <2>. QED
    BY <2>1, <2>2, <2>3 DEF TypeOK, stores, counts
<1>2. CASE DeliverReceipts(m, n)
  BY <1>2 DEF DeliverReceipts, TypeOK, Bounded, stores, counts
<1>. QED
  BY <1>1, <1>2

LEMMA CrashTyped ==
  ASSUME TypeOK, Bounded, NEW m \in Machines, Crash(m)
  PROVE  TypeOK' /\ Bounded'
<1>1. Threads'
  BY IdleTyped DEF Crash, Threads, TypeOK
<1>2. crashes' \in 0..MaxCrashes
  BY EngineAssumption DEF Crash, TypeOK
<1>3. UNCHANGED <<sync, applied, log, stores, appends, requests, failures, asked>>
  BY DEF Crash
<1>. QED
  BY <1>1, <1>2, <1>3 DEF TypeOK, Threads, Bounded, sync, stores

LEMMA TypesStep == TypeOK /\ Bounded /\ [Next]_vars => (TypeOK /\ Bounded)'
<1>. SUFFICES ASSUME TypeOK, Bounded, [Next]_vars PROVE TypeOK' /\ Bounded'
  OBVIOUS
<1>1. ASSUME NEW l \in Lanes, Continue(l)
      PROVE  TypeOK' /\ Bounded'
  <2>1. ASSUME NEW o \in Outcomes, Hide(l, o) PROVE TypeOK' /\ Bounded'
    BY <2>1, HideTyped
  <2>2. ASSUME NEW o \in Outcomes, Unhide(l, o) PROVE TypeOK' /\ Bounded'
    BY <2>2, UnhideTyped
  <2>3. ASSUME NEW o \in Outcomes, Erase(l, o) PROVE TypeOK' /\ Bounded'
    BY <2>3, EraseTyped
  <2>4. ASSUME NEW o \in Outcomes, NEW recorded \in BOOLEAN, NEW removed \in BOOLEAN,
               RemoveRest(l, recorded, removed, o)
        PROVE  TypeOK' /\ Bounded'
    BY <2>4, RemoveRestTyped
  <2>. QED
    BY <1>1, <2>1, <2>2, <2>3, <2>4, WriteTyped, ReceiptTyped, RecordTyped, MarkTyped DEF Continue
<1>2. ASSUME NEW l \in Lanes, NEW s \in Subjects,
             Ingest(l, s) \/ \E op \in {"trash", "forget"} : Trash(l, s, op)
      PROVE  TypeOK' /\ Bounded'
  BY <1>2, IngestTyped, TrashTyped
<1>3. ASSUME NEW l \in Lanes, NEW f \in Forgets, Restore(l, f) \/ Purge(l, f)
      PROVE  TypeOK' /\ Bounded'
  BY <1>3, RestoreTyped, PurgeTyped
<1>4. CASE UNCHANGED vars
  BY <1>4 DEF vars, TypeOK, Bounded, sync, stores, counts
<1>. QED
  BY <1>1, <1>2, <1>3, <1>4, MaintainTyped, FolderTyped, CrashTyped DEF Next, Progress

LEMMA TypesInit == Init => TypeOK /\ Bounded
<1>. SUFFICES ASSUME Init PROVE TypeOK /\ Bounded
  OBVIOUS
<1>1. Bounded
  BY DEF Init, Bounded
<1>2. thread \in [Lanes -> Thread] /\ \A l \in Lanes : Equipped(thread[l])
  BY IdleTyped DEF Init
<1>. QED
  BY <1>1, <1>2, EngineAssumption DEF Init, TypeOK

\* Every variable keeps its type, whatever people ask for and whatever fails:
\* a thread knows the forget and the subject it handles at every point, also
\* when latest() chose them (trash, restore, _purge_subjects, apply_remote).
THEOREM EngineTypes == Spec => []TypeOK
<1>1. Spec => [](TypeOK /\ Bounded)
  BY TypesInit, TypesStep, PTL DEF Spec
<1>. QED
  BY <1>1, PTL

-----------------------------------------------------------------------------
(* Nothing is erased that nobody asked to erase.                           *)

AskedFor(s, A) == \E f \in A : f[2] = s

\* What is recorded about a forget is about its subject, and a purge was asked
\* for.
Warranted(e, A) ==
    /\ e.forget[2] = e.subject
    /\ e.state = "purged" => AskedFor(e.subject, A)

\* What a thread is about to do is within what was asked for.
Licensed(t, A) ==
    /\ t.pc \in Busy => t.f[2] = t.s
    /\ t.pc \in {"erase", "tombstone", "receipt"} => t.as = "purged"
    /\ t.pc = "unhide" => t.as = "restored"
    /\ t.pc = "hide" => t.as = "trashed"
    /\ t.pc \in Busy /\ t.as = "purged" => AskedFor(t.s, A)
    /\ t.pc = "receipt" => t.f \in A
    /\ t.pc \in Busy /\ t.op = "forget" => t.f \in A
    /\ \A e \in t.todo : /\ Warranted(e, A) \/ t.op \notin {"apply", "retry"}
                         /\ t.op = "retry" => e.forget \in A

Authorized ==
    /\ \A m, n \in Machines : \A e \in copy[m][n] : Warranted(e, asked)
    /\ \A m \in Machines : receipts[m] \subseteq asked
    /\ \A m \in Machines : \A r \in log[m] : AskedFor(r.subject, asked)
    /\ \A l \in Lanes : Licensed(thread[l], asked)

LEMMA AskedForever ==
  ASSUME NEW A, NEW B, A \subseteq B
  PROVE  /\ \A s : AskedFor(s, A) => AskedFor(s, B)
         /\ \A e : Warranted(e, A) => Warranted(e, B)
         /\ \A t : Licensed(t, A) => Licensed(t, B)
<1>1. \A s : AskedFor(s, A) => AskedFor(s, B)
  BY DEF AskedFor
<1>2. \A e : Warranted(e, A) => Warranted(e, B)
  BY <1>1 DEF Warranted
<1>3. \A t : Licensed(t, A) => Licensed(t, B)
  BY <1>1, <1>2 DEF Licensed
<1>. QED
  BY <1>1, <1>2, <1>3

\* A step keeps to what was asked for when everything it adds does.
LEMMA AuthorizedKept ==
  ASSUME Authorized, asked \subseteq asked',
         \A m, n \in Machines : \A e \in copy'[m][n] :
             (\E k, j \in Machines : e \in copy[k][j]) \/ Warranted(e, asked'),
         \A m \in Machines : \A f \in receipts'[m] :
             (\E n \in Machines : f \in receipts[n]) \/ f \in asked',
         \A m \in Machines : \A r \in log'[m] : r \in log[m] \/ AskedFor(r.subject, asked'),
         \A l \in Lanes : thread'[l] = thread[l] \/ Licensed(thread'[l], asked')
  PROVE  Authorized'
<1>1. \A m, n \in Machines : \A e \in copy'[m][n] : Warranted(e, asked')
  BY AskedForever DEF Authorized
<1>2. \A m \in Machines : receipts'[m] \subseteq asked'
  BY DEF Authorized
<1>3. \A m \in Machines : \A r \in log'[m] : AskedFor(r.subject, asked')
  BY AskedForever DEF Authorized
<1>4. \A l \in Lanes : Licensed(thread'[l], asked')
  <2>. SUFFICES ASSUME NEW l \in Lanes PROVE Licensed(thread'[l], asked')
    OBVIOUS
  <2>1. Licensed(thread[l], asked')
    BY AskedForever DEF Authorized
  <2>. QED
    BY <2>1
<1>. QED
  BY <1>1, <1>2, <1>3, <1>4 DEF Authorized

LEMMA GotoLicensed ==
  ASSUME TypeOK, NEW l \in Lanes, NEW t, Goto(l, t), Licensed(t, asked')
  PROVE  \A k \in Lanes : thread'[k] = thread[k] \/ Licensed(thread'[k], asked')
  BY DEF TypeOK, Goto

LEMMA AppendWarranted ==
  ASSUME TypeOK, NEW m \in Machines, NEW es, Append(m, es), \A e \in es : Warranted(e, asked')
  PROVE  /\ \A k, n \in Machines : \A e \in copy'[k][n] :
                (\E i, j \in Machines : e \in copy[i][j]) \/ Warranted(e, asked')
         /\ receipts' = receipts
<1>1. \A k, n \in Machines : \A e \in copy'[k][n] : e \in copy[k][n] \/ e \in es
  BY DEF TypeOK, Append
<1>. QED
  BY <1>1 DEF Append

LEMMA IdleLicensed == \A A : Licensed(Idle, A)
  BY DEF Licensed, Idle, Busy

LEMMA DoneLicensed ==
  ASSUME NEW t \in Thread, NEW A, Licensed(t, A)
  PROVE  Licensed(Done(t), A)
<1>1. CASE t.op \in {"apply", "retry"}
  <2>. DEFINE u == [t EXCEPT !.pc = "next", !.f = None, !.s = None, !.as = "none"]
  <2>1. Done(t) = u
    BY <1>1 DEF Done
  <2>2. u.pc = "next" /\ u.op = t.op /\ u.todo = t.todo
    BY DEF Thread
  <2>. HIDE DEF u
  <2>. QED
    BY <2>1, <2>2 DEF Licensed, Busy
<1>2. CASE t.op \notin {"apply", "retry"}
  BY <1>2, IdleLicensed DEF Done
<1>. QED
  BY <1>1, <1>2

\* Going on with the same forget keeps the license, as long as the step ahead
\* is one of its own.
LEMMA HeadingLicensed ==
  ASSUME NEW t \in Thread, NEW A, Licensed(t, A), t.pc \in Busy,
         NEW pc \in {"mark", "record", "erase", "tombstone"},
         pc \in {"erase", "tombstone"} => t.as = "purged"
  PROVE  Licensed([t EXCEPT !.pc = pc], A)
<1>. DEFINE u == [t EXCEPT !.pc = pc]
<1>1. u.pc = pc /\ u.op = t.op /\ u.f = t.f /\ u.s = t.s /\ u.as = t.as /\ u.todo = t.todo
  BY DEF Thread
<1>. HIDE DEF u
<1>. QED
  BY <1>1 DEF Licensed, Busy

LEMMA SettledLicensed ==
  ASSUME NEW t \in Thread, NEW A, Licensed(t, A), t.pc \in Busy, NEW o
  PROVE  Licensed(Settled(t, o), A)
<1>1. CASE o # "ok"
  BY <1>1, DoneLicensed DEF Settled
<1>2. CASE o = "ok" /\ t.op = "apply"
  BY <1>2, HeadingLicensed DEF Settled
<1>3. CASE o = "ok" /\ t.op # "apply"
  BY <1>3, HeadingLicensed DEF Settled
<1>. QED
  BY <1>1, <1>2, <1>3

\* A permanent forget goes on from hiding to purging.
LEMMA PurgingLicensed ==
  ASSUME NEW t \in Thread, NEW A, Licensed(t, A), t.pc \in Busy, t.op = "forget"
  PROVE  Licensed([t EXCEPT !.pc = "receipt", !.as = "purged"], A)
<1>. DEFINE u == [t EXCEPT !.pc = "receipt", !.as = "purged"]
<1>1. /\ u.pc = "receipt" /\ u.op = "forget" /\ u.f = t.f /\ u.s = t.s /\ u.as = "purged"
      /\ u.todo = t.todo
  BY DEF Thread
<1>. HIDE DEF u
<1>2. AskedFor(t.s, A)
  BY DEF Licensed, AskedFor
<1>. QED
  BY <1>1, <1>2 DEF Licensed, Busy

\* A step that only moves one lane on.
LEMMA MoveAuthorized ==
  ASSUME TypeOK, Authorized, NEW l \in Lanes, NEW t, Goto(l, t), Licensed(t, asked'),
         UNCHANGED <<copy, receipts, log>>, asked \subseteq asked'
  PROVE  Authorized'
<1>1. \A k \in Lanes : thread'[k] = thread[k] \/ Licensed(thread'[k], asked')
  BY GotoLicensed
<1>. QED
  BY <1>1, AuthorizedKept

LEMMA SubjectRequestAuthorized ==
  ASSUME TypeOK, Bounded, Authorized, NEW l \in Lanes, NEW s \in Subjects,
         Ingest(l, s) \/ \E op \in {"trash", "forget"} : Trash(l, s, op)
  PROVE  Authorized'
<1>1. ASSUME NEW op \in {"trash", "forget"}, Trash(l, s, op)
      PROVE  Authorized'
  <2>. DEFINE m == l[1]
              t == [pc |-> "hide", op |-> op, f |-> NewId(s), s |-> s, as |-> "trashed", todo |-> {}]
              es == {New(m, NewId(s), s, "trashed")}
  <2>1. m \in Machines /\ Append(m, es) /\ Goto(l, t) /\ UNCHANGED log
    BY <1>1, LaneTyped DEF Trash, Begin
  <2>2. asked \subseteq asked' /\ (op = "forget" => NewId(s) \in asked')
    BY <1>1 DEF Trash
  <2>3. Licensed(t, asked')
    BY <2>2 DEF Licensed, Busy, NewId
  <2>4. \A e \in es : Warranted(e, asked')
    BY DEF Warranted, New, NewId
  <2>. HIDE DEF es, t, m
  <2>5. \A k \in Lanes : thread'[k] = thread[k] \/ Licensed(thread'[k], asked')
    BY <2>1, <2>3, GotoLicensed
  <2>6. /\ \A k, n \in Machines : \A e \in copy'[k][n] :
               (\E i, j \in Machines : e \in copy[i][j]) \/ Warranted(e, asked')
        /\ receipts' = receipts
    BY <2>1, <2>4, AppendWarranted
  <2>. QED
    BY <2>1, <2>2, <2>5, <2>6, AuthorizedKept
<1>2. ASSUME Ingest(l, s) PROVE Authorized'
  <2>. DEFINE m  == l[1]
              t  == [pc |-> "write", op |-> "ingest", f |-> None, s |-> s, as |-> "none", todo |-> {}]
              fs == Live(View(m), s) \cup {Winner(View(m), s).forget}
              es == {New(m, x, s, "readded") : x \in fs}
  <2>1. Goto(l, t) /\ UNCHANGED <<log, asked>> /\ m \in Machines
    BY <1>2, LaneTyped DEF Ingest, Begin
  <2>2. Licensed(t, asked')
    BY DEF Licensed, Busy
  <2>3. CASE UNCHANGED <<sync, appends>>
    <3>1. UNCHANGED <<copy, receipts>>
      BY <2>3 DEF sync
    <3>. HIDE DEF t
    <3>. QED
      BY <2>1, <2>2, <3>1, MoveAuthorized
  <2>4. CASE StateOf(View(m), s) \in ForgottenStates /\ Append(m, es)
    <3>1. \A e \in About(View(m), s) : e.forget[2] = s
      BY <2>1 DEF About, View, Authorized, Warranted
    <3>2. \A x \in Live(View(m), s) : x[2] = s
      BY <3>1 DEF Live, IsLive, Standing
    <3>3. Winner(View(m), s).forget[2] = s
      <4>1. StateOf(View(m), s) # "unknown"
        BY <2>4 DEF ForgottenStates
      <4>. QED
        BY <2>1, <3>1, <4>1, LatestWithin
    <3>4. \A e \in es : Warranted(e, asked')
      <4>1. \A x \in fs : x[2] = s
        BY <3>2, <3>3
      <4>. HIDE DEF fs
      <4>. QED
        BY <4>1 DEF Warranted, New
    <3>. HIDE DEF es, t, m
    <3>5. \A k \in Lanes : thread'[k] = thread[k] \/ Licensed(thread'[k], asked')
      BY <2>1, <2>2, GotoLicensed
    <3>6. /\ \A k, n \in Machines : \A e \in copy'[k][n] :
                 (\E i, j \in Machines : e \in copy[i][j]) \/ Warranted(e, asked')
          /\ receipts' = receipts
      BY <2>1, <2>4, <3>4, AppendWarranted
    <3>. QED
      BY <2>1, <3>5, <3>6, AuthorizedKept
  <2>. QED
    BY <1>2, <2>3, <2>4 DEF Ingest
<1>. QED
  BY <1>1, <1>2

LEMMA ForgetRequestAuthorized ==
  ASSUME TypeOK, Authorized, NEW l \in Lanes, NEW f \in Forgets, Restore(l, f) \/ Purge(l, f)
  PROVE  Authorized'
<1>1. ASSUME Restore(l, f) PROVE Authorized'
  <2>. DEFINE t == [pc |-> "unhide", op |-> "restore", f |-> f, s |-> f[2], as |-> "restored", todo |-> {}]
  <2>1. Goto(l, t) /\ UNCHANGED <<copy, receipts, log, asked>>
    BY <1>1 DEF Restore, Begin, sync
  <2>2. Licensed(t, asked')
    BY DEF Licensed, Busy
  <2>. HIDE DEF t
  <2>. QED
    BY <2>1, <2>2, MoveAuthorized
<1>2. ASSUME Purge(l, f) PROVE Authorized'
  <2>. DEFINE t == [pc |-> "receipt", op |-> "purge", f |-> f, s |-> f[2], as |-> "purged", todo |-> {}]
  <2>1. Goto(l, t) /\ UNCHANGED <<copy, receipts, log>> /\ asked' = asked \cup {f}
    BY <1>2 DEF Purge, Begin, sync
  <2>2. Licensed(t, asked')
    BY <2>1 DEF Licensed, Busy, AskedFor
  <2>. HIDE DEF t
  <2>. QED
    BY <2>1, <2>2, MoveAuthorized
<1>. QED
  BY <1>1, <1>2

LEMMA ContinueAuthorized ==
  ASSUME TypeOK, Bounded, Authorized, NEW l \in Lanes, Continue(l)
  PROVE  Authorized'
<1>. DEFINE m == l[1]
            t == thread[l]
<1>1. m \in Machines /\ t \in Thread /\ Licensed(t, asked)
  BY LaneTyped DEF Authorized
<1>2. ASSUME NEW o, Hide(l, o) PROVE Authorized'
  <2>. DEFINE u == CASE o = "ok"                     -> [t EXCEPT !.pc = "mark"]
                     [] o # "ok" /\ t.op = "forget"  -> [t EXCEPT !.pc = "receipt", !.as = "purged"]
                     [] OTHER                        -> Done(t)
  <2>1. Goto(l, u) /\ UNCHANGED <<copy, receipts, log, asked>> /\ t.pc \in Busy
    BY <1>2 DEF Hide, sync, At, Busy
  <2>2. Licensed(u, asked)
    <3>. HIDE DEF t
    <3>1. CASE o = "ok"
      BY <1>1, <2>1, <3>1, HeadingLicensed
    <3>2. CASE o # "ok" /\ t.op = "forget"
      <4>1. u = [t EXCEPT !.pc = "receipt", !.as = "purged"]
        BY <3>2
      <4>2. Licensed([t EXCEPT !.pc = "receipt", !.as = "purged"], asked)
        BY <1>1, <2>1, <3>2, PurgingLicensed
      <4>. QED
        BY <4>1, <4>2
    <3>3. CASE o # "ok" /\ t.op # "forget"
      BY <1>1, <3>3, DoneLicensed
    <3>. QED
      BY <3>1, <3>2, <3>3
  <2>. HIDE DEF u
  <2>. QED
    BY <2>1, <2>2, MoveAuthorized
<1>3. ASSUME NEW o, Unhide(l, o) PROVE Authorized'
  <2>1. Goto(l, Settled(t, o)) /\ UNCHANGED <<copy, receipts, log, asked>> /\ t.pc \in Busy
    BY <1>3 DEF Unhide, sync, At, Busy
  <2>2. Licensed(Settled(t, o), asked)
    BY <1>1, <2>1, SettledLicensed
  <2>. QED
    BY <2>1, <2>2, MoveAuthorized
<1>4. ASSUME NEW o, Erase(l, o) PROVE Authorized'
  <2>. DEFINE u == IF t.s \in present[m] /\ o = "ok" THEN [t EXCEPT !.pc = "tombstone"] ELSE Settled(t, o)
  <2>1. /\ Goto(l, u) /\ UNCHANGED <<copy, receipts, log, asked>>
        /\ t.pc = "erase" /\ t.pc \in Busy
    BY <1>4 DEF Erase, sync, At, Busy
  <2>2. Licensed(u, asked)
    <3>1. t.as = "purged"
      BY <1>1, <2>1 DEF Licensed
    <3>. QED
      BY <1>1, <2>1, <3>1, HeadingLicensed, SettledLicensed
  <2>. HIDE DEF u
  <2>. QED
    BY <2>1, <2>2, MoveAuthorized
<1>5. CASE Receipt(l)
  <2>1. /\ receipts' = [receipts EXCEPT ![m] = @ \cup {t.f}]
        /\ Goto(l, [t EXCEPT !.pc = "erase"]) /\ UNCHANGED <<copy, log, asked>>
        /\ t.pc = "receipt" /\ t.pc \in Busy
    BY <1>5 DEF Receipt, At, Busy
  <2>2. Licensed([t EXCEPT !.pc = "erase"], asked) /\ t.f \in asked
    <3>. HIDE DEF t
    <3>1. t.as = "purged" /\ t.f \in asked
      BY <1>1, <2>1 DEF Licensed, Busy
    <3>2. Licensed([t EXCEPT !.pc = "erase"], asked)
      BY <1>1, <2>1, <3>1, HeadingLicensed
    <3>. QED
      BY <3>1, <3>2
  <2>3. \A k \in Lanes : thread'[k] = thread[k] \/ Licensed(thread'[k], asked')
    BY <2>1, <2>2, GotoLicensed
  <2>4. \A k \in Machines : \A f \in receipts'[k] : (\E n \in Machines : f \in receipts[n]) \/ f \in asked'
    BY <1>1, <2>1, <2>2 DEF TypeOK
  <2>. QED
    BY <2>1, <2>3, <2>4, AuthorizedKept
<1>6. ASSUME NEW o, NEW recorded \in BOOLEAN, NEW removed \in BOOLEAN, RemoveRest(l, recorded, removed, o)
      PROVE  Authorized'
  <2>. DEFINE e == New(m, NewId(t.s), t.s, "purged")
              row == [subject |-> t.s, at |-> e.at]
  <2>1. /\ Goto(l, Settled(t, o)) /\ UNCHANGED asked
        /\ log' = [log EXCEPT ![m] = @ \cup {row}]
        /\ t.pc = "tombstone" /\ t.pc \in Busy
    BY <1>6 DEF RemoveRest, At, Busy
  <2>2. Append(m, {e}) \/ UNCHANGED <<copy, receipts>>
    BY <1>6 DEF RemoveRest, sync
  <2>3. AskedFor(t.s, asked)
    BY <1>1, <2>1 DEF Licensed
  <2>4. Licensed(Settled(t, o), asked)
    BY <1>1, <2>1, SettledLicensed
  <2>5. Warranted(e, asked) /\ row.subject = t.s
    BY <2>3 DEF Warranted, New, NewId
  <2>. HIDE DEF e, row
  <2>6. \A k \in Lanes : thread'[k] = thread[k] \/ Licensed(thread'[k], asked')
    BY <2>1, <2>4, GotoLicensed
  <2>7. /\ \A k, n \in Machines : \A x \in copy'[k][n] :
               (\E i, j \in Machines : x \in copy[i][j]) \/ Warranted(x, asked')
        /\ receipts' = receipts
    <3>1. CASE Append(m, {e})
      BY <1>1, <2>1, <2>5, <3>1, AppendWarranted
    <3>2. CASE UNCHANGED <<copy, receipts>>
      BY <3>2
    <3>. QED
      BY <2>2, <3>1, <3>2
  <2>8. \A k \in Machines : \A r \in log'[k] : r \in log[k] \/ AskedFor(r.subject, asked')
    <3>. HIDE DEF t
    <3>1. \A k \in Machines : \A r \in log'[k] : r \in log[k] \/ r = row
      BY <1>1, <2>1 DEF TypeOK
    <3>. QED
      BY <2>1, <2>3, <2>5, <3>1
  <2>. QED
    BY <2>1, <2>6, <2>7, <2>8, AuthorizedKept
<1>7. CASE Write(l)
  BY <1>7, IdleLicensed, MoveAuthorized DEF Write, sync
<1>8. CASE Record(l)
  <2>. DEFINE e == New(m, t.f, t.s, t.as)
  <2>1. /\ Append(m, {e}) /\ Goto(l, [t EXCEPT !.pc = "mark"]) /\ UNCHANGED <<log, asked>>
        /\ t.pc \in Busy
    BY <1>8 DEF Record, At, Busy
  <2>2. Licensed([t EXCEPT !.pc = "mark"], asked)
    BY <1>1, <2>1, HeadingLicensed
  <2>3. Warranted(e, asked)
    BY <1>1, <2>1 DEF Licensed, Warranted, New
  <2>. HIDE DEF e
  <2>4. \A k \in Lanes : thread'[k] = thread[k] \/ Licensed(thread'[k], asked')
    BY <2>1, <2>2, GotoLicensed
  <2>5. /\ \A k, n \in Machines : \A x \in copy'[k][n] :
               (\E i, j \in Machines : x \in copy[i][j]) \/ Warranted(x, asked')
        /\ receipts' = receipts
    BY <1>1, <2>1, <2>3, AppendWarranted
  <2>. QED
    BY <2>1, <2>4, <2>5, AuthorizedKept
<1>9. CASE Mark(l)
  <2>. DEFINE u == IF t.op = "forget" /\ t.as = "trashed" THEN [t EXCEPT !.pc = "receipt", !.as = "purged"]
                   ELSE Done(t)
  <2>1. Goto(l, u) /\ UNCHANGED <<copy, receipts, log, asked>> /\ t.pc \in Busy
    BY <1>9 DEF Mark, sync, At, Busy
  <2>2. Licensed(u, asked)
    BY <1>1, <2>1, PurgingLicensed, DoneLicensed
  <2>. HIDE DEF u
  <2>. QED
    BY <2>1, <2>2, MoveAuthorized
<1>. QED
  BY <1>2, <1>3, <1>4, <1>5, <1>6, <1>7, <1>8, <1>9 DEF Continue

\* What the job takes up is warranted; what it retries was asked for.
LEMMA TodoLicensed ==
  ASSUME TypeOK, Bounded, Authorized, NEW m \in Machines
  PROVE  /\ \A e \in Stale(m) : Warranted(e, asked)
         /\ \A e \in Started(m) : Warranted(e, asked) /\ e.forget \in asked
<1>1. \A e \in View(m) : Warranted(e, asked)
  BY DEF View, Authorized
<1>2. \A e \in Latest(m) : Warranted(e, asked)
  BY <1>1, LatestWithin
<1>. QED
  BY <1>2 DEF Stale, Started, Authorized

LEMMA MaintainAuthorized ==
  ASSUME TypeOK, Bounded, Authorized, NEW m \in Machines, Maintain(m)
  PROVE  Authorized'
<1>. DEFINE j == thread[Job(m)]
<1>0. Job(m) \in Lanes /\ j \in Thread /\ Licensed(j, asked)
  BY JobLane, LaneTyped DEF Authorized
<1>1. CASE Migrate(m)
  <2>. DEFINE es == {[New(m, NewId(r.subject), r.subject, "purged") EXCEPT !.at = r.at] : r \in Unrecorded(m)}
              u  == [Idle EXCEPT !.pc = "list"]
  <2>1. Append(m, es) /\ Goto(Job(m), u) /\ UNCHANGED <<log, asked>>
    BY <1>1 DEF Migrate
  <2>2. \A e \in es : Warranted(e, asked')
    <3>. SUFFICES ASSUME NEW r \in Unrecorded(m)
                  PROVE  Warranted([New(m, NewId(r.subject), r.subject, "purged") EXCEPT !.at = r.at], asked')
      OBVIOUS
    <3>1. AskedFor(r.subject, asked')
      BY <2>1 DEF Unrecorded, Authorized
    <3>. QED
      BY <3>1 DEF Warranted, New, NewId
  <2>3. Licensed(u, asked')
    BY DEF Licensed, Idle, Busy
  <2>. HIDE DEF es, u
  <2>4. \A k \in Lanes : thread'[k] = thread[k] \/ Licensed(thread'[k], asked')
    BY <1>0, <2>1, <2>3, GotoLicensed
  <2>5. /\ \A k, n \in Machines : \A x \in copy'[k][n] :
               (\E i, h \in Machines : x \in copy[i][h]) \/ Warranted(x, asked')
        /\ receipts' = receipts
    BY <2>1, <2>2, AppendWarranted
  <2>. QED
    BY <2>1, <2>4, <2>5, AuthorizedKept
<1>2. CASE List(m)
  <2>. DEFINE u == [Idle EXCEPT !.pc = "next", !.op = "apply", !.todo = Stale(m)]
  <2>1. Goto(Job(m), u) /\ UNCHANGED <<copy, receipts, log, asked>>
    BY <1>2 DEF List, sync
  <2>2. Licensed(u, asked)
    BY TodoLicensed DEF Licensed, Idle, Busy
  <2>. HIDE DEF u
  <2>. QED
    BY <1>0, <2>1, <2>2, MoveAuthorized
<1>3. CASE ListStarted(m)
  <2>. DEFINE u == IF Started(m) = {} THEN Idle
                   ELSE [Idle EXCEPT !.pc = "next", !.op = "retry", !.todo = Started(m)]
  <2>1. Goto(Job(m), u) /\ UNCHANGED <<copy, receipts, log, asked>>
    BY <1>3 DEF ListStarted, sync
  <2>2. Licensed(u, asked)
    BY TodoLicensed DEF Licensed, Idle, Busy
  <2>. HIDE DEF u
  <2>. QED
    BY <1>0, <2>1, <2>2, MoveAuthorized
<1>4. CASE Finish(m)
  BY <1>0, <1>4, IdleLicensed, MoveAuthorized DEF Finish, sync
<1>5. ASSUME NEW e \in j.todo, ApplyOne(m, e)
      PROVE  Authorized'
  <2>. DEFINE u == [pc |-> StepFor(e), op |-> "apply", f |-> e.forget, s |-> e.subject, as |-> e.state,
                    todo |-> j.todo \ {e}]
  <2>1. Goto(Job(m), u) /\ UNCHANGED <<copy, receipts, log, asked>> /\ j.op = "apply"
    BY <1>5 DEF ApplyOne, sync
  <2>2. e \in Entry /\ \A x \in j.todo : Warranted(x, asked)
    BY <1>0, <2>1 DEF Licensed, Thread
  <2>3. /\ StepFor(e) \in {"hide", "unhide", "mark", "erase"}
        /\ StepFor(e) = "erase" => e.state = "purged"
        /\ StepFor(e) = "unhide" => e.state = "restored"
        /\ StepFor(e) = "hide" => e.state = "trashed"
    BY <2>2 DEF StepFor, Entry, States, ForgottenStates
  <2>4. Licensed(u, asked)
    BY <2>2, <2>3 DEF Licensed, Warranted, Busy
  <2>. HIDE DEF u
  <2>. QED
    BY <1>0, <2>1, <2>4, MoveAuthorized
<1>6. ASSUME NEW e \in j.todo, RetryOne(m, e)
      PROVE  Authorized'
  <2>. DEFINE u == [pc |-> "receipt", op |-> "retry", f |-> e.forget, s |-> e.subject, as |-> "purged",
                    todo |-> j.todo \ {e}]
  <2>1. Goto(Job(m), u) /\ UNCHANGED <<copy, receipts, log, asked>> /\ j.op = "retry"
    BY <1>6 DEF RetryOne, sync
  <2>2. \A x \in j.todo : Warranted(x, asked) /\ x.forget \in asked
    BY <1>0, <2>1 DEF Licensed
  <2>3. AskedFor(e.subject, asked)
    BY <1>6, <2>2 DEF Warranted, AskedFor
  <2>4. Licensed(u, asked)
    BY <2>2, <2>3 DEF Licensed, Warranted, Busy
  <2>. HIDE DEF u
  <2>. QED
    BY <1>0, <2>1, <2>4, MoveAuthorized
<1>. QED
  BY <1>1, <1>2, <1>3, <1>4, <1>5, <1>6 DEF Maintain

LEMMA AuthorizedStep == TypeOK /\ Bounded /\ Authorized /\ [Next]_vars => Authorized'
<1>. SUFFICES ASSUME TypeOK, Bounded, Authorized, [Next]_vars PROVE Authorized'
  OBVIOUS
<1>1. ASSUME NEW m \in Machines, NEW n \in Machines, Deliver(m, n)
      PROVE  Authorized'
  <2>1. UNCHANGED <<receipts, log, thread, asked>>
    BY <1>1 DEF Deliver
  <2>2. \A k, i \in Machines : copy'[k][i] = copy[k][i] \/ copy'[k][i] = copy[n][n]
    BY <1>1 DEF Deliver, TypeOK
  <2>. QED
    BY <2>1, <2>2, AuthorizedKept
<1>2. ASSUME NEW m \in Machines, NEW n \in Machines, DeliverReceipts(m, n)
      PROVE  Authorized'
  <2>1. UNCHANGED <<copy, log, thread, asked>>
    BY <1>2 DEF DeliverReceipts
  <2>2. \A k \in Machines : \A f \in receipts'[k] : \E i \in Machines : f \in receipts[i]
    BY <1>2 DEF DeliverReceipts, TypeOK
  <2>. QED
    BY <2>1, <2>2, AuthorizedKept
<1>3. ASSUME NEW m \in Machines, Crash(m)
      PROVE  Authorized'
  <2>1. UNCHANGED <<copy, receipts, log, asked>>
    BY <1>3 DEF Crash, sync
  <2>2. \A l \in Lanes : thread'[l] = thread[l] \/ thread'[l] = Idle
    BY <1>3 DEF Crash
  <2>. QED
    BY <2>1, <2>2, IdleLicensed, AuthorizedKept
<1>4. CASE UNCHANGED vars
  BY <1>4 DEF vars, sync, Authorized
<1>. QED
  BY <1>1, <1>2, <1>3, <1>4, ContinueAuthorized, MaintainAuthorized, SubjectRequestAuthorized,
     ForgetRequestAuthorized DEF Next, Progress

Inv == TypeOK /\ Bounded /\ Authorized

LEMMA InvInit == Init => Inv
<1>. SUFFICES ASSUME Init PROVE Authorized
  BY TypesInit DEF Inv
<1>. QED
  BY IdleLicensed DEF Init, Authorized

LEMMA InvStep == Inv /\ [Next]_vars => Inv'
  BY TypesStep, AuthorizedStep DEF Inv

LEMMA Invariance == Spec => []Inv
  BY InvInit, InvStep, PTL DEF Spec

\* Only the adapter's purge takes an artifact out of the graph.
LEMMA OnlyErase ==
  ASSUME TypeOK, [Next]_vars, NEW m \in Machines, NEW s \in present[m] \ present'[m]
  PROVE  \E l \in Lanes : thread[l].pc = "erase" /\ thread[l].s = s
<1>1. ASSUME NEW l \in Lanes, NEW o, Erase(l, o)
      PROVE  thread[l].pc = "erase" /\ thread[l].s = s
  BY <1>1, LaneTyped DEF Erase, At, TypeOK
<1>2. ASSUME NEW l \in Lanes, Write(l)
      PROVE  present[m] \subseteq present'[m]
  <2>1. CASE UNCHANGED stores
    BY <2>1 DEF stores
  <2>2. CASE present' = [present EXCEPT ![l[1]] = @ \cup {thread[l].s}]
    BY <2>2 DEF TypeOK
  <2>. QED
    BY <1>2, <2>1, <2>2 DEF Write
<1>3. ASSUME NEW l \in Lanes, Continue(l), ~Write(l), \A o \in Outcomes : ~Erase(l, o)
      PROVE  UNCHANGED present
  BY <1>3 DEF Continue, Hide, Unhide, Receipt, RemoveRest, Record, Mark, stores
<1>4. ASSUME NEW k \in Machines, Maintain(k)
      PROVE  UNCHANGED present
  BY <1>4 DEF Maintain, Migrate, List, ListStarted, Finish, ApplyOne, RetryOne, stores
<1>5. ASSUME NEW k \in Machines, NEW n \in Machines, Deliver(k, n) \/ DeliverReceipts(k, n)
      PROVE  UNCHANGED present
  BY <1>5 DEF Deliver, DeliverReceipts, stores
<1>6. ASSUME NEW k \in Machines, Crash(k)
      PROVE  UNCHANGED present
  BY <1>6 DEF Crash, stores
<1>7. ASSUME NEW l \in Lanes, NEW x \in Subjects,
             Ingest(l, x) \/ \E op \in {"trash", "forget"} : Trash(l, x, op)
      PROVE  UNCHANGED present
  BY <1>7 DEF Ingest, Trash, stores
<1>8. ASSUME NEW l \in Lanes, NEW f \in Forgets, Restore(l, f) \/ Purge(l, f)
      PROVE  UNCHANGED present
  BY <1>8 DEF Restore, Purge, stores
<1>9. ~UNCHANGED present /\ ~(present[m] \subseteq present'[m])
  OBVIOUS
<1>10. ~UNCHANGED vars
  BY <1>9 DEF vars, stores
<1>11. \E l \in Lanes : Continue(l)
  BY <1>4, <1>5, <1>6, <1>7, <1>8, <1>9, <1>10 DEF Next, Progress
<1>. QED
  BY <1>1, <1>2, <1>3, <1>9, <1>11

\* Whatever fails and in whatever order the requests, the job and the folder
\* run, no machine erases an artifact nobody asked to erase: neither the
\* retries, nor apply_remote, nor the tombstone migration makes a purge of
\* what was only trashed.
THEOREM NoErasureUnasked == Spec => ErasedOnlyIfAsked
<1>1. Inv /\ [Next]_vars =>
        [\A m \in Machines, s \in Subjects :
            s \in present[m] \ present'[m] => \E f \in asked : f[2] = s]_vars
  <2>. SUFFICES ASSUME Inv, [Next]_vars, NEW m \in Machines, NEW s \in present[m] \ present'[m]
                PROVE  \E f \in asked : f[2] = s
    OBVIOUS
  <2>1. PICK l \in Lanes : thread[l].pc = "erase" /\ thread[l].s = s
    BY OnlyErase DEF Inv
  <2>2. Licensed(thread[l], asked)
    BY DEF Inv, Authorized
  <2>. QED
    BY <2>1, <2>2 DEF Licensed, Busy, AskedFor
<1>. QED
  BY <1>1, Invariance, PTL DEF Spec, ErasedOnlyIfAsked

-----------------------------------------------------------------------------
(* What is recorded as purged has been erased.                             *)

\* The artifact is in the graph no more, or an ingest has written it.
Absent(s, P, W) == s \notin P \/ s \in W

Gone(m, s) == Absent(s, present[m], written[m])

\* A thread about to record a purge, to mark it as applied or to write the
\* tombstone, has erased the artifact.
Owing(t) == t.pc = "tombstone" \/ (t.pc \in {"record", "mark"} /\ t.as = "purged")

Ready(l) == Owing(thread[l]) => Gone(l[1], thread[l].s)

Erased ==
    /\ RecordedIsErased
    /\ \A m \in Machines : \A r \in log[m] : Gone(m, r.subject)
    /\ \A m \in Machines : \A x \in applied[m] : x[3] = "purged" => Gone(m, x[2])
    /\ \A l \in Lanes : Ready(l)

\* What is gone comes back only by being written.
LEMMA GoneForGood ==
  ASSUME TypeOK, [Next]_vars, NEW m \in Machines, NEW s, Gone(m, s)
  PROVE  Gone(m, s)'
<1>1. ASSUME NEW l \in Lanes, Write(l)
      PROVE  Gone(m, s)'
  <2>1. CASE UNCHANGED stores
    BY <2>1 DEF stores, Gone, Absent
  <2>2. CASE /\ present' = [present EXCEPT ![l[1]] = @ \cup {thread[l].s}]
             /\ written' = [written EXCEPT ![l[1]] = @ \cup {thread[l].s}]
    BY <2>2 DEF Gone, Absent, TypeOK
  <2>. QED
    BY <1>1, <2>1, <2>2 DEF Write
<1>2. ASSUME NEW l \in Lanes, NEW o, Erase(l, o)
      PROVE  Gone(m, s)'
  <2>1. written' = written /\ \A k \in Machines : present'[k] \subseteq present[k]
    BY <1>2 DEF Erase, TypeOK
  <2>. QED
    BY <2>1 DEF Gone, Absent
<1>3. ASSUME NEW l \in Lanes, Continue(l), ~Write(l), \A o \in Outcomes : ~Erase(l, o)
      PROVE  UNCHANGED <<present, written>>
  BY <1>3 DEF Continue, Hide, Unhide, Receipt, RemoveRest, Record, Mark, stores
<1>4. ASSUME NEW k \in Machines, Maintain(k)
      PROVE  UNCHANGED <<present, written>>
  BY <1>4 DEF Maintain, Migrate, List, ListStarted, Finish, ApplyOne, RetryOne, stores
<1>5. ASSUME NEW k \in Machines, NEW n \in Machines, Deliver(k, n) \/ DeliverReceipts(k, n)
      PROVE  UNCHANGED <<present, written>>
  BY <1>5 DEF Deliver, DeliverReceipts, stores
<1>6. ASSUME NEW k \in Machines, Crash(k)
      PROVE  UNCHANGED <<present, written>>
  BY <1>6 DEF Crash, stores
<1>7. ASSUME NEW l \in Lanes, NEW x \in Subjects,
             Ingest(l, x) \/ \E op \in {"trash", "forget"} : Trash(l, x, op)
      PROVE  UNCHANGED <<present, written>>
  BY <1>7 DEF Ingest, Trash, stores
<1>8. ASSUME NEW l \in Lanes, NEW f \in Forgets, Restore(l, f) \/ Purge(l, f)
      PROVE  UNCHANGED <<present, written>>
  BY <1>8 DEF Restore, Purge, stores
<1>9. UNCHANGED <<present, written>> => Gone(m, s)'
  BY DEF Gone
<1>10. UNCHANGED vars => UNCHANGED <<present, written>>
  BY DEF vars, stores
<1>. QED
  BY <1>1, <1>2, <1>3, <1>4, <1>5, <1>6, <1>7, <1>8, <1>9, <1>10 DEF Next, Progress

\* A step leaves what is recorded erased when everything it adds is.
LEMMA ErasedKept ==
  ASSUME TypeOK, Erased, [Next]_vars,
         \A m \in Machines : \A e \in copy'[m][m] :
             e \in copy[m][m] \/ e.state # "purged" \/ Absent(e.subject, present'[m], written'[m]),
         \A m \in Machines : \A r \in log'[m] :
             r \in log[m] \/ Absent(r.subject, present'[m], written'[m]),
         \A m \in Machines : \A x \in applied'[m] :
             x \in applied[m] \/ x[3] # "purged" \/ Absent(x[2], present'[m], written'[m]),
         \A l \in Lanes : \/ thread'[l] = thread[l]
                          \/ Owing(thread'[l]) => Absent(thread'[l].s, present'[l[1]], written'[l[1]])
  PROVE  Erased'
<1>1. \A m \in Machines : \A s : Absent(s, present[m], written[m]) => Absent(s, present'[m], written'[m])
  BY GoneForGood DEF Gone
<1>2. RecordedIsErased'
  <2>. SUFFICES ASSUME NEW m \in Machines, NEW e \in copy'[m][m], e.state = "purged"
                PROVE  Absent(e.subject, present'[m], written'[m])
    BY DEF RecordedIsErased, Absent
  <2>1. e \in copy[m][m] => Absent(e.subject, present[m], written[m])
    BY DEF Erased, RecordedIsErased, Absent
  <2>. QED
    BY <1>1, <2>1
<1>3. \A m \in Machines : \A r \in log'[m] : Absent(r.subject, present'[m], written'[m])
  BY <1>1 DEF Erased, Gone
<1>4. \A l \in Lanes : Owing(thread'[l]) => Absent(thread'[l].s, present'[l[1]], written'[l[1]])
  <2>. SUFFICES ASSUME NEW l \in Lanes, Owing(thread'[l])
                PROVE  Absent(thread'[l].s, present'[l[1]], written'[l[1]])
    OBVIOUS
  <2>1. Owing(thread[l]) => Absent(thread[l].s, present[l[1]], written[l[1]])
    BY DEF Erased, Ready, Gone
  <2>2. l[1] \in Machines
    BY LaneTyped
  <2>. QED
    BY <1>1, <2>1, <2>2
<1>5. \A m \in Machines : \A x \in applied'[m] : x[3] = "purged" => Absent(x[2], present'[m], written'[m])
  BY <1>1 DEF Erased, Gone
<1>. QED
  BY <1>2, <1>3, <1>4, <1>5 DEF Erased, Ready, Gone

\* A step that moves one lane on and records nothing.
LEMMA MoveErased ==
  ASSUME TypeOK, Erased, [Next]_vars, NEW l \in Lanes, NEW t, Goto(l, t),
         Owing(t) => Absent(t.s, present'[l[1]], written'[l[1]]),
         UNCHANGED <<copy, log, applied>>
  PROVE  Erased'
<1>1. \A k \in Lanes : \/ thread'[k] = thread[k]
                       \/ Owing(thread'[k]) => Absent(thread'[k].s, present'[k[1]], written'[k[1]])
  BY DEF Goto, TypeOK
<1>. QED
  BY <1>1, ErasedKept

LEMMA NothingOwed == ~Owing(Idle) /\ \A t \in Thread : ~Owing(Done(t))
<1>1. ~Owing(Idle)
  BY DEF Idle, Owing
<1>2. ASSUME NEW t \in Thread PROVE ~Owing(Done(t))
  <2>1. CASE t.op \in {"apply", "retry"}
    <3>. DEFINE u == [t EXCEPT !.pc = "next", !.f = None, !.s = None, !.as = "none"]
    <3>1. Done(t) = u /\ u.pc = "next"
      BY <2>1 DEF Done, Thread
    <3>. HIDE DEF u
    <3>. QED
      BY <3>1 DEF Owing
  <2>2. CASE t.op \notin {"apply", "retry"}
    BY <1>1, <2>2 DEF Done
  <2>. QED
    BY <2>1, <2>2
<1>. QED
  BY <1>1, <1>2

LEMMA SettledOwes ==
  ASSUME NEW t \in Thread, NEW o, Owing(Settled(t, o))
  PROVE  o = "ok" /\ t.as = "purged" /\ Settled(t, o).s = t.s
<1>. DEFINE u == [t EXCEPT !.pc = IF t.op = "apply" THEN "mark" ELSE "record"]
<1>1. o = "ok"
  BY NothingOwed DEF Settled
<1>2. Settled(t, o) = u
  BY <1>1 DEF Settled
<1>3. u.s = t.s /\ u.as = t.as /\ u.pc \in {"mark", "record"}
  BY DEF Thread
<1>. HIDE DEF u
<1>. QED
  BY <1>1, <1>2, <1>3 DEF Owing

LEMMA RequestErased ==
  ASSUME TypeOK, Erased, [Next]_vars, NEW l \in Lanes,
         \/ \E s \in Subjects : Ingest(l, s) \/ \E op \in {"trash", "forget"} : Trash(l, s, op)
         \/ \E f \in Forgets : Restore(l, f) \/ Purge(l, f)
  PROVE  Erased'
<1>1. \A k \in Lanes : thread'[k] = thread[k] \/ ~Owing(thread'[k])
  <2>1. PICK pc \in {"write", "hide", "unhide", "receipt"} :
            \E op, f, s, as : Begin(l, pc, op, f, s, as)
    BY DEF Ingest, Trash, Restore, Purge
  <2>2. \A k \in Lanes : thread'[k] = thread[k] \/ thread'[k].pc = pc
    BY <2>1 DEF Begin, Goto, TypeOK
  <2>. QED
    BY <2>2 DEF Owing
<1>2. UNCHANGED <<log, applied>>
  BY DEF Ingest, Trash, Restore, Purge
<1>3. \A m \in Machines : \A e \in copy'[m][m] : e \in copy[m][m] \/ e.state # "purged"
  <2>1. ASSUME NEW s \in Subjects, NEW op \in {"trash", "forget"}, Trash(l, s, op)
        PROVE  <1>3!:
    BY <2>1 DEF Trash, Append, New, TypeOK
  <2>2. ASSUME NEW s \in Subjects, Ingest(l, s)
        PROVE  <1>3!:
    <3>1. CASE UNCHANGED sync
      BY <3>1 DEF sync
    <3>2. ASSUME NEW fs, Append(l[1], {New(l[1], f, s, "readded") : f \in fs})
          PROVE  <1>3!:
      BY <3>2 DEF Append, New, TypeOK
    <3>. QED
      BY <2>2, <3>1, <3>2 DEF Ingest
  <2>3. ASSUME NEW f \in Forgets, Restore(l, f) \/ Purge(l, f)
        PROVE  <1>3!:
    BY <2>3 DEF Restore, Purge, sync
  <2>. QED
    BY <2>1, <2>2, <2>3
<1>. QED
  BY <1>1, <1>2, <1>3, ErasedKept

LEMMA ContinueErased ==
  ASSUME Inv, Erased, [Next]_vars, NEW l \in Lanes, Continue(l)
  PROVE  Erased'
<1>. DEFINE m == l[1]
            t == thread[l]
<1>1. TypeOK /\ m \in Machines /\ t \in Thread /\ Licensed(t, asked) /\ Ready(l)
  BY LaneTyped DEF Inv, Authorized, Erased
<1>2. ASSUME NEW o, Hide(l, o) PROVE Erased'
  <2>. DEFINE u == CASE o = "ok"                     -> [t EXCEPT !.pc = "mark"]
                     [] o # "ok" /\ t.op = "forget"  -> [t EXCEPT !.pc = "receipt", !.as = "purged"]
                     [] OTHER                        -> Done(t)
  <2>1. Goto(l, u) /\ UNCHANGED <<copy, log, applied>> /\ t.as = "trashed"
    BY <1>1, <1>2 DEF Hide, sync, At, Licensed
  <2>2. ~Owing(u)
    <3>1. /\ [t EXCEPT !.pc = "mark"].pc = "mark" /\ [t EXCEPT !.pc = "mark"].as = "trashed"
          /\ [t EXCEPT !.pc = "receipt", !.as = "purged"].pc = "receipt"
      BY <1>1, <2>1 DEF Thread
    <3>2. ~Owing([t EXCEPT !.pc = "mark"]) /\ ~Owing([t EXCEPT !.pc = "receipt", !.as = "purged"]) /\ ~Owing(Done(t))
      BY <1>1, <3>1, NothingOwed DEF Owing
    <3>. QED
      BY <3>2
  <2>. HIDE DEF u
  <2>. QED
    BY <1>1, <2>1, <2>2, MoveErased
<1>3. ASSUME NEW o, Unhide(l, o) PROVE Erased'
  <2>1. Goto(l, Settled(t, o)) /\ UNCHANGED <<copy, log, applied>> /\ t.pc = "unhide"
    BY <1>3 DEF Unhide, sync, At
  <2>2. ~Owing(Settled(t, o))
    BY <1>1, <2>1, SettledOwes DEF Licensed
  <2>. QED
    BY <1>1, <2>1, <2>2, MoveErased
<1>4. ASSUME NEW o, Erase(l, o) PROVE Erased'
  <2>. DEFINE u == IF t.s \in present[m] /\ o = "ok" THEN [t EXCEPT !.pc = "tombstone"] ELSE Settled(t, o)
  <2>1. /\ Goto(l, u) /\ UNCHANGED <<copy, log, applied, written>>
        /\ present' = IF o = "before" THEN present ELSE [present EXCEPT ![m] = @ \ {t.s}]
    BY <1>4 DEF Erase, sync
  <2>2. o = "ok" => t.s \notin present'[m]
    BY <1>1, <2>1 DEF TypeOK
  <2>3. Owing(u) => o = "ok" /\ u.s = t.s
    <3>1. [t EXCEPT !.pc = "tombstone"].s = t.s
      BY <1>1 DEF Thread
    <3>. QED
      BY <1>1, <3>1, SettledOwes
  <2>. HIDE DEF u
  <2>4. Owing(u) => Absent(u.s, present'[m], written'[m])
    BY <2>2, <2>3 DEF Absent
  <2>. QED
    BY <1>1, <2>1, <2>4, MoveErased
<1>5. CASE Receipt(l)
  <2>1. Goto(l, [t EXCEPT !.pc = "erase"]) /\ UNCHANGED <<copy, log, applied>>
    BY <1>5 DEF Receipt
  <2>2. ~Owing([t EXCEPT !.pc = "erase"])
    BY <1>1 DEF Owing, Thread
  <2>. QED
    BY <1>1, <2>1, <2>2, MoveErased
<1>6. ASSUME NEW o, NEW recorded \in BOOLEAN, NEW removed \in BOOLEAN, RemoveRest(l, recorded, removed, o)
      PROVE  Erased'
  <2>. DEFINE e == New(m, NewId(t.s), t.s, "purged")
              row == [subject |-> t.s, at |-> e.at]
              u == Settled(t, o)
  <2>1. /\ Goto(l, u) /\ UNCHANGED <<applied, present, written>> /\ t.pc = "tombstone"
        /\ log' = [log EXCEPT ![m] = @ \cup {row}]
    BY <1>6 DEF RemoveRest, At
  <2>2. Append(m, {e}) \/ UNCHANGED copy
    BY <1>6 DEF RemoveRest, sync
  <2>3. Absent(t.s, present'[m], written'[m])
    BY <1>1, <2>1 DEF Ready, Owing, Gone
  <2>4. Owing(u) => u.s = t.s
    BY <1>1, SettledOwes
  <2>5. e.subject = t.s /\ row.subject = t.s
    BY DEF New
  <2>. HIDE DEF e, row, u
  <2>6. \A k \in Machines : \A x \in copy'[k][k] :
            x \in copy[k][k] \/ x.state # "purged" \/ Absent(x.subject, present'[k], written'[k])
    <3>. HIDE DEF t
    <3>1. CASE Append(m, {e})
      BY <1>1, <2>3, <2>5, <3>1 DEF Append, TypeOK
    <3>2. CASE UNCHANGED copy
      BY <3>2
    <3>. QED
      BY <2>2, <3>1, <3>2
  <2>7. \A k \in Machines : \A r \in log'[k] : r \in log[k] \/ Absent(r.subject, present'[k], written'[k])
    <3>. HIDE DEF t
    <3>1. \A k \in Machines : \A r \in log'[k] : r \in log[k] \/ (k = m /\ r = row)
      BY <1>1, <2>1 DEF TypeOK
    <3>. QED
      BY <2>3, <2>5, <3>1
  <2>8. \A k \in Lanes : \/ thread'[k] = thread[k]
                         \/ Owing(thread'[k]) => Absent(thread'[k].s, present'[k[1]], written'[k[1]])
    BY <1>1, <2>1, <2>3, <2>4 DEF Goto, TypeOK
  <2>. QED
    <3>1. \A k \in Machines : applied'[k] = applied[k]
      BY <2>1
    <3>. QED
      BY <1>1, <2>6, <2>7, <2>8, <3>1, ErasedKept
<1>7. CASE Write(l)
  BY <1>1, <1>7, NothingOwed, MoveErased DEF Write, sync
<1>8. CASE Record(l)
  <2>. DEFINE e == New(m, t.f, t.s, t.as)
              u == [t EXCEPT !.pc = "mark"]
  <2>1. /\ Append(m, {e}) /\ Goto(l, u) /\ UNCHANGED <<log, applied, present, written>> /\ t.pc = "record"
    BY <1>8 DEF Record, At, stores
  <2>2. e.state = "purged" => Absent(e.subject, present'[m], written'[m])
    BY <1>1, <2>1 DEF Ready, Owing, Gone, New
  <2>3. Owing(u) => Absent(u.s, present'[m], written'[m])
    <3>1. u.s = t.s /\ u.as = t.as /\ u.pc = "mark"
      BY <1>1 DEF Thread
    <3>. HIDE DEF u
    <3>. QED
      BY <1>1, <2>1, <3>1 DEF Ready, Owing, Gone
  <2>. HIDE DEF e, u
  <2>4. \A k \in Machines : \A x \in copy'[k][k] :
            x \in copy[k][k] \/ x.state # "purged" \/ Absent(x.subject, present'[k], written'[k])
    BY <1>1, <2>1, <2>2 DEF Append, TypeOK
  <2>5. \A k \in Lanes : \/ thread'[k] = thread[k]
                         \/ Owing(thread'[k]) => Absent(thread'[k].s, present'[k[1]], written'[k[1]])
    BY <1>1, <2>1, <2>3 DEF Goto, TypeOK
  <2>. QED
    BY <1>1, <2>1, <2>4, <2>5, ErasedKept
<1>9. CASE Mark(l)
  <2>. DEFINE u == IF t.op = "forget" /\ t.as = "trashed" THEN [t EXCEPT !.pc = "receipt", !.as = "purged"]
                   ELSE Done(t)
              x == <<t.f, t.s, t.as>>
  <2>1. /\ Goto(l, u) /\ UNCHANGED <<copy, log, present, written>> /\ t.pc = "mark"
        /\ applied' = [applied EXCEPT ![m] = @ \cup {x}]
    BY <1>9 DEF Mark, At, sync, stores
  <2>2. ~Owing(u)
    <3>1. [t EXCEPT !.pc = "receipt", !.as = "purged"].pc = "receipt"
      BY <1>1 DEF Thread
    <3>2. ~Owing([t EXCEPT !.pc = "receipt", !.as = "purged"]) /\ ~Owing(Done(t))
      BY <1>1, <3>1, NothingOwed DEF Owing
    <3>. QED
      BY <3>2
  <2>3. x[3] = "purged" => Absent(x[2], present'[m], written'[m])
    BY <1>1, <2>1 DEF Ready, Owing, Gone
  <2>. HIDE DEF u, x
  <2>4. \A k \in Machines : \A y \in applied'[k] :
            y \in applied[k] \/ y[3] # "purged" \/ Absent(y[2], present'[k], written'[k])
    <3>1. \A k \in Machines : \A y \in applied'[k] : y \in applied[k] \/ (k = m /\ y = x)
      BY <1>1, <2>1 DEF TypeOK
    <3>. QED
      BY <2>3, <3>1
  <2>5. \A k \in Lanes : thread'[k] = thread[k] \/ ~Owing(thread'[k])
    BY <1>1, <2>1, <2>2 DEF Goto, TypeOK
  <2>. QED
    BY <1>1, <2>1, <2>4, <2>5, ErasedKept
<1>. QED
  BY <1>2, <1>3, <1>4, <1>5, <1>6, <1>7, <1>8, <1>9 DEF Continue

LEMMA MaintainErased ==
  ASSUME TypeOK, Erased, [Next]_vars, NEW m \in Machines, Maintain(m)
  PROVE  Erased'
<1>1. \A k \in Lanes : thread'[k] = thread[k] \/ ~Owing(thread'[k])
  <2>1. ASSUME NEW u, Goto(Job(m), u), ~Owing(u)
        PROVE  <1>1!:
    BY <2>1, JobLane DEF Goto, TypeOK
  <2>2. /\ Migrate(m) => Goto(Job(m), [Idle EXCEPT !.pc = "list"])
        /\ List(m) => Goto(Job(m), [Idle EXCEPT !.pc = "next", !.op = "apply", !.todo = Stale(m)])
        /\ ListStarted(m) => \/ Goto(Job(m), Idle)
                             \/ Goto(Job(m), [Idle EXCEPT !.pc = "next", !.op = "retry", !.todo = Started(m)])
        /\ Finish(m) => Goto(Job(m), Idle)
    BY DEF Migrate, List, ListStarted, Finish
  <2>3. /\ ~Owing([Idle EXCEPT !.pc = "list"])
        /\ ~Owing([Idle EXCEPT !.pc = "next", !.op = "apply", !.todo = Stale(m)])
        /\ ~Owing([Idle EXCEPT !.pc = "next", !.op = "retry", !.todo = Started(m)])
    BY DEF Owing, Idle
  <2>4. ASSUME NEW e \in thread[Job(m)].todo, ApplyOne(m, e)
        PROVE  <1>1!:
    <3>. DEFINE u == [pc |-> StepFor(e), op |-> "apply", f |-> e.forget, s |-> e.subject, as |-> e.state,
                      todo |-> thread[Job(m)].todo \ {e}]
    <3>1. Goto(Job(m), u)
      BY <2>4 DEF ApplyOne
    <3>2. e \in Entry
      BY JobLane, LaneTyped DEF Thread
    <3>3. ~Owing(u)
      BY <3>2 DEF Owing, StepFor, Entry, States, ForgottenStates
    <3>. HIDE DEF u
    <3>. QED
      BY <2>1, <3>1, <3>3
  <2>5. ASSUME NEW e \in thread[Job(m)].todo, RetryOne(m, e)
        PROVE  <1>1!:
    <3>. DEFINE u == [pc |-> "receipt", op |-> "retry", f |-> e.forget, s |-> e.subject, as |-> "purged",
                      todo |-> thread[Job(m)].todo \ {e}]
    <3>1. Goto(Job(m), u) /\ ~Owing(u)
      BY <2>5 DEF RetryOne, Owing
    <3>. HIDE DEF u
    <3>. QED
      BY <2>1, <3>1
  <2>. QED
    BY <2>1, <2>2, <2>3, <2>4, <2>5, NothingOwed DEF Maintain
<1>2. UNCHANGED <<log, applied, present, written>>
  BY DEF Maintain, Migrate, List, ListStarted, Finish, ApplyOne, RetryOne, stores
<1>3. CASE UNCHANGED copy
  BY <1>1, <1>2, <1>3, ErasedKept
<1>4. CASE Migrate(m)
  <2>. DEFINE es == {[New(m, NewId(r.subject), r.subject, "purged") EXCEPT !.at = r.at] : r \in Unrecorded(m)}
  <2>1. Append(m, es)
    BY <1>4 DEF Migrate
  <2>2. \A e \in es : \E r \in log[m] : e.subject = r.subject
    BY DEF Unrecorded, New
  <2>3. \A e \in es : Absent(e.subject, present'[m], written'[m])
    BY <1>2, <2>2 DEF Erased, Gone
  <2>. HIDE DEF es
  <2>4. \A k \in Machines : \A e \in copy'[k][k] : e \in copy[k][k] \/ (k = m /\ e \in es)
    BY <2>1 DEF Append, TypeOK
  <2>. QED
    BY <1>1, <1>2, <2>3, <2>4, ErasedKept
<1>. QED
  BY <1>3, <1>4 DEF Maintain, List, ListStarted, Finish, ApplyOne, RetryOne, sync

LEMMA ErasedStep == Inv /\ Erased /\ [Next]_vars => Erased'
<1>. SUFFICES ASSUME Inv, Erased, [Next]_vars PROVE Erased'
  OBVIOUS
<1>0. TypeOK
  BY DEF Inv
<1>1. ASSUME NEW m \in Machines, NEW n \in Machines, Deliver(m, n) \/ DeliverReceipts(m, n)
      PROVE  Erased'
  <2>1. UNCHANGED <<log, applied, thread>> /\ \A k \in Machines : copy'[k][k] = copy[k][k]
    <3>1. CASE Deliver(m, n)
      <4>1. m # n /\ copy' = [copy EXCEPT ![m][n] = copy[n][n]]
        BY <3>1 DEF Deliver
      <4>. QED
        BY <1>0, <3>1, <4>1 DEF Deliver, TypeOK
    <3>2. CASE DeliverReceipts(m, n)
      BY <3>2 DEF DeliverReceipts
    <3>. QED
      BY <1>1, <3>1, <3>2
  <2>. QED
    BY <1>0, <2>1, ErasedKept
<1>2. ASSUME NEW m \in Machines, Crash(m)
      PROVE  Erased'
  <2>1. UNCHANGED <<copy, log, applied>>
    BY <1>2 DEF Crash, sync
  <2>2. \A l \in Lanes : thread'[l] = thread[l] \/ ~Owing(thread'[l])
    BY <1>2, NothingOwed DEF Crash
  <2>. QED
    BY <1>0, <2>1, <2>2, ErasedKept
<1>3. CASE UNCHANGED vars
  <2>1. UNCHANGED <<copy, log, applied, thread>>
    BY <1>3 DEF vars, sync
  <2>. QED
    BY <1>0, <2>1, ErasedKept
<1>. QED
  BY <1>0, <1>1, <1>2, <1>3, ContinueErased, MaintainErased, RequestErased DEF Next, Progress

LEMMA ErasedInit == Init => Erased
  BY NothingOwed DEF Init, Erased, RecordedIsErased, Ready

\* A machine's own file calls an artifact purged only once its node is gone
\* there, or an ingest has written it again since: whichever call raised and
\* wherever the process died, the purge and its retries record nothing that
\* is not done, and the tombstone log is never ahead of the graph either.
THEOREM PurgedIsErased == Spec => []RecordedIsErased
<1>1. Init => Inv /\ Erased
  BY InvInit, ErasedInit
<1>2. Inv /\ Erased /\ [Next]_vars => (Inv /\ Erased)'
  BY InvStep, ErasedStep
<1>3. Erased => RecordedIsErased
  BY DEF Erased
<1>. QED
  BY <1>1, <1>2, <1>3, PTL DEF Spec

-----------------------------------------------------------------------------
(* A purge beats whatever it meets.                                        *)

\* Once a purge is recorded and nothing was added again, the entry that decides
\* the subject is a purge, whatever the stamps.
LEMMA PurgeDecides ==
  ASSUME NEW E \in SUBSET Entry, NEW t \in Nat, \A e \in E : e.at <= t, NEW s,
         Readds(E, s) = {}, NEW p \in About(E, s), p.state = "purged"
  PROVE  Winner(E, s) \in About(E, s) /\ Winner(E, s).state = "purged"
<1>. DEFINE St        == Standing(E, s, p.forget)
            V         == Verdicts(E, s)
            forgotten == {e \in V : e.state \in ForgottenStates}
<1>1. \A X \in SUBSET About(E, s) :
          X # {} => Best(X) \in X /\ \A x \in X : Wins(Best(X), x)
  <2>. SUFFICES ASSUME NEW X \in SUBSET About(E, s), X # {}
                PROVE  Best(X) \in X /\ \A x \in X : Wins(Best(X), x)
    OBVIOUS
  <2>1. X \in SUBSET Entry /\ \A e \in X : e.at <= t
    BY DEF About
  <2>. QED
    BY <2>1, BestWins
<1>2. Cancelled(E, s) = {}
  BY DEF Cancelled
<1>3. p \in St /\ St \in SUBSET About(E, s)
  BY <1>2, StandingForgets DEF Standing
<1>4. Best(St) \in St /\ Wins(Best(St), p)
  <2>. HIDE DEF St
  <2>. QED
    BY <1>1, <1>3
<1>5. Best(St).state = "purged"
  BY <1>4 DEF Wins
<1>6. Best(St) \in V
  BY <1>2 DEF Verdicts
<1>7. V \in SUBSET About(E, s)
  <2>. SUFFICES ASSUME NEW e \in About(E, s)
                PROVE  Best(Standing(E, s, e.forget)) \in About(E, s)
    BY DEF Verdicts
  <2>1. e \in Standing(E, s, e.forget) /\ Standing(E, s, e.forget) \in SUBSET About(E, s)
    BY <1>2, StandingForgets DEF Standing
  <2>. QED
    BY <1>1, <2>1
<1>8. Best(St) \in forgotten /\ forgotten \in SUBSET About(E, s)
  BY <1>5, <1>6, <1>7 DEF ForgottenStates
<1>9. Winner(E, s) = Best(forgotten)
  BY <1>8 DEF Winner
<1>. HIDE DEF forgotten, St
<1>10. Best(forgotten) \in About(E, s) /\ Wins(Best(forgotten), Best(St))
  BY <1>1, <1>8
<1>. QED
  BY <1>5, <1>9, <1>10 DEF Wins

LEMMA AllRead ==
  ASSUME NEW m \in Machines, CaughtUp(m), NEW s, NEW states
  PROVE  Recorded(s, states) = {e \in About(View(m), s) : e.state \in states}
<1>1. View(m) = UNION {copy[n][n] : n \in Machines}
  BY DEF CaughtUp, View
<1>. QED
  BY <1>1 DEF Recorded, About

\* A machine that has every entry of every other's file, and has applied them
\* all, holds no artifact that any of them recorded as purged: whatever was
\* restored or trashed before, during or after the purge, whatever failed or
\* died, and however wrong the clocks are, unless an ingest has written the
\* artifact there since or some machine added it again.
THEOREM PurgeAlwaysWins == Spec => []PurgeWins
<1>1. Inv /\ Erased => PurgeWins
  <2>. SUFFICES ASSUME Inv, Erased, NEW m \in Machines, NEW s \in Subjects, CaughtUp(m),
                       NEW p \in Recorded(s, {"purged"}), Recorded(s, {"readded"}) = {}
                PROVE  ~Present(m, s)
    BY DEF PurgeWins
  <2>. DEFINE E == View(m)
              w == Winner(E, s)
  <2>1. PICK t \in Nat : \A n \in Machines : \A e \in copy[m][n] : e.at <= t
    BY DEF Inv, Bounded
  <2>2. E \in SUBSET Entry /\ \A e \in E : e.at <= t
    BY <2>1, ViewTyped DEF Inv, View
  <2>3. p \in About(E, s) /\ p.state = "purged" /\ Readds(E, s) = {}
    BY AllRead DEF Readds
  <2>4. w \in About(E, s) /\ w.state = "purged"
    <3>. HIDE DEF E
    <3>. QED
      BY <2>2, <2>3, PurgeDecides
  <2>5. w \in Latest(m) /\ w.subject = s
    BY <2>3, <2>4 DEF Latest, About
  <2>. HIDE DEF w
  <2>6. <<w.forget, w.subject, w.state>> \in applied[m]
    BY <2>5 DEF CaughtUp, Stale
  <2>7. Gone(m, s)
    BY <2>4, <2>5, <2>6 DEF Erased
  <2>. QED
    BY <2>7 DEF Gone, Absent, Present
<1>2. Init => Inv /\ Erased
  BY InvInit, ErasedInit
<1>3. Inv /\ Erased /\ [Next]_vars => (Inv /\ Erased)'
  BY InvStep, ErasedStep
<1>. QED
  BY <1>1, <1>2, <1>3, PTL DEF Spec
=============================================================================
