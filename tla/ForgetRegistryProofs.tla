------------------------ MODULE ForgetRegistryProofs ------------------------
(***************************************************************************)
(* What is proved of the forget registry, for any machines, clocks,        *)
(* subjects and forgets, and any number of appends and faults.             *)
(***************************************************************************)
EXTENDS ForgetRegistryProperties, ForgetIndexProofs, FiniteSetTheorems

\* Everything m can draw an answer from lies in R.
SourcesWithin(m, R) ==
    /\ proc[m].known \subseteq R
    /\ snapshot[m] \subseteq R
    /\ \A n \in Machines : proc[m].perFile[n] \subseteq R /\ Folder(m)[n] \subseteq R

Signatures == [Machines -> SUBSET Entry]

LEMMA EmptySignature == NoSignature \in Signatures
  BY DEF NoSignature, Signatures

\* A refresh reads some of the files, and invents nothing.
LEMMA RefreshShape ==
  ASSUME NEW m \in Machines, NEW r \in Refreshes(m)
  PROVE  \E gone \in SUBSET Machines, unread \in SUBSET Machines :
           /\ r.proc = Refresh(m, Present(m) \ gone, unread)
           /\ r.snapshot = IF WritesSnapshot(m, Present(m) \ gone, unread) THEN r.proc.known
                           ELSE snapshot[m]
           /\ r.loses = Losing(m, Present(m) \ gone, unread)
           /\ r.cost = Cardinality(gone \cup unread)
<1>1. PICK gone \in SUBSET Machines, unread \in SUBSET Machines :
        /\ r = LET after == Refresh(m, Present(m) \ gone, unread)
               IN  [proc     |-> after,
                    snapshot |-> IF WritesSnapshot(m, Present(m) \ gone, unread) THEN after.known
                                 ELSE snapshot[m],
                    loses    |-> Losing(m, Present(m) \ gone, unread),
                    cost     |-> Cardinality(gone \cup unread)]
  BY DEF Refreshes, Present
<1>. QED
  BY <1>1

LEMMA RefreshWithin ==
  ASSUME NEW m \in Machines, NEW r \in Refreshes(m), NEW R, SourcesWithin(m, R),
         proc[m] \in Process
  PROVE  /\ r.proc.known \subseteq R
         /\ r.snapshot \subseteq R
         /\ \A n \in Machines : r.proc.perFile[n] \subseteq R
<1>1. PICK gone \in SUBSET Machines, unread \in SUBSET Machines :
        /\ r.proc = Refresh(m, Present(m) \ gone, unread)
        /\ r.snapshot = IF WritesSnapshot(m, Present(m) \ gone, unread) THEN r.proc.known
                        ELSE snapshot[m]
  BY RefreshShape
<1>. DEFINE files == Present(m) \ gone
<1>2. files \subseteq Machines
  BY DEF Present
<1>. HIDE DEF files
<1>3. \A n \in files : ReadFile(m, n, unread) \subseteq R
  BY <1>2 DEF ReadFile, SourcesWithin
<1>4. /\ Reloaded(m, files, unread).known \subseteq R
      /\ \A n \in Machines : Reloaded(m, files, unread).perFile[n] \subseteq R
  BY <1>3 DEF Reloaded, SourcesWithin
<1>5. /\ Kept(m).known \subseteq R
      /\ \A n \in Machines : Kept(m).perFile[n] \subseteq R
  BY DEF Kept, SourcesWithin, Process
<1>6. /\ Refresh(m, files, unread).known \subseteq R
      /\ \A n \in Machines : Refresh(m, files, unread).perFile[n] \subseteq R
  BY <1>4, <1>5 DEF Refresh, SourcesWithin
<1>. QED
  BY <1>1, <1>6 DEF files, SourcesWithin

LEMMA SourcesTyped == TypeOK => \A m \in Machines : SourcesWithin(m, Entry)
  BY DEF TypeOK, SourcesWithin, Process, Folder

LEMMA RefreshTyped ==
  ASSUME TypeOK, NEW m \in Machines, NEW r \in Refreshes(m)
  PROVE  /\ r.proc \in Process /\ r.proc.loaded
         /\ r.proc.known \subseteq Entry
         /\ r.snapshot \subseteq Entry
         /\ r.cost \in Nat
<1>1. PICK gone \in SUBSET Machines, unread \in SUBSET Machines :
        /\ r.proc = Refresh(m, Present(m) \ gone, unread)
        /\ r.cost = Cardinality(gone \cup unread)
  BY RefreshShape, ZenonT(30)
<1>. DEFINE files == Present(m) \ gone
<1>2. files \subseteq Machines
  BY DEF Present
<1>. HIDE DEF files
<1>3. SourcesWithin(m, Entry) /\ proc[m] \in Process
  BY SourcesTyped DEF TypeOK
<1>4. \A n \in files : ReadFile(m, n, unread) \subseteq Entry
  BY <1>2, <1>3 DEF ReadFile, SourcesWithin
<1>5. Signature(m, files) \in Signatures
  BY <1>2, <1>3 DEF Signature, SourcesWithin, Signatures
<1>6. Reloaded(m, files, unread) \in Process /\ Reloaded(m, files, unread).loaded
  <2>1. UNION {ReadFile(m, n, unread) : n \in files} \subseteq Entry
    BY <1>4
  <2>2. [n \in Machines |-> IF n \in files THEN ReadFile(m, n, unread) ELSE {}]
          \in [Machines -> SUBSET Entry]
    BY <1>4
  <2>3. (IF unread = {} THEN Signature(m, files) ELSE NoSignature) \in Signatures
    BY <1>5, EmptySignature
  <2>. QED
    BY <2>1, <2>2, <2>3, <1>3 DEF Reloaded, Process, Signatures, SourcesWithin
<1>7. Kept(m) \in Process /\ Kept(m).loaded
  BY <1>3, EmptySignature DEF Kept, Process, Signatures, SourcesWithin
<1>8. Refresh(m, files, unread) \in Process /\ Refresh(m, files, unread).loaded
  BY <1>3, <1>6, <1>7 DEF Refresh
<1>9. r.cost \in Nat
  BY <1>1, ConstantsAssumption, FS_Subset, FS_CardinalityType, gone \cup unread \subseteq Machines
<1>. QED
  BY <1>1, <1>3, <1>8, <1>9, RefreshWithin DEF files, Process

-----------------------------------------------------------------------------
(* Types. *)

LEMMA NewProcessTyped == NewProcess \in Process
  BY EmptySignature DEF NewProcess, Process, Signatures

LEMMA NewTyped ==
  ASSUME TypeOK, appends < MaxAppends, NEW m \in Machines, NEW f \in Forgets,
         NEW s \in Subjects, NEW st \in States
  PROVE  New(m, f, s, st) \in Entry
<1>1. appends + 1 \in 1..MaxAppends
  BY ConstantsAssumption DEF TypeOK
<1>2. Stamp[m][appends + 1] \in Nat
  BY <1>1, ConstantsAssumption
<1>. QED
  BY <1>2 DEF New, Entry

\* What an action leaves when it appends es after a read r, or without one.
LEMMA AppendTyped ==
  ASSUME TypeOK, NEW m \in Machines, NEW es \in SUBSET Entry, Append(m, es)
  PROVE  /\ copy' \in [Machines -> [Machines -> SUBSET Entry]]
         /\ stray' \in [Machines -> SUBSET Entry]
         /\ mounted' \in [Machines -> BOOLEAN]
         /\ appends' \in 0..MaxAppends
<1>1. appends' \in 0..MaxAppends /\ mounted' \in [Machines -> BOOLEAN]
  BY ConstantsAssumption DEF TypeOK, Append
<1>2. copy[m] \in [Machines -> SUBSET Entry] /\ stray[m] \in SUBSET Entry
  BY DEF TypeOK
<1>3. [copy[m] EXCEPT ![m] = @ \cup es] \in [Machines -> SUBSET Entry]
  BY <1>2
<1>4. copy' \in [Machines -> [Machines -> SUBSET Entry]]
  BY <1>3 DEF TypeOK, Append
<1>5. stray' \in [Machines -> SUBSET Entry]
  BY <1>2 DEF TypeOK, Append
<1>. QED
  BY <1>1, <1>4, <1>5

LEMMA ReadsTyped ==
  ASSUME TypeOK, NEW m \in Machines, NEW r \in Refreshes(m), Reads(m, r)
  PROVE  /\ snapshot' \in [Machines -> SUBSET Entry]
         /\ served' \in [Machines -> SUBSET Entry]
         /\ faults' \in 0..MaxFaults
         /\ lost' \subseteq Machines
<1>1. faults' \in 0..MaxFaults
  BY RefreshTyped, ConstantsAssumption DEF Reads, TypeOK
<1>2. served' \in [Machines -> SUBSET Entry] /\ snapshot' \in [Machines -> SUBSET Entry]
  BY RefreshTyped DEF Reads, TypeOK
<1>3. lost' \subseteq Machines
  BY DEF Reads, TypeOK
<1>. QED
  BY <1>1, <1>2, <1>3

\* A process that has been given p, an unloaded one knowing nothing.
LEMMA ProcTyped ==
  ASSUME TypeOK, NEW m \in Machines, NEW p \in Process, p.loaded \/ p.known = {},
         proc' = [proc EXCEPT ![m] = p]
  PROVE  /\ proc' \in [Machines -> Process]
         /\ \A n \in Machines : ~proc'[n].loaded => proc'[n].known = {}
  BY DEF TypeOK

LEMMA ReadAgainTyped ==
  ASSUME TypeOK, NEW m \in Machines, NEW p \in Process, p.loaded \/ p.known = {},
         ReadAgain(m, p)
  PROVE  /\ proc' \in [Machines -> Process]
         /\ \A n \in Machines : ~proc'[n].loaded => proc'[n].known = {}
<1>1. [p EXCEPT !.signature = NoSignature] \in Process
  BY EmptySignature DEF Process, Signatures
<1>2. \/ [p EXCEPT !.signature = NoSignature].loaded
      \/ [p EXCEPT !.signature = NoSignature].known = {}
  BY DEF Process
<1>. QED
  BY <1>1, <1>2, ProcTyped DEF ReadAgain

LEMMA TypeInit == Init => TypeOK
  BY ConstantsAssumption, NewProcessTyped DEF Init, TypeOK, NewProcess

LEMMA TypeStep == TypeOK /\ [Next]_vars => TypeOK'
<1>. SUFFICES ASSUME TypeOK, [Next]_vars PROVE TypeOK'
  OBVIOUS
<1>1. ASSUME NEW m \in Machines, Look(m) PROVE TypeOK'
  <2>1. PICK r \in Refreshes(m) : Reads(m, r) /\ proc' = [proc EXCEPT ![m] = r.proc]
    BY <1>1 DEF Look
  <2>. QED
    BY <1>1, <2>1, RefreshTyped, ReadsTyped, ProcTyped DEF Look, TypeOK
<1>2. ASSUME NEW m \in Machines, NEW s \in Subjects, Trash(m, s) PROVE TypeOK'
  <2>1. PICK f \in Forgets : Append(m, {New(m, f, s, "trashed")})
    BY <1>2 DEF Trash
  <2>2. {New(m, f, s, "trashed")} \in SUBSET Entry
    BY <2>1, NewTyped DEF Append, States, ForgottenStates
  <2>3. proc[m] \in Process /\ (proc[m].loaded \/ proc[m].known = {})
    BY DEF TypeOK
  <2>. QED
    BY <1>2, <2>1, <2>2, <2>3, AppendTyped, ReadAgainTyped DEF Trash, TypeOK
<1>3. ASSUME NEW m \in Machines, NEW r \in Refreshes(m), NEW es \in SUBSET Entry,
             Reads(m, r), Append(m, es), ReadAgain(m, r.proc)
      PROVE  TypeOK'
  BY <1>3, RefreshTyped, ReadsTyped, AppendTyped, ReadAgainTyped DEF TypeOK
<1>4. ASSUME NEW m \in Machines, NEW f \in Forgets, Restore(m, f) PROVE TypeOK'
  <2>1. PICK r \in Refreshes(m) :
          /\ Reads(m, r)
          /\ Append(m, {New(m, f, s, "restored") : s \in ForgetEntries(r.proc.known, f, "trashed")})
          /\ ReadAgain(m, r.proc)
    BY <1>4 DEF Restore
  <2>2. ForgetEntries(r.proc.known, f, "trashed") \subseteq Subjects /\ "restored" \in States
    BY DEF ForgetEntries, States
  <2>3. appends < MaxAppends
    BY <2>1 DEF Append
  <2>4. {New(m, f, s, "restored") : s \in ForgetEntries(r.proc.known, f, "trashed")} \in SUBSET Entry
    BY <2>2, <2>3, NewTyped
  <2>. QED
    BY <1>3, <2>1, <2>4
<1>5. ASSUME NEW m \in Machines, NEW f \in Forgets, Purge(m, f) PROVE TypeOK'
  <2>1. PICK r \in Refreshes(m) :
          /\ Reads(m, r)
          /\ Append(m, {New(m, f, s, "purged") : s \in ForgetEntries(r.proc.known, f, "trashed")})
          /\ ReadAgain(m, r.proc)
    BY <1>5 DEF Purge
  <2>2. ForgetEntries(r.proc.known, f, "trashed") \subseteq Subjects /\ "purged" \in States
    BY DEF ForgetEntries, States, ForgottenStates
  <2>3. appends < MaxAppends
    BY <2>1 DEF Append
  <2>4. {New(m, f, s, "purged") : s \in ForgetEntries(r.proc.known, f, "trashed")} \in SUBSET Entry
    BY <2>2, <2>3, NewTyped
  <2>. QED
    BY <1>3, <2>1, <2>4
<1>6. ASSUME NEW m \in Machines, NEW s \in Subjects, RecordReadd(m, s) PROVE TypeOK'
  <2>1. PICK r \in Refreshes(m) :
          /\ Reads(m, r)
          /\ Append(m, {New(m, f, s, "readded") : f \in Live(r.proc.known, s)})
          /\ ReadAgain(m, r.proc)
    BY <1>6 DEF RecordReadd
  <2>2. Live(r.proc.known, s) \subseteq Forgets /\ "readded" \in States
    BY DEF Live, States
  <2>3. appends < MaxAppends
    BY <2>1 DEF Append
  <2>4. {New(m, f, s, "readded") : f \in Live(r.proc.known, s)} \in SUBSET Entry
    BY <2>2, <2>3, NewTyped
  <2>. QED
    BY <1>3, <2>1, <2>4
<1>7. ASSUME NEW m \in Machines, NEW n \in Machines, Deliver(m, n) PROVE TypeOK'
  <2>1. copy[m] \in [Machines -> SUBSET Entry] /\ copy[n][n] \in SUBSET Entry
    BY DEF TypeOK
  <2>2. [copy[m] EXCEPT ![n] = copy[n][n]] \in [Machines -> SUBSET Entry]
    BY <2>1
  <2>. QED
    BY <1>7, <2>2 DEF Deliver, TypeOK
<1>8. ASSUME NEW m \in Machines, Unmount(m) \/ Mount(m) PROVE TypeOK'
  <2>1. faults' \in 0..MaxFaults
    BY <1>8, ConstantsAssumption DEF Unmount, Mount, Fault, TypeOK
  <2>. QED
    BY <1>8, <2>1 DEF Unmount, Mount, TypeOK
<1>9. ASSUME NEW m \in Machines, Restart(m) PROVE TypeOK'
  <2>1. proc' = [proc EXCEPT ![m] = NewProcess] /\ NewProcess.known = {}
    BY <1>9 DEF Restart, NewProcess
  <2>2. faults' \in 0..MaxFaults
    BY <1>9, ConstantsAssumption DEF Restart, Fault, TypeOK
  <2>. QED
    BY <1>9, <2>1, <2>2, NewProcessTyped, ProcTyped DEF Restart, TypeOK
<1>10. CASE UNCHANGED vars
  BY <1>10 DEF vars, TypeOK
<1>. QED
  BY <1>1, <1>2, <1>4, <1>5, <1>6, <1>7, <1>8, <1>9, <1>10 DEF Next

\* Types, for every instance (TypeOK).
THEOREM RegistryTypes == Spec => []TypeOK
  BY TypeInit, TypeStep, PTL DEF Spec

-----------------------------------------------------------------------------
(* Where entries come from. *)

Recorded == UNION {copy[n][n] \cup stray[n] : n \in Machines}

\* No machine holds or has used an entry that no append made.
NothingInvented ==
    /\ \A m, n \in Machines : copy[m][n] \subseteq copy[n][n]
    /\ \A m \in Machines : /\ served[m] \subseteq Recorded
                           /\ snapshot[m] \subseteq Recorded
                           /\ proc[m].known \subseteq Recorded
                           /\ \A n \in Machines : proc[m].perFile[n] \subseteq Recorded

\* Every entry carries the stamp of an append that has happened, and those of
\* one append agree on the state they record.
StampedByAppends ==
    /\ \A e \in Recorded : \E m \in Machines, k \in 1..appends : e.at = Stamp[m][k]
    /\ StampsTell(Recorded)

\* What an append puts down: one stamp, one state.
OneStamp(m, es) ==
    \E st \in States : \A e \in es : e.at = Stamp[m][appends + 1] /\ e.state = st

LEMMA AppendRecords ==
  ASSUME TypeOK, NothingInvented, NEW m \in Machines, NEW es, Append(m, es)
  PROVE  /\ Recorded' = Recorded \cup es
         /\ \A k, n \in Machines : copy'[k][n] \subseteq copy'[n][n]
<1>1. CASE mounted[m] /\ copy' = [copy EXCEPT ![m][m] = @ \cup es] /\ UNCHANGED stray
  <2>1. /\ copy'[m][m] = copy[m][m] \cup es
        /\ \A k, n \in Machines : k # m \/ n # m => copy'[k][n] = copy[k][n]
    BY <1>1 DEF TypeOK
  <2>2. \A n \in Machines : copy[n][n] \subseteq copy'[n][n]
    BY <2>1
  <2>3. \A k, n \in Machines : copy'[k][n] \subseteq copy'[n][n]
    BY <2>1, <2>2 DEF NothingInvented
  <2>. QED
    BY <1>1, <2>1, <2>3 DEF Recorded
<1>2. CASE ~mounted[m] /\ stray' = [stray EXCEPT ![m] = @ \cup es] /\ UNCHANGED copy
  BY <1>2 DEF TypeOK, NothingInvented, Recorded
<1>. QED
  BY <1>1, <1>2 DEF Append

LEMMA RecordedSources ==
  ASSUME NothingInvented, NEW m \in Machines
  PROVE  SourcesWithin(m, Recorded)
  BY DEF NothingInvented, SourcesWithin, Folder, Recorded

LEMMA ReadsInvent ==
  ASSUME TypeOK, NothingInvented, NEW m \in Machines, NEW r \in Refreshes(m), Reads(m, r)
  PROVE  /\ r.proc.known \subseteq Recorded
         /\ \A n \in Machines : r.proc.perFile[n] \subseteq Recorded
         /\ \A n \in Machines : served'[n] \subseteq Recorded /\ snapshot'[n] \subseteq Recorded
<1>1. proc[m] \in Process
  BY DEF TypeOK
<1>2. /\ r.proc.known \subseteq Recorded /\ r.snapshot \subseteq Recorded
      /\ \A n \in Machines : r.proc.perFile[n] \subseteq Recorded
  BY <1>1, RecordedSources, RefreshWithin
<1>. QED
  BY <1>2 DEF Reads, NothingInvented, TypeOK

LEMMA StampedAppend ==
  ASSUME TypeOK, StampedByAppends, NEW m \in Machines, NEW es \in SUBSET Entry,
         OneStamp(m, es), appends < MaxAppends, appends' = appends + 1,
         Recorded' = Recorded \cup es
  PROVE  StampedByAppends'
<1>. DEFINE now == Stamp[m][appends + 1]
<1>1. PICK st \in States : \A e \in es : e.at = now /\ e.state = st
  BY DEF OneStamp
<1>2. now \in Nat /\ appends \in Nat /\ appends + 1 \in 1..MaxAppends /\ MaxAppends \in Nat
  BY ConstantsAssumption DEF TypeOK
<1>3. \A e \in Recorded : e.at # now
  <2>. SUFFICES ASSUME NEW e \in Recorded PROVE e.at # now
    OBVIOUS
  <2>1. PICK n \in Machines, k \in 1..appends : e.at = Stamp[n][k]
    BY DEF StampedByAppends
  <2>2. k \in 1..MaxAppends /\ k # appends + 1
    BY <1>2, appends < MaxAppends
  <2>. QED
    BY <1>2, <2>1, <2>2, ConstantsAssumption
<1>4. \A e \in Recorded \cup es : \E n \in Machines, k \in 1..(appends + 1) : e.at = Stamp[n][k]
  <2>1. \A e \in Recorded : \E n \in Machines, k \in 1..(appends + 1) : e.at = Stamp[n][k]
    BY <1>2 DEF StampedByAppends
  <2>2. \A e \in es : e.at = Stamp[m][appends + 1] /\ appends + 1 \in 1..(appends + 1)
    BY <1>1, <1>2
  <2>. QED
    BY <2>1, <2>2
<1>5. \A x, y \in Recorded \cup es : x.at = y.at => x.state = y.state
  BY <1>1, <1>3 DEF StampedByAppends, StampsTell
<1>6. PICK t \in Nat : \A e \in Recorded : e.at <= t /\ e.at \in Nat
  <2>1. \A e \in Recorded : e.at \in Nat
    BY DEF TypeOK, Recorded, Entry
  <2>. QED
    BY <2>1 DEF StampedByAppends, StampsTell
<1>7. \A e \in Recorded \cup es : e.at <= t + now
  BY <1>1, <1>2, <1>6
<1>8. t + now \in Nat
  BY <1>2
<1>9. StampsTell(Recorded \cup es)
  BY <1>5, <1>7, <1>8 DEF StampsTell
<1>. QED
  BY <1>4, <1>9 DEF StampedByAppends

Inv == TypeOK /\ NothingInvented /\ StampedByAppends

LEMMA InvInit == Init => Inv
<1>. SUFFICES ASSUME Init PROVE Inv
  OBVIOUS
<1>1. Recorded = {}
  BY DEF Init, Recorded
<1>2. NothingInvented
  BY <1>1 DEF Init, NothingInvented, NewProcess
<1>3. StampedByAppends
  <2>1. 0 \in Nat
    OBVIOUS
  <2>. QED
    BY <1>1, <2>1 DEF StampedByAppends, StampsTell
<1>. QED
  BY <1>2, <1>3, TypeInit DEF Inv

LEMMA StampsUnchanged ==
  ASSUME StampedByAppends, Recorded' = Recorded, UNCHANGED appends
  PROVE  StampedByAppends'
  BY DEF StampedByAppends

\* A read that is followed by an append.
LEMMA ReadAppendStep ==
  ASSUME Inv, NEW m \in Machines, NEW r \in Refreshes(m), NEW es \in SUBSET Entry,
         OneStamp(m, es), Reads(m, r), Append(m, es), ReadAgain(m, r.proc)
  PROVE  NothingInvented' /\ StampedByAppends'
<1>1. /\ Recorded' = Recorded \cup es
      /\ \A k, n \in Machines : copy'[k][n] \subseteq copy'[n][n]
  BY AppendRecords DEF Inv
<1>2. StampedByAppends'
  BY <1>1, StampedAppend DEF Inv, Append
<1>3. /\ r.proc.known \subseteq Recorded
      /\ \A n \in Machines : r.proc.perFile[n] \subseteq Recorded
      /\ \A n \in Machines : served'[n] \subseteq Recorded /\ snapshot'[n] \subseteq Recorded
  BY ReadsInvent DEF Inv
<1>4. \A n \in Machines : /\ proc'[n].known \subseteq Recorded
                          /\ \A k \in Machines : proc'[n].perFile[k] \subseteq Recorded
  <2>1. r.proc \in Process
    BY RefreshTyped DEF Inv
  <2>2. /\ [r.proc EXCEPT !.signature = NoSignature].known = r.proc.known
        /\ [r.proc EXCEPT !.signature = NoSignature].perFile = r.proc.perFile
    BY <2>1 DEF Process
  <2>. QED
    BY <1>3, <2>2 DEF ReadAgain, Inv, TypeOK, NothingInvented
<1>. QED
  BY <1>1, <1>2, <1>3, <1>4 DEF NothingInvented

LEMMA InvStep == Inv /\ [Next]_vars => Inv'
<1>. SUFFICES ASSUME Inv, [Next]_vars PROVE NothingInvented' /\ StampedByAppends'
  BY TypeStep DEF Inv
<1>. USE DEF Inv
<1>1. ASSUME NEW m \in Machines, Look(m) PROVE NothingInvented' /\ StampedByAppends'
  <2>1. PICK r \in Refreshes(m) : Reads(m, r) /\ proc' = [proc EXCEPT ![m] = r.proc]
    BY <1>1 DEF Look
  <2>2. Recorded' = Recorded
    BY <1>1 DEF Look, Recorded
  <2>3. NothingInvented'
    BY <1>1, <2>1, <2>2, ReadsInvent DEF Look, NothingInvented, TypeOK
  <2>. QED
    BY <1>1, <2>2, <2>3, StampsUnchanged DEF Look
<1>2. ASSUME NEW m \in Machines, NEW s \in Subjects, Trash(m, s)
      PROVE  NothingInvented' /\ StampedByAppends'
  <2>1. PICK f \in Forgets : Append(m, {New(m, f, s, "trashed")})
    BY <1>2 DEF Trash
  <2>. DEFINE es == {New(m, f, s, "trashed")}
  <2>2. /\ Recorded' = Recorded \cup es
        /\ \A k, n \in Machines : copy'[k][n] \subseteq copy'[n][n]
    BY <2>1, AppendRecords
  <2>3. es \in SUBSET Entry /\ OneStamp(m, es)
    <3>1. appends < MaxAppends /\ "trashed" \in States
      BY <2>1 DEF Append, States, ForgottenStates
    <3>2. es \in SUBSET Entry
      BY <3>1, NewTyped
    <3>3. OneStamp(m, es)
      BY <3>1 DEF OneStamp, New
    <3>. QED
      BY <3>2, <3>3
  <2>4. StampedByAppends'
    BY <2>1, <2>2, <2>3, StampedAppend DEF Append
  <2>5. \A n \in Machines : proc'[n].known = proc[n].known /\ proc'[n].perFile = proc[n].perFile
    BY <1>2 DEF Trash, ReadAgain, TypeOK, Process
  <2>6. NothingInvented'
    BY <1>2, <2>2, <2>5 DEF Trash, NothingInvented
  <2>. QED
    BY <2>4, <2>6
<1>3. ASSUME NEW m \in Machines, NEW f \in Forgets, Restore(m, f)
      PROVE  NothingInvented' /\ StampedByAppends'
  <2>1. PICK r \in Refreshes(m) :
          /\ Reads(m, r)
          /\ Append(m, {New(m, f, s, "restored") : s \in ForgetEntries(r.proc.known, f, "trashed")})
          /\ ReadAgain(m, r.proc)
    BY <1>3 DEF Restore
  <2>. DEFINE es == {New(m, f, s, "restored") : s \in ForgetEntries(r.proc.known, f, "trashed")}
  <2>2. ForgetEntries(r.proc.known, f, "trashed") \subseteq Subjects /\ "restored" \in States
    BY DEF ForgetEntries, States
  <2>3. appends < MaxAppends
    BY <2>1 DEF Append
  <2>4. es \in SUBSET Entry
    BY <2>2, <2>3, NewTyped
  <2>5. OneStamp(m, es)
    BY <2>2 DEF OneStamp, New
  <2>. QED
    BY <2>1, <2>4, <2>5, ReadAppendStep
<1>4. ASSUME NEW m \in Machines, NEW f \in Forgets, Purge(m, f)
      PROVE  NothingInvented' /\ StampedByAppends'
  <2>1. PICK r \in Refreshes(m) :
          /\ Reads(m, r)
          /\ Append(m, {New(m, f, s, "purged") : s \in ForgetEntries(r.proc.known, f, "trashed")})
          /\ ReadAgain(m, r.proc)
    BY <1>4 DEF Purge
  <2>. DEFINE es == {New(m, f, s, "purged") : s \in ForgetEntries(r.proc.known, f, "trashed")}
  <2>2. ForgetEntries(r.proc.known, f, "trashed") \subseteq Subjects /\ "purged" \in States
    BY DEF ForgetEntries, States, ForgottenStates
  <2>3. appends < MaxAppends
    BY <2>1 DEF Append
  <2>4. es \in SUBSET Entry
    BY <2>2, <2>3, NewTyped
  <2>5. OneStamp(m, es)
    BY <2>2 DEF OneStamp, New
  <2>. QED
    BY <2>1, <2>4, <2>5, ReadAppendStep
<1>5. ASSUME NEW m \in Machines, NEW s \in Subjects, RecordReadd(m, s)
      PROVE  NothingInvented' /\ StampedByAppends'
  <2>1. PICK r \in Refreshes(m) :
          /\ Reads(m, r)
          /\ Append(m, {New(m, f, s, "readded") : f \in Live(r.proc.known, s)})
          /\ ReadAgain(m, r.proc)
    BY <1>5 DEF RecordReadd
  <2>. DEFINE es == {New(m, f, s, "readded") : f \in Live(r.proc.known, s)}
  <2>2. Live(r.proc.known, s) \subseteq Forgets /\ "readded" \in States
    BY DEF Live, States
  <2>3. appends < MaxAppends
    BY <2>1 DEF Append
  <2>4. es \in SUBSET Entry
    BY <2>2, <2>3, NewTyped
  <2>5. OneStamp(m, es)
    BY <2>2 DEF OneStamp, New
  <2>. QED
    BY <2>1, <2>4, <2>5, ReadAppendStep
<1>6. ASSUME NEW m \in Machines, NEW n \in Machines, Deliver(m, n)
      PROVE  NothingInvented' /\ StampedByAppends'
  <2>1. /\ \A k \in Machines : copy'[k][k] = copy[k][k]
        /\ \A j, k \in Machines : copy'[j][k] = copy[j][k] \/ copy'[j][k] = copy[k][k]
    BY <1>6 DEF Deliver, TypeOK
  <2>2. Recorded' = Recorded
    BY <1>6, <2>1 DEF Deliver, Recorded
  <2>3. NothingInvented'
    BY <1>6, <2>1, <2>2 DEF Deliver, NothingInvented
  <2>. QED
    BY <1>6, <2>2, <2>3, StampsUnchanged DEF Deliver
<1>7. ASSUME NEW m \in Machines, Unmount(m) \/ Mount(m) \/ Restart(m)
      PROVE  NothingInvented' /\ StampedByAppends'
  <2>1. Recorded' = Recorded /\ UNCHANGED appends
    BY <1>7 DEF Unmount, Mount, Restart, Recorded
  <2>2. /\ UNCHANGED <<copy, served, snapshot>>
        /\ \A n \in Machines : proc'[n] = proc[n] \/ proc'[n] = NewProcess
    BY <1>7 DEF Unmount, Mount, Restart, TypeOK
  <2>3. NothingInvented'
    BY <2>1, <2>2 DEF NothingInvented, NewProcess
  <2>. QED
    BY <2>1, <2>3, StampsUnchanged
<1>8. CASE UNCHANGED vars
  <2>1. Recorded' = Recorded
    BY <1>8 DEF vars, Recorded
  <2>. QED
    BY <1>8, <2>1, StampsUnchanged DEF vars, NothingInvented
<1>. QED
  BY <1>1, <1>2, <1>3, <1>4, <1>5, <1>6, <1>7, <1>8 DEF Next

LEMMA InvAlways == Spec => []Inv
  BY InvInit, InvStep, PTL DEF Spec

LEMMA ServedTells ==
  ASSUME Inv, NEW m \in Machines
  PROVE  served[m] \in SUBSET Entry /\ StampsTell(served[m])
  BY DEF Inv, TypeOK, NothingInvented, StampedByAppends, StampsTell

-----------------------------------------------------------------------------
(* What answers are worth. *)

\* Whatever files a machine could read, the entry its index keeps for a
\* subject forgets it exactly when one of its forgets is live (IndexAgrees).
THEOREM IndexAlwaysAgrees == Spec => []IndexAgrees
<1>1. Inv => IndexAgrees
  BY ServedTells, IndexIsRight, ConstantsAssumption DEF IndexAgrees
<1>. QED
  BY <1>1, InvAlways, PTL

\* Purged wins over every restore, however its clock is set; only a re-add
\* that names the forget brings the subject back (PurgedStaysForgotten).
THEOREM PurgedForGood == Spec => []PurgedStaysForgotten
<1>1. ASSUME Inv, NEW m \in Machines, NEW e \in served[m], e.state = "purged",
             \A r \in served[m] : ~(r.subject = e.subject /\ r.forget = e.forget /\ r.state = "readded")
      PROVE  IsForgotten(served[m], e.subject)
  <2>1. e \in About(served[m], e.subject) /\ e.forget \in Forgets
    BY <1>1, ServedTells DEF About, Entry
  <2>2. e.forget \notin Cancelled(served[m], e.subject)
    BY <1>1 DEF Cancelled, Readds, About
  <2>3. e \in Standing(served[m], e.subject, e.forget)
    BY <2>1, <2>2, StandingForgets
  <2>4. IsLive(served[m], e.subject, e.forget)
    BY <1>1, <2>3 DEF IsLive, ForgottenStates, Wins
  <2>. QED
    BY <2>1, <2>4 DEF IsForgotten
<1>2. Inv => PurgedStaysForgotten
  BY <1>1 DEF PurgedStaysForgotten
<1>. QED
  BY <1>2, InvAlways, PTL

\* A forget nobody has restored, purged or cancelled keeps its subjects
\* forgotten, whatever other forgets of them have become (AnyLiveForgetCounts).
THEOREM AnyLiveForget == Spec => []AnyLiveForgetCounts
<1>1. ASSUME Inv, NEW m \in Machines, NEW e \in served[m], e.state = "trashed",
             \A x \in served[m] : x.forget = e.forget => x.state = "trashed"
      PROVE  StateOf(served[m], e.subject) \in ForgottenStates
  <2>1. e \in About(served[m], e.subject) /\ e.forget \in Forgets
    BY <1>1, ServedTells DEF About, Entry
  <2>2. e.forget \notin Cancelled(served[m], e.subject)
    BY <1>1 DEF Cancelled, Readds, About
  <2>3. e \in Standing(served[m], e.subject, e.forget)
    BY <2>1, <2>2, StandingForgets
  <2>4. \A r \in Standing(served[m], e.subject, e.forget) : r.state = "trashed"
    BY <1>1 DEF Standing, About
  <2>5. IsLive(served[m], e.subject, e.forget)
    BY <1>1, <2>3, <2>4 DEF IsLive, ForgottenStates
  <2>6. IsForgotten(served[m], e.subject)
    BY <2>1, <2>5 DEF IsForgotten
  <2>. QED
    BY <1>1, <2>6, ServedTells, IndexIsRight, ConstantsAssumption
<1>2. Inv => AnyLiveForgetCounts
  BY <1>1 DEF AnyLiveForgetCounts
<1>. QED
  BY <1>2, InvAlways, PTL

\* Once re-adds name every forget of a subject, its content is back on every
\* machine that has read them (ReaddBringsBack).
THEOREM ReaddAlwaysBringsBack == Spec => []ReaddBringsBack
<1>1. ASSUME Inv, NEW m \in Machines, NEW s \in Subjects,
             \A e \in About(served[m], s) :
                e.state \in ForgottenStates =>
                    \E r \in About(served[m], s) : r.forget = e.forget /\ r.state = "readded"
      PROVE  StateOf(served[m], s) \notin ForgottenStates
  <2>1. \A f \in Forgets : ~IsLive(served[m], s, f)
    <3>. SUFFICES ASSUME NEW f \in Forgets, IsLive(served[m], s, f) PROVE FALSE
      OBVIOUS
    <3>1. PICK e \in Standing(served[m], s, f) : e.state \in ForgottenStates
      BY DEF IsLive
    <3>2. e \in About(served[m], s) /\ e.forget = f /\ f \notin Cancelled(served[m], s)
      BY <3>1 DEF Standing
    <3>. QED
      BY <1>1, <3>1, <3>2 DEF Cancelled, Readds
  <2>2. ~IsForgotten(served[m], s)
    BY <2>1 DEF IsForgotten
  <2>. QED
    BY <1>1, <2>2, ServedTells, IndexIsRight, ConstantsAssumption
<1>2. Inv => ReaddBringsBack
  BY <1>1 DEF ReaddBringsBack
<1>. QED
  BY <1>2, InvAlways, PTL

-----------------------------------------------------------------------------
(* No forget lapses, but where entries are lost.                           *)

CopyOf(m) == UNION {copy[m][n] : n \in Machines}

Files(p) == UNION {p.perFile[n] : n \in Machines}
ReadBy(m, files, unread) == UNION {ReadFile(m, n, unread) : n \in files}

\* What m knows it has from its files or from the snapshot, and both are still to
\* be had from the folder.
KnowledgeKept(m) ==
    /\ served[m] \subseteq AlreadyKnown(m)
    /\ proc[m].known \subseteq Files(proc[m]) \cup snapshot[m]
    /\ snapshot[m] \subseteq CopyOf(m)
    /\ \A n \in Machines : proc[m].perFile[n] \subseteq copy[m][n]

AllKept == \A m \in Machines \ lost : KnowledgeKept(m)

\* A load of all the files of the folder, some of them perhaps unread.
LEMMA WholeLoadKeeps ==
  ASSUME Inv, NEW m \in Machines, NEW files, NEW unread,
         Whole(m, files), mounted[m]
  PROVE  LET p == Reloaded(m, files, unread)
         IN  /\ unread = {} => /\ p.known = CopyOf(m)
                               /\ \A n \in Machines : p.perFile[n] = copy[m][n]
             /\ KnowledgeKept(m) =>
                  /\ unread # {} => /\ served[m] \subseteq p.known
                                    /\ p.known \subseteq Files(p) \cup snapshot[m]
                  /\ \A n \in Machines : p.perFile[n] \subseteq copy[m][n]
<1>. DEFINE p == Reloaded(m, files, unread)
<1>1. files = {n \in Machines : copy[m][n] # {}} /\ \A n \in Machines : Folder(m)[n] = copy[m][n]
  BY DEF Whole, Folder
<1>2. /\ p.known = ReadBy(m, files, unread) \cup (IF unread = {} THEN {} ELSE snapshot[m])
      /\ \A n \in Machines : p.perFile[n] = IF n \in files THEN ReadFile(m, n, unread) ELSE {}
  <2>1. p.perFile = [n \in Machines |-> IF n \in files THEN ReadFile(m, n, unread) ELSE {}]
    BY DEF Reloaded
  <2>2. p.known = ReadBy(m, files, unread) \cup (IF unread = {} THEN {} ELSE snapshot[m])
    BY Zenon DEF Reloaded, ReadBy
  <2>. HIDE DEF p
  <2>. QED
    BY <2>1, <2>2
<1>3. \A n \in Machines : ReadFile(m, n, unread) = IF n \in unread THEN proc[m].perFile[n] ELSE copy[m][n]
  BY <1>1 DEF ReadFile
<1>. HIDE DEF p
<1>4. ASSUME unread = {}
      PROVE  p.known = CopyOf(m) /\ \A n \in Machines : p.perFile[n] = copy[m][n]
  BY <1>1, <1>2, <1>3, <1>4 DEF CopyOf, ReadBy
<1>5. ASSUME KnowledgeKept(m)
      PROVE  /\ unread # {} => /\ served[m] \subseteq p.known
                               /\ p.known \subseteq Files(p) \cup snapshot[m]
             /\ \A n \in Machines : p.perFile[n] \subseteq copy[m][n]
  <2>1. /\ \A n \in Machines : proc[m].perFile[n] \subseteq copy[m][n]
        /\ served[m] \subseteq Files(proc[m]) \cup snapshot[m]
    BY <1>5 DEF KnowledgeKept, AlreadyKnown
  <2>2. \A n \in Machines : p.perFile[n] \subseteq copy[m][n] /\ proc[m].perFile[n] \subseteq p.perFile[n]
    BY <1>1, <1>2, <1>3, <2>1
  <2>3. ASSUME unread # {}
        PROVE  p.known = Files(p) \cup snapshot[m]
    <3>1. ReadBy(m, files, unread) \subseteq Files(p)
      BY <1>1, <1>2 DEF Files, ReadBy
    <3>2. Files(p) \subseteq ReadBy(m, files, unread)
      BY <1>1, <1>2 DEF Files, ReadBy
    <3>3. p.known = ReadBy(m, files, unread) \cup snapshot[m]
      BY <1>2, <2>3
    <3>. QED
      BY <3>1, <3>2, <3>3
  <2>4. Files(proc[m]) \subseteq Files(p)
    BY <2>2 DEF Files
  <2>5. unread # {} => served[m] \subseteq p.known /\ p.known \subseteq Files(p) \cup snapshot[m]
    BY <2>1, <2>3, <2>4
  <2>. QED
    BY <2>2, <2>5
<1>. QED
  BY <1>4, <1>5 DEF p

\* What m knows, once it has read: nothing is missing, unless it loses entries.
KnowsOn(m, r) ==
    /\ r.proc.known \subseteq Files(r.proc) \cup r.snapshot
    /\ r.snapshot \subseteq CopyOf(m)
    /\ \A n \in Machines : r.proc.perFile[n] \subseteq copy[m][n]
    /\ m \notin lost => served[m] \subseteq r.proc.known

LEMMA ReadKeeps ==
  ASSUME Inv, AllKept, NEW m \in Machines, NEW r \in Refreshes(m), ~r.loses
  PROVE  KnowsOn(m, r)
<1>1. PICK gone \in SUBSET Machines, unread \in SUBSET Machines :
        /\ r.proc = Refresh(m, Present(m) \ gone, unread)
        /\ r.snapshot = IF WritesSnapshot(m, Present(m) \ gone, unread) THEN r.proc.known
                        ELSE snapshot[m]
        /\ r.loses = Losing(m, Present(m) \ gone, unread)
  BY RefreshShape, ZenonT(30)
<1>2. PICK files : files = Present(m) \ gone
  OBVIOUS
<1>3. /\ r.proc = Refresh(m, files, unread) /\ ~Losing(m, files, unread)
      /\ r.snapshot = IF WritesSnapshot(m, files, unread) THEN r.proc.known ELSE snapshot[m]
      /\ files \subseteq Machines
  BY <1>1, <1>2 DEF Present
<1>4. proc[m] \in Process
  BY DEF Inv, TypeOK
<1>5. CASE ~Loads(m, files)
  <2>1. KnowledgeKept(m) /\ m \notin lost /\ r.snapshot = snapshot[m]
    BY <1>3, <1>5 DEF Losing, AllKept, WritesSnapshot
  <2>2. CASE files = {} /\ AlreadyKnown(m) # {}
    <3>1. r.proc = Kept(m)
      BY <1>3, <2>2 DEF Refresh
    <3>2. Kept(m).known = AlreadyKnown(m) /\ Kept(m).perFile = proc[m].perFile
      BY <1>4 DEF Kept, AlreadyKnown, Process
    <3>. QED
      BY <2>1, <3>1, <3>2 DEF KnowledgeKept, KnowsOn, AlreadyKnown, Files
  <2>3. CASE ~(files = {} /\ AlreadyKnown(m) # {})
    <3>1. r.proc = proc[m] /\ proc[m].loaded
      BY <1>3, <1>5, <2>3 DEF Refresh, Loads
    <3>. QED
      BY <2>1, <3>1 DEF KnowledgeKept, KnowsOn, AlreadyKnown, Files
  <2>. QED
    BY <2>2, <2>3
<1>6. CASE Loads(m, files)
  <2>1. /\ Whole(m, files) /\ (unread = {} \/ m \notin lost)
        /\ r.proc = Reloaded(m, files, unread)
        /\ r.snapshot = IF unread = {} THEN r.proc.known ELSE snapshot[m]
    BY <1>3, <1>6 DEF Losing, Loads, WritesSnapshot, Refresh
  <2>2. m \notin lost => KnowledgeKept(m)
    BY DEF AllKept
  <2>3. CASE mounted[m] /\ unread = {}
    <3>1. r.proc.known = CopyOf(m) /\ \A n \in Machines : r.proc.perFile[n] = copy[m][n]
      BY <2>1, <2>3, WholeLoadKeeps
    <3>2. m \notin lost => served[m] \subseteq CopyOf(m)
      BY <2>2 DEF KnowledgeKept, AlreadyKnown, Files, CopyOf
    <3>. QED
      BY <2>1, <2>3, <3>1, <3>2 DEF KnowsOn
  <2>4. CASE mounted[m] /\ unread # {}
    BY <2>1, <2>2, <2>4, WholeLoadKeeps DEF KnowsOn, KnowledgeKept
  <2>5. CASE ~mounted[m]
    <3>1. files = {} /\ AlreadyKnown(m) = {}
      BY <1>6, <2>1, <2>5 DEF Whole, Loads
    <3>2. m \notin lost => served[m] = {} /\ snapshot[m] \subseteq CopyOf(m)
      BY <2>2, <3>1 DEF KnowledgeKept
    <3>3. /\ r.proc.known = IF unread = {} THEN {} ELSE snapshot[m]
          /\ \A n \in Machines : r.proc.perFile[n] = {}
      BY <2>1, <3>1 DEF Reloaded
    <3>. QED
      BY <2>1, <3>2, <3>3 DEF KnowsOn
  <2>. QED
    BY <2>3, <2>4, <2>5
<1>. QED
  BY <1>5, <1>6

LEMMA KeptInit == Init => AllKept
  BY DEF Init, AllKept, KnowledgeKept, NewProcess, AlreadyKnown

\* An append adds to the copy of its machine, or to a stray file.
LEMMA AppendKeeps ==
  ASSUME Inv, NEW m \in Machines, NEW es, Append(m, es)
  PROVE  \A n, k \in Machines : copy[n][k] \subseteq copy'[n][k]
  BY DEF Append, Inv, TypeOK

CopiesGrow == \A n, k \in Machines : copy[n][k] \subseteq copy'[n][k]

\* What a machine does not touch stays kept.
LEMMA OtherKept ==
  ASSUME CopiesGrow, NEW m \in Machines, KnowledgeKept(m), served'[m] = served[m],
         snapshot'[m] = snapshot[m], proc'[m].known = proc[m].known,
         proc'[m].loaded = proc[m].loaded, proc'[m].perFile = proc[m].perFile
  PROVE  KnowledgeKept(m)'
<1>1. CopyOf(m) \subseteq CopyOf(m)'
  BY DEF CopiesGrow, CopyOf
<1>. QED
  BY <1>1 DEF CopiesGrow, KnowledgeKept, AlreadyKnown, Files

Held(m) == m \in lost \cup lost' \/ served[m] \subseteq served'[m]

\* A read, after which the process knows what was served.
LEMMA ReadStepKeeps ==
  ASSUME Inv, AllKept, NEW m \in Machines, NEW r \in Refreshes(m), Reads(m, r), CopiesGrow,
         proc'[m].known = r.proc.known, proc'[m].loaded, proc'[m].perFile = r.proc.perFile,
         \A n \in Machines : n # m => proc'[n] = proc[n]
  PROVE  AllKept' /\ \A n \in Machines : Held(n)
<1>1. /\ served'[m] = r.proc.known /\ snapshot'[m] = r.snapshot
      /\ m \in lost' <=> r.loses
      /\ \A n \in Machines : n # m => /\ served'[n] = served[n] /\ snapshot'[n] = snapshot[n]
                                      /\ n \in lost' <=> n \in lost
  BY DEF Reads, Inv, TypeOK
<1>2. ASSUME NEW n \in Machines \ lost', n # m PROVE KnowledgeKept(n)'
  BY <1>1, <1>2, OtherKept DEF AllKept
<1>3. ASSUME m \notin lost' PROVE KnowledgeKept(m)' /\ Held(m)
  <2>1. KnowsOn(m, r)
    BY <1>1, <1>3, ReadKeeps
  <2>2. CopyOf(m) \subseteq CopyOf(m)' /\ Files(proc[m])' = Files(r.proc)
    BY DEF CopiesGrow, CopyOf, Files
  <2>3. KnowledgeKept(m)'
    BY <1>1, <2>1, <2>2 DEF KnowsOn, KnowledgeKept, AlreadyKnown, CopiesGrow
  <2>. QED
    BY <1>1, <2>1, <2>3 DEF KnowsOn, Held
<1>4. \A n \in Machines : Held(n)
  BY <1>1, <1>3 DEF Held
<1>. QED
  BY <1>2, <1>3, <1>4 DEF AllKept

LEMMA KeptStep ==
  ASSUME Inv, AllKept, [Next]_vars
  PROVE  AllKept' /\ \A n \in Machines : Held(n)
<1>. DEFINE Goal == AllKept' /\ \A n \in Machines : Held(n)
<1>1. ASSUME NEW m \in Machines, Look(m) PROVE Goal
  <2>1. PICK r \in Refreshes(m) : Reads(m, r) /\ proc' = [proc EXCEPT ![m] = r.proc]
    BY <1>1 DEF Look
  <2>2. /\ proc'[m] = r.proc /\ proc'[m].loaded
        /\ \A n \in Machines : n # m => proc'[n] = proc[n]
    BY <2>1, RefreshTyped DEF Inv, TypeOK
  <2>3. CopiesGrow
    BY <1>1 DEF Look, CopiesGrow
  <2>. QED
    BY <2>1, <2>2, <2>3, ReadStepKeeps
<1>2. ASSUME NEW m \in Machines, NEW r \in Refreshes(m), NEW es,
             Reads(m, r), Append(m, es), ReadAgain(m, r.proc)
      PROVE  Goal
  <2>1. r.proc \in Process /\ r.proc.loaded
    BY RefreshTyped DEF Inv
  <2>2. /\ proc'[m].known = r.proc.known /\ proc'[m].loaded /\ proc'[m].perFile = r.proc.perFile
        /\ \A n \in Machines : n # m => proc'[n] = proc[n]
    BY <1>2, <2>1 DEF ReadAgain, Inv, TypeOK, Process
  <2>. QED
    BY <1>2, <2>2, AppendKeeps, ReadStepKeeps DEF CopiesGrow
<1>3. ASSUME CopiesGrow, UNCHANGED <<snapshot, served, lost>>,
             \A n \in Machines : /\ proc'[n].known = proc[n].known /\ proc'[n].loaded = proc[n].loaded
                                 /\ proc'[n].perFile = proc[n].perFile
      PROVE  Goal
  BY <1>3, OtherKept DEF AllKept, Held
<1>4. ASSUME NEW m \in Machines, NEW s \in Subjects, Trash(m, s) PROVE Goal
  <2>1. \A n \in Machines : /\ proc'[n].known = proc[n].known /\ proc'[n].loaded = proc[n].loaded
                            /\ proc'[n].perFile = proc[n].perFile
    BY <1>4 DEF Trash, ReadAgain, Inv, TypeOK, Process
  <2>2. CopiesGrow
    BY <1>4, AppendKeeps DEF Trash, CopiesGrow
  <2>. QED
    BY <1>3, <1>4, <2>1, <2>2 DEF Trash
<1>5. ASSUME NEW m \in Machines, NEW f \in Forgets, Restore(m, f) \/ Purge(m, f) PROVE Goal
  BY <1>2, <1>5 DEF Restore, Purge
<1>6. ASSUME NEW m \in Machines, NEW s \in Subjects, RecordReadd(m, s) PROVE Goal
  BY <1>2, <1>6 DEF RecordReadd
<1>7. ASSUME NEW m \in Machines, NEW n \in Machines, Deliver(m, n) PROVE Goal
  <2>1. CopiesGrow
    BY <1>7 DEF Deliver, Inv, TypeOK, NothingInvented, CopiesGrow
  <2>. QED
    BY <1>3, <1>7, <2>1 DEF Deliver
<1>8. ASSUME NEW m \in Machines, Restart(m) PROVE Goal
  <2>1. /\ proc'[m] = NewProcess /\ UNCHANGED <<copy, served, snapshot>>
        /\ \A n \in Machines : n # m => proc'[n] = proc[n]
        /\ lost \subseteq lost' /\ (m \notin lost' => proc[m].known \subseteq snapshot[m])
    BY <1>8 DEF Restart, Inv, TypeOK
  <2>2. CopiesGrow
    BY <2>1 DEF CopiesGrow
  <2>3. ASSUME NEW n \in Machines \ lost' PROVE KnowledgeKept(n)'
    <3>1. KnowledgeKept(n)
      BY <2>1 DEF AllKept
    <3>2. CASE n = m
      <4>1. served[m] \subseteq snapshot[m]
        BY <2>1, <2>3, <3>1, <3>2 DEF KnowledgeKept, AlreadyKnown
      <4>2. CopyOf(m)' = CopyOf(m)
        BY <2>1 DEF CopyOf
      <4>. QED
        BY <2>1, <3>1, <3>2, <4>1, <4>2 DEF KnowledgeKept, AlreadyKnown, NewProcess
    <3>. QED
      BY <2>1, <2>2, <3>1, <3>2, OtherKept
  <2>. QED
    BY <2>1, <2>3 DEF AllKept, Held
<1>9. ASSUME NEW m \in Machines, Unmount(m) \/ Mount(m) PROVE Goal
  BY <1>3, <1>9 DEF Unmount, Mount, CopiesGrow
<1>10. CASE UNCHANGED vars
  BY <1>3, <1>10 DEF vars, CopiesGrow
<1>. QED
  BY <1>1, <1>4, <1>5, <1>6, <1>7, <1>8, <1>9, <1>10 DEF Next

\* A larger set of entries forgets what the smaller one did, unless it has
\* entries that end the forget.
LEMMA MoreEntriesKeepForgets ==
  ASSUME NEW E, NEW F, E \subseteq F, NEW s, NEW f, IsLive(E, s, f), ~IsLive(F, s, f)
  PROVE  Ended(F, s, f)
<1>1. PICK e \in Standing(E, s, f) :
        /\ e.state \in ForgottenStates
        /\ \A r \in Standing(E, s, f) : r.state = "restored" => Wins(e, r)
  BY DEF IsLive
<1>2. e \in F /\ e.subject = s /\ e.forget = f /\ e.state # "readded"
  BY <1>1 DEF Standing, About
<1>3. CASE f \in Cancelled(F, s)
  BY <1>3 DEF Cancelled, Readds, About, Ended
<1>4. CASE f \notin Cancelled(F, s)
  <2>1. e \in Standing(F, s, f)
    BY <1>2, <1>4 DEF Standing, About
  <2>2. PICK r \in Standing(F, s, f) : r.state = "restored"
    BY <1>1, <2>1 DEF IsLive
  <2>. QED
    BY <2>2 DEF Standing, About, Ended
<1>. QED
  BY <1>3, <1>4

\* Whatever files go unread or vanish, folders go away and processes restart, in any
\* number and order, no machine stops forgetting a subject before it has read what
\* ended each live forget of it, but where it has lost entries (ForgetNeverLapses).
THEOREM NoForgetLapses == Spec => ForgetNeverLapses
<1>1. Inv /\ AllKept /\ [Next]_vars => AllKept'
  BY KeptStep
<1>2. Inv /\ AllKept /\ [Next]_vars =>
        [\A m \in Machines, s \in Subjects : Lapses(m, s) => m \in lost \cup lost']_vars
  BY KeptStep, MoreEntriesKeepForgets DEF IsForgotten, Live, Lapses, Held
<1>. QED
  BY KeptInit, <1>1, <1>2, InvAlways, PTL DEF Spec, ForgetNeverLapses
=============================================================================
