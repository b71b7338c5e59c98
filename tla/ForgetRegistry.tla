--------------------------- MODULE ForgetRegistry ---------------------------
(***************************************************************************)
(* The forget registry (core/forget/registry.py): one append-only file per *)
(* machine in a synchronised folder, read by one process per machine into  *)
(* an index, with a local snapshot for the times the folder is not there.  *)
(* A file is the set of its entries.                                       *)
(*                                                                         *)
(* `lost` holds the machines that may have let go of entries they knew: by *)
(* a load that took for the whole registry what was not (a file had gone   *)
(* between the listing and the stat, or an append had made the folder      *)
(* while it was away), or by a restart when the snapshot, which a load     *)
(* with an unread file leaves alone, lacked some of them; until a load     *)
(* reads every file.                                                       *)
(***************************************************************************)
EXTENDS ForgetIndex

CONSTANTS Machines,
          Stamp,        \* Stamp[m][k]: what m's clock reads at the k-th append
          Faults,       \* the kinds of fault that may happen
          MaxFaults,    \* how many faults happen at most
          MaxAppends    \* how many entries are recorded at most

FaultKinds == {"unmount",  \* the folder goes away and comes back
               "stray",    \* an append made meanwhile creates the folder
               "unread",   \* a file cannot be read
               "gone",     \* a file is gone between the listing and the stat
               "restart"}  \* the process dies and starts again

ASSUME ConstantsAssumption ==
    /\ None \notin Entry
    /\ Faults \subseteq FaultKinds
    /\ MaxFaults \in Nat /\ MaxAppends \in Nat
    /\ IsFiniteSet(Machines)
    /\ Stamp \in [Machines -> [1..MaxAppends -> Nat]]
    /\ \A m, n \in Machines, j, k \in 1..MaxAppends : Stamp[m][j] = Stamp[n][k] => j = k

VARIABLES
    copy,       \* copy[m][n]: n's registry file as m's folder has it
    stray,      \* what m wrote to the bare mount point
    mounted,    \* whether m's folder is there
    snapshot,   \* the local snapshot of m
    proc,       \* the process of m: _loaded, _all, _per_file, _signature
    served,     \* history: the entries m's last answer was based on
    lost,       \* history: see above
    appends,    \* how many appends were made
    faults      \* how many faults happened

vars == <<copy, stray, mounted, snapshot, proc, served, lost, appends, faults>>

\* No file was listed, or the files are to be read again.
NoSignature == [n \in Machines |-> {}]

NewProcess == [loaded    |-> FALSE,
               known     |-> {},
               perFile   |-> [n \in Machines |-> {}],
               signature |-> NoSignature]

Init == /\ copy = [m \in Machines |-> [n \in Machines |-> {}]]
        /\ stray = [m \in Machines |-> {}]
        /\ mounted = [m \in Machines |-> TRUE]
        /\ snapshot = [m \in Machines |-> {}]
        /\ proc = [m \in Machines |-> NewProcess]
        /\ served = [m \in Machines |-> {}]
        /\ lost = {}
        /\ appends = 0
        /\ faults = 0

-----------------------------------------------------------------------------
(* Reading. *)

\* What the process finds under {SYNC_DIR}/forget.
Folder(m) == IF mounted[m] THEN copy[m]
             ELSE [n \in Machines |-> IF n = m THEN stray[m] ELSE {}]

Present(m) == {n \in Machines : Folder(m)[n] # {}}

Signature(m, files) == [n \in Machines |-> IF n \in files THEN Folder(m)[n] ELSE {}]

\* Mutant: the snapshot is never consulted.
OnlyLoaded(m) == IF proc[m].loaded THEN proc[m].known ELSE {}

AlreadyKnown(m) == IF proc[m].loaded THEN proc[m].known ELSE snapshot[m]

\* Mutant: the snapshot is used but the load is not marked.
KeptUnmarked(m) == IF proc[m].loaded THEN proc[m] ELSE [proc[m] EXCEPT !.known = snapshot[m]]

\* No file to read, but something is known: keep it, or start from the snapshot.
Kept(m) ==
    IF proc[m].loaded THEN proc[m]
    ELSE [proc[m] EXCEPT !.loaded = TRUE, !.known = snapshot[m], !.signature = NoSignature]

ReadFile(m, n, unread) == IF n \in unread THEN proc[m].perFile[n] ELSE Folder(m)[n]

\* Mutant: a load with an unread file is not repeated.
ReloadedOnce(m, files, unread) ==
    [loaded    |-> TRUE,
     known     |-> UNION {ReadFile(m, n, unread) : n \in files}
                       \cup (IF unread = {} THEN {} ELSE snapshot[m]),
     perFile   |-> [n \in Machines |-> IF n \in files THEN ReadFile(m, n, unread) ELSE {}],
     signature |-> Signature(m, files)]

\* The files are read again; the snapshot stands in for what cannot be read.
Reloaded(m, files, unread) ==
    LET everything == UNION {ReadFile(m, n, unread) : n \in files}
    IN  [loaded    |-> TRUE,
         known     |-> everything \cup (IF unread = {} THEN {} ELSE snapshot[m]),
         perFile   |-> [n \in Machines |-> IF n \in files THEN ReadFile(m, n, unread) ELSE {}],
         signature |-> IF unread = {} THEN Signature(m, files) ELSE NoSignature]

\* What _refresh leaves: nothing to read but something known, nothing new, or
\* the files read again.
Refresh(m, files, unread) ==
    IF files = {} /\ AlreadyKnown(m) # {} THEN Kept(m)
    ELSE IF proc[m].loaded /\ Signature(m, files) = proc[m].signature THEN proc[m]
    ELSE Reloaded(m, files, unread)

Loads(m, files) ==
    /\ ~(files = {} /\ AlreadyKnown(m) # {})
    /\ ~(proc[m].loaded /\ Signature(m, files) = proc[m].signature)

\* The snapshot is written after every load that read every file.
WritesSnapshot(m, files, unread) == Loads(m, files) /\ unread = {}

\* The files are those of the registry, as m's folder has it.
Whole(m, files) == files = IF mounted[m] THEN {n \in Machines : copy[m][n] # {}} ELSE {}

\* Whether entries may be lost (see above) after a refresh.
Losing(m, files, unread) ==
    IF ~Loads(m, files) THEN m \in lost
    ELSE ~Whole(m, files) \/ (unread # {} /\ m \in lost)

\* The refreshes that can happen now, each with the number of faults it takes.
Refreshes(m) ==
    LET allowed(kind) == IF kind \in Faults THEN SUBSET Present(m) ELSE {{}}
    IN  {LET after == Refresh(m, Present(m) \ x[1], x[2])
         IN  [proc     |-> after,
              snapshot |-> IF WritesSnapshot(m, Present(m) \ x[1], x[2]) THEN after.known
                           ELSE snapshot[m],
              loses    |-> Losing(m, Present(m) \ x[1], x[2]),
              cost     |-> Cardinality(x[1] \cup x[2])] :
         x \in {y \in allowed("gone") \X allowed("unread") : y[1] \cap y[2] = {}}}

Reads(m, r) ==
    /\ faults + r.cost <= MaxFaults
    /\ faults' = faults + r.cost
    /\ snapshot' = [snapshot EXCEPT ![m] = r.snapshot]
    /\ served' = [served EXCEPT ![m] = r.proc.known]
    /\ lost' = IF r.loses THEN lost \cup {m} ELSE lost \ {m}

\* A query (state_of, ids_in_states, latest, ...).
Look(m) ==
    \E r \in Refreshes(m) :
        /\ Reads(m, r)
        /\ proc' = [proc EXCEPT ![m] = r.proc]
        /\ UNCHANGED <<copy, stray, mounted, appends>>

-----------------------------------------------------------------------------
(* Recording. *)

Used == UNION {{e.forget : e \in copy[m][m] \cup stray[m]} : m \in Machines}

\* append: the entries reach the file, in the folder or in what replaced it.
Append(m, es) ==
    /\ appends < MaxAppends
    /\ appends' = appends + 1
    /\ \/ /\ mounted[m]
          /\ copy' = [copy EXCEPT ![m][m] = @ \cup es]
          /\ UNCHANGED stray
       \/ /\ ~mounted[m] /\ "stray" \in Faults
          /\ stray' = [stray EXCEPT ![m] = @ \cup es]
          /\ UNCHANGED copy
    /\ UNCHANGED mounted

New(m, f, s, st) == [forget |-> f, subject |-> s, state |-> st, at |-> Stamp[m][appends + 1]]

\* The next query reads the files again.
ReadAgain(m, p) == proc' = [proc EXCEPT ![m] = [p EXCEPT !.signature = NoSignature]]

Trash(m, s) ==
    \E f \in Forgets \ Used :
        /\ Append(m, {New(m, f, s, "trashed")})
        /\ ReadAgain(m, proc[m])
        /\ UNCHANGED <<snapshot, served, lost, faults>>

\* The engine restores, or purges, what it reads as trashed by f.
Restore(m, f) ==
    \E r \in Refreshes(m) :
        LET trashed == ForgetEntries(r.proc.known, f, "trashed") IN
        /\ trashed # {} /\ ForgetEntries(r.proc.known, f, "purged") = {}
        /\ Reads(m, r)
        /\ Append(m, {New(m, f, s, "restored") : s \in trashed})
        /\ ReadAgain(m, r.proc)

Purge(m, f) ==
    \E r \in Refreshes(m) :
        LET trashed == ForgetEntries(r.proc.known, f, "trashed") IN
        /\ trashed # {}
        /\ Reads(m, r)
        /\ Append(m, {New(m, f, s, "purged") : s \in trashed})
        /\ ReadAgain(m, r.proc)

\* record_readd: the content of s was added again, so every live forget of it
\* is cancelled by name.
RecordReadd(m, s) ==
    \E r \in Refreshes(m) :
        /\ IsForgotten(r.proc.known, s)
        /\ Reads(m, r)
        /\ Append(m, {New(m, f, s, "readded") : f \in Live(r.proc.known, s)})
        /\ ReadAgain(m, r.proc)

-----------------------------------------------------------------------------
(* The folder and the process. *)

\* The sync service brings m the current file of n.
Deliver(m, n) ==
    /\ mounted[m] /\ copy[m][n] # copy[n][n]
    /\ copy' = [copy EXCEPT ![m][n] = copy[n][n]]
    /\ UNCHANGED <<stray, mounted, snapshot, proc, served, lost, appends, faults>>

Fault(kind) == kind \in Faults /\ faults < MaxFaults /\ faults' = faults + 1

Unmount(m) ==
    /\ Fault("unmount") /\ mounted[m]
    /\ mounted' = [mounted EXCEPT ![m] = FALSE]
    /\ UNCHANGED <<copy, stray, snapshot, proc, served, lost, appends>>

Mount(m) ==
    /\ ~mounted[m]
    /\ mounted' = [mounted EXCEPT ![m] = TRUE]
    /\ UNCHANGED <<copy, stray, snapshot, proc, served, lost, appends, faults>>

Restart(m) ==
    /\ Fault("restart")
    /\ proc' = [proc EXCEPT ![m] = NewProcess]
    /\ lost' = IF proc[m].known \subseteq snapshot[m] THEN lost ELSE lost \cup {m}
    /\ UNCHANGED <<copy, stray, mounted, snapshot, served, appends>>

Next == \E m \in Machines :
            \/ Look(m)
            \/ \E s \in Subjects : Trash(m, s) \/ RecordReadd(m, s)
            \/ \E f \in Forgets : Restore(m, f) \/ Purge(m, f)
            \/ \E n \in Machines : Deliver(m, n)
            \/ Unmount(m) \/ Mount(m) \/ Restart(m)

Spec == Init /\ [][Next]_vars

\* Folders come back, the service delivers, and each machine keeps asking.
FairSpec == /\ Spec
            /\ \A m \in Machines :
                 /\ WF_vars(Mount(m))
                 /\ WF_vars(Look(m) /\ faults' = faults)
                 /\ \A n \in Machines : WF_vars(Deliver(m, n))
=============================================================================
