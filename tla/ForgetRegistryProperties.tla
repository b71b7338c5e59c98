---------------------- MODULE ForgetRegistryProperties ----------------------
(***************************************************************************)
(* What the forget registry promises, over what each machine's last query  *)
(* answered from.                                                          *)
(***************************************************************************)
EXTENDS ForgetRegistry

Process == [loaded    : BOOLEAN,
            known     : SUBSET Entry,
            perFile   : [Machines -> SUBSET Entry],
            signature : [Machines -> SUBSET Entry]]

\* Types; a process that has not loaded knows nothing.
TypeOK ==
    /\ copy \in [Machines -> [Machines -> SUBSET Entry]]
    /\ stray \in [Machines -> SUBSET Entry]
    /\ mounted \in [Machines -> BOOLEAN]
    /\ snapshot \in [Machines -> SUBSET Entry]
    /\ proc \in [Machines -> Process]
    /\ served \in [Machines -> SUBSET Entry]
    /\ lost \subseteq Machines
    /\ appends \in 0..MaxAppends
    /\ faults \in 0..MaxFaults
    /\ \A m \in Machines : ~proc[m].loaded => proc[m].known = {}

\* "purged always wins": whatever the clocks say, a machine that has read the
\* purge of a subject serves it as forgotten until the content is added again
\* (registry.py:9-12).
PurgedStaysForgotten ==
    \A m \in Machines : \A e \in served[m] :
        e.state = "purged" =>
            \/ IsForgotten(served[m], e.subject)
            \/ \E r \in served[m] : /\ r.subject = e.subject /\ r.forget = e.forget
                                    /\ r.state = "readded"

\* A forget that overlaps others keeps its subject forgotten on its own: the
\* restore of one forget, or the re-add that names another, never ends it.
AnyLiveForgetCounts ==
    \A m \in Machines : \A e \in served[m] :
        (e.state = "trashed" /\ \A x \in served[m] : x.forget = e.forget => x.state = "trashed")
            => StateOf(served[m], e.subject) \in ForgottenStates

\* The entry the index keeps for a subject, picked by scanning, says forgotten
\* exactly when one of its forgets is live (_by_subject against _live).
IndexAgrees ==
    \A m \in Machines, s \in Subjects :
        StateOf(served[m], s) \in ForgottenStates <=> IsForgotten(served[m], s)

\* A re-add cancels by name, never by time: when every forget of a subject is
\* named by one, the content is back on every machine that has read them.
ReaddBringsBack ==
    \A m \in Machines, s \in Subjects :
        (\A e \in About(served[m], s) :
            e.state \in ForgottenStates =>
                \E r \in About(served[m], s) : r.forget = e.forget /\ r.state = "readded")
            => StateOf(served[m], s) \notin ForgottenStates

\* What ends a forget of s: its own restore, or a re-add that names it.
Ended(E, s, f) ==
    \E e \in E : e.subject = s /\ e.forget = f /\ e.state \in {"restored", "readded"}

\* What one answer of m called forgotten the next calls forgotten too, unless it
\* has read that every live forget of it was restored or cancelled.
Lapses(m, s) ==
    /\ IsForgotten(served[m], s) /\ ~IsForgotten(served'[m], s)
    /\ \E f \in Live(served[m], s) : ~Ended(served'[m], s, f)

\* No forget lapses, across unmounted folders, unreadable files and restarts, but
\* for a machine that has lost entries in one of the three ways the header of
\* ForgetRegistry names, and that only until it reads every file (_refresh).
ForgetNeverLapses ==
    [][\A m \in Machines, s \in Subjects : Lapses(m, s) => m \in lost \cup lost']_vars

\* What was recorded, but for what went to a bare mount point.
InFolders == UNION {copy[n][n] : n \in Machines}

\* In the end every machine answers from everything that was recorded in the
\* folder, so all agree: no stale view survives an unreadable or vanished file or
\* an unmounted folder.  What an append put in place of a missing folder reaches
\* nobody else, and its machine goes on serving it only while the folder is empty
\* (_refresh keeps what is known when it finds no file).
MachinesConverge ==
    <>[](\A m \in Machines : served[m] = InFolders \/ (InFolders = {} /\ served[m] \subseteq stray[m]))
=============================================================================
