---------------------------- MODULE InboxProperties ----------------------------
(***************************************************************************)
(* What the review queue tells its user: how the ledger and the mailbox    *)
(* stay together, and what becomes of what was queued.                     *)
(***************************************************************************)
EXTENDS Inbox

Settled(m) == \A t \in Tasks : task[t].stage # "idle" => m \notin {Target(task[t]), rows[task[t].id].message}

Explained(d) ==
    /\ rows[d].status = "applied"
    /\ rows[d].undoes # None => rows[rows[d].undoes].status = "undone" \/ rows[d].undoes \in excused

\* When nothing is under way for a message, the decision that moved it last is
\* recorded as applied, and what it undid as undone, whatever was skipped,
\* superseded or listed meanwhile; but for what was queued, interrupted by the
\* death of the server, or attempted by two tasks at once, and for a decision a
\* command of which took effect and did not answer in time: apply_decision
\* records that one as failed (executor.py:120), though the message may be moved.
LedgerKnows ==
    \A m \in Messages :
        last[m] # None /\ Settled(m) => Explained(last[m]) \/ last[m] \in excused \cup unsure

\* A decision is carried out a second time (a second draft, a message moved
\* again) only if it was queued, if the server died during an attempt, or if two
\* tasks held it at once; a failed attempt is not repeated (apply_ids).
Once == again = {}

\* With Mail open for good, every decision a pass may take is settled, queued or
\* not, whatever else is queued, answered late, skipped or interrupted
\* (auto_apply_pass tries a queued decision again; queueing it records nothing).
QueuedIsSettled == <>[]running => <>[](\A d \in Ids : Open(d) => rows[d].action \notin Actions)
===============================================================================
