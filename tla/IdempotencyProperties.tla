------------------------ MODULE IdempotencyProperties ------------------------
(***************************************************************************)
(* What idempotent() promises the callers of the write endpoints, and how  *)
(* much of it is left when Redis fails or the work is slow.                *)
(***************************************************************************)
EXTENDS Idempotency

\* The key holds the sentinel, a stored result or nothing; a delivery has a
\* result in hand exactly where the code has one.
TypeOK ==
    /\ key \in {"absent", "inflight", "result"}
    /\ value \in 0..runs /\ (key = "result" <=> value # 0)
    /\ setter \in Clients \cup {Nobody} /\ (setter # Nobody => key = "inflight")
    /\ pc \in [Clients -> {"out", "own", "plain", "store", "release", "done"}]
    /\ got \in [Clients -> 0..runs]
    /\ \A c \in Clients :
          /\ pc[c] \in {"store", "done"} => got[c] # 0
          /\ pc[c] \in {"out", "own", "plain"} => got[c] = 0
    /\ runs \in Nat
    /\ errors \in Nat /\ failures \in Nat /\ crashes \in Nat /\ lapses \in Nat
    /\ outlived \in Nat /\ missed \in Nat /\ unstored \in Nat

\* As long as Redis answers and no sentinel runs out under its delivery, only
\* one delivery works at a time (idempotent: "Exactly one concurrent caller wins").
OneAtATime ==
    errors = 0 /\ outlived = 0 /\ missed = 0 =>
        Cardinality({c \in Clients : pc[c] \in Working \cup {"store"}}) <= 1

\* Every run of the work after the first is paid for by an event that the
\* middleware knowingly tolerates: a Redis error, a death, a result that
\* expired or could not be stored, a sentinel that expired too early.  Failed
\* runs and the deletes that follow them cost nothing, whosever key they hit.
RunsAreAccounted ==
    runs <= 1 + errors + crashes + lapses + outlived + missed + unstored

\* The caller gets the answer of the first attempt that was answered: the same
\* run's result for every delivery, across failed runs and deaths of the server.
AnswersAgree ==
    errors + lapses + outlived + missed + unstored = 0 =>
        \A c, d \in Clients : pc[c] = "done" /\ pc[d] = "done" => got[c] = got[d]

\* A caller that keeps sending is answered: neither a dead winner nor a failed
\* delete wedges the key (_LOCK_TTL_S).
EveryCallerAnswered == \A c \in Clients : <>(pc[c] = "done")

=============================================================================
