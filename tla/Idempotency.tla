----------------------------- MODULE Idempotency -----------------------------
(***************************************************************************)
(* idempotent() of app/middleware/idempotency.py under one cache key:      *)
(* deliveries of the same write (the original and its retries) that carry  *)
(* the same client id, path and Idempotency-Key.  Redis is called          *)
(* synchronously from one event loop, so deliveries interleave only where  *)
(* the work runs; keys expire, commands raise and the server dies at any   *)
(* point.  A refused delivery (409, an error, a death) is sent again.      *)
(***************************************************************************)
EXTENDS Integers, FiniteSets

CONSTANTS
    Clients,      \* deliveries of the write that may be in flight at once
    Nobody,       \* no delivery
    Slow,         \* deliveries whose work may outlast _LOCK_TTL_S
    MaxErrors,    \* bound: Redis commands that raise
    MaxFailures,  \* bound: runs of the work that raise
    MaxCrashes,   \* bound: deaths of the server
    MaxLapses     \* bound: stored results that reach _RESULT_TTL_S

ASSUME ConstantsAssumption ==
    /\ IsFiniteSet(Clients)
    /\ Nobody \notin Clients /\ Slow \subseteq Clients

VARIABLES
    key,        \* what the cache key holds: nothing, the sentinel or a result
    value,      \* the run whose result it holds
    setter,     \* history: the delivery that set the sentinel
    pc,         \* where each delivery is
    got,        \* the run whose result it has in hand
    runs,       \* history: runs of the work that succeeded
    errors, failures, crashes, lapses,   \* what the bounds count
    outlived,   \* history: sentinels that expired while their delivery worked
    missed,     \* history: sentinels that expired between SET NX and GET
    unstored    \* history: results that could not be serialized

redis  == <<key, value, setter>>
budget == <<errors, failures, crashes, lapses>>
passed == <<outlived, missed, unstored>>
vars   == <<redis, pc, got, runs, budget, passed>>

Working == {"own", "plain"}            \* the work is running
Holding == {"own", "store", "release"} \* the sentinel is this delivery's

Reply == {"ok", "lost", "refused"}
Executed(r) == r # "refused"
Raised(r)   == r # "ok"
Redis(r) == /\ errors' = IF Raised(r) THEN errors + 1 ELSE errors
            /\ errors' <= MaxErrors

\* Between its commands after the work a delivery does not yield to another.
OwnTurn(c) == \A d \in Clients \ {c} : pc[d] \notin {"store", "release"}

Put(k, v, s) == key' = k /\ value' = v /\ setter' = s
Goto(c, p) == pc' = [pc EXCEPT ![c] = p]

Init ==
    /\ key = "absent" /\ value = 0 /\ setter = Nobody
    /\ pc = [c \in Clients |-> "out"]
    /\ got = [c \in Clients |-> 0]
    /\ runs = 0
    /\ errors = 0 /\ failures = 0 /\ crashes = 0 /\ lapses = 0
    /\ outlived = 0 /\ missed = 0 /\ unstored = 0

-----------------------------------------------------------------------------
(* A delivery arrives: SET NX, and if the key exists, GET.                 *)

Arrives(c) == pc[c] = "out" /\ OwnTurn(c)

\* _safe_setnx
AlwaysWins == TRUE
Wins == key = "absent"

\* SET NX wins: the work runs under the sentinel.
Claim(c) ==
    /\ Arrives(c)
    /\ Wins
    /\ Put("inflight", 0, c)
    /\ Goto(c, "own")
    /\ UNCHANGED <<got, runs, budget, passed>>

\* SET NX raised (_safe_setnx returns None): a plain run.
ClaimRaised(c, r) ==
    /\ Arrives(c)
    /\ Raised(r) /\ Redis(r)
    /\ IF Executed(r) /\ key = "absent" THEN Put("inflight", 0, Nobody)
                                        ELSE UNCHANGED redis
    /\ Goto(c, "plain")
    /\ UNCHANGED <<got, runs, failures, crashes, lapses, passed>>

\* The key holds a result: it is answered and the work does not run.
Replay(c) ==
    /\ Arrives(c)
    /\ key = "result"
    /\ got' = [got EXCEPT ![c] = value]
    /\ Goto(c, "done")
    /\ UNCHANGED <<redis, runs, budget, passed>>

\* The key holds the sentinel: 409, the delivery will be repeated.  Nothing
\* changes, so this is a stuttering step of the specification.

\* GET raised (_safe_get returns None): the work runs unprotected.
LookupRaised(c, r) ==
    /\ Arrives(c)
    /\ key # "absent"
    /\ Raised(r) /\ Redis(r)
    /\ Goto(c, "plain")
    /\ UNCHANGED <<redis, got, runs, failures, crashes, lapses, passed>>

\* A sentinel whose delivery still works lasts as long as that work, unless
\* the work is slow.
HolderAtWork == setter \in Clients /\ pc[setter] \in Holding

WithoutTTL == FALSE /\ UNCHANGED <<redis, outlived>>

\* _LOCK_TTL_S has passed.
SentinelExpires ==
    /\ key = "inflight"
    /\ HolderAtWork => setter \in Slow
    /\ outlived' = IF HolderAtWork THEN outlived + 1 ELSE outlived
    /\ Put("absent", 0, Nobody)

\* The sentinel expires between SET NX and GET: the work runs unprotected.
LookupMissed(c) ==
    /\ Arrives(c)
    /\ SentinelExpires
    /\ missed' = missed + 1
    /\ Goto(c, "plain")
    /\ UNCHANGED <<got, runs, budget, unstored>>

-----------------------------------------------------------------------------
(* The work, and what follows it.                                          *)

Succeed(c) ==
    /\ pc[c] \in Working /\ OwnTurn(c)
    /\ runs' = runs + 1
    /\ got' = [got EXCEPT ![c] = runs + 1]
    /\ Goto(c, IF pc[c] = "own" THEN "store" ELSE "done")
    /\ UNCHANGED <<redis, budget, passed>>

FailureStored == "store"
AfterFailure == "release"

\* The exception (or the cancellation) goes to the caller, who sends again.
Fail(c) ==
    /\ pc[c] \in Working /\ OwnTurn(c)
    /\ failures < MaxFailures
    /\ failures' = failures + 1
    /\ Goto(c, IF pc[c] = "own" THEN AfterFailure ELSE "out")
    /\ UNCHANGED <<redis, got, runs, errors, crashes, lapses, passed>>

NeverCached(r) == FALSE
Cached(r) == Executed(r)

\* _store_or_release: the result overwrites the sentinel.
Store(c, r) ==
    /\ pc[c] = "store"
    /\ Redis(r)
    /\ IF Cached(r) THEN Put("result", got[c], Nobody) ELSE UNCHANGED redis
    /\ Goto(c, IF Raised(r) THEN "release" ELSE "done")
    /\ UNCHANGED <<got, runs, failures, crashes, lapses, passed>>

\* _store_or_release: not JSON-serializable.
StoreImpossible(c) ==
    /\ pc[c] = "store"
    /\ unstored' = unstored + 1
    /\ Goto(c, "release")
    /\ UNCHANGED <<redis, got, runs, budget, outlived, missed>>

\* _safe_delete: whatever the key holds; errors are swallowed.
Release(c, r) ==
    /\ pc[c] = "release"
    /\ Redis(r)
    /\ IF Executed(r) THEN Put("absent", 0, Nobody) ELSE UNCHANGED redis
    /\ Goto(c, IF got[c] = 0 THEN "out" ELSE "done")
    /\ UNCHANGED <<got, runs, failures, crashes, lapses, passed>>

-----------------------------------------------------------------------------
(* Time and death.                                                         *)

ExpireSentinel ==
    /\ SentinelExpires
    /\ UNCHANGED <<pc, got, runs, budget, missed, unstored>>

\* 24 hours later no delivery is in flight any more.
ExpireResult ==
    /\ key = "result"
    /\ \A c \in Clients : pc[c] \in {"out", "done"}
    /\ lapses < MaxLapses
    /\ lapses' = lapses + 1
    /\ Put("absent", 0, Nobody)
    /\ UNCHANGED <<pc, got, runs, errors, failures, crashes, passed>>

Crash ==
    /\ crashes < MaxCrashes
    /\ \E c \in Clients : pc[c] \notin {"out", "done"}
    /\ crashes' = crashes + 1
    /\ pc' = [c \in Clients |-> IF pc[c] = "done" THEN "done" ELSE "out"]
    /\ got' = [c \in Clients |-> IF pc[c] = "done" THEN got[c] ELSE 0]
    /\ UNCHANGED <<redis, runs, errors, failures, lapses, passed>>

Deliver(c) ==
    \/ Claim(c) \/ Replay(c) \/ LookupMissed(c)
    \/ Succeed(c) \/ Fail(c) \/ StoreImpossible(c)
    \/ \E r \in Reply : ClaimRaised(c, r) \/ LookupRaised(c, r) \/ Store(c, r) \/ Release(c, r)

Next == (\E c \in Clients : Deliver(c)) \/ ExpireSentinel \/ ExpireResult \/ Crash

Spec == Init /\ [][Next]_vars

\* A caller sends again until it has an answer, the work ends, and TTLs run out.
FairSpec == Spec /\ (\A c \in Clients : WF_vars(Deliver(c))) /\ WF_vars(ExpireSentinel)
=============================================================================
