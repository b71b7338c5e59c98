---------------------------- MODULE CircuitBreaker ----------------------------
(***************************************************************************)
(* AsyncCircuitBreaker of core/utils/circuit_breaker.py: one breaker shared *)
(* by the callers of a service that fails and comes back.  A call is        *)
(* admitted in one state of the breaker and its answer may arrive in        *)
(* another.  Time is the age of the last counted failure.                   *)
(***************************************************************************)
EXTENDS Integers

CONSTANTS
    AsyncCallers,  \* tasks that go through call()
    SyncCallers,   \* threads that go through call_sync()
    Streams,       \* streamed requests: not gated, they only record_*
    Threshold,     \* failure_threshold
    Timeout,       \* recovery_timeout, in ticks
    MaxResets      \* bound: manual resets

ASSUME ConstantsAssumption == Threshold \in Nat \ {0} /\ Timeout \in Nat \ {0}

Callers == AsyncCallers \cup SyncCallers \cup Streams

VARIABLES
    state,          \* _state; HALF_OPEN is derived, never stored
    failure_count,  \* _failure_count, as far as it is compared (up to Threshold)
    age,            \* ticks since _last_failure_time, up to Timeout
    calling,        \* the callers whose call is under way
    healthy,        \* whether the service works
    resets          \* what the bound counts

breaker == <<state, failure_count, age>>
vars == <<breaker, calling, healthy, resets>>

Init ==
    /\ state = "CLOSED" /\ failure_count = 0 /\ age = Timeout
    /\ calling = {}
    /\ healthy \in BOOLEAN
    /\ resets = 0

RawState == state

\* The property `state` of the class.
EffectiveState == IF state = "OPEN" /\ age >= Timeout THEN "HALF_OPEN" ELSE state

\* Fail fast: a call is made unless the circuit is open; a rejected one changes nothing.
Call(c) ==
    /\ c \notin calling
    /\ c \in Streams \/ EffectiveState # "OPEN"
    /\ calling' = calling \cup {c}
    /\ UNCHANGED <<breaker, healthy, resets>>

Close == state' = "CLOSED" /\ failure_count' = 0 /\ UNCHANGED age

\* _on_success_sync looks at the stored state.
OnSuccessSync == IF RawState = "CLOSED" THEN Close ELSE UNCHANGED breaker

OnAnySuccess == Close

\* _on_success, under the lock.
OnSuccess == IF EffectiveState # "OPEN" THEN Close ELSE UNCHANGED breaker

OneTooMany(n) == n > Threshold
Trips(n) == n >= Threshold

\* _on_failure and _on_failure_sync; their HALF_OPEN branch is never taken.
OnFailure ==
    /\ failure_count' = IF failure_count < Threshold THEN failure_count + 1 ELSE Threshold
    /\ state' = IF Trips(failure_count') THEN "OPEN" ELSE state
    /\ age' = 0

Return(c) == c \in calling /\ calling' = calling \ {c} /\ UNCHANGED <<healthy, resets>>

Succeed(c) ==
    /\ healthy
    /\ Return(c)
    /\ IF c \in SyncCallers THEN OnSuccessSync ELSE OnSuccess

Fail(c) == ~healthy /\ Return(c) /\ OnFailure

\* A client error, an excluded exception or a cancellation: not counted.
NotCounted(c) == Return(c) /\ UNCHANGED breaker

OnlyState == state' = "CLOSED" /\ UNCHANGED <<failure_count, age>>
Cleared == Close

\* reset(): the start-up probe, and the settings that change a key.
Reset ==
    /\ resets < MaxResets /\ resets' = resets + 1
    /\ Cleared
    /\ UNCHANGED <<calling, healthy>>

Tick == age < Timeout /\ age' = age + 1
        /\ UNCHANGED <<state, failure_count, calling, healthy, resets>>

Turn == healthy' = ~healthy /\ UNCHANGED <<breaker, calling, resets>>

Next ==
    \/ \E c \in Callers : Call(c) \/ Succeed(c) \/ Fail(c) \/ NotCounted(c)
    \/ Reset \/ Tick \/ Turn

Spec == Init /\ [][Next]_vars

\* Time passes, gated callers keep calling (streams need not), and a call that
\* is not cancelled each time is answered by what the service does.
FairSpec ==
    /\ Spec
    /\ WF_vars(Tick)
    /\ \A c \in AsyncCallers \cup SyncCallers : WF_vars(Call(c))
    /\ \A c \in Callers : SF_vars(Succeed(c)) /\ SF_vars(Fail(c))
===============================================================================
