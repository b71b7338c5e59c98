----------------------- MODULE CircuitBreakerProperties -----------------------
(***************************************************************************)
(* What callers rely on: the breaker opens for repeated failures only,     *)
(* shields a dead service, and closes again once the service is back.      *)
(***************************************************************************)
EXTENDS CircuitBreaker

\* Types, and what the stored state means: it is OPEN exactly when Threshold
\* failures were counted since the breaker was last closed.  Hence a failed
\* probe always reopens it, without the HALF_OPEN branch of _on_failure.
TypeOK ==
    /\ state \in {"CLOSED", "OPEN"}
    /\ failure_count \in 0..Threshold
    /\ state = "OPEN" <=> failure_count = Threshold
    /\ age \in 0..Timeout
    /\ calling \subseteq Callers
    /\ healthy \in BOOLEAN
    /\ resets \in Nat

\* A breaker that rejects calls starts letting them through only when a whole
\* recovery_timeout has passed since the last failure of any call, however late
\* that call was admitted; a late success opens nothing early.
StaysShut ==
    [][EffectiveState = "OPEN" /\ EffectiveState' # "OPEN"
          => age' = Timeout \/ resets' # resets]_vars

\* A service that stays dead trips the breaker for good, whatever calls were
\* under way, and late answers do not close it (CircuitState.OPEN).
DeadServiceTrips == <>[]~healthy => <>[](state = "OPEN")

\* However many admitted calls fail late and each extend the recovery timeout,
\* a probe is admitted again, unless streams that are not gated keep failing.
ProbesAgain == <>[](calling \cap Streams = {}) => []<>(EffectiveState # "OPEN")

\* Once the service stays healthy the breaker closes and stays closed, as long
\* as one caller goes through call() ("On success -> CLOSED").
Recovers == <>[]healthy => <>[](state = "CLOSED")
===============================================================================
