------------------------- MODULE CircuitBreakerProofs -------------------------
(***************************************************************************)
(* The safety of the circuit breaker for any callers, threshold, timeout   *)
(* and number of resets.                                                   *)
(***************************************************************************)
EXTENDS CircuitBreakerProperties, TLAPS

\* A counted failure: the count never passes the threshold, and the breaker is
\* open exactly when it is reached (_on_failure).
LEMMA FailureCounts ==
    ASSUME TypeOK, OnFailure
    PROVE  /\ state' \in {"CLOSED", "OPEN"}
           /\ failure_count' \in 0..Threshold
           /\ state' = "OPEN" <=> failure_count' = Threshold
           /\ age' = 0
  <1>1. failure_count' \in 0..Threshold
    BY ConstantsAssumption DEF TypeOK, OnFailure
  <1>2. Trips(failure_count') <=> failure_count' = Threshold
    BY <1>1, ConstantsAssumption DEF Trips
  <1>3. state = "OPEN" => failure_count' = Threshold
    BY ConstantsAssumption DEF TypeOK, OnFailure
  <1> QED
    BY <1>1, <1>2, <1>3 DEF TypeOK, OnFailure

\* A success either closes the breaker, count and all, or changes nothing
\* (_on_success, _on_success_sync).
LEMMA SuccessClosesOrNothing ==
    ASSUME NEW c \in Callers, Succeed(c)
    PROVE  Close \/ UNCHANGED breaker
  BY DEF Succeed, OnSuccess, OnSuccessSync

\* Closing clears the count and leaves the time of the last failure (_on_success).
LEMMA ClosedIsTyped ==
    ASSUME TypeOK, Close
    PROVE  /\ state' = "CLOSED" /\ failure_count' = 0 /\ age' = age
           /\ 0 \in 0..Threshold /\ Threshold # 0
  BY ConstantsAssumption DEF Close

\* The breaker of __init__.
LEMMA InitTyped == Init => TypeOK
  BY ConstantsAssumption DEF Init, TypeOK

\* TypeOK is inductive: one step per action.
LEMMA StepTyped == TypeOK /\ [Next]_vars => TypeOK'
  <1> SUFFICES ASSUME TypeOK, [Next]_vars PROVE TypeOK'
    OBVIOUS
  <1>1. ASSUME NEW c \in Callers, Call(c) PROVE TypeOK'
    BY <1>1 DEF Call, TypeOK, breaker
  <1>2. ASSUME NEW c \in Callers, Succeed(c) PROVE TypeOK'
    <2>1. CASE Close
      BY <1>2, <2>1, ClosedIsTyped DEF TypeOK, Succeed, Return
    <2>2. CASE UNCHANGED breaker
      BY <1>2, <2>2 DEF TypeOK, Succeed, Return, breaker
    <2> QED
      BY <1>2, <2>1, <2>2, SuccessClosesOrNothing
  <1>3. ASSUME NEW c \in Callers, Fail(c) PROVE TypeOK'
    <2>1. OnFailure /\ Return(c)
      BY <1>3 DEF Fail
    <2>2. age' \in 0..Timeout
      BY <2>1, FailureCounts, ConstantsAssumption
    <2> QED
      BY <2>1, <2>2, FailureCounts DEF TypeOK, Return
  <1>4. ASSUME NEW c \in Callers, NotCounted(c) PROVE TypeOK'
    BY <1>4 DEF NotCounted, Return, TypeOK, breaker
  <1>5. CASE Reset
    <2>1. Close
      BY <1>5 DEF Reset, Cleared
    <2> QED
      BY <1>5, <2>1, ClosedIsTyped DEF TypeOK, Reset
  <1>6. CASE Tick
    BY <1>6, ConstantsAssumption DEF Tick, TypeOK
  <1>7. CASE Turn
    BY <1>7 DEF Turn, TypeOK, breaker
  <1>8. CASE UNCHANGED vars
    BY <1>8 DEF vars, breaker, TypeOK
  <1> QED
    BY <1>1, <1>2, <1>3, <1>4, <1>5, <1>6, <1>7, <1>8 DEF Next

\* The breaker is OPEN exactly when the threshold has been reached since it was
\* last closed, so a failed probe reopens it without the HALF_OPEN branch.
THEOREM BreakerTypes == Spec => []TypeOK
  <1>1. QED
    BY InitTyped, StepTyped, PTL DEF Spec

\* A breaker rejects calls when it is open and its timeout has not passed.
LEMMA ShutMeans ==
    EffectiveState = "OPEN" <=> state = "OPEN" /\ ~(age >= Timeout)
  BY DEF EffectiveState

\* What a step may do to a breaker that rejects calls.
LEMMA StepStaysShut ==
    ASSUME TypeOK, Next, EffectiveState = "OPEN", EffectiveState' # "OPEN"
    PROVE  age' = Timeout \/ resets' # resets
  <1>1. state = "OPEN" /\ ~(age >= Timeout)
    BY ShutMeans
  <1>2. ~UNCHANGED breaker
    BY DEF breaker, EffectiveState
  <1>3. ASSUME NEW c \in Callers, Call(c) \/ NotCounted(c) PROVE FALSE
    BY <1>2, <1>3 DEF Call, NotCounted
  <1>4. ASSUME NEW c \in Callers, Succeed(c) PROVE FALSE
    BY <1>1, <1>2, <1>4 DEF Succeed, OnSuccess, OnSuccessSync, RawState
  <1>5. ASSUME NEW c \in Callers, Fail(c) PROVE FALSE
    <2>1. OnFailure
      BY <1>5 DEF Fail
    <2>2. failure_count = Threshold /\ failure_count' = Threshold
      BY <1>1, <2>1, ConstantsAssumption DEF TypeOK, OnFailure
    <2>3. state' = "OPEN" /\ age' = 0
      BY <2>1, <2>2, FailureCounts
    <2>4. ~(age' >= Timeout)
      BY <2>3, ConstantsAssumption
    <2> QED
      BY <2>3, <2>4 DEF EffectiveState
  <1>6. ASSUME Reset PROVE resets' # resets
    BY <1>6 DEF Reset, TypeOK
  <1>7. ASSUME Tick PROVE age' = Timeout
    <2>1. state' = "OPEN" /\ age' = age + 1
      BY <1>1, <1>7 DEF Tick
    <2>2. age' >= Timeout
      BY <2>1 DEF EffectiveState
    <2> QED
      BY <1>7, <2>1, <2>2, ConstantsAssumption DEF Tick, TypeOK
  <1>8. ASSUME Turn PROVE FALSE
    BY <1>2, <1>8 DEF Turn
  <1> QED
    BY <1>3, <1>4, <1>5, <1>6, <1>7, <1>8 DEF Next

\* However late the calls of any number of callers are answered, a breaker that
\* rejects calls starts letting them through only after a whole recovery_timeout
\* without a failure, or by a reset.
THEOREM ShutForTheTimeout == Spec => StaysShut
  <1>1. TypeOK /\ [Next]_vars =>
          [EffectiveState = "OPEN" /\ EffectiveState' # "OPEN"
               => age' = Timeout \/ resets' # resets]_vars
    <2> SUFFICES ASSUME TypeOK, Next, EffectiveState = "OPEN", EffectiveState' # "OPEN"
                 PROVE  age' = Timeout \/ resets' # resets
      OBVIOUS
    <2> QED
      BY StepStaysShut
  <1> QED
    BY <1>1, BreakerTypes, PTL DEF Spec, StaysShut
===============================================================================
