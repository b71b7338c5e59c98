-------------------------- MODULE IdempotencyProofs --------------------------
(***************************************************************************)
(* The safety of idempotent() for any number of deliveries, Redis errors,  *)
(* failed runs, deaths and expired results.                                *)
(***************************************************************************)
EXTENDS IdempotencyProperties, FiniteSetTheorems, TLAPS

-----------------------------------------------------------------------------
(* Type correctness.                                                       *)

Points == {"out", "own", "plain", "store", "release", "done"}

\* A delivery moves, the others stay where they are.
LEMMA GotoTyped ==
    ASSUME TypeOK, NEW c \in Clients, NEW p \in Points, Goto(c, p)
    PROVE  /\ pc' \in [Clients -> Points]
           /\ pc'[c] = p
           /\ \A d \in Clients \ {c} : pc'[d] = pc[d]
  BY DEF TypeOK, Goto, Points

\* No delivery has arrived and the key is absent.
LEMMA InitTyped == Init => TypeOK
  BY DEF Init, TypeOK, Points

\* The head of idempotent().
LEMMA ArrivalTyped ==
    ASSUME TypeOK, NEW c \in Clients, NEW r \in Reply,
           Claim(c) \/ ClaimRaised(c, r) \/ Replay(c) \/ LookupRaised(c, r) \/ LookupMissed(c)
    PROVE  TypeOK'
  <1>1. CASE Claim(c)
    BY <1>1, ConstantsAssumption DEF Claim, Arrives, Put, Goto, TypeOK, budget, passed
  <1>2. CASE ClaimRaised(c, r)
    <2>1. errors' \in Nat
      BY <1>2 DEF ClaimRaised, Redis, TypeOK
    <2> QED
      BY <1>2, <2>1 DEF ClaimRaised, Arrives, Put, Goto, TypeOK, redis, passed
  <1>3. CASE Replay(c)
    BY <1>3 DEF Replay, Arrives, Goto, TypeOK, redis, budget, passed
  <1>4. CASE LookupRaised(c, r)
    <2>1. errors' \in Nat
      BY <1>4 DEF LookupRaised, Redis, TypeOK
    <2> QED
      BY <1>4, <2>1 DEF LookupRaised, Arrives, Goto, TypeOK, redis, passed
  <1>5. CASE LookupMissed(c)
    <2>1. outlived' \in Nat /\ missed' \in Nat
      BY <1>5 DEF LookupMissed, SentinelExpires, TypeOK
    <2> QED
      BY <1>5, <2>1 DEF LookupMissed, SentinelExpires, Arrives, Put, Goto, TypeOK, budget
  <1> QED
    BY <1>1, <1>2, <1>3, <1>4, <1>5

\* The work and what follows it.
LEMMA WorkTyped ==
    ASSUME TypeOK, NEW c \in Clients, NEW r \in Reply,
           Succeed(c) \/ Fail(c) \/ Store(c, r) \/ StoreImpossible(c) \/ Release(c, r)
    PROVE  TypeOK'
  <1>1. CASE Succeed(c)
    <2>1. runs' \in Nat /\ got' \in [Clients -> 0..runs'] /\ value \in 0..runs' /\ runs + 1 # 0
      BY <1>1 DEF Succeed, TypeOK
    <2> QED
      BY <1>1, <2>1 DEF Succeed, Working, Goto, TypeOK, redis, budget, passed
  <1>2. CASE Fail(c)
    BY <1>2 DEF Fail, Working, AfterFailure, Goto, TypeOK, redis, passed
  <1>3. CASE Store(c, r)
    <2>1. errors' \in Nat
      BY <1>3 DEF Store, Redis, TypeOK
    <2>2. got[c] \in 0..runs /\ got[c] # 0
      BY <1>3 DEF Store, TypeOK
    <2>3. /\ key' \in {"absent", "inflight", "result"}
          /\ value' \in 0..runs /\ (key' = "result" <=> value' # 0)
          /\ setter' \in Clients \cup {Nobody} /\ (setter' # Nobody => key' = "inflight")
      BY <1>3, <2>2 DEF Store, Put, redis, TypeOK
    <2> QED
      BY <1>3, <2>1, <2>2, <2>3 DEF Store, Goto, TypeOK, passed
  <1>4. CASE StoreImpossible(c)
    BY <1>4 DEF StoreImpossible, Goto, TypeOK, redis, budget
  <1>5. CASE Release(c, r)
    <2>1. errors' \in Nat
      BY <1>5 DEF Release, Redis, TypeOK
    <2>2. /\ key' \in {"absent", "inflight", "result"}
          /\ value' \in 0..runs /\ (key' = "result" <=> value' # 0)
          /\ setter' \in Clients \cup {Nobody} /\ (setter' # Nobody => key' = "inflight")
      BY <1>5 DEF Release, Put, redis, TypeOK
    <2> QED
      BY <1>5, <2>1, <2>2 DEF Release, Goto, TypeOK, passed
  <1> QED
    BY <1>1, <1>2, <1>3, <1>4, <1>5

\* Expiry and death.
LEMMA TimeTyped ==
    ASSUME TypeOK, ExpireSentinel \/ ExpireResult \/ Crash
    PROVE  TypeOK'
  <1>1. CASE ExpireSentinel
    <2>1. outlived' \in Nat
      BY <1>1 DEF ExpireSentinel, SentinelExpires, TypeOK
    <2> QED
      BY <1>1, <2>1 DEF ExpireSentinel, SentinelExpires, Put, TypeOK, budget
  <1>2. CASE ExpireResult
    BY <1>2 DEF ExpireResult, Put, TypeOK, passed
  <1>3. CASE Crash
    BY <1>3 DEF Crash, TypeOK, redis, passed
  <1> QED
    BY <1>1, <1>2, <1>3

\* TypeOK is inductive.
LEMMA StepTyped == TypeOK /\ [Next]_vars => TypeOK'
  <1> SUFFICES ASSUME TypeOK, [Next]_vars PROVE TypeOK'
    OBVIOUS
  <1>1. ASSUME NEW c \in Clients, Deliver(c) PROVE TypeOK'
    <2>1. "ok" \in Reply
      BY DEF Reply
    <2>2. CASE Claim(c) \/ Replay(c) \/ LookupMissed(c)
      BY <2>1, <2>2, ArrivalTyped
    <2>3. CASE Succeed(c) \/ Fail(c) \/ StoreImpossible(c)
      BY <2>1, <2>3, WorkTyped
    <2>4. ASSUME NEW r \in Reply, ClaimRaised(c, r) \/ LookupRaised(c, r) PROVE TypeOK'
      BY <2>4, ArrivalTyped
    <2>5. ASSUME NEW r \in Reply, Store(c, r) \/ Release(c, r) PROVE TypeOK'
      BY <2>5, WorkTyped
    <2> QED
      BY <1>1, <2>2, <2>3, <2>4, <2>5 DEF Deliver
  <1>2. CASE ExpireSentinel \/ ExpireResult \/ Crash
    BY <1>2, TimeTyped
  <1>3. CASE UNCHANGED vars
    BY <1>3 DEF vars, redis, budget, passed, TypeOK
  <1> QED
    BY <1>1, <1>2, <1>3 DEF Next

\* Types, and what each delivery has in hand at each point.
THEOREM DeliveriesTyped == Spec => []TypeOK
  BY InitTyped, StepTyped, PTL DEF Spec

-----------------------------------------------------------------------------
(* One delivery at a time: without Redis errors and early expiry, whoever   *)
(* works under the sentinel has set it.                                     *)

Exclusive ==
    errors = 0 /\ outlived = 0 /\ missed = 0 =>
        \A c \in Clients : pc[c] # "plain" /\ (pc[c] \in Holding => setter = c)

Inv == TypeOK /\ Exclusive

\* A sentinel that is somebody's is in the key, and a stored result is nobody's.
LEMMA SetterHolds ==
    ASSUME TypeOK
    PROVE  /\ setter \in Clients => key = "inflight" /\ value = 0
           /\ key # "inflight" => setter = Nobody
  BY ConstantsAssumption DEF TypeOK

\* Nobody works yet.
LEMMA InitExclusive == Init => Exclusive
  BY DEF Init, Exclusive, Holding

\* Deliveries that are refused nothing and find the sentinel in place.
LEMMA DeliveryExclusive ==
    ASSUME Inv, NEW c \in Clients, Deliver(c)
    PROVE  Exclusive'
  <1> SUFFICES ASSUME errors' = 0, outlived' = 0, missed' = 0
               PROVE  \A d \in Clients : pc'[d] # "plain" /\ (pc'[d] \in Holding => setter' = d)
    BY DEF Exclusive
  <1> USE DEF Inv
  <1>1. /\ errors \in Nat /\ outlived \in Nat /\ missed \in Nat
        /\ pc \in [Clients -> Points]
    BY DEF TypeOK, Points
  <1>2. CASE Claim(c)
    <2>1. errors = 0 /\ outlived = 0 /\ missed = 0
      BY <1>2 DEF Claim, budget, passed
    <2>2. \A d \in Clients : pc[d] \notin Holding /\ pc[d] # "plain"
      BY <1>2, <2>1, SetterHolds, ConstantsAssumption DEF Claim, Wins, Exclusive
    <2> QED
      BY <1>1, <1>2, <2>2 DEF Claim, Put, Goto, Holding
  <1>3. CASE Replay(c)
    BY <1>1, <1>3 DEF Replay, Goto, Exclusive, Holding, redis, budget, passed
  <1>4. CASE LookupMissed(c)
    BY <1>1, <1>4 DEF LookupMissed
  <1>5. CASE Succeed(c)
    BY <1>1, <1>5 DEF Succeed, Goto, Working, Exclusive, Holding, redis, budget, passed
  <1>6. CASE Fail(c)
    BY <1>1, <1>6 DEF Fail, AfterFailure, Goto, Working, Exclusive, Holding, redis, passed
  <1>7. CASE StoreImpossible(c)
    BY <1>1, <1>7 DEF StoreImpossible, Goto, Exclusive, Holding, redis, budget
  <1>8. ASSUME NEW r \in Reply, ClaimRaised(c, r) \/ LookupRaised(c, r) PROVE FALSE
    BY <1>1, <1>8 DEF ClaimRaised, LookupRaised, Redis
  <1>9. ASSUME NEW r \in Reply, Store(c, r) \/ Release(c, r)
        PROVE  \A d \in Clients : pc'[d] # "plain" /\ (pc'[d] \in Holding => setter' = d)
    <2>1. r = "ok" /\ errors = 0 /\ outlived = 0 /\ missed = 0
      BY <1>1, <1>9 DEF Store, Release, Redis, Raised, passed
    <2>2. \A d \in Clients : pc[d] # "plain" /\ (pc[d] \in Holding => d = c)
      BY <1>9, <2>1 DEF Exclusive, Store, Release, Holding
    <2>3. pc' \in [Clients -> Points] /\ pc'[c] \in {"out", "done"} /\ \A d \in Clients \ {c} : pc'[d] = pc[d]
      BY <1>1, <1>9, <2>1 DEF Store, Release, Raised, Goto, Points
    <2> QED
      BY <2>2, <2>3 DEF Holding
  <1> QED
    BY <1>2, <1>3, <1>4, <1>5, <1>6, <1>7, <1>8, <1>9 DEF Deliver

\* Inv is inductive: a death or an expired result leaves nobody at work.
LEMMA StepExclusive == Inv /\ [Next]_vars => Inv'
  <1> SUFFICES ASSUME Inv, [Next]_vars PROVE Exclusive'
    BY StepTyped DEF Inv
  <1>1. TypeOK /\ outlived \in Nat
    BY DEF Inv, TypeOK
  <1>2. ASSUME NEW c \in Clients, Deliver(c) PROVE Exclusive'
    BY <1>2, DeliveryExclusive
  <1>3. CASE ExpireSentinel
    <2>1. CASE HolderAtWork
      BY <1>1, <1>3, <2>1 DEF ExpireSentinel, SentinelExpires, Exclusive
    <2>2. CASE ~HolderAtWork
      BY <1>1, <1>3, <2>2 DEF ExpireSentinel, SentinelExpires, HolderAtWork, Exclusive, Inv, budget
    <2> QED
      BY <2>1, <2>2
  <1>4. CASE ExpireResult
    <2>1. \A c \in Clients : pc'[c] \in {"out", "done"}
      BY <1>4 DEF ExpireResult
    <2> QED
      BY <2>1 DEF Exclusive, Holding
  <1>5. CASE Crash
    <2>1. \A c \in Clients : pc'[c] \in {"out", "done"}
      BY <1>5 DEF Crash
    <2> QED
      BY <2>1 DEF Exclusive, Holding
  <1>6. CASE UNCHANGED vars
    BY <1>6 DEF Inv, Exclusive, vars, redis, budget, passed
  <1> QED
    BY <1>2, <1>3, <1>4, <1>5, <1>6 DEF Next

\* All deliveries that work, or have just worked, are the one that set the sentinel.
LEMMA ExclusiveIsOne == Inv => OneAtATime
  <1> SUFFICES ASSUME Inv, errors = 0, outlived = 0, missed = 0
               PROVE  Cardinality({c \in Clients : pc[c] \in Working \cup {"store"}}) <= 1
    BY DEF OneAtATime
  <1> DEFINE S == {c \in Clients : pc[c] \in Working \cup {"store"}}
  <1>1. S \in SUBSET {setter}
    BY DEF Inv, Exclusive, Working, Holding
  <1>2. IsFiniteSet({setter}) /\ Cardinality({setter}) = 1
    BY FS_Singleton
  <1> HIDE DEF S
  <1>3. IsFiniteSet(S) /\ Cardinality(S) <= Cardinality({setter})
    BY <1>1, <1>2, FS_Subset
  <1>4. Cardinality(S) \in Nat
    BY <1>3, FS_CardinalityType
  <1>5. Cardinality(S) <= 1
    BY <1>2, <1>3, <1>4
  <1> QED
    BY <1>5 DEF S

\* The invariant that the theorems below rest on.
LEMMA InvHolds == Spec => []Inv
  <1>1. Init => Inv
    BY InitTyped, InitExclusive DEF Inv
  <1> QED
    BY <1>1, StepExclusive, PTL DEF Spec

\* As long as Redis answers and no sentinel runs out under its delivery, only one
\* delivery works at a time, however many there are and however often work fails
\* and the server dies.
THEOREM OneDeliveryAtATime == Spec => []OneAtATime
  BY InvHolds, ExclusiveIsOne, PTL

-----------------------------------------------------------------------------
(* One answer: without the events that the middleware tolerates, whoever   *)
(* is answered has the stored result, and only failed work is released.    *)

Agreed ==
    errors + lapses + outlived + missed + unstored = 0 =>
        \A c \in Clients : /\ pc[c] = "done" => value = got[c]
                           /\ pc[c] = "release" => got[c] = 0

\* A sum of counters that is zero.
LEMMA SumIsZero ==
    ASSUME NEW i \in Nat, NEW j \in Nat, NEW k \in Nat, NEW m \in Nat, NEW n \in Nat,
           i + j + k + m + n = 0
    PROVE  i = 0 /\ j = 0 /\ k = 0 /\ m = 0 /\ n = 0
  OBVIOUS

\* The same of the counters of tolerated events.
LEMMA Untouched ==
    ASSUME TypeOK, errors + lapses + outlived + missed + unstored = 0
    PROVE  errors = 0 /\ lapses = 0 /\ outlived = 0 /\ missed = 0 /\ unstored = 0
  BY DEF TypeOK

\* While a delivery holds the sentinel nobody has been answered.
LEMMA NoneAnsweredYet ==
    ASSUME Inv, Agreed, errors + lapses + outlived + missed + unstored = 0,
           NEW c \in Clients, pc[c] \in Holding
    PROVE  value = 0 /\ \A d \in Clients : pc[d] # "done"
  <1>1. setter = c
    BY Untouched DEF Inv, Exclusive
  <1>2. value = 0
    BY <1>1, SetterHolds DEF Inv
  <1> QED
    BY <1>2 DEF Inv, Agreed, TypeOK

\* Nobody has been answered yet.
LEMMA InitAgreed == Init => Agreed
  BY DEF Init, Agreed

\* Deliveries, when nothing tolerated has happened yet.
LEMMA DeliveryAgreed ==
    ASSUME Inv, Agreed, NEW c \in Clients, Deliver(c)
    PROVE  Agreed'
  <1> SUFFICES ASSUME TypeOK', errors' + lapses' + outlived' + missed' + unstored' = 0
               PROVE  \A d \in Clients : /\ pc'[d] = "done" => value' = got'[d]
                                         /\ pc'[d] = "release" => got'[d] = 0
    <2>1. TypeOK'
      BY StepTyped DEF Inv, Next
    <2> QED
      BY <2>1 DEF Agreed
  <1>1. errors' = 0 /\ lapses' = 0 /\ outlived' = 0 /\ missed' = 0 /\ unstored' = 0
    <2>1. errors' \in Nat /\ lapses' \in Nat /\ outlived' \in Nat /\ missed' \in Nat /\ unstored' \in Nat
      BY DEF TypeOK
    <2> QED
      BY <2>1, SumIsZero
  <1>2. /\ errors \in Nat /\ lapses \in Nat /\ outlived \in Nat /\ missed \in Nat /\ unstored \in Nat
        /\ pc \in [Clients -> Points] /\ got \in [Clients -> 0..runs] /\ runs \in Nat
        /\ \A d \in Clients : pc[d] \in {"store", "done"} => got[d] # 0
        /\ key = "result" <=> value # 0
    BY DEF Inv, TypeOK, Points
  <1>3. CASE Claim(c)
    <2>1. errors + lapses + outlived + missed + unstored = 0 /\ value = 0
      BY <1>1, <1>2, <1>3 DEF Claim, Wins, budget, passed
    <2>2. \A d \in Clients : pc[d] # "done" /\ (pc[d] = "release" => got[d] = 0)
      BY <1>2, <2>1 DEF Agreed
    <2> QED
      BY <1>2, <1>3, <2>2 DEF Claim, Put, Goto
  <1>4. CASE Replay(c)
    <2>1. errors + lapses + outlived + missed + unstored = 0
      BY <1>1, <1>4 DEF Replay, budget, passed
    <2> QED
      BY <1>2, <1>4, <2>1 DEF Replay, Goto, Agreed, redis
  <1>5. CASE LookupMissed(c)
    BY <1>1, <1>2, <1>5 DEF LookupMissed
  <1>6. CASE Succeed(c)
    <2>1. errors + lapses + outlived + missed + unstored = 0
      BY <1>1, <1>6 DEF Succeed, budget, passed
    <2>2. pc[c] = "own"
      BY <1>6, <2>1, Untouched DEF Succeed, Working, Inv, Exclusive
    <2>3. /\ pc'[c] = "store" /\ value' = value
          /\ \A d \in Clients \ {c} : pc'[d] = pc[d] /\ got'[d] = got[d]
      BY <1>2, <1>6, <2>2 DEF Succeed, Goto, redis
    <2> QED
      BY <2>1, <2>3 DEF Agreed
  <1>7. CASE Fail(c)
    <2>1. errors + lapses + outlived + missed + unstored = 0
      BY <1>1, <1>7 DEF Fail, passed
    <2>2. got[c] = 0
      BY <1>7 DEF Fail, Working, Inv, TypeOK
    <2>3. /\ pc'[c] \in {"release", "out"} /\ value' = value /\ got' = got
          /\ \A d \in Clients \ {c} : pc'[d] = pc[d]
      BY <1>2, <1>7 DEF Fail, AfterFailure, Goto, redis
    <2> QED
      BY <2>1, <2>2, <2>3 DEF Agreed
  <1>8. CASE StoreImpossible(c)
    BY <1>1, <1>2, <1>8 DEF StoreImpossible
  <1>9. ASSUME NEW r \in Reply, ClaimRaised(c, r) \/ LookupRaised(c, r) PROVE FALSE
    BY <1>1, <1>2, <1>9 DEF ClaimRaised, LookupRaised, Redis
  <1>10. ASSUME NEW r \in Reply, Store(c, r)
         PROVE  \A d \in Clients : /\ pc'[d] = "done" => value' = got'[d]
                                   /\ pc'[d] = "release" => got'[d] = 0
    <2>1. ~Raised(r) /\ Executed(r) /\ errors + lapses + outlived + missed + unstored = 0
      BY <1>1, <1>2, <1>10 DEF Store, Redis, Raised, Executed, passed
    <2>2. \A d \in Clients : pc[d] # "done"
      BY <1>10, <2>1, NoneAnsweredYet DEF Store, Holding
    <2>3. /\ value' = got[c] /\ got' = got /\ pc'[c] = "done"
          /\ \A d \in Clients \ {c} : pc'[d] = pc[d]
      BY <1>2, <1>10, <2>1 DEF Store, Cached, Put, Goto
    <2> QED
      BY <2>1, <2>2, <2>3 DEF Agreed
  <1>11. ASSUME NEW r \in Reply, Release(c, r)
         PROVE  \A d \in Clients : /\ pc'[d] = "done" => value' = got'[d]
                                   /\ pc'[d] = "release" => got'[d] = 0
    <2>1. errors + lapses + outlived + missed + unstored = 0
      BY <1>1, <1>2, <1>11 DEF Release, Redis, Raised, passed
    <2>2. \A d \in Clients : pc[d] # "done"
      BY <1>11, <2>1, NoneAnsweredYet DEF Release, Holding
    <2>3. got[c] = 0
      BY <1>11, <2>1 DEF Release, Agreed
    <2>4. /\ got' = got /\ pc'[c] = "out"
          /\ \A d \in Clients \ {c} : pc'[d] = pc[d]
      BY <1>2, <1>11, <2>3 DEF Release, Goto
    <2> QED
      BY <2>1, <2>2, <2>4 DEF Agreed
  <1> QED
    BY <1>3, <1>4, <1>5, <1>6, <1>7, <1>8, <1>9, <1>10, <1>11 DEF Deliver

\* Agreed is inductive given Inv.
LEMMA StepAgreed == Inv /\ Agreed /\ [Next]_vars => Agreed'
  <1> SUFFICES ASSUME Inv, Agreed, [Next]_vars PROVE Agreed'
    OBVIOUS
  <1>1. ASSUME NEW c \in Clients, Deliver(c) PROVE Agreed'
    BY <1>1, DeliveryAgreed
  <1>2. errors \in Nat /\ lapses \in Nat /\ outlived \in Nat /\ missed \in Nat /\ unstored \in Nat
    BY DEF Inv, TypeOK
  <1>3. CASE ExpireSentinel
    <2>1. value = 0 /\ value' = 0 /\ pc' = pc /\ got' = got
      BY <1>3 DEF ExpireSentinel, SentinelExpires, Put, Inv, TypeOK
    <2>2. /\ errors' = errors /\ lapses' = lapses /\ missed' = missed /\ unstored' = unstored
          /\ outlived' = outlived \/ outlived' = outlived + 1
      BY <1>3 DEF ExpireSentinel, SentinelExpires, budget
    <2>3. errors' + lapses' + outlived' + missed' + unstored' = 0
             => errors + lapses + outlived + missed + unstored = 0
      BY <1>2, <2>2
    <2> QED
      BY <2>1, <2>3 DEF Agreed
  <1>4. CASE ExpireResult
    BY <1>2, <1>4 DEF ExpireResult, Agreed, passed
  <1>5. CASE Crash
    <2>1. \A c \in Clients : /\ pc'[c] # "release"
                             /\ pc'[c] = "done" => pc[c] = "done" /\ got'[c] = got[c]
      BY <1>5 DEF Crash
    <2> QED
      BY <1>5, <2>1 DEF Crash, Agreed, redis, passed
  <1>6. CASE UNCHANGED vars
    BY <1>6 DEF Agreed, vars, redis, budget, passed
  <1> QED
    BY <1>1, <1>3, <1>4, <1>5, <1>6 DEF Next

\* Two answers that both are the stored one are the same.
LEMMA AgreedIsAgreement == Agreed => AnswersAgree
  BY DEF Agreed, AnswersAgree

\* As long as nothing tolerated happens all deliveries get the same run's
\* result, however often the work fails and the server dies in between.
THEOREM OneAnswer == Spec => []AnswersAgree
  <1>1. Spec => []Agreed
    BY InitAgreed, StepAgreed, InvHolds, PTL DEF Spec
  <1> QED
    BY <1>1, AgreedIsAgreement, PTL

-----------------------------------------------------------------------------
(* The account of the runs: what has run, the deliveries that may still    *)
(* run or free the key, and a key that is free for the next claim, against *)
(* the events that the middleware tolerates.                               *)

Owing == {"own", "plain", "release"}
Owed == Cardinality({c \in Clients : pc[c] \in Owing})
Weight(p) == IF p \in Owing THEN 1 ELSE 0
Free == IF key = "absent" \/ (key = "inflight" /\ ~HolderAtWork) THEN 1 ELSE 0
Paid == errors + crashes + lapses + outlived + missed + unstored

Accounted == runs + Owed + Free <= 1 + Paid

\* The parts of the account are numbers.
LEMMA Numbers ==
    ASSUME TypeOK
    PROVE  runs \in Nat /\ Owed \in Nat /\ Free \in {0, 1} /\ Paid \in Nat
  <1>1. {c \in Clients : pc[c] \in Owing} \in SUBSET Clients
    OBVIOUS
  <1>2. IsFiniteSet({c \in Clients : pc[c] \in Owing})
    BY <1>1, FS_Subset, ConstantsAssumption
  <1> QED
    BY <1>2, FS_CardinalityType DEF Owed, Free, Paid, TypeOK

\* One delivery moves: the debt changes by what it owed and owes.
LEMMA OwedAfter ==
    ASSUME TypeOK, NEW c \in Clients, NEW p \in Points, Goto(c, p)
    PROVE  Owed' = Owed + Weight(p) - Weight(pc[c])
  <1> DEFINE S == {d \in Clients : pc[d] \in Owing}
  <1>1. S \in SUBSET Clients
    OBVIOUS
  <1>2. IsFiniteSet(S)
    BY <1>1, FS_Subset, ConstantsAssumption
  <1>3. c \in S <=> pc[c] \in Owing
    OBVIOUS
  <1>4. S' = IF p \in Owing THEN S \cup {c} ELSE S \ {c}
    <2>1. pc'[c] = p /\ \A d \in Clients \ {c} : pc'[d] = pc[d]
      BY GotoTyped
    <2>2. S' = {d \in Clients : pc'[d] \in Owing}
      BY DEF Owing
    <2> QED
      BY <2>1, <2>2
  <1>5. Owed = Cardinality(S) /\ Owed' = Cardinality(S')
    BY DEF Owed
  <1> HIDE DEF S
  <1>6. Cardinality(S) \in Nat
    BY <1>2, FS_CardinalityType
  <1>7. Cardinality(S \cup {c}) = Cardinality(S) + 1 - Weight(pc[c])
    <2>1. Cardinality(S \cup {c}) = IF c \in S THEN Cardinality(S) ELSE Cardinality(S) + 1
      BY <1>2, FS_AddElement
    <2> QED
      BY <1>3, <1>6, <2>1 DEF Weight
  <1>8. Cardinality(S \ {c}) = Cardinality(S) - Weight(pc[c])
    <2>1. Cardinality(S \ {c}) = IF c \in S THEN Cardinality(S) - 1 ELSE Cardinality(S)
      BY <1>2, FS_RemoveElement
    <2> QED
      BY <1>3, <1>6, <2>1 DEF Weight
  <1>9. Cardinality(S') = Cardinality(S) + Weight(p) - Weight(pc[c])
    <2>1. CASE p \in Owing
      BY <1>4, <1>6, <1>7, <2>1 DEF Weight
    <2>2. CASE p \notin Owing
      BY <1>4, <1>6, <1>8, <2>2 DEF Weight
    <2> QED
      BY <2>1, <2>2
  <1> QED
    BY <1>5, <1>9

\* A delivery that goes on holding, or not holding, the sentinel frees nothing.
LEMMA FreeKept ==
    ASSUME TypeOK, NEW c \in Clients, NEW p \in Points, Goto(c, p),
           p \in Holding <=> pc[c] \in Holding, UNCHANGED redis
    PROVE  Free' = Free
  <1>1. pc'[c] = p /\ \A d \in Clients \ {c} : pc'[d] = pc[d]
    BY GotoTyped
  <1>2. HolderAtWork' <=> HolderAtWork
    BY <1>1 DEF HolderAtWork, redis, Holding
  <1> QED
    BY <1>2 DEF Free, redis

\* What an expiring sentinel frees was free, or is paid for.
LEMMA ExpiryPaid ==
    ASSUME TypeOK, SentinelExpires
    PROVE  Free' = 1 /\ Free + outlived' = 1 + outlived
  <1>1. Free' = 1
    BY DEF SentinelExpires, Put, Free
  <1>2. CASE HolderAtWork
    BY <1>1, <1>2 DEF SentinelExpires, Free, TypeOK
  <1>3. CASE ~HolderAtWork
    BY <1>1, <1>3 DEF SentinelExpires, Free, TypeOK
  <1> QED
    BY <1>1, <1>2, <1>3

\* One run is free from the start.
LEMMA InitAccounted == Init => Accounted
  <1> SUFFICES ASSUME Init PROVE Accounted
    OBVIOUS
  <1>1. {c \in Clients : pc[c] \in Owing} = {}
    BY DEF Init, Owing
  <1>2. Owed = 0
    BY <1>1, FS_EmptySet DEF Owed
  <1> QED
    BY <1>2 DEF Init, Accounted, Free, Paid

\* The head of idempotent(): a claim uses up the free key, every other run
\* that begins is paid for.
LEMMA ArrivalAccounted ==
    ASSUME TypeOK, Accounted, NEW c \in Clients, NEW r \in Reply,
           Claim(c) \/ ClaimRaised(c, r) \/ Replay(c) \/ LookupRaised(c, r) \/ LookupMissed(c)
    PROVE  Accounted'
  <1> USE Numbers
  <1>0. /\ errors \in Nat /\ crashes \in Nat /\ lapses \in Nat
        /\ outlived \in Nat /\ missed \in Nat /\ unstored \in Nat
    BY DEF TypeOK
  <1>1. CASE Claim(c)
    <2>1. Owed' = Owed + 1
      BY <1>1, OwedAfter DEF Claim, Arrives, Weight, Owing, Points
    <2>2. Free = 1
      BY <1>1 DEF Claim, Wins, Free
    <2>3. Free' = 0
      <3>1. pc'[c] = "own" /\ setter' = c /\ key' = "inflight"
        BY <1>1, GotoTyped DEF Claim, Put, Points
      <3> QED
        BY <3>1 DEF Free, HolderAtWork, Holding
    <2>4. runs' = runs /\ Paid' = Paid
      BY <1>1 DEF Claim, Paid, budget, passed
    <2> QED
      BY <2>1, <2>2, <2>3, <2>4 DEF Accounted
  <1>2. CASE ClaimRaised(c, r)
    <2>1. Owed' = Owed + 1
      BY <1>2, OwedAfter DEF ClaimRaised, Arrives, Weight, Owing, Points
    <2>2. Free' = Free
      <3>1. CASE key = "absent" /\ Executed(r)
        BY <1>2, <3>1, ConstantsAssumption DEF ClaimRaised, Put, Free, HolderAtWork
      <3>2. CASE ~(key = "absent" /\ Executed(r))
        BY <1>2, <3>2, FreeKept DEF ClaimRaised, Arrives, Holding, Points
      <3> QED
        BY <3>1, <3>2
    <2>3. runs' = runs /\ Paid' = Paid + 1
      BY <1>0, <1>2 DEF ClaimRaised, Redis, Paid, passed
    <2> QED
      BY <2>1, <2>2, <2>3 DEF Accounted
  <1>3. CASE Replay(c)
    <2>1. Owed' = Owed
      BY <1>3, OwedAfter DEF Replay, Arrives, Weight, Owing, Points
    <2>2. Free' = Free
      BY <1>3 DEF Replay, Free, redis
    <2>3. runs' = runs /\ Paid' = Paid
      BY <1>3 DEF Replay, Paid, budget, passed
    <2> QED
      BY <2>1, <2>2, <2>3 DEF Accounted
  <1>4. CASE LookupRaised(c, r)
    <2>1. Owed' = Owed + 1
      BY <1>4, OwedAfter DEF LookupRaised, Arrives, Weight, Owing, Points
    <2>2. Free' = Free
      BY <1>4, FreeKept DEF LookupRaised, Arrives, Holding, Points
    <2>3. runs' = runs /\ Paid' = Paid + 1
      BY <1>0, <1>4 DEF LookupRaised, Redis, Paid, passed
    <2> QED
      BY <2>1, <2>2, <2>3 DEF Accounted
  <1>5. CASE LookupMissed(c)
    <2>1. Owed' = Owed + 1
      BY <1>5, OwedAfter DEF LookupMissed, Arrives, Weight, Owing, Points
    <2>2. Free' = 1 /\ Free + outlived' = 1 + outlived
      BY <1>5, ExpiryPaid DEF LookupMissed
    <2>3. runs' = runs /\ Paid' = Paid + (outlived' - outlived) + 1
      <3>1. outlived' \in Nat
        BY <1>0, <1>5 DEF LookupMissed, SentinelExpires
      <3> QED
        BY <1>0, <1>5, <3>1 DEF LookupMissed, Paid, budget
    <2>4. outlived' - outlived = 1 - Free
      <3>1. outlived' \in Nat
        BY <1>0, <1>5 DEF LookupMissed, SentinelExpires
      <3> QED
        BY <1>0, <2>2, <3>1
    <2> QED
      BY <2>1, <2>2, <2>3, <2>4 DEF Accounted
  <1> QED
    BY <1>1, <1>2, <1>3, <1>4, <1>5

\* The work and what follows it: a run pays off what its delivery owed, and a
\* result that is not stored leaves a release to be paid for.
LEMMA WorkAccounted ==
    ASSUME TypeOK, Accounted, NEW c \in Clients, NEW r \in Reply,
           Succeed(c) \/ Fail(c) \/ Store(c, r) \/ StoreImpossible(c) \/ Release(c, r)
    PROVE  Accounted'
  <1> USE Numbers
  <1>0. /\ errors \in Nat /\ crashes \in Nat /\ lapses \in Nat
        /\ outlived \in Nat /\ missed \in Nat /\ unstored \in Nat
    BY DEF TypeOK
  <1>1. CASE Succeed(c)
    <2> DEFINE p == IF pc[c] = "own" THEN "store" ELSE "done"
    <2>1. p \in Points /\ Goto(c, p) /\ UNCHANGED redis /\ (p \in Holding <=> pc[c] \in Holding)
      BY <1>1 DEF Succeed, Working, Holding, Points
    <2>2. Weight(p) = 0 /\ Weight(pc[c]) = 1
      BY <1>1 DEF Succeed, Working, Weight, Owing
    <2> HIDE DEF p
    <2>3. Owed' = Owed + 0 - 1
      BY <2>1, <2>2, OwedAfter
    <2>4. Free' = Free
      BY <2>1, FreeKept
    <2>5. runs' = runs + 1 /\ Paid' = Paid
      BY <1>1 DEF Succeed, Paid, budget, passed
    <2> QED
      BY <2>3, <2>4, <2>5 DEF Accounted
  <1>2. CASE Fail(c)
    <2> DEFINE p == IF pc[c] = "own" THEN "release" ELSE "out"
    <2>1. p \in Points /\ Goto(c, p) /\ UNCHANGED redis /\ (p \in Holding <=> pc[c] \in Holding)
      BY <1>2 DEF Fail, AfterFailure, Working, Holding, Points
    <2>2. Weight(p) \in {0, 1} /\ Weight(pc[c]) = 1
      BY <1>2 DEF Fail, Working, Weight, Owing
    <2> HIDE DEF p
    <2>3. Owed' = Owed + Weight(p) - 1
      BY <2>1, <2>2, OwedAfter
    <2>4. Free' = Free
      BY <2>1, FreeKept
    <2>5. runs' = runs /\ Paid' = Paid
      BY <1>2 DEF Fail, Paid, passed
    <2> QED
      BY <2>2, <2>3, <2>4, <2>5 DEF Accounted
  <1>3. CASE Store(c, r)
    <2> DEFINE p == IF Raised(r) THEN "release" ELSE "done"
    <2> DEFINE e == IF Raised(r) THEN 1 ELSE 0
    <2>1. p \in Points /\ Goto(c, p) /\ pc[c] = "store"
      BY <1>3 DEF Store, Points
    <2>2. Weight(p) = e /\ Weight(pc[c]) = 0 /\ e \in {0, 1}
      BY <2>1 DEF Weight, Owing
    <2>3. runs' = runs /\ Paid' = Paid + e
      BY <1>0, <1>3 DEF Store, Redis, Paid, passed
    <2>4. Free' <= Free
      <3>1. CASE Executed(r)
        BY <1>3, <3>1 DEF Store, Cached, Put, Free
      <3>2. CASE ~Executed(r)
        <4>1. p = "release" /\ UNCHANGED redis
          BY <1>3, <3>2 DEF Store, Cached, Executed, Raised
        <4>2. p \in Holding <=> pc[c] \in Holding
          BY <2>1, <4>1 DEF Holding
        <4> HIDE DEF p
        <4> QED
          BY <2>1, <4>1, <4>2, FreeKept
      <3> QED
        BY <3>1, <3>2
    <2> HIDE DEF p, e
    <2>5. Owed' = Owed + e - 0
      BY <2>1, <2>2, OwedAfter
    <2>6. Free' \in {0, 1}
      BY DEF Free
    <2> QED
      BY <2>2, <2>3, <2>4, <2>5, <2>6 DEF Accounted
  <1>4. CASE StoreImpossible(c)
    <2>1. Owed' = Owed + 1
      BY <1>4, OwedAfter DEF StoreImpossible, Weight, Owing, Points
    <2>2. Free' = Free
      BY <1>4, FreeKept DEF StoreImpossible, Holding, Points
    <2>3. runs' = runs /\ Paid' = Paid + 1
      BY <1>0, <1>4 DEF StoreImpossible, Paid, budget
    <2> QED
      BY <2>1, <2>2, <2>3 DEF Accounted
  <1>5. CASE Release(c, r)
    <2> DEFINE p == IF got[c] = 0 THEN "out" ELSE "done"
    <2> DEFINE e == IF Raised(r) THEN 1 ELSE 0
    <2>1. p \in Points /\ Goto(c, p) /\ pc[c] = "release"
      BY <1>5 DEF Release, Points
    <2>2. Weight(p) = 0 /\ Weight(pc[c]) = 1 /\ e \in {0, 1}
      BY <2>1 DEF Weight, Owing
    <2>3. runs' = runs /\ Paid' = Paid + e
      BY <1>0, <1>5 DEF Release, Redis, Paid, passed
    <2> HIDE DEF p, e
    <2>4. Owed' = Owed + 0 - 1
      BY <2>1, <2>2, OwedAfter
    <2>5. Free' \in {0, 1}
      BY DEF Free
    <2> QED
      BY <2>2, <2>3, <2>4, <2>5 DEF Accounted
  <1> QED
    BY <1>1, <1>2, <1>3, <1>4, <1>5

\* Expiry and death: each frees the key at most once, and is counted.
LEMMA TimeAccounted ==
    ASSUME TypeOK, Accounted, ExpireSentinel \/ ExpireResult \/ Crash
    PROVE  Accounted'
  <1> USE Numbers
  <1>0. /\ errors \in Nat /\ crashes \in Nat /\ lapses \in Nat
        /\ outlived \in Nat /\ missed \in Nat /\ unstored \in Nat
    BY DEF TypeOK
  <1>1. Free' \in {0, 1}
    BY DEF Free
  <1>2. CASE ExpireSentinel
    <2>1. Owed' = Owed /\ runs' = runs
      BY <1>2 DEF ExpireSentinel, Owed
    <2>2. Free' = 1 /\ Free + outlived' = 1 + outlived
      BY <1>2, ExpiryPaid DEF ExpireSentinel
    <2>3. outlived' \in Nat
      BY <1>0, <1>2 DEF ExpireSentinel, SentinelExpires
    <2>4. Paid' = Paid + (outlived' - outlived)
      BY <1>0, <1>2, <2>3 DEF ExpireSentinel, Paid, budget
    <2>5. outlived' - outlived = 1 - Free
      BY <1>0, <2>2, <2>3
    <2> QED
      BY <2>1, <2>2, <2>4, <2>5 DEF Accounted
  <1>3. CASE ExpireResult
    <2>1. Owed' = Owed /\ runs' = runs
      BY <1>3 DEF ExpireResult, Owed
    <2>2. Paid' = Paid + 1
      BY <1>0, <1>3 DEF ExpireResult, Paid, passed
    <2> QED
      BY <1>1, <2>1, <2>2 DEF Accounted
  <1>4. CASE Crash
    <2>1. Owed' = 0
      <3>1. {c \in Clients : pc'[c] \in Owing} = {}
        BY <1>4 DEF Crash, Owing
      <3>2. Owed' = Cardinality({c \in Clients : pc'[c] \in Owing})
        BY DEF Owed, Owing
      <3> QED
        BY <3>1, <3>2, FS_EmptySet
    <2>2. runs' = runs /\ Paid' = Paid + 1
      BY <1>0, <1>4 DEF Crash, Paid, passed
    <2> QED
      BY <1>1, <2>1, <2>2 DEF Accounted
  <1> QED
    BY <1>2, <1>3, <1>4

\* Accounted is inductive given TypeOK.
LEMMA StepAccounted == TypeOK /\ Accounted /\ [Next]_vars => Accounted'
  <1> SUFFICES ASSUME TypeOK, Accounted, [Next]_vars PROVE Accounted'
    OBVIOUS
  <1>1. ASSUME NEW c \in Clients, Deliver(c) PROVE Accounted'
    <2>1. "ok" \in Reply
      BY DEF Reply
    <2>2. CASE Claim(c) \/ Replay(c) \/ LookupMissed(c)
      BY <2>1, <2>2, ArrivalAccounted
    <2>3. CASE Succeed(c) \/ Fail(c) \/ StoreImpossible(c)
      BY <2>1, <2>3, WorkAccounted
    <2>4. ASSUME NEW r \in Reply, ClaimRaised(c, r) \/ LookupRaised(c, r) PROVE Accounted'
      BY <2>4, ArrivalAccounted
    <2>5. ASSUME NEW r \in Reply, Store(c, r) \/ Release(c, r) PROVE Accounted'
      BY <2>5, WorkAccounted
    <2> QED
      BY <1>1, <2>2, <2>3, <2>4, <2>5 DEF Deliver
  <1>2. CASE ExpireSentinel \/ ExpireResult \/ Crash
    BY <1>2, TimeAccounted
  <1>3. CASE UNCHANGED vars
    <2>1. Owed' = Owed /\ Free' = Free
      BY <1>3 DEF vars, redis, Owed, Free, HolderAtWork
    <2>2. runs' = runs /\ Paid' = Paid
      BY <1>3 DEF vars, budget, passed, Paid
    <2> QED
      BY <2>1, <2>2 DEF Accounted
  <1> QED
    BY <1>1, <1>2, <1>3 DEF Next

\* However many deliveries there are and whatever fails, the work runs at most
\* once more than the events which the middleware tolerates.
THEOREM EveryRunIsPaidFor == Spec => []RunsAreAccounted
  <1>1. TypeOK /\ Accounted => RunsAreAccounted
    <2> SUFFICES ASSUME TypeOK, Accounted PROVE RunsAreAccounted
      OBVIOUS
    <2>1. runs <= 1 + Paid
      BY Numbers DEF Accounted
    <2>2. 1 + Paid = 1 + errors + crashes + lapses + outlived + missed + unstored
      BY DEF Paid, TypeOK
    <2> QED
      BY <2>1, <2>2 DEF RunsAreAccounted
  <1>2. Spec => []TypeOK
    BY DeliveriesTyped
  <1> QED
    BY <1>1, <1>2, InitAccounted, StepAccounted, PTL DEF Spec
=============================================================================
