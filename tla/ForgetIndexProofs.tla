-------------------------- MODULE ForgetIndexProofs --------------------------
(***************************************************************************)
(* The index of the forget registry is right for any set of entries whose  *)
(* stamps are bounded and distinguish the states they record: the scan for *)
(* a winning entry finds one, and it forgets exactly the subjects with a   *)
(* live forget.                                                            *)
(***************************************************************************)
EXTENDS ForgetIndex, TLAPS, WellFoundedInduction

\* A file set the clocks of its machines can have produced.
StampsTell(E) ==
    /\ \E t \in Nat : \A e \in E : e.at <= t
    /\ \A x, y \in E : x.at = y.at => x.state = y.state

-----------------------------------------------------------------------------
LessThan == {p \in Nat \X Nat : p[1] < p[2]}

LEMMA NotLess == \A x, y \in Nat : <<y, x>> \notin LessThan => x <= y
  BY DEF LessThan

\* A nonempty set of naturals has a least element.
LEMMA LeastNatural ==
  ASSUME NEW T \in SUBSET Nat, T # {}
  PROVE  \E x \in T : \A y \in T : x <= y
<1>1. LessThan = OpToRel(<, Nat)
  BY DEF LessThan, OpToRel
<1>2. IsWellFoundedOn(LessThan, Nat)
  BY <1>1, NatLessThanWellFounded
<1>3. PICK x \in T : \A y \in T : <<y, x>> \notin LessThan
  BY <1>2, WFMin
<1>. QED
  BY <1>3, NotLess

\* A nonempty bounded set of naturals has a greatest element.
LEMMA GreatestNatural ==
  ASSUME NEW T \in SUBSET Nat, T # {}, NEW b \in Nat, \A x \in T : x <= b
  PROVE  \E x \in T : \A y \in T : y <= x
<1>. DEFINE Above == {u \in Nat : \A x \in T : x <= u}
<1>1. PICK u \in Above : \A v \in Above : u <= v
  <2>1. Above \in SUBSET Nat /\ b \in Above
    OBVIOUS
  <2>. HIDE DEF Above
  <2>. QED
    BY <2>1, LeastNatural
<1>2. u \in T
  <2>. SUFFICES ASSUME u \notin T PROVE FALSE
    OBVIOUS
  <2>1. \A x \in T : x < u
    BY <1>1
  <2>2. u \in Nat /\ \A x \in T : x \in Nat /\ x <= u - 1
    BY <2>1, <1>1
  <2>3. PICK x \in T : x \in Nat /\ x <= u - 1
    BY <2>2
  <2>4. u - 1 \in Above
    BY <2>2, <2>3
  <2>. QED
    BY <2>4, <1>1
<1>. QED
  BY <1>1, <1>2

\* Scanning a nonempty set of entries with Wins ends at an entry of the set
\* that wins against every other.
LEMMA BestWins ==
  ASSUME NEW X \in SUBSET Entry, X # {}, \E t \in Nat : \A e \in X : e.at <= t
  PROVE  /\ Best(X) \in X
         /\ \A x \in X : Wins(Best(X), x)
<1>. SUFFICES \E e \in X : \A x \in X : Wins(e, x)
  BY DEF Best
<1>. DEFINE Purges == {e \in X : e.state = "purged"}
            Rank   == IF Purges # {} THEN Purges ELSE X
            Stamps == {e.at : e \in Rank}
<1>1. \A e \in X : e.at \in Nat
  BY DEF Entry
<1>2. PICK t \in Nat : \A e \in X : e.at <= t
  OBVIOUS
<1>3. Stamps \in SUBSET Nat /\ Stamps # {} /\ \A n \in Stamps : n <= t
  BY <1>1, <1>2
<1>4. PICK n \in Stamps : \A k \in Stamps : k <= n
  <2>. HIDE DEF Stamps
  <2>. QED
    BY <1>3, GreatestNatural
<1>5. PICK e \in Rank : e.at = n
  BY <1>4
<1>6. \A x \in Rank : e.at >= x.at
  BY <1>1, <1>4, <1>5
<1>7. CASE Purges # {}
  BY <1>5, <1>6, <1>7 DEF Wins
<1>8. CASE Purges = {}
  BY <1>5, <1>6, <1>8 DEF Wins
<1>. QED
  BY <1>7, <1>8

-----------------------------------------------------------------------------
\* The verdict on a forget that no re-add names is an entry of its own that
\* wins against all of them.
LEMMA VerdictOfForget ==
  ASSUME NEW E \in SUBSET Entry, StampsTell(E), NEW s, NEW f,
         Standing(E, s, f) # {}
  PROVE  /\ Best(Standing(E, s, f)) \in Standing(E, s, f)
         /\ \A x \in Standing(E, s, f) : Wins(Best(Standing(E, s, f)), x)
<1>1. Standing(E, s, f) \subseteq E
  BY DEF Standing, About
<1>2. \E t \in Nat : \A e \in Standing(E, s, f) : e.at <= t
  BY <1>1 DEF StampsTell
<1>. QED
  BY <1>1, <1>2, BestWins

LEMMA StandingForgets ==
  ASSUME NEW E, NEW s, NEW e \in About(E, s), e.forget \notin Cancelled(E, s)
  PROVE  e \in Standing(E, s, e.forget)
  BY DEF Standing, Cancelled, Readds

\* A forget is live exactly when the verdict on it forgets.
LEMMA LiveVerdict ==
  ASSUME NEW E \in SUBSET Entry, StampsTell(E), NEW s, NEW f
  PROVE  IsLive(E, s, f) <=>
           /\ Standing(E, s, f) # {}
           /\ Best(Standing(E, s, f)).state \in ForgottenStates
<1>. DEFINE St == Standing(E, s, f)
            b  == Best(St)
<1>1. St \subseteq E /\ \A x \in St : x \in Entry /\ x.state # "readded"
  BY DEF Standing, About
<1>2. St # {} => b \in St /\ \A x \in St : Wins(b, x)
  BY VerdictOfForget
<1>3. ASSUME IsLive(E, s, f)
      PROVE  St # {} /\ b.state \in ForgottenStates
  <2>1. PICK e \in St : /\ e.state \in ForgottenStates
                        /\ \A r \in St : r.state = "restored" => Wins(e, r)
    BY <1>3 DEF IsLive
  <2>2. b \in St /\ Wins(b, e)
    BY <2>1, <1>2
  <2>. HIDE DEF St, b
  <2>3. b \in Entry /\ e \in Entry /\ b \in E /\ e \in E
    BY <1>1, <2>1, <2>2
  <2>4. b.state = "restored" => Wins(e, b)
    BY <2>1, <2>2
  <2>5. b.state # "restored"
    BY <2>1, <2>2, <2>3, <2>4 DEF Wins, StampsTell, Entry, ForgottenStates
  <2>. QED
    BY <1>1, <2>2, <2>3, <2>5 DEF Entry, States, ForgottenStates
<1>4. ASSUME St # {}, b.state \in ForgottenStates
      PROVE  IsLive(E, s, f)
  BY <1>2, <1>4 DEF IsLive
<1>. QED
  BY <1>3, <1>4

\* The entry the index keeps for a subject forgets it exactly when one of its
\* forgets is live: scanning per forget, then per subject, loses none.
LEMMA IndexIsRight ==
  ASSUME NEW E \in SUBSET Entry, StampsTell(E), NEW s, None \notin Entry
  PROVE  StateOf(E, s) \in ForgottenStates <=> IsForgotten(E, s)
<1>. DEFINE V         == Verdicts(E, s)
            forgotten == {e \in V : e.state \in ForgottenStates}
            other     == V \ forgotten
<1>1. \A v \in V : \E f \in Forgets : /\ Standing(E, s, f) # {}
                                     /\ v = Best(Standing(E, s, f))
                                     /\ v \in Standing(E, s, f)
  <2>. SUFFICES ASSUME NEW v \in V
                PROVE  \E f \in Forgets : /\ Standing(E, s, f) # {}
                                         /\ v = Best(Standing(E, s, f))
                                         /\ v \in Standing(E, s, f)
    OBVIOUS
  <2>1. PICK e \in About(E, s) : e.forget \notin Cancelled(E, s) /\ v = Best(Standing(E, s, e.forget))
    BY DEF Verdicts
  <2>2. e \in Standing(E, s, e.forget) /\ e.forget \in Forgets
    BY <2>1, StandingForgets DEF About, Entry
  <2>. QED
    BY <2>1, <2>2, VerdictOfForget
<1>2. V \in SUBSET Entry /\ \E t \in Nat : \A v \in V : v.at <= t
  <2>1. \A v \in V : v \in E
    BY <1>1 DEF Standing, About
  <2>. HIDE DEF V
  <2>. QED
    BY <2>1 DEF StampsTell
<1>3. forgotten # {} => Best(forgotten) \in forgotten
  BY <1>2, BestWins
<1>4. other # {} => Best(other) \in other
  BY <1>2, BestWins
<1>5. Readds(E, s) # {} => Best(Readds(E, s)) \in Readds(E, s)
  <2>1. Readds(E, s) \in SUBSET Entry /\ \E t \in Nat : \A e \in Readds(E, s) : e.at <= t
    BY DEF Readds, About, StampsTell
  <2>. QED
    BY <2>1, BestWins
<1>6. StateOf(E, s) \in ForgottenStates <=> forgotten # {}
  <2>1. CASE forgotten # {}
    <3>1. Winner(E, s) = Best(forgotten)
      BY <2>1 DEF Winner
    <3>. QED
      BY <1>2, <1>3, <2>1, <3>1 DEF StateOf
  <2>2. CASE forgotten = {} /\ other # {}
    <3>1. Winner(E, s) = Best(other)
      BY <2>2 DEF Winner
    <3>. QED
      BY <1>4, <2>2, <3>1 DEF StateOf, ForgottenStates
  <2>3. CASE forgotten = {} /\ other = {}
    <3>1. Winner(E, s) = IF Readds(E, s) # {} THEN Best(Readds(E, s)) ELSE None
      BY <2>3 DEF Winner
    <3>. QED
      BY <1>5, <2>3, <3>1 DEF StateOf, ForgottenStates, Readds
  <2>. QED
    BY <2>1, <2>2, <2>3
<1>7. forgotten # {} => IsForgotten(E, s)
  BY <1>1, LiveVerdict DEF IsForgotten
<1>8. ASSUME IsForgotten(E, s)
      PROVE  forgotten # {}
  <2>1. PICK f \in Forgets : IsLive(E, s, f)
    BY <1>8 DEF IsForgotten
  <2>2. Standing(E, s, f) # {} /\ Best(Standing(E, s, f)).state \in ForgottenStates
    BY <2>1, LiveVerdict
  <2>3. PICK e \in Standing(E, s, f) : TRUE
    BY <2>2
  <2>4. e \in About(E, s) /\ e.forget = f /\ f \notin Cancelled(E, s)
    BY <2>3 DEF Standing
  <2>5. Best(Standing(E, s, f)) \in V
    BY <2>4 DEF Verdicts
  <2>. QED
    BY <2>2, <2>5
<1>. QED
  BY <1>6, <1>7, <1>8
=============================================================================
