----------------------------- MODULE ForgetIndex -----------------------------
(***************************************************************************)
(* How the forget registry decides, from the entries it has read, what is  *)
(* forgotten (core/forget/registry.py, _wins and _index).  The entries are *)
(* a set: two entries of one forget about one subject never carry the same *)
(* stamp.                                                                  *)
(***************************************************************************)
EXTENDS Integers, FiniteSets

CONSTANTS Subjects, Forgets,
          None            \* no entry is known for a subject

ForgottenStates == {"trashed", "purged"}
States == ForgottenStates \cup {"restored", "readded"}

Entry == [forget : Forgets, subject : Subjects, state : States, at : Nat]

\* Mutant: the later stamp, whatever the states.
LaterWins(new, old) == new.at >= old.at

\* Which of two entries about a subject counts: purged before anything else,
\* then the later stamp.
Wins(new, old) ==
    \/ new.state = "purged" /\ old.state # "purged"
    \/ (new.state = "purged" <=> old.state = "purged") /\ new.at >= old.at

About(E, s) == {e \in E : e.subject = s}

Readds(E, s) == {e \in About(E, s) : e.state = "readded"}

\* Mutant: a re-add cancels only what its stamp is later than.
CancelledByTime(E, s) ==
    {e.forget : e \in {r \in Readds(E, s) : \A x \in About(E, s) : x.forget = r.forget => r.at >= x.at}}

\* The forgets of s that a re-add names, whatever its stamp.
Cancelled(E, s) == {e.forget : e \in Readds(E, s)}

Standing(E, s, f) ==
    {e \in About(E, s) : e.forget = f /\ e.state # "readded" /\ f \notin Cancelled(E, s)}

\* The entry of forget f that counts for s is one that forgets: it withstands
\* every restore of f.
IsLive(E, s, f) ==
    \E e \in Standing(E, s, f) :
        /\ e.state \in ForgottenStates
        /\ \A r \in Standing(E, s, f) : r.state = "restored" => Wins(e, r)

Live(E, s) == {f \in Forgets : IsLive(E, s, f)}

IsForgotten(E, s) == \E f \in Forgets : IsLive(E, s, f)

Best(X) == CHOOSE e \in X : \A x \in X : Wins(e, x)

Verdicts(E, s) == {Best(Standing(E, s, f)) : f \in {e.forget : e \in About(E, s)} \ Cancelled(E, s)}

\* Mutant: restored and live forgets are compared with each other.
LatestVerdict(E, s) ==
    IF Verdicts(E, s) # {} THEN Best(Verdicts(E, s))
    ELSE IF Readds(E, s) # {} THEN Best(Readds(E, s))
    ELSE None

\* The entry the index keeps for s: from the live forgets first, then from
\* the restored ones, and only then a re-add.
Winner(E, s) ==
    LET forgotten == {e \in Verdicts(E, s) : e.state \in ForgottenStates}
        other     == Verdicts(E, s) \ forgotten
    IN  IF forgotten # {} THEN Best(forgotten)
        ELSE IF other # {} THEN Best(other)
        ELSE IF Readds(E, s) # {} THEN Best(Readds(E, s))
        ELSE None

StateOf(E, s) == IF Winner(E, s) = None THEN "unknown" ELSE Winner(E, s).state

\* The subjects a forget can still act on: those whose entry is its own, by
\* the state it gives them.
ForgetEntries(E, f, state) ==
    {s \in Subjects : /\ Winner(E, s) # None
                      /\ Winner(E, s).forget = f
                      /\ Winner(E, s).state = state}
=============================================================================
