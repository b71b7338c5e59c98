------------------------------- MODULE JobPool -------------------------------
(***************************************************************************)
(* What a user of the background processor may rely on, whatever commands  *)
(* fail and whenever the server dies: a job is claimed by one worker at a  *)
(* time and only while it waits, and a job that has ended is never taken   *)
(* up again.  What is not promised: that a job survives a failure.  It may *)
(* be adrift (neither queued, nor held, nor ended) for a while or for ever.*)
(***************************************************************************)
CONSTANTS Jobs, Workers

VARIABLES
    place,    \* where a job is
    holders   \* the workers that hold it

vars == <<place, holders>>

Places == {"new", "waiting", "owned", "adrift", "ended"}

Init ==
    /\ place = [j \in Jobs |-> "new"]
    /\ holders = [j \in Jobs |-> {}]

Move(j, from, to) ==
    /\ place[j] \in from
    /\ \E p \in to : place' = [place EXCEPT ![j] = p]

\* A submission is recorded, then put in line; the recovery puts in line again.
Accept(j) == Move(j, {"new"}, {"adrift"}) /\ UNCHANGED holders
Queue(j)  == Move(j, {"adrift"}, {"waiting"}) /\ UNCHANGED holders

\* An idle worker takes a job that waits.
Claim(w, j) ==
    /\ Move(j, {"waiting"}, {"owned"})
    /\ \A i \in Jobs : w \notin holders[i]
    /\ holders' = [holders EXCEPT ![j] = {w}]

\* Its holder puts a job back, or is done with it, one way or the other.
LetGo(w, j) ==
    /\ holders[j] = {w}
    /\ Move(j, {"owned"}, {"waiting", "adrift", "ended"})
    /\ holders' = [holders EXCEPT ![j] = {}]

\* A job drops out of the line unclaimed, or is written off.
Drop(j) == Move(j, {"waiting"}, {"adrift", "ended"}) /\ UNCHANGED holders
WriteOff(j) == Move(j, {"adrift"}, {"ended"}) /\ UNCHANGED holders

\* The server dies: nobody holds anything any more.
Die ==
    /\ place' \in [Jobs -> Places]
    /\ \A j \in Jobs :
          \/ place[j] \in {"owned", "adrift"} /\ place'[j] \in {"adrift", "ended"}
          \/ place'[j] = place[j] /\ place[j] # "owned"
    /\ holders' = [j \in Jobs |-> {}]

Next ==
    \/ \E j \in Jobs : Accept(j) \/ Queue(j) \/ Drop(j) \/ WriteOff(j)
    \/ \E w \in Workers, j \in Jobs : Claim(w, j) \/ LetGo(w, j)
    \/ Die

Spec == Init /\ [][Next]_vars
=============================================================================
