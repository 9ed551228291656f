----------------------------- MODULE MCAttempt2 -----------------------------
(* Values of the constants of Attempt2 for TLC: servers a and b and the      *)
(* EventRoutingServer r; a manages two workers, b one; main submits two      *)
(* tasks, of which p1 submits a child.                                       *)
EXTENDS Attempt2, TLC

CONSTANTS w1, w2, w3, a, b, r, p1, p2, c1

TwoServers == {a, b, r}
TwoWorkers == {w1, w2}
ThreeWorkers == {w1, w2, w3}

OwnerPair == w1 :> a @@ w2 :> b
OwnerMixed == w1 :> a @@ w2 :> a @@ w3 :> b

BootTwo == <<a, b>>

FamilyAndLone == <<p1, p2>>
FamilyAndLoneChild == p1 :> c1 @@ p2 :> None @@ c1 :> None
Family == <<p1>>
FamilyChild == p1 :> c1 @@ c1 :> None

(* What the proof that success is sound takes for granted. *)
ASSUME EveryTaskHasSource
=============================================================================
