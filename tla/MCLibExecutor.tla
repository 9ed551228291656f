--------------------------- MODULE MCLibExecutor ---------------------------
(* Values of the constants of LibExecutor for TLC: up to three servers with  *)
(* one or two workers each; main submits tasks; p1 may submit a child.       *)
EXTENDS LibExecutor, TLC

CONSTANTS w1, w2, w3, a, b, c, p1, p2, c1

OneId == a :> 0
TwoIds == a :> 0 @@ b :> 1
ThreeIds == a :> 0 @@ b :> 1 @@ c :> 2

OwnerSolo == w1 :> a @@ w2 :> a
OwnerPair == w1 :> a @@ w2 :> b
OwnerEach == w1 :> a @@ w2 :> b @@ w3 :> c

FamilyAndLone == <<p1, p2>>
FamilyAndLoneChild == p1 :> c1 @@ p2 :> None @@ c1 :> None
ThreeLone == <<p1, p2, c1>>
NoChild == p1 :> None @@ p2 :> None @@ c1 :> None
=============================================================================
