---------------------------- MODULE MCUmcgClient ----------------------------
(* Values of the constants of UmcgClient for TLC. *)
EXTENDS UmcgClient, TLC

CONSTANTS w1, w2, s1, s2

TwoWorkers == {w1, w2}
OneServer == {s1}
TwoServers == {s1, s2}

NoFeatures == {}
AllFeatures == {"deadline", "handover", "wait_worker"}
Deadline == {"deadline"}
Handover == {"handover"}

NoWakers == {}

ThreeSlots == {3}
TwoOrThreeSlots == {2, 3}

Symmetry == Permutations(Workers) \cup Permutations(Servers)
WorkerSymmetry == Permutations(Workers)
=============================================================================
