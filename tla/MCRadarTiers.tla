---------------------------- MODULE MCRadarTiers ----------------------------
(***************************************************************************)
(* Instances of RadarTiers for TLC.                                        *)
(***************************************************************************)
EXTENDS RadarTiers, TLC

CONSTANTS x1, x2, x3, x4

ThreeIds == {x1, x2, x3}
FourIds  == {x1, x2, x3, x4}
Nothing  == {}
One      == {x1}
Two      == {x1, x2}

\* Poisoned postings differ from the others, and no one else does.
HealthySymmetry == Permutations(Ids \ Poisoned)
=============================================================================
