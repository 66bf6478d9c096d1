--------------------------- MODULE MCCareerMemory ---------------------------
(***************************************************************************)
(* Instances of CareerMemory for TLC.                                      *)
(***************************************************************************)
EXTENDS CareerMemory, TLC

CONSTANTS pref, saved, applied, rejected, w1, w2

OneTopic      == {pref}
ThreeStatuses == {saved, applied, rejected}
TwoWriters    == {w1, w2}

WriterSymmetry == Permutations(Writers)
=============================================================================
