--------------------------- MODULE MCApplication ---------------------------
(***************************************************************************)
(* Instances of Application for TLC.                                       *)
(***************************************************************************)
EXTENDS Application, TLC

CONSTANTS a1, a2, r1

TwoAnalyses == {a1, a2}
OneRequest  == {r1}
=============================================================================
