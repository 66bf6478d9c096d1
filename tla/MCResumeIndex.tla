--------------------------- MODULE MCResumeIndex ---------------------------
(***************************************************************************)
(* Instances of ResumeIndex for TLC.  Versions share some chunk ids and    *)
(* lack others, as resumes do that gain, lose or reorder entries.          *)
(***************************************************************************)
EXTENDS ResumeIndex, TLC

CONSTANTS c1, c2, c3, w1, w2, w3

AllChunks    == {c1, c2, c3}
TwoWriters   == {w1, w2}
ThreeWriters == {w1, w2, w3}

\* Overlapping, disjoint, and again the first resume's chunks.
Versions4 == <<{c1, c2}, {c2, c3}, {c1}, {c1, c2}>>
Disjoint  == <<{c1}, {c2}, {c3}>>

WriterSymmetry == Permutations(Writers)
=============================================================================
