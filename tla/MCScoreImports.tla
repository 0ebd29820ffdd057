--------------------------- MODULE MCScoreImports ---------------------------
(* Instances of ScoreImports for TLC.                                      *)
EXTENDS ScoreImports, TLC

CONSTANTS i1, i2, i3, s1, s2

SomeImports  == {i1, i2, i3}
TwoImports   == {i1, i2}
SomeSessions == {s1, s2}
Alike == Permutations(SomeImports) \cup Permutations(SomeSessions)
=============================================================================
