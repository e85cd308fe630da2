--------------------------- MODULE MCStreamTable ---------------------------
(* StreamTable with three wrappers and two ids: a collision needs two       *)
(* wrappers with one id, and the third shows that a stream with an id of    *)
(* its own is left alone.                                                   *)
EXTENDS StreamTable, TLC

CONSTANTS w1, w2, w3, i1, i2

MCWrappers == {w1, w2, w3}

MCIds == {i1, i2}

Symmetry == Permutations(MCWrappers) \cup Permutations(MCIds)
=============================================================================
