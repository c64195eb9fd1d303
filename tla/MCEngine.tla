------------------------------ MODULE MCEngine ------------------------------
(* An engine with one peer that connects to it and either strangers who may  *)
(* enroll (a receiver) or a peer that it dials.                              *)
EXTENDS Engine, TLC

CONSTANTS a, d, x, y, c1, c2, c3

Callers == {a}
Callees == {d}
OneStranger == {x}
TwoStrangers == {x, y}
TwoStreams == {c1, c2}
ThreeStreams == {c1, c2, c3}
Symmetry == Permutations(ThreeStreams) \cup Permutations(TwoStrangers)
=============================================================================
