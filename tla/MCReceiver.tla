----------------------------- MODULE MCReceiver -----------------------------
(* A receiver with one or two dialers and enough names for its engines.      *)
EXTENDS Receiver, TLC

CONSTANTS k1, k2, all, some, g1, g2, g3

OneKey == {k1}
TwoKeys == {k1, k2}
MCGrants == {all, some}
Engines3 == {g1, g2, g3}
InTasks == {"task"}
Anywhere == {"startup", "task"}
Symmetry == Permutations({k1, k2}) \cup Permutations(Engines3)
=============================================================================
