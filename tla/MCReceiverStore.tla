-------------------------- MODULE MCReceiverStore --------------------------
(* A receiver with two dialer keys besides its own, on a pool of two usable  *)
(* addresses.                                                                *)
EXTENDS ReceiverStore, TLC

CONSTANTS r, k1, k2, s1, s2, all, some, malformed

MCKeys        == {r, k1, k2}
MCSecrets     == {s1, s2}
MCGrants      == {all, some}
MCGrantInputs == {all, some, malformed}
Symmetry      == Permutations({k1, k2}) \cup Permutations({s1, s2})
=============================================================================
