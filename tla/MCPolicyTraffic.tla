-------------------------- MODULE MCPolicyTraffic ---------------------------
(* A connection whose sequence numbers wrap around within it.                *)
EXTENDS PolicyTraffic

MCInitial == [d \in Ends |-> IF d = "out" THEN 6 ELSE 7]

(* Only this host has something to say.                                      *)
MCBytes   == [d \in Ends |-> IF d = "out" THEN 1 ELSE 0]
=============================================================================
