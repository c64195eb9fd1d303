----------------------------- MODULE MCPairing ------------------------------
(* Small instances of Pairing *)
EXTENDS Pairing

=============================================================================
