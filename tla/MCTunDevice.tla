---------------------------- MODULE MCTunDevice -----------------------------
(* Three packets each way, of one or of two bytes.                              *)
EXTENDS TunDevice

MCSizes == <<2, 1, 2>>
=============================================================================
