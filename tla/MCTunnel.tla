----------------------------- MODULE MCTunnel ------------------------------
(* The tunnel with short pipes and a short queue. *)
EXTENDS Tunnel, TLC
=============================================================================
