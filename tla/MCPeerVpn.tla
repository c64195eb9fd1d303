----------------------------- MODULE MCPeerVpn ------------------------------
(* `peer vpn` and `peer receiver` for one identity, and a config that changes *)
(* between two contents and a broken one.                                    *)
EXTENDS PeerVpn, TLC

CONSTANTS p1, p2, c1, c2, e1, e2

TwoProcesses == {p1, p2}
Second == {p2}
TwoConfigs == {c1, c2}
TwoEngines == {e1, e2}
=============================================================================
