---------------------------- MODULE MCPeerState -----------------------------
(* A peer with two commands at a time, and an owner who writes right and      *)
(* wrong configs.                                                             *)
EXTENDS PeerState, TLC

CONSTANTS p1, p2, laptop, receiver, ka, kb, kr, a1, a2, a3, ports, bad

MCPeer(l, k) == [label |-> l, publicKey |-> k, connection |-> "accept"]
MCVpn(peer, address) ==
  [address |-> a1, peers |-> <<[peer |-> peer, address |-> address, allowTcp |-> ports]>>]
MCConfig(network, vpn, peers) == [network |-> network, vpn |-> vpn, peers |-> peers]

MCReceiver == [label |-> receiver, publicKey |-> kr, connection |-> "dial"]
MCJoined   == MCVpn(receiver, a2)
MCApprovals ==
  {MCPeer(laptop, ka), MCPeer(laptop, kb), MCPeer(kb, kr), [MCPeer(laptop, ka) EXCEPT !.connection = "dial"]}
MCEdits ==
  { Empty, MCConfig("public", None, <<>>),
    MCConfig(None, MCVpn(laptop, a2), <<MCPeer(laptop, ka)>>),
    MCConfig(None, MCVpn(kr, a3), <<MCReceiver, MCPeer(laptop, kb)>>),
    MCConfig(None, MCVpn(laptop, a1), <<MCPeer(laptop, ka)>>),     \* one address for two
    MCConfig(None, MCVpn(receiver, a2), <<MCPeer(laptop, ka)>>),   \* a reference to nobody
    MCConfig(None, None, <<MCPeer(laptop, bad)>>) }                \* not a key
Symmetry == Permutations(Processes)
=============================================================================
