--------------------------- MODULE MCPacketPolicy ---------------------------
(* A session with a granted and an ungranted local port and a small table.   *)
EXTENDS PacketPolicy

TwoRemotes == {1, 2}
TwoLocals == {1, 2}
OneGranted == {1}
NoPayload == {0}
=============================================================================
