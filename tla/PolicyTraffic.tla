---------------------------- MODULE PolicyTraffic ---------------------------
(***************************************************************************)
(* One TCP connection between this host and the peer, whose segments pass  *)
(* the PacketPolicy of src/vpn/packet-policy.ts on their way out and in.   *)
(* The two ends are TCP as hosts speak it; they and the path between them  *)
(* are outside the repository.  The path is the connection of the session  *)
(* (src/vpn/engine.ts): it keeps the order, but packets are dropped at its *)
(* ends at any time, so that segments are sent again.                      *)
(*                                                                         *)
(* An end is named by the direction of what it sends.  What it sends has   *)
(* positions: 0 for SYN, 1 .. Bytes[d] for its bytes, the next for FIN.    *)
(* In a segment a position becomes a sequence number, counted from the     *)
(* initial one modulo SeqSpace.  The connection is over before a flow      *)
(* expires: the clock stands still.                                        *)
(***************************************************************************)
EXTENDS Naturals, Sequences

CONSTANTS
  SeqSpace,   \* size of the sequence space, 2^32
  Initial,    \* [Ends -> sequence numbers]: the initial ones
  Bytes,      \* [Ends -> Nat]: how much each has to say
  Window,     \* positions an end may be ahead of what was acknowledged
  Transit,    \* bound of the model: segments on the path in each direction
  None        \* undefined

Ends     == {"out", "in"}
Other(d) == IF d = "out" THEN "in" ELSE "out"

\* Windows are well below half of the sequence space.
ASSUME TrafficAssumption ==
  /\ SeqSpace \in Nat /\ Window \in Nat \ {0} /\ 2 * (Window + 2) <= SeqSpace
  /\ Initial \in [Ends -> 0 .. SeqSpace - 1] /\ Bytes \in [Ends -> Nat]
  /\ Transit \in Nat \ {0} /\ None \notin Nat

VARIABLES
  flows, closed, nextSweep, now, steady,  \* of the policy
  ends,  \* [Ends -> state of the end, position sent, acknowledged and received up to]
  path   \* [Ends -> segments under way]

vars == <<flows, closed, nextSweep, now, steady, ends, path>>

Tuple == <<1, 1>>

Policy == INSTANCE PacketPolicy WITH
            LocalPorts <- {1}, RemotePorts <- {1}, Grant <- {1}, MayInitiate <- TRUE,
            Payloads <- 0 .. Window, MaxFlows <- 1,
            HandshakeIdle <- 1, ClosedGrace <- 1, SweepInterval <- 1, MaxTime <- 0

Length(d) == Bytes[d] + 2
Fewest(m, n) == IF m < n THEN m ELSE n
Most(m, n)   == IF m < n THEN n ELSE m

-----------------------------------------------------------------------------
(* Segments *)

\* Positions first .. last - 1, which acknowledges those before ack.
Segment(first, last, ack) == [first |-> first, last |-> last, ack |-> ack, rst |-> FALSE]

\* What an end may send: its SYN, what was not acknowledged or is new, or a RST.
MaySend(d) ==
  LET e == ends[d] IN
  CASE e.at = "opening"  -> {Segment(0, 1, e.received)}
    [] e.at = "open"     -> {Segment(n, m, e.received) : n \in {e.acked, e.sent},
                                                         m \in e.acked .. Fewest(Length(d), e.acked + Window)}
    [] e.at = "gone"     -> {[Segment(e.sent, e.sent, e.received) EXCEPT !.rst = TRUE]}
    [] OTHER             -> {}

WellFormed(s) == s.first <= s.last

\* The packet: a segment of end d as the policy reads it.
Packet(d, s) ==
  [dir |-> d, tuple |-> Tuple, rst |-> s.rst,
   syn |-> s.first = 0 /\ s.last = 1, fin |-> s.last = Length(d) /\ s.first < s.last,
   ack |-> s.ack # None,
   seq |-> (Initial[d] + s.first) % SeqSpace,
   ackNo |-> IF s.ack = None THEN 0 ELSE (Initial[Other(d)] + s.ack) % SeqSpace,
   payload |-> IF s.first = 0 THEN 0 ELSE Fewest(s.last, Length(d) - 1) - Fewest(s.first, Length(d) - 1)]

\* An end that has received s.
Taken(e, s) ==
  IF s.rst \/ e.at = "gone" THEN {[e EXCEPT !.at = "gone"]}
  ELSE IF e.at = "listening"
  THEN IF s.first = 0 /\ s.ack = None
       THEN {[e EXCEPT !.at = "opening", !.received = 1], [e EXCEPT !.at = "gone", !.received = 1]}
       ELSE {e}
  ELSE IF s.ack = None \/ (e.received = None /\ s.first # 0) THEN {e}
  ELSE {[e EXCEPT !.at = "open", !.acked = Most(@, s.ack),
                  !.received = IF e.received = None THEN 1
                               ELSE IF s.first <= @ THEN Most(@, s.last) ELSE @]}

-----------------------------------------------------------------------------
Unjudged == UNCHANGED <<flows, closed, nextSweep, now, steady>>

Sent(d, s) == ends' = [ends EXCEPT ![d].sent = Most(@, s.last)]

\* A segment enters the path; what this host sends is judged before.
Sends(d, s) ==
  /\ s \in MaySend(d) /\ WellFormed(s)
  /\ Len(path[d]) < Transit
  /\ Sent(d, s)
  /\ IF d = "out" THEN Policy!Pass(Packet(d, s)) ELSE Unjudged
  /\ path' = [path EXCEPT ![d] = Append(@, s)]

\* It is turned down, or dropped before or behind the policy.
IsDropped(d, s) ==
  /\ s \in MaySend(d) /\ WellFormed(s)
  /\ Sent(d, s)
  /\ \/ Unjudged
     \/ d = "out" /\ (Policy!Pass(Packet(d, s)) \/ Policy!Refuse(Packet(d, s)))
  /\ UNCHANGED path

\* A segment leaves the path; what comes in to this host is judged.
Arrives(d) ==
  /\ path[d] # <<>>
  /\ path' = [path EXCEPT ![d] = Tail(@)]
  /\ LET s == Head(path[d]) IN
     \/ /\ IF d = "in" THEN Policy!Pass(Packet(d, s)) ELSE Unjudged
        /\ \E e \in Taken(ends[Other(d)], s) : ends' = [ends EXCEPT ![Other(d)] = e]
     \/ d = "in" /\ Policy!Refuse(Packet(d, s)) /\ UNCHANGED ends

\* A segment that came in and passed is lost behind the policy: at the device or in this host.
IsLost ==
  /\ path["in"] # <<>>
  /\ path' = [path EXCEPT !["in"] = Tail(@)]
  /\ Policy!Pass(Packet("in", Head(path["in"])))
  /\ UNCHANGED ends

\* An end gives the connection up.
Aborts(d) ==
  /\ ends[d].at = "open"
  /\ ends' = [ends EXCEPT ![d].at = "gone"]
  /\ UNCHANGED path /\ Unjudged

End(at) == [at |-> at, sent |-> 0, acked |-> 0, received |-> None]

Init ==
  /\ Policy!Init
  /\ \E d \in Ends : ends = [e \in Ends |-> End(IF e = d THEN "opening" ELSE "listening")]
  /\ path = [d \in Ends |-> <<>>]

Next ==
  \/ \E d \in Ends :
       \/ \E s \in MaySend(d) : Sends(d, s) \/ IsDropped(d, s)
       \/ Arrives(d) \/ Aborts(d)
  \/ IsLost

Spec == Init /\ [][Next]_vars

\* What was not acknowledged, and all that may go with it, is sent again until it gets
\* through; if nothing is left, what was received is acknowledged.
Insisted(d, s) ==
  /\ s.first = ends[d].acked
  /\ ends[d].at = "open" => s.last = Fewest(Length(d), s.first + Window)

Insists(d) == \E s \in MaySend(d) : Insisted(d, s) /\ Sends(d, s)

GetsThrough(d) == path[d] # <<>> /\ Insisted(d, Head(path[d])) /\ Arrives(d)

\* What is sent again and again is not lost each time, neither before the path nor at its end.
FairSpec == Spec /\ \A d \in Ends : SF_vars(Insists(d)) /\ WF_vars(Arrives(d)) /\ SF_vars(GetsThrough(d))

-----------------------------------------------------------------------------
(* Properties *)

IsGone  == \E d \in Ends : ends[d].at = "gone"
IsClosed == Tuple \in DOMAIN flows /\ flows[Tuple].closedAt # None

\* The policy takes a connection for closed, and so forgets it after a minute or when it
\* needs room, when it is over and not before, wherever its sequence numbers wrap around:
\* both ends have received all that the other said if it is closed, and it is closed, or was
\* reset, if both know that all they said was received.
ClosedIsOver ==
  /\ IsClosed => \A d \in Ends : ends[d].received = Length(Other(d))
  /\ (\A d \in Ends : ends[d].acked = Length(d)) => IsClosed \/ Tuple \notin DOMAIN flows

\* The policy is transparent: a connection that is granted comes to its end, whichever
\* segments are lost and sent again, unless one of the ends refuses or resets it.
ConnectionsGetThrough ==
  <>(IsGone \/ \A d \in Ends : ends[d].acked = Length(d) /\ ends[d].received = Length(Other(d)))

=============================================================================
