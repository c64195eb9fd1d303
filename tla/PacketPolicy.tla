---------------------------- MODULE PacketPolicy ----------------------------
(***************************************************************************)
(* Which packets a session lets through: class PacketPolicy of             *)
(* src/vpn/packet-policy.ts, one instance per peer and connection.  It     *)
(* follows TCP connections in a table of flows; a connection request needs *)
(* a grant, anything else needs a flow it belongs to.                      *)
(*                                                                         *)
(* Packets here are well formed IPv4 between the two right addresses; one  *)
(* that is malformed beyond that point is Malformed.  Sequence numbers are *)
(* taken modulo SeqSpace, which is 2^32 in the code.                       *)
(***************************************************************************)
EXTENDS Integers, Sequences, FiniteSets, SequencesExt, Sifting

CONSTANTS
  LocalPorts,    \* TCP ports of this host
  RemotePorts,   \* TCP ports of the peer
  Grant,         \* local ports the peer may connect to
  MayInitiate,   \* allowOutboundInitiation
  SeqSpace,      \* size of the sequence space
  Payloads,      \* lengths of a segment's payload
  MaxFlows,      \* MAX_FLOWS
  HandshakeIdle, \* HANDSHAKE_IDLE_MS
  ClosedGrace,   \* CLOSED_GRACE_MS
  SweepInterval, \* 1 s
  None,          \* undefined
  MaxTime        \* bound of the model: the clock shows 0 .. MaxTime

ASSUME PolicyAssumption ==
  /\ Grant \subseteq LocalPorts
  /\ MayInitiate \in BOOLEAN
  /\ SeqSpace \in Nat \ {0} /\ Payloads \subseteq Nat
  /\ {MaxFlows, HandshakeIdle, ClosedGrace, SweepInterval, MaxTime} \subseteq Nat
  /\ None \notin Nat

VARIABLES
  flows,     \* this.flows: a flow for each tuple in its domain
  closed,    \* this.closed: closed tuples in the order they were closed
  nextSweep, \* this.nextSweep
  now,       \* this.now()
  steady     \* history: the wall clock was never set back

vars == <<flows, closed, nextSweep, now, steady>>

Directions == {"in", "out"}
Tuples     == LocalPorts \X RemotePorts
SeqNos     == 0 .. SeqSpace - 1
Times      == 0 .. MaxTime

Flow == [initiator : Directions, sequence : SeqNos, replied : BOOLEAN, established : BOOLEAN,
         responseSequence : SeqNos \cup {None},
         fin : [Directions -> SeqNos \cup {None}], acked : [Directions -> SeqNos \cup {None}],
         closedAt : Times \cup {None}, lastSeen : Times]

\* A SYN carries no payload and neither FIN nor RST, or it is turned down at once.
Segments == {p \in [dir : Directions, tuple : Tuples, syn : BOOLEAN, ack : BOOLEAN,
                    rst : BOOLEAN, fin : BOOLEAN, seq : SeqNos, ackNo : SeqNos, payload : Payloads] :
               p.syn => ~p.fin /\ ~p.rst /\ p.payload = 0}

Plus(n, m) == (n + m) % SeqSpace

\* Fault: numbers are compared as they are.
ReachesUnwrapped(value, target) == value >= target

\* reaches: value is at target or up to half the sequence space beyond it.
Reaches(value, target) == 2 * ((value - target) % SeqSpace) < SeqSpace

-----------------------------------------------------------------------------
(* The table; t is a table [flows, closed] *)

Without(t, K) ==
  [flows  |-> [k \in DOMAIN t.flows \ K |-> t.flows[k]],
   closed |-> Sifted(t.closed, K)]

\* Fault: the order of closed tuples keeps those that are removed.
WithoutFlowsOnly(t, K) == [t EXCEPT !.flows = [k \in DOMAIN t.flows \ K |-> t.flows[k]]]

\* remove
Removed(t, K) == Without(t, K)

With(t, k, f) == [t EXCEPT !.flows = [j \in DOMAIN t.flows \cup {k} |-> IF j = k THEN f ELSE t.flows[j]]]

\* Fault: an established flow that is idle is out of date as well.
StaleWhenIdle(f) ==
  \/ f.closedAt # None /\ now - f.closedAt >= ClosedGrace
  \/ now - f.lastSeen >= HandshakeIdle

\* What a sweep removes.
Stale(f) ==
  \/ f.closedAt # None /\ now - f.closedAt >= ClosedGrace
  \/ ~f.established /\ now - f.lastSeen >= HandshakeIdle

\* The table a packet meets: swept first, at most once per interval.
Table == [flows |-> flows, closed |-> closed]
Swept == IF now >= nextSweep THEN Removed(Table, {k \in DOMAIN flows : Stale(flows[k])}) ELSE Table

SweepPlanned == nextSweep' = IF now >= nextSweep THEN now + SweepInterval ELSE nextSweep

Becomes(t) == flows' = t.flows /\ closed' = t.closed

-----------------------------------------------------------------------------
(* A connection request *)

Request(p) == p.syn /\ ~p.ack

\* Fault: the grant is looked up for the peer's port.
GrantedByRemote(p) == p.dir = "in" => p.tuple[2] \in Grant

Granted(p) == p.dir = "in" => p.tuple[1] \in Grant

\* A request on a tuple whose connection is closed is for a new one.
Reuses(p, t) == p.tuple \in DOMAIN t.flows /\ t.flows[p.tuple].closedAt # None /\ Request(p)

\* The table without the closed connection; a request without a grant leaves it.
Vacated(p, t) == IF Reuses(p, t) /\ Granted(p) THEN Removed(t, {p.tuple}) ELSE t

MayOpen(p) == Request(p) /\ (p.dir = "out" => MayInitiate) /\ Granted(p)

Full(t) == Cardinality(DOMAIN t.flows) >= MaxFlows

\* At capacity the connection closed first makes room.
Reclaimed(t) == IF Full(t) THEN Removed(t, {Head(t.closed)}) ELSE t

Opened(p) == [initiator |-> p.dir, sequence |-> p.seq, replied |-> FALSE, established |-> FALSE,
              responseSequence |-> None, fin |-> [d \in Directions |-> None],
              acked |-> [d \in Directions |-> None], closedAt |-> None, lastSeen |-> now]

Opens(p, t) ==
  /\ MayOpen(p)
  /\ p.tuple \notin DOMAIN t.flows \/ Reuses(p, t)
  /\ Full(Vacated(p, t)) => Vacated(p, t).closed # <<>>

-----------------------------------------------------------------------------
(* A segment on a flow that is tracked, f *)

Forward(p, f) == p.dir = f.initiator

\* The answer to the request is acknowledged, and the request by the answer.
AcksRequest(p, f) == p.ack /\ p.ackNo = Plus(f.sequence, 1)
AcksReply(p, f)   == p.ack /\ p.ackNo = Plus(f.responseSequence, 1)

Repeats(p, f) == ~f.established /\ Forward(p, f) /\ Request(p) /\ p.seq = f.sequence

Replies(p, f) == ~f.replied /\ ~Forward(p, f) /\ p.syn /\ AcksRequest(p, f)

RepliesAgain(p, f) ==
  /\ f.replied /\ ~f.established /\ ~Forward(p, f)
  /\ p.syn /\ AcksRequest(p, f) /\ p.seq = f.responseSequence

\* Fault: the last segment of the handshake carries nothing.
EstablishesBare(p, f) ==
  /\ f.replied /\ ~f.established /\ Forward(p, f)
  /\ ~p.syn /\ ~p.rst /\ AcksReply(p, f) /\ p.seq = Plus(f.sequence, 1)
  /\ p.payload = 0 /\ ~p.fin

Establishes(p, f) ==
  /\ f.replied /\ ~f.established /\ Forward(p, f)
  /\ ~p.syn /\ ~p.rst /\ AcksReply(p, f) /\ p.seq = Plus(f.sequence, 1)

\* On an established flow anything goes but a request from the other side.
Continues(p, f) == f.established /\ ~p.rst /\ ~(Request(p) /\ ~Forward(p, f))

Resets(p, f) ==
  /\ p.rst
  /\ \/ f.established
     \/ ~f.replied /\ ~Forward(p, f) /\ AcksRequest(p, f)
     \/ f.replied /\ ~f.established /\ Forward(p, f) /\ p.seq = Plus(f.sequence, 1)
          /\ (p.ack => AcksReply(p, f))

Acked(p, f) ==
  IF p.ack /\ (f.acked[p.dir] # None => Reaches(p.ackNo, f.acked[p.dir]))
  THEN [f EXCEPT !.acked[p.dir] = p.ackNo] ELSE f

\* Fault: the end of the stream does not wrap around.
FinnedUnwrapped(p, f) ==
  IF p.fin /\ f.fin[p.dir] = None
  THEN [f EXCEPT !.fin[p.dir] = p.seq + p.payload + 1] ELSE f

Finned(p, f) ==
  IF p.fin /\ f.fin[p.dir] = None
  THEN [f EXCEPT !.fin[p.dir] = Plus(p.seq, p.payload + 1)] ELSE f

FinAcked(f, d, e) == f.fin[d] # None /\ f.acked[e] # None /\ Reaches(f.acked[e], f.fin[d])

\* Both ends of the stream have been acknowledged.
Ends(f) == f.closedAt = None /\ FinAcked(f, "in", "out") /\ FinAcked(f, "out", "in")

Followed(p, f) == Finned(p, Acked(p, [f EXCEPT !.established = TRUE, !.lastSeen = now]))

-----------------------------------------------------------------------------
(* admit, on the swept table t *)

Tracked(p, t) == p.tuple \in DOMAIN t.flows /\ ~Reuses(p, t)

Passes(p, t) ==
  \/ Opens(p, t)
  \/ /\ Tracked(p, t)
     /\ LET f == t.flows[p.tuple] IN
          Repeats(p, f) \/ Replies(p, f) \/ RepliesAgain(p, f)
            \/ Establishes(p, f) \/ Continues(p, f) \/ Resets(p, f)

Open(p, t) ==
  /\ Opens(p, t)
  /\ Becomes(With(Reclaimed(Vacated(p, t)), p.tuple, Opened(p)))

Track(p, t) ==
  /\ Tracked(p, t)
  /\ LET k == p.tuple
         f == t.flows[k]
         g == Followed(p, f) IN
     \/ Repeats(p, f) /\ Becomes(With(t, k, [f EXCEPT !.lastSeen = now]))
     \/ RepliesAgain(p, f) /\ Becomes(With(t, k, [f EXCEPT !.lastSeen = now]))
     \/ /\ Replies(p, f)
        /\ Becomes(With(t, k, [f EXCEPT !.replied = TRUE, !.responseSequence = p.seq, !.lastSeen = now]))
     \/ /\ Establishes(p, f) \/ Continues(p, f)
        /\ IF Ends(g)
           THEN Becomes([With(t, k, [g EXCEPT !.closedAt = now]) EXCEPT !.closed = Append(@, k)])
           ELSE Becomes(With(t, k, g))
     \/ Resets(p, f) /\ Becomes(Removed(t, {k}))

\* A segment passes.
Pass(p) == (Open(p, Swept) \/ Track(p, Swept)) /\ SweepPlanned /\ UNCHANGED <<now, steady>>

\* A segment is turned down; a request may have vacated its tuple all the same.
Refuse(p) ==
  /\ ~Passes(p, Swept)
  /\ Becomes(Vacated(p, Swept))
  /\ SweepPlanned /\ UNCHANGED <<now, steady>>

\* An ICMP error that quotes a segment of a tracked flow passes and refreshes it.
PassError(k) ==
  /\ k \in DOMAIN Swept.flows
  /\ Becomes(With(Swept, k, [Swept.flows[k] EXCEPT !.lastSeen = now]))
  /\ SweepPlanned /\ UNCHANGED <<now, steady>>

\* Another ICMP message, another protocol or a malformed packet.
Malformed == Becomes(Swept) /\ SweepPlanned /\ UNCHANGED <<now, steady>>

\* The session ends or the engine stops.
Clear ==
  /\ Becomes([flows |-> [k \in {} |-> None], closed |-> <<>>])
  /\ UNCHANGED <<nextSweep, now, steady>>

\* The wall clock runs on, or is set back.
Tick ==
  /\ now' \in Times
  /\ steady' = (steady /\ now' >= now)
  /\ UNCHANGED <<flows, closed, nextSweep>>

Init ==
  /\ flows = [k \in {} |-> None]
  /\ closed = <<>>
  /\ nextSweep = 0
  /\ now \in Times /\ steady = TRUE

Next ==
  \/ \E p \in Segments : Pass(p) \/ Refuse(p)
  \/ \E k \in Tuples : PassError(k)
  \/ Malformed
  \/ Clear
  \/ Tick

Spec == Init /\ [][Next]_vars

-----------------------------------------------------------------------------
(* Properties *)

TypeOK ==
  /\ DOMAIN flows \subseteq Tuples
  /\ \A k \in DOMAIN flows : flows[k] \in Flow
  /\ closed \in Seq(Tuples)
  /\ nextSweep \in 0 .. MaxTime + SweepInterval
  /\ now \in Times /\ steady \in BOOLEAN

\* A request for a connection comes in only to a port the peer was granted, and
\* goes out only where this side may initiate, whatever flows exist on the tuple
\* and however they came about.
OnlyGrantedConnections ==
  \A p \in Segments :
    Request(p) /\ Passes(p, Swept) =>
      IF p.dir = "in" THEN p.tuple[1] \in Grant ELSE MayInitiate

\* The table is what the packets have left in it: the order of closed tuples lists exactly
\* the closed flows, once each, so that making room by it always frees a place and the table
\* never outgrows its limit; and "incomplete handshakes expire after five minutes", give or
\* take a sweep, unless the wall clock, by which they are timed, was set back.
TableIsCurrent ==
  /\ Cardinality(DOMAIN flows) <= MaxFlows
  /\ ToSet(closed) = {k \in DOMAIN flows : flows[k].closedAt # None}
  /\ IsInjective(closed)
  /\ steady => \A k \in DOMAIN Swept.flows :
       ~flows[k].established => now - flows[k].lastSeen < HandshakeIdle + SweepInterval

\* "Established and half-closed connections retain their state while idle": only a
\* reset on the same tuple, or the end of the session, removes such a flow.
EstablishedStays ==
  [][\A k \in DOMAIN flows :
       flows[k].established /\ flows[k].closedAt = None =>
         \/ k \in DOMAIN flows' /\ flows'[k].established
         \/ Clear
         \/ \E p \in Segments : p.tuple = k /\ p.rst /\ Pass(p)]_vars

=============================================================================
