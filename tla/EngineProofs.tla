---------------------------- MODULE EngineProofs ----------------------------
(***************************************************************************)
(* Proofs about Engine, for any peers, strangers and connections, any      *)
(* limits and times: that what is said of a peer is true, that stop leaves *)
(* nothing behind, and that nothing is used beyond what it holds.          *)
(***************************************************************************)
EXTENDS Engine, FiniteSetTheorems, SequenceTheorems, TLAPS

-----------------------------------------------------------------------------
(* The inductive invariant *)

\* What a connection is at fits what it is for.
Fit(c) ==
  /\ c \in Conns
  /\ c.life \in {"arriving", "connecting"} => c.use = "none"
  /\ c.life = "open" => c.step # "ended"
  /\ c.use = "none" => c.step = "ended"
  /\ c.use = "session" => c.key \in Peers

ConnsFit == \A s \in Streams : Fit(conn[s])

\* The session of a peer is a connection of that peer whose close is not handled yet.
SessionsHeld ==
  \A k \in Peers : sessions[k] # None =>
    LET c == conn[sessions[k]] IN c.key = k /\ c.use = "session" /\ c.life \in {"open", "destroyed"}

\* What comes after the greeting.
Greeting == {"reading", "writing", "ended"}

\* A connection is ready from the greeting on and as long as it is the session of its peer.
ReadyHeld ==
  \A s \in ready : conn[s].key \in Peers /\ sessions[conn[s].key] = s /\ conn[s].step \in Greeting

ShownHeld == \A k \in Peers : shown[k] <=> sessions[k] \in ready

\* dial(peer) waits for a connection with that peer.
DialsHeld ==
  \A k \in Dialed : dial[k] \in Streams =>
    conn[dial[k]].key = k /\ conn[dial[k]].life \in {"connecting", "open", "destroyed"}

\* From stop on nothing is open or being dialed, and in the end nothing arrives.
Halted ==
  /\ stopping => /\ ready = {} /\ \A k \in Peers : sessions[k] = None
                 /\ \A s \in Streams : conn[s].life \notin {"connecting", "open"}
  /\ main = "stopped" => \A s \in Streams : conn[s].life # "arriving"

OneWrites ==
  \A s, t \in Streams :
    conn[s].step = "writing" => tunWriting /\ (conn[t].step = "writing" => s = t)

\* The connection a packet is being sent on was ready; its name is not used again.
OutboundHeld ==
  outbound # None => conn[outbound].step \in Greeting /\ conn[outbound].life \notin {"arriving", "connecting"}

Reserved == {k \in Strangers : reservations[k] # None}

Places ==
  /\ IsFiniteSet(EnrollmentStreams) /\ IsFiniteSet(Reserved)
  /\ Cardinality(EnrollmentStreams) + Cardinality(Reserved) <= MaxContacts

IInv ==
  /\ TypeOK
  /\ ConnsFit /\ SessionsHeld /\ ReadyHeld /\ ShownHeld /\ DialsHeld
  /\ Halted /\ OneWrites /\ OutboundHeld /\ Places

-----------------------------------------------------------------------------
(* Connections that change *)

LEMMA Replaced ==
  ASSUME NEW A, NEW f, f \in [Streams -> A], NEW s \in Streams, NEW c \in A,
         NEW g, g = [f EXCEPT ![s] = c]
  PROVE  g \in [Streams -> A] /\ g[s] = c /\ \A t \in Streams \ {s} : g[t] = f[t]
OBVIOUS

\* The fields of a connection that is not Unused.
LEMMA FitFields ==
  ASSUME NEW c, Fit(c)
  PROVE  /\ c.key \in Keys \cup {None} /\ c.use \in {"none", "session", "enrollment"}
         /\ c.life \in {"arriving", "connecting", "open", "destroyed", "closed"}
         /\ c.step \in {"hello", "first", "reading", "writing", "enrolling", "answering", "last", "ended"}
         /\ c.life # "closed" \/ c.step # "ended" =>
              /\ c.key \in Keys
              /\ c \in [key : Keys, use : {"none", "session", "enrollment"},
                        life : {"arriving", "connecting", "open", "destroyed", "closed"},
                        step : {"hello", "first", "reading", "writing", "enrolling", "answering", "last", "ended"}]
BY DEF Fit, Conns, Unused

LEMMA UnusedFits == Fit(Unused)
BY DEF Fit, Conns, Unused

\* Fewer places are taken.
LEMMA FewerPlaces ==
  ASSUME IInv, EnrollmentStreams' \subseteq EnrollmentStreams, Reserved' \subseteq Reserved
  PROVE  Places'
<1>1. /\ IsFiniteSet(EnrollmentStreams') /\ Cardinality(EnrollmentStreams') <= Cardinality(EnrollmentStreams)
      /\ IsFiniteSet(Reserved') /\ Cardinality(Reserved') <= Cardinality(Reserved)
  BY FS_Subset DEF IInv, Places
<1>2. /\ Cardinality(EnrollmentStreams) \in Nat /\ Cardinality(Reserved) \in Nat
      /\ Cardinality(EnrollmentStreams') \in Nat /\ Cardinality(Reserved') \in Nat
      /\ MaxContacts \in Nat /\ Cardinality(EnrollmentStreams) + Cardinality(Reserved) <= MaxContacts
  BY <1>1, FS_CardinalityType, EngineLimits DEF IInv, Places
<1> QED BY <1>1, <1>2 DEF Places

\* A connection goes on: it may be destroyed, its handler does not start again, and when
\* it is closed and its handler has ended it may be forgotten.
Moves(b, c) ==
  /\ Fit(c)
  /\ \/ c = Unused /\ b.life = "closed"
     \/ /\ c.key = b.key /\ c.use = b.use
        /\ c.life = b.life \/ (b.life \in {"connecting", "open"} /\ c.life = "destroyed")
  /\ c.step # "ended" => b.step # "ended"
  /\ b.step \in Greeting => c.step \in Greeting

\* All of the invariant but its types and OneWrites.
Rest ==
  /\ ConnsFit /\ SessionsHeld /\ ReadyHeld /\ ShownHeld /\ DialsHeld
  /\ Halted /\ OutboundHeld /\ Places

LEMMA MoveKeepsRest ==
  ASSUME IInv, NEW s \in Streams, NEW c, Moves(conn[s], c), conn' = [conn EXCEPT ![s] = c],
         UNCHANGED <<main, sessions, ready, shown, outbound, reservations, dial>>
  PROVE  Rest'
<1>1. /\ conn' \in [Streams -> Conns] /\ conn'[s] = c /\ \A t \in Streams \ {s} : conn'[t] = conn[t]
  BY Replaced DEF IInv, TypeOK, Moves, Fit
<1>2. Fit(c) /\ Fit(conn[s])
  BY DEF Moves, IInv, ConnsFit
<1>3. \/ c.life = "closed" /\ c.step = "ended" /\ c.use = "none" /\ conn[s].life = "closed"
      \/ /\ c.key = conn[s].key /\ c.use = conn[s].use
         /\ c.life = conn[s].life \/ (conn[s].life \in {"connecting", "open"} /\ c.life = "destroyed")
  BY DEF Moves, Unused
<1>4. ConnsFit'
  BY <1>1, <1>2 DEF IInv, ConnsFit
<1>5. SessionsHeld'
  BY <1>1, <1>3 DEF IInv, SessionsHeld, TypeOK
<1>6. ReadyHeld'
  <2> SUFFICES ASSUME NEW t \in ready
               PROVE  /\ conn'[t].key \in Peers /\ sessions[conn'[t].key] = t
                      /\ conn'[t].step \in Greeting
    BY DEF ReadyHeld
  <2>1. /\ t \in Streams /\ conn[t].key \in Peers /\ sessions[conn[t].key] = t
        /\ conn[t].step \in Greeting /\ t # None
    BY EngineNone DEF IInv, ReadyHeld, TypeOK
  <2>2. conn[t].life \in {"open", "destroyed"}
    BY <2>1 DEF IInv, SessionsHeld
  <2>3. CASE t = s
    BY <1>1, <1>3, <2>1, <2>2, <2>3 DEF Moves
  <2>4. CASE t # s
    BY <1>1, <2>1, <2>4
  <2> QED BY <2>3, <2>4
<1>7. ShownHeld'
  BY DEF IInv, ShownHeld
<1>8. DialsHeld'
  BY <1>1, <1>3 DEF IInv, DialsHeld
<1>9. Halted'
  BY <1>1, <1>3 DEF IInv, Halted, stopping
<1>10. OutboundHeld'
  BY <1>1, <1>3 DEF IInv, OutboundHeld, Moves, TypeOK, Greeting
<1>11. Places'
  <2>1. EnrollmentStreams' \subseteq EnrollmentStreams
    BY <1>1, <1>3 DEF EnrollmentStreams, Moves
  <2>2. Reserved' = Reserved
    BY DEF Reserved
  <2> QED BY <2>1, <2>2, FewerPlaces
<1> QED BY <1>4, <1>5, <1>6, <1>7, <1>8, <1>9, <1>10, <1>11 DEF Rest

\* A connection that is on the way, or whose name is free, is nobody's.
LEMMA NobodysConnection ==
  ASSUME IInv, NEW s \in Streams, conn[s].life \in {"arriving", "connecting", "closed"}
  PROVE  /\ \A k \in Peers : sessions[k] # s
         /\ s \notin ready
         /\ conn[s].life # "connecting" => \A k \in Dialed : dial[k] # s
         /\ conn[s].life # "closed" => outbound # s
<1>1. s # None
  BY EngineNone
<1>2. \A k \in Peers : sessions[k] # s
  BY <1>1 DEF IInv, SessionsHeld
<1>3. s \notin ready
  BY <1>2 DEF IInv, ReadyHeld
<1>4. conn[s].life # "connecting" => \A k \in Dialed : dial[k] # s
  BY DEF IInv, DialsHeld
<1>5. conn[s].life # "closed" => outbound # s
  BY <1>1 DEF IInv, OutboundHeld
<1> QED BY <1>2, <1>3, <1>4, <1>5

\* A name comes to be used.
LEMMA StartKeepsRest ==
  ASSUME IInv, NEW s \in Spare, NEW k \in Keys, NEW l \in {"arriving", "connecting"},
         conn' = [conn EXCEPT ![s] = [key |-> k, use |-> "none", life |-> l, step |-> "ended"]],
         stopping => l = "arriving", main # "stopped",
         UNCHANGED <<main, sessions, ready, shown, outbound, tunWriting>>
  PROVE  /\ conn' \in [Streams -> Conns] /\ conn'[s].key = k /\ conn'[s].life = l
         /\ \A t \in Streams \ {s} : conn'[t] = conn[t]
         /\ \A j \in Dialed : dial[j] # s
         /\ ConnsFit' /\ SessionsHeld' /\ ReadyHeld' /\ ShownHeld' /\ Halted' /\ OneWrites' /\ OutboundHeld'
         /\ EnrollmentStreams' = EnrollmentStreams
<1> DEFINE c == [key |-> k, use |-> "none", life |-> l, step |-> "ended"]
<1>1. /\ c \in Conns /\ Fit(c) /\ c.key = k /\ c.life = l /\ c.step = "ended" /\ c.use = "none"
  BY DEF Fit, Conns
<1>2. s \in Streams /\ conn[s].life = "closed" /\ conn[s].step = "ended" /\ conn[s].use = "none" /\ outbound # s
  BY DEF Spare, Unused
<1>3. (\A j \in Peers : sessions[j] # s) /\ s \notin ready /\ \A j \in Dialed : dial[j] # s
  BY <1>2, NobodysConnection
<1> HIDE DEF c
<1>4. conn' \in [Streams -> Conns] /\ conn'[s] = c /\ \A t \in Streams \ {s} : conn'[t] = conn[t]
  <2>1. conn' = [conn EXCEPT ![s] = c]
    BY DEF c
  <2> QED BY <1>1, <1>2, <2>1, Replaced DEF IInv, TypeOK
<1>5. ConnsFit'
  BY <1>1, <1>4 DEF IInv, ConnsFit
<1>6. SessionsHeld'
  BY <1>3, <1>4 DEF IInv, SessionsHeld, TypeOK
<1>7. ReadyHeld'
  BY <1>3, <1>4 DEF IInv, ReadyHeld, TypeOK
<1>8. ShownHeld'
  BY DEF IInv, ShownHeld
<1>9. Halted'
  BY <1>1, <1>4 DEF IInv, Halted, stopping
<1>10. OneWrites'
  BY <1>1, <1>4 DEF IInv, OneWrites
<1>11. OutboundHeld'
  BY <1>2, <1>4 DEF IInv, OutboundHeld, TypeOK
<1>12. EnrollmentStreams' = EnrollmentStreams
  BY <1>1, <1>2, <1>4 DEF EnrollmentStreams
<1> QED BY <1>1, <1>3, <1>4, <1>5, <1>6, <1>7, <1>8, <1>9, <1>10, <1>11, <1>12

\* A connection is there, and becomes what k is for or is turned away.
Becomes(s, c) ==
  /\ conn' = [conn EXCEPT ![s] = c]
  /\ Fit(c) /\ c.key = conn[s].key /\ c.life \in {"open", "destroyed"}
  /\ c.life = "open" => ~stopping
  /\ c.step # "writing"

LEMMA ArrivalKeeps ==
  ASSUME IInv, NEW s \in Streams, conn[s].life \in {"arriving", "connecting"}, NEW c, Becomes(s, c),
         \/ UNCHANGED sessions
         \/ /\ c.life = "open" /\ c.use = "session" /\ sessions[c.key] = None
            /\ sessions' = [sessions EXCEPT ![c.key] = s],
         UNCHANGED <<main, ready, shown, outbound, dial, tunWriting>>
  PROVE  /\ conn' \in [Streams -> Conns] /\ conn'[s] = c /\ \A t \in Streams \ {s} : conn'[t] = conn[t]
         /\ sessions' \in [Peers -> Streams \cup {None}]
         /\ ConnsFit' /\ SessionsHeld' /\ ReadyHeld' /\ ShownHeld' /\ DialsHeld'
         /\ Halted' /\ OneWrites' /\ OutboundHeld'
<1>1. /\ conn' \in [Streams -> Conns] /\ conn'[s] = c /\ \A t \in Streams \ {s} : conn'[t] = conn[t]
  BY Replaced DEF IInv, TypeOK, Becomes, Fit
<1>2. /\ Fit(c) /\ c.key = conn[s].key /\ c.life \in {"open", "destroyed"}
      /\ (c.life = "open" => ~stopping) /\ c.step # "writing"
  BY DEF Becomes
<1>3. (\A j \in Peers : sessions[j] # s) /\ s \notin ready /\ outbound # s
  BY NobodysConnection
<1>4. /\ sessions' \in [Peers -> Streams \cup {None}]
      /\ \A j \in Peers : \/ sessions'[j] = sessions[j]
                          \/ /\ j = conn[s].key /\ sessions[j] = None /\ sessions'[j] = s
                             /\ c.life = "open" /\ c.use = "session"
  BY <1>2 DEF IInv, TypeOK, Fit
<1>5. ConnsFit'
  BY <1>1, <1>2 DEF IInv, ConnsFit
<1>6. SessionsHeld'
  BY <1>1, <1>2, <1>3, <1>4 DEF IInv, SessionsHeld, TypeOK
<1>7. ReadyHeld'
  <2> SUFFICES ASSUME NEW t \in ready
               PROVE  /\ conn'[t].key \in Peers /\ sessions'[conn'[t].key] = t
                      /\ conn'[t].step \in Greeting
    BY DEF ReadyHeld
  <2>1. /\ t \in Streams /\ t # None /\ t # s
        /\ conn[t].key \in Peers /\ sessions[conn[t].key] = t /\ conn[t].step \in Greeting
    BY <1>3, EngineNone DEF IInv, ReadyHeld, TypeOK
  <2> QED BY <1>1, <1>4, <2>1
<1>8. ShownHeld'
  <2>1. None \notin ready
    BY EngineNone DEF IInv, TypeOK
  <2>2. \A k \in Peers : sessions'[k] \in ready <=> sessions[k] \in ready
    BY <1>3, <1>4, <2>1
  <2> QED BY <2>2 DEF IInv, ShownHeld
<1>9. DialsHeld'
  BY <1>1, <1>2 DEF IInv, DialsHeld
<1>10. Halted'
  <2>1. stopping => /\ ready' = {} /\ \A k \in Peers : sessions'[k] = None
                    /\ \A t \in Streams : conn'[t].life \notin {"connecting", "open"}
    BY <1>1, <1>2, <1>4 DEF IInv, Halted
  <2>2. main = "stopped" => \A t \in Streams : conn'[t].life # "arriving"
    BY <1>1, <1>2 DEF IInv, Halted
  <2> QED BY <2>1, <2>2 DEF Halted, stopping
<1>11. OneWrites'
  BY <1>1, <1>2 DEF IInv, OneWrites
<1>12. OutboundHeld'
  BY <1>1, <1>3 DEF IInv, OutboundHeld, TypeOK
<1> QED BY <1>1, <1>4, <1>5, <1>6, <1>7, <1>8, <1>9, <1>10, <1>11, <1>12

\* What attach and attachEnrollment make of a connection.
AsSession(b)    == [b EXCEPT !.use = "session", !.life = "open", !.step = "hello"]
AsEnrollment(b) == [b EXCEPT !.use = "enrollment", !.life = "open", !.step = "first"]
TurnedAway(b)   == [b EXCEPT !.life = "destroyed", !.step = "ended"]

LEMMA ArrivedFits ==
  ASSUME NEW b, Fit(b), b.life \in {"arriving", "connecting"}
  PROVE  /\ Fit(TurnedAway(b)) /\ TurnedAway(b).key = b.key /\ TurnedAway(b).life = "destroyed"
         /\ TurnedAway(b).step = "ended" /\ TurnedAway(b).use = "none"
         /\ Fit(AsEnrollment(b)) /\ AsEnrollment(b).key = b.key /\ AsEnrollment(b).life = "open"
         /\ AsEnrollment(b).step = "first" /\ AsEnrollment(b).use = "enrollment"
         /\ b.key \in Peers =>
              /\ Fit(AsSession(b)) /\ AsSession(b).key = b.key /\ AsSession(b).life = "open"
              /\ AsSession(b).step = "hello" /\ AsSession(b).use = "session"
BY FitFields DEF Fit, Conns, TurnedAway, AsSession, AsEnrollment

LEMMA AttachedKeeps ==
  ASSUME IInv, NEW s \in Streams, conn[s].life \in {"arriving", "connecting"}, conn[s].key \in Peers,
         Attach(s), UNCHANGED <<main, ready, shown, outbound, dial, tunWriting, reservations>>
  PROVE  /\ conn' \in [Streams -> Conns] /\ sessions' \in [Peers -> Streams \cup {None}]
         /\ Rest' /\ OneWrites'
<1> DEFINE b == conn[s]
<1>1. Fit(b)
  BY DEF IInv, ConnsFit
<1>2. PICK c : /\ Becomes(s, c) /\ c.use # "enrollment"
               /\ \/ UNCHANGED sessions
                  \/ /\ c.life = "open" /\ c.use = "session" /\ sessions[c.key] = None
                     /\ sessions' = [sessions EXCEPT ![c.key] = s]
  <2>1. CASE stopping \/ sessions[b.key] # None
    <3>1. conn' = [conn EXCEPT ![s] = TurnedAway(b)] /\ UNCHANGED sessions
      BY <2>1 DEF Attach, Unattached, TurnedAway
    <3>2. Becomes(s, TurnedAway(b)) /\ TurnedAway(b).use # "enrollment"
      BY <1>1, <3>1, ArrivedFits DEF Becomes
    <3> QED BY <3>1, <3>2
  <2>2. CASE ~(stopping \/ sessions[b.key] # None)
    <3>1. conn' = [conn EXCEPT ![s] = AsSession(b)] /\ sessions' = [sessions EXCEPT ![b.key] = s]
      BY <2>2 DEF Attach, AsSession
    <3>2. /\ Becomes(s, AsSession(b)) /\ AsSession(b).use = "session"
          /\ AsSession(b).life = "open" /\ AsSession(b).key = b.key
      BY <1>1, <2>2, <3>1, ArrivedFits DEF Becomes
    <3> QED BY <2>2, <3>1, <3>2
  <2> QED BY <2>1, <2>2
<1>3. /\ conn' \in [Streams -> Conns] /\ conn'[s] = c /\ \A t \in Streams \ {s} : conn'[t] = conn[t]
      /\ sessions' \in [Peers -> Streams \cup {None}]
      /\ ConnsFit' /\ SessionsHeld' /\ ReadyHeld' /\ ShownHeld' /\ DialsHeld'
      /\ Halted' /\ OneWrites' /\ OutboundHeld'
  BY <1>2, ArrivalKeeps
<1>4. Places'
  <2>1. EnrollmentStreams' \subseteq EnrollmentStreams
    BY <1>2, <1>3 DEF EnrollmentStreams
  <2>2. Reserved' = Reserved
    BY DEF Reserved
  <2> QED BY <2>1, <2>2, FewerPlaces
<1> QED BY <1>3, <1>4 DEF Rest

-----------------------------------------------------------------------------
(* The firewall *)

LEMMA AdmitPeerKeeps ==
  ASSUME IInv, NEW k \in Accepting, AdmitPeer(k)
  PROVE  IInv'
<1>1. /\ Listening /\ lastAdmission' = [lastAdmission EXCEPT ![k] = now]
      /\ UNCHANGED <<process, status, tunWriting, outbound, reservations, attempts, dial, committed>>
  BY DEF AdmitPeer
<1>2. UNCHANGED <<main, failed, now, sessions, ready, shown>>
  BY <1>1 DEF process, status
<1>3. PICK s \in Spare :
        conn' = [conn EXCEPT ![s] = [key |-> k, use |-> "none", life |-> "arriving", step |-> "ended"]]
  BY DEF AdmitPeer, Arrives
<1>4. /\ conn' \in [Streams -> Conns] /\ conn'[s].key = k /\ conn'[s].life = "arriving"
      /\ \A t \in Streams \ {s} : conn'[t] = conn[t]
      /\ \A j \in Dialed : dial[j] # s
      /\ ConnsFit' /\ SessionsHeld' /\ ReadyHeld' /\ ShownHeld' /\ Halted' /\ OneWrites' /\ OutboundHeld'
      /\ EnrollmentStreams' = EnrollmentStreams
  <2>1. k \in Keys /\ main # "stopped"
    BY <1>1 DEF Keys, Peers, Listening
  <2> QED BY <1>1, <1>2, <1>3, <2>1, StartKeepsRest
<1>5. DialsHeld'
  BY <1>1, <1>4 DEF IInv, DialsHeld
<1>6. Places'
  BY <1>1, <1>4, FewerPlaces DEF Reserved
<1>7. TypeOK'
  BY <1>1, <1>2, <1>4 DEF IInv, TypeOK
<1> QED BY <1>4, <1>5, <1>6, <1>7 DEF IInv

\* What is left of the attempts is a sequence of times, and reservations are dropped only.
LEMMA WhatStillCounts ==
  ASSUME IInv
  PROVE  /\ Recent \in Seq(0 .. MaxTime)
         /\ Kept \in [Strangers -> 0 .. MaxTime + ReservationLife \cup {None}]
         /\ {j \in Strangers : Kept[j] # None} \subseteq Reserved
<1>1. Recent \in Seq(0 .. MaxTime)
  <2> DEFINE n == Cardinality({i \in 1 .. Len(attempts) : Old(i)})
  <2>1. attempts \in Seq(0 .. MaxTime) /\ Recent = SubSeq(attempts, 1 + n, Len(attempts))
    BY DEF IInv, TypeOK, Recent
  <2>2. n \in Nat
    <3>1. IsFiniteSet(1 .. Len(attempts))
      BY <2>1, FS_Interval
    <3>2. IsFiniteSet({i \in 1 .. Len(attempts) : Old(i)})
      BY <3>1, FS_Subset
    <3> QED BY <3>2, FS_CardinalityType
  <2> HIDE DEF n
  <2>3. \A i \in 1 + n .. Len(attempts) : attempts[i] \in 0 .. MaxTime
    <3>1. Len(attempts) \in Nat /\ \A i \in 1 .. Len(attempts) : attempts[i] \in 0 .. MaxTime
      BY <2>1, LenProperties, ElementOfSeq
    <3>2. \A i \in 1 + n .. Len(attempts) : i \in 1 .. Len(attempts)
      BY <2>2, <3>1
    <3> QED BY <3>1, <3>2
  <2> QED BY <2>1, <2>2, <2>3, SubSeqProperties
<1>2. /\ Kept \in [Strangers -> 0 .. MaxTime + ReservationLife \cup {None}]
      /\ {j \in Strangers : Kept[j] # None} \subseteq Reserved
  BY DEF IInv, TypeOK, Kept, Reserved
<1> QED BY <1>1, <1>2

LEMMA KnockKeeps ==
  ASSUME IInv, NEW k \in Strangers, Knock(k)
  PROVE  IInv'
<1>1. /\ Listening /\ ~stopping
      /\ UNCHANGED <<process, status, tunWriting, outbound, lastAdmission, dial, committed>>
  BY DEF Knock
<1>2. UNCHANGED <<main, failed, now, sessions, ready, shown>>
  BY <1>1 DEF process, status
<1> DEFINE Waiting == {j \in Strangers : Kept[j] # None}
<1>3. /\ Recent \in Seq(0 .. MaxTime)
      /\ Kept \in [Strangers -> 0 .. MaxTime + ReservationLife \cup {None}]
      /\ Waiting \subseteq Reserved
  BY WhatStillCounts
<1>4. CASE Room(k)
  <2>1. attempts' = Append(Recent, now) /\ reservations' = [Kept EXCEPT ![k] = now + ReservationLife]
    BY <1>4 DEF Knock
  <2>2. PICK s \in Spare :
          conn' = [conn EXCEPT ![s] = [key |-> k, use |-> "none", life |-> "arriving", step |-> "ended"]]
    BY <1>4 DEF Knock, Arrives
  <2>3. /\ conn' \in [Streams -> Conns] /\ conn'[s].key = k /\ conn'[s].life = "arriving"
        /\ \A t \in Streams \ {s} : conn'[t] = conn[t]
        /\ \A j \in Dialed : dial[j] # s
        /\ ConnsFit' /\ SessionsHeld' /\ ReadyHeld' /\ ShownHeld' /\ Halted' /\ OneWrites' /\ OutboundHeld'
        /\ EnrollmentStreams' = EnrollmentStreams
    <3>1. k \in Keys /\ main # "stopped"
      BY <1>1 DEF Keys, Listening
    <3> QED BY <1>1, <1>2, <2>2, <3>1, StartKeepsRest
  <2>4. DialsHeld'
    BY <1>1, <2>3 DEF IInv, DialsHeld
  <2>5. now \in 0 .. MaxTime /\ now + ReservationLife \in 0 .. MaxTime + ReservationLife
    BY EngineLimits DEF IInv, TypeOK
  <2>6. Reserved' = Waiting \cup {k}
    <3>1. \A j \in Strangers : reservations'[j] = IF j = k THEN now + ReservationLife ELSE Kept[j]
      BY <1>3, <2>1
    <3>2. now + ReservationLife # None
      BY <2>5, EngineNone, EngineLimits
    <3> HIDE DEF Waiting
    <3> QED BY <3>1, <3>2 DEF Reserved, Waiting
  <2>7. Places'
    <3>1. /\ IsFiniteSet(Waiting) /\ k \notin Waiting
          /\ IsFiniteSet(EnrollmentStreams)
          /\ Cardinality(EnrollmentStreams) + Cardinality(Waiting) < MaxContacts
      BY <1>3, <1>4, FS_Subset DEF IInv, Places, Room
    <3> HIDE DEF Waiting
    <3>2. IsFiniteSet(Waiting \cup {k}) /\ Cardinality(Waiting \cup {k}) = Cardinality(Waiting) + 1
      BY <3>1, FS_AddElement
    <3>3. Cardinality(EnrollmentStreams) \in Nat /\ Cardinality(Waiting) \in Nat /\ MaxContacts \in Nat
      BY <3>1, FS_CardinalityType, EngineLimits
    <3> QED BY <2>3, <2>6, <3>1, <3>2, <3>3 DEF Places
  <2>8. TypeOK'
    <3>1. attempts' \in Seq(0 .. MaxTime)
      BY <1>3, <2>1, <2>5
    <3>2. reservations' \in [Strangers -> 0 .. MaxTime + ReservationLife \cup {None}]
      BY <1>3, <2>1, <2>5
    <3> QED BY <1>1, <1>2, <2>3, <3>1, <3>2 DEF IInv, TypeOK
  <2> QED BY <2>3, <2>4, <2>7, <2>8 DEF IInv
<1>5. CASE ~Room(k)
  <2>1. attempts' = Recent /\ reservations' = Kept /\ UNCHANGED conn
    BY <1>5 DEF Knock
  <2>2. TypeOK'
    BY <1>1, <1>2, <1>3, <2>1 DEF IInv, TypeOK
  <2>3. /\ ConnsFit' /\ SessionsHeld' /\ ReadyHeld' /\ ShownHeld' /\ DialsHeld'
        /\ Halted' /\ OneWrites' /\ OutboundHeld'
    BY <1>1, <1>2, <2>1 DEF IInv, ConnsFit, SessionsHeld, ReadyHeld, ShownHeld, DialsHeld, Halted,
                            stopping, OneWrites, OutboundHeld
  <2>4. Places'
    BY <1>3, <2>1, FewerPlaces DEF Reserved, EnrollmentStreams
  <2> QED BY <2>2, <2>3, <2>4 DEF IInv
<1> QED BY <1>4, <1>5

LEMMA HandshakeFailsKeeps ==
  ASSUME IInv, NEW s \in Streams, HandshakeFails(s)
  PROVE  IInv'
<1>1. /\ conn[s].life = "arriving" /\ conn' = [conn EXCEPT ![s] = Unused]
      /\ UNCHANGED <<main, failed, now, sessions, ready, shown, tunWriting, outbound,
                     reservations, attempts, lastAdmission, dial, committed>>
  BY DEF HandshakeFails, process, status, admission
<1>2. (\A k \in Peers : sessions[k] # s) /\ s \notin ready /\ (\A k \in Dialed : dial[k] # s) /\ outbound # s
  BY <1>1, NobodysConnection
<1>3. /\ conn' \in [Streams -> Conns] /\ conn'[s] = Unused /\ \A t \in Streams \ {s} : conn'[t] = conn[t]
  BY <1>1, UnusedFits, Replaced DEF IInv, TypeOK, Fit
<1>4. ConnsFit'
  BY <1>3, UnusedFits DEF IInv, ConnsFit
<1>5. SessionsHeld'
  BY <1>1, <1>2, <1>3 DEF IInv, SessionsHeld, TypeOK
<1>6. ReadyHeld'
  BY <1>1, <1>2, <1>3 DEF IInv, ReadyHeld, TypeOK
<1>7. ShownHeld'
  BY <1>1 DEF IInv, ShownHeld
<1>8. DialsHeld'
  BY <1>1, <1>2, <1>3 DEF IInv, DialsHeld
<1>9. Halted'
  BY <1>1, <1>3 DEF IInv, Halted, stopping, Unused
<1>10. OneWrites'
  BY <1>1, <1>3 DEF IInv, OneWrites, Unused
<1>11. OutboundHeld'
  BY <1>1, <1>2, <1>3 DEF IInv, OutboundHeld, TypeOK
<1>12. Places'
  <2>1. EnrollmentStreams' \subseteq EnrollmentStreams
    BY <1>3 DEF EnrollmentStreams, Unused
  <2> QED BY <1>1, <2>1, FewerPlaces DEF Reserved
<1>13. TypeOK'
  BY <1>1, <1>3 DEF IInv, TypeOK
<1> QED BY <1>4, <1>5, <1>6, <1>7, <1>8, <1>9, <1>10, <1>11, <1>12, <1>13 DEF IInv

\* A stranger's connection takes the place that was reserved for it.
LEMMA StrangerKeeps ==
  ASSUME IInv, NEW s \in Streams, OnConnection(s), conn[s].key \in Strangers
  PROVE  IInv'
<1> DEFINE b == conn[s]
           k == b.key
<1>1. /\ b.life = "arriving" /\ reservations' = [reservations EXCEPT ![k] = None]
      /\ IF reservations[k] # None /\ ~stopping THEN AttachEnrollment(s) ELSE conn' = Unattached(s)
      /\ UNCHANGED <<main, failed, now, sessions, ready, shown, tunWriting, outbound,
                     attempts, lastAdmission, dial, committed>>
  BY DEF OnConnection, process
<1>2. Fit(b)
  BY DEF IInv, ConnsFit
<1>3. PICK c : /\ Becomes(s, c)
               /\ c.use # "enrollment" \/ reservations[k] # None
  <2>1. CASE conn' = Unattached(s)
    <3>1. conn' = [conn EXCEPT ![s] = TurnedAway(b)]
      BY <2>1 DEF Unattached, TurnedAway
    <3>2. Becomes(s, TurnedAway(b)) /\ TurnedAway(b).use # "enrollment"
      BY <1>1, <1>2, <3>1, ArrivedFits DEF Becomes
    <3> QED BY <3>2
  <2>2. CASE conn' # Unattached(s)
    <3>1. /\ reservations[k] # None /\ ~stopping /\ conn' = [conn EXCEPT ![s] = AsEnrollment(b)]
      BY <1>1, <2>2 DEF AttachEnrollment, AsEnrollment
    <3>2. Becomes(s, AsEnrollment(b))
      BY <1>1, <1>2, <3>1, ArrivedFits DEF Becomes
    <3> QED BY <3>1, <3>2
  <2> QED BY <2>1, <2>2
<1>4. /\ conn' \in [Streams -> Conns] /\ conn'[s] = c /\ \A t \in Streams \ {s} : conn'[t] = conn[t]
      /\ ConnsFit' /\ SessionsHeld' /\ ReadyHeld' /\ ShownHeld' /\ DialsHeld'
      /\ Halted' /\ OneWrites' /\ OutboundHeld'
  BY <1>1, <1>3, ArrivalKeeps
<1>5. /\ reservations' \in [Strangers -> 0 .. MaxTime + ReservationLife \cup {None}]
      /\ Reserved' = Reserved \ {k}
  BY <1>1 DEF IInv, TypeOK, Reserved
<1>6. EnrollmentStreams' \subseteq EnrollmentStreams \cup {s}
  BY <1>4 DEF EnrollmentStreams
<1>7. Places'
  <2>1. CASE c.use # "enrollment"
    <3>1. EnrollmentStreams' \subseteq EnrollmentStreams
      BY <1>4, <2>1 DEF EnrollmentStreams
    <3> QED BY <1>5, <3>1, FewerPlaces
  <2>2. CASE reservations[k] # None
    <3>1. k \in Reserved /\ IsFiniteSet(Reserved) /\ IsFiniteSet(EnrollmentStreams)
      BY <2>2 DEF Reserved, IInv, Places
    <3>2. IsFiniteSet(Reserved \ {k}) /\ Cardinality(Reserved \ {k}) = Cardinality(Reserved) - 1
      BY <3>1, FS_RemoveElement
    <3>3. s \notin EnrollmentStreams
      BY <1>1, <1>2 DEF EnrollmentStreams, Fit
    <3>4. /\ IsFiniteSet(EnrollmentStreams \cup {s})
          /\ Cardinality(EnrollmentStreams \cup {s}) = Cardinality(EnrollmentStreams) + 1
      BY <3>1, <3>3, FS_AddElement
    <3>5. /\ IsFiniteSet(EnrollmentStreams')
          /\ Cardinality(EnrollmentStreams') <= Cardinality(EnrollmentStreams \cup {s})
      BY <1>6, <3>4, FS_Subset
    <3>6. /\ Cardinality(EnrollmentStreams) \in Nat /\ Cardinality(Reserved) \in Nat
          /\ Cardinality(EnrollmentStreams') \in Nat /\ MaxContacts \in Nat
          /\ Cardinality(EnrollmentStreams) + Cardinality(Reserved) <= MaxContacts
      BY <3>1, <3>5, FS_CardinalityType, EngineLimits DEF IInv, Places
    <3> QED BY <1>5, <3>2, <3>4, <3>5, <3>6 DEF Places
  <2> QED BY <1>3, <2>1, <2>2
<1>8. TypeOK'
  BY <1>1, <1>4, <1>5 DEF IInv, TypeOK
<1> QED BY <1>4, <1>7, <1>8 DEF IInv

LEMMA OnConnectionKeeps ==
  ASSUME IInv, NEW s \in Streams, OnConnection(s)
  PROVE  IInv'
<1>1. CASE conn[s].key \in Strangers
  BY <1>1, StrangerKeeps
<1>2. CASE conn[s].key \notin Strangers
  <2>1. /\ conn[s].life = "arriving" /\ Attach(s)
        /\ UNCHANGED <<main, failed, now, ready, shown, tunWriting, outbound, reservations,
                       attempts, lastAdmission, dial, committed>>
    BY <1>2 DEF OnConnection, process
  <2>2. conn[s].key \in Peers
    <3>1. Fit(conn[s])
      BY DEF IInv, ConnsFit
    <3> QED BY <1>2, <2>1, <3>1, FitFields DEF Keys
  <2>3. /\ conn' \in [Streams -> Conns] /\ sessions' \in [Peers -> Streams \cup {None}]
        /\ Rest' /\ OneWrites'
    BY <2>1, <2>2, AttachedKeeps
  <2>4. TypeOK'
    BY <2>1, <2>3 DEF IInv, TypeOK
  <2> QED BY <2>3, <2>4 DEF IInv, Rest
<1> QED BY <1>1, <1>2

-----------------------------------------------------------------------------
(* Connections and their handlers *)

LEMMA MoveKeeps ==
  ASSUME IInv, NEW s \in Streams, NEW c, Moves(conn[s], c), conn' = [conn EXCEPT ![s] = c],
         c.step = "writing" => conn[s].step = "writing", committed' \subseteq Streams,
         UNCHANGED <<process, status, tunWriting, outbound, admission, dial>>
  PROVE  IInv'
<1>1. UNCHANGED <<main, failed, now, sessions, ready, shown, tunWriting, outbound,
                  reservations, attempts, lastAdmission, dial>>
  BY DEF process, status, admission
<1>2. Rest'
  BY <1>1, MoveKeepsRest
<1>3. /\ conn' \in [Streams -> Conns] /\ conn'[s] = c /\ \A t \in Streams \ {s} : conn'[t] = conn[t]
  BY Replaced DEF IInv, TypeOK, Moves, Fit
<1>4. OneWrites'
  BY <1>1, <1>3 DEF IInv, OneWrites
<1>5. TypeOK'
  BY <1>1, <1>3 DEF IInv, TypeOK
<1> QED BY <1>2, <1>4, <1>5 DEF IInv, Rest

\* A handler goes on to its next await.
LEMMA StepMoves ==
  ASSUME NEW b, Fit(b), b.step # "ended",
         NEW to \in {"first", "reading", "writing", "enrolling", "answering", "last"},
         b.step \in Greeting => to \in Greeting
  PROVE  LET c == [b EXCEPT !.step = to] IN
         /\ Moves(b, c) /\ c.step = to /\ c.key = b.key /\ c.use = b.use /\ c.life = b.life
BY FitFields DEF Fit, Moves, Conns

\* destroy()
LEMMA DestroyMoves ==
  ASSUME NEW b, Fit(b)
  PROVE  Moves(b, Destroyed(b)) /\ Destroyed(b).step = b.step
<1>1. CASE b.life \in {"connecting", "open"}
  <2>1. Destroyed(b) = [b EXCEPT !.life = "destroyed"]
    BY <1>1 DEF Destroyed
  <2> QED BY <1>1, <2>1, FitFields DEF Fit, Moves, Conns
<1>2. CASE b.life \notin {"connecting", "open"}
  BY <1>2 DEF Destroyed, Moves
<1> QED BY <1>1, <1>2

\* A handler is through with its connection.
LEMMA EndMoves ==
  ASSUME NEW b, Fit(b), b.step # "ended"
  PROVE  LET c == Settled([Destroyed(b) EXCEPT !.step = "ended"]) IN
         Moves(b, c) /\ c.step = "ended"
<1> DEFINE c == Settled([Destroyed(b) EXCEPT !.step = "ended"])
<1>1. b.life \in {"open", "destroyed", "closed"} /\ b.use # "none" /\ b.key \in Keys
  BY FitFields DEF Fit
<1>2. CASE b.life = "open"
  <2> DEFINE e == [b EXCEPT !.life = "destroyed", !.step = "ended"]
  <2>1. /\ e \in Conns /\ e.key = b.key /\ e.use = b.use /\ e.life = "destroyed" /\ e.step = "ended"
    BY <1>1, FitFields DEF Conns
  <2>2. [Destroyed(b) EXCEPT !.step = "ended"] = e
    BY <1>2, FitFields DEF Destroyed
  <2> HIDE DEF e
  <2>3. c = e
    BY <2>1, <2>2 DEF Settled
  <2> HIDE DEF c
  <2>4. Moves(b, c) /\ c.step = "ended"
    BY <1>1, <1>2, <2>1, <2>3 DEF Moves, Fit, Greeting
  <2> QED BY <2>4 DEF c
<1>3. CASE b.life = "destroyed"
  <2> DEFINE e == [b EXCEPT !.step = "ended"]
  <2>1. /\ e \in Conns /\ e.key = b.key /\ e.use = b.use /\ e.life = "destroyed" /\ e.step = "ended"
    BY <1>1, <1>3, FitFields DEF Conns
  <2>2. [Destroyed(b) EXCEPT !.step = "ended"] = e
    BY <1>3 DEF Destroyed
  <2> HIDE DEF e
  <2>3. c = e
    BY <2>1, <2>2 DEF Settled
  <2> HIDE DEF c
  <2>4. Moves(b, c) /\ c.step = "ended"
    BY <1>1, <1>3, <2>1, <2>3 DEF Moves, Fit, Greeting
  <2> QED BY <2>4 DEF c
<1>4. CASE b.life = "closed"
  <2> DEFINE e == [b EXCEPT !.step = "ended"]
  <2>1. e.life = "closed" /\ e.step = "ended"
    BY <1>4, FitFields
  <2>2. [Destroyed(b) EXCEPT !.step = "ended"] = e
    BY <1>4 DEF Destroyed
  <2> HIDE DEF e
  <2>3. c = Unused
    BY <2>1, <2>2 DEF Settled
  <2> HIDE DEF c
  <2>4. Moves(b, c) /\ c.step = "ended"
    BY <1>4, <2>3, UnusedFits DEF Moves, Unused, Greeting
  <2> QED BY <2>4 DEF c
<1> QED BY <1>1, <1>2, <1>3, <1>4

LEMMA EndsKeeps ==
  ASSUME IInv, NEW s \in Streams, Ends(s)
  PROVE  IInv'
<1> DEFINE c == Destroyed(conn[s])
<1>1. /\ conn[s].life = "open" /\ conn' = [conn EXCEPT ![s] = c]
      /\ UNCHANGED <<process, status, tunWriting, outbound, admission, dial, committed>>
  BY DEF Ends
<1>2. Fit(conn[s]) /\ committed' \subseteq Streams
  BY <1>1 DEF IInv, ConnsFit, TypeOK
<1>3. Moves(conn[s], c) /\ c.step = conn[s].step
  BY <1>2, DestroyMoves
<1> HIDE DEF c
<1> QED BY <1>1, <1>2, <1>3, MoveKeeps

LEMMA CloseEventKeeps ==
  ASSUME IInv, NEW s \in Streams, CloseEvent(s)
  PROVE  IInv'
<1> DEFINE b == conn[s]
           k == b.key
           c == Settled([b EXCEPT !.life = "closed"])
<1>1. /\ b.life = "destroyed" /\ conn' = [conn EXCEPT ![s] = c]
      /\ sessions' = IF k \in Peers /\ sessions[k] = s THEN [sessions EXCEPT ![k] = None] ELSE sessions
      /\ ready' = ready \ {s}
      /\ shown' = IF s \in ready THEN [shown EXCEPT ![k] = FALSE] ELSE shown
      /\ dial' = IF k \in Dialed /\ dial[k] = s THEN [dial EXCEPT ![k] = "asleep"] ELSE dial
      /\ UNCHANGED <<main, failed, now, tunWriting, outbound, reservations, attempts,
                     lastAdmission, committed>>
  BY DEF CloseEvent, process, admission
<1>2. Fit(b)
  BY DEF IInv, ConnsFit
<1>3. /\ Fit(c) /\ c.life = "closed" /\ c.step = b.step
      /\ c.step # "ended" => c.use = b.use
  <2> DEFINE e == [b EXCEPT !.life = "closed"]
  <2>1. /\ Fit(e) /\ e.life = "closed" /\ e.step = b.step /\ e.use = b.use
    BY <1>1, <1>2, FitFields DEF Fit, Conns
  <2> HIDE DEF e
  <2>2. c = IF e.step = "ended" THEN Unused ELSE e
    BY <2>1 DEF Settled, e
  <2>3. Fit(Unused) /\ Unused.life = "closed" /\ Unused.step = "ended"
    BY UnusedFits DEF Unused
  <2> HIDE DEF c
  <2> QED BY <2>1, <2>2, <2>3
<1> HIDE DEF c
<1>4. /\ conn' \in [Streams -> Conns] /\ conn'[s] = c /\ \A t \in Streams \ {s} : conn'[t] = conn[t]
  BY <1>1, <1>3, Replaced DEF IInv, TypeOK, Fit
<1>5. s # None /\ s \notin {"asleep", "ended"} /\ None \notin ready
  BY EngineNone DEF IInv, TypeOK
<1>6. /\ sessions' \in [Peers -> Streams \cup {None}]
      /\ \A j \in Peers : sessions'[j] = IF sessions[j] = s THEN None ELSE sessions[j]
  <2>1. \A j \in Peers : sessions[j] = s => j = k
    BY <1>5 DEF IInv, SessionsHeld
  <2> QED BY <1>1, <2>1 DEF IInv, TypeOK
<1>7. /\ dial' \in [Dialed -> Streams \cup {"asleep", "ended"}]
      /\ \A j \in Dialed : dial'[j] = IF dial[j] = s THEN "asleep" ELSE dial[j]
  <2>1. \A j \in Dialed : dial[j] = s => j = k
    BY DEF IInv, DialsHeld
  <2> QED BY <1>1, <2>1 DEF IInv, TypeOK
<1>8. ConnsFit'
  BY <1>3, <1>4 DEF IInv, ConnsFit
<1>9. SessionsHeld'
  BY <1>4, <1>6 DEF IInv, SessionsHeld, TypeOK
<1>10. ReadyHeld'
  BY <1>1, <1>4, <1>6 DEF IInv, ReadyHeld, TypeOK
<1>11. ShownHeld' /\ shown' \in [Peers -> BOOLEAN]
  <2>1. CASE s \in ready
    <3>1. k \in Peers /\ sessions[k] = s
      BY <2>1 DEF IInv, ReadyHeld
    <3>2. \A j \in Peers : sessions[j] = s => j = k
      BY <1>5 DEF IInv, SessionsHeld
    <3>3. shown' \in [Peers -> BOOLEAN] /\ ~shown'[k] /\ \A j \in Peers \ {k} : shown'[j] = shown[j]
      BY <1>1, <2>1, <3>1 DEF IInv, TypeOK
    <3>4. sessions'[k] = None /\ \A j \in Peers \ {k} : sessions'[j] = sessions[j] /\ sessions[j] # s
      BY <1>6, <3>1, <3>2
    <3> QED BY <1>1, <1>5, <3>3, <3>4 DEF IInv, ShownHeld
  <2>2. CASE s \notin ready
    <3>1. shown' = shown /\ ready' = ready
      BY <1>1, <2>2
    <3>2. \A j \in Peers : sessions'[j] \in ready <=> sessions[j] \in ready
      BY <1>5, <1>6, <2>2
    <3> QED BY <3>1, <3>2 DEF IInv, ShownHeld, TypeOK
  <2> QED BY <2>1, <2>2
<1>12. DialsHeld'
  BY <1>4, <1>5, <1>7, EngineNone DEF IInv, DialsHeld
<1>13. Halted'
  <2>1. stopping => /\ ready' = {} /\ \A j \in Peers : sessions'[j] = None
                    /\ \A t \in Streams : conn'[t].life \notin {"connecting", "open"}
    BY <1>1, <1>3, <1>4, <1>6 DEF IInv, Halted
  <2>2. main = "stopped" => \A t \in Streams : conn'[t].life # "arriving"
    BY <1>3, <1>4 DEF IInv, Halted
  <2> QED BY <1>1, <2>1, <2>2 DEF Halted, stopping
<1>14. OneWrites'
  BY <1>1, <1>3, <1>4 DEF IInv, OneWrites
<1>15. OutboundHeld'
  BY <1>1, <1>3, <1>4 DEF IInv, OutboundHeld, TypeOK
<1>16. Places'
  <2>1. EnrollmentStreams' \subseteq EnrollmentStreams
    BY <1>3, <1>4 DEF EnrollmentStreams
  <2> QED BY <1>1, <2>1, FewerPlaces DEF Reserved
<1>17. TypeOK'
  BY <1>1, <1>4, <1>6, <1>7, <1>11 DEF IInv, TypeOK
<1> QED BY <1>8, <1>9, <1>10, <1>11, <1>12, <1>13, <1>14, <1>15, <1>16, <1>17 DEF IInv

\* A handler takes a step from which nothing but its own place changes.
LEMMA StepKeeps ==
  ASSUME IInv, NEW s \in Streams, NEW from, NEW to \in {"first", "enrolling", "answering", "last"},
         Step(s, from, to), from \notin Greeting, committed' \subseteq Streams,
         UNCHANGED <<process, status, tunWriting, outbound, admission, dial>>
  PROVE  IInv'
<1> DEFINE b == conn[s]
           c == [b EXCEPT !.step = to]
<1>1. b.step = from /\ conn' = [conn EXCEPT ![s] = c]
  BY DEF Step
<1>2. Fit(b) /\ b.step # "ended" /\ b.step \notin Greeting
  BY <1>1 DEF IInv, ConnsFit, Greeting
<1> HIDE DEF b
<1>3. Moves(b, c) /\ c.step = to
  <2>1. to \in {"first", "reading", "writing", "enrolling", "answering", "last"}
    OBVIOUS
  <2>2. b.step \in Greeting => to \in Greeting
    BY <1>2
  <2> QED BY <1>2, <2>1, <2>2, StepMoves
<1> HIDE DEF c
<1> QED BY <1>1, <1>3, MoveKeeps DEF b

LEMMA HelloSentKeeps ==
  ASSUME IInv, NEW s \in Streams, HelloSent(s)
  PROVE  IInv'
<1>1. /\ Step(s, "hello", "first") /\ committed' \subseteq Streams
      /\ UNCHANGED <<process, status, tunWriting, outbound, admission, dial>>
  BY DEF HelloSent, IInv, TypeOK
<1> QED BY <1>1, StepKeeps DEF Greeting

LEMMA InvitationComesKeeps ==
  ASSUME IInv, NEW s \in Streams, InvitationComes(s)
  PROVE  IInv'
<1>1. /\ Step(s, "first", "enrolling") /\ committed' \subseteq Streams
      /\ UNCHANGED <<process, status, tunWriting, outbound, admission, dial>>
  BY DEF InvitationComes, IInv, TypeOK
<1> QED BY <1>1, StepKeeps DEF Greeting

LEMMA EnrollmentEndsKeeps ==
  ASSUME IInv, NEW s \in Streams, EnrollmentEnds(s)
  PROVE  IInv'
<1>1. /\ Step(s, "enrolling", "answering") /\ committed' \subseteq Streams
      /\ UNCHANGED <<process, status, tunWriting, outbound, admission, dial>>
  BY DEF EnrollmentEnds, IInv, TypeOK
<1> QED BY <1>1, StepKeeps DEF Greeting

\* A handler ends and nothing else changes.
LEMMA EndKeeps ==
  ASSUME IInv, NEW s \in Streams, conn[s].step # "ended",
         conn' = [conn EXCEPT ![s] = Settled([Destroyed(@) EXCEPT !.step = "ended"])],
         committed' \subseteq Streams,
         UNCHANGED <<process, status, tunWriting, outbound, admission, dial>>
  PROVE  IInv'
<1> DEFINE c == Settled([Destroyed(conn[s]) EXCEPT !.step = "ended"])
<1>1. conn' = [conn EXCEPT ![s] = c] /\ Fit(conn[s])
  BY DEF IInv, ConnsFit
<1>2. Moves(conn[s], c) /\ c.step = "ended"
  BY <1>1, EndMoves
<1> HIDE DEF c
<1> QED BY <1>1, <1>2, MoveKeeps

LEMMA AnsweredKeeps ==
  ASSUME IInv, NEW s \in Streams, Answered(s)
  PROVE  IInv'
<1>1. /\ conn[s].step = "answering" /\ committed' \subseteq Streams
      /\ \/ conn' = [conn EXCEPT ![s].step = "last"]
         \/ conn' = [conn EXCEPT ![s] = Settled([Destroyed(@) EXCEPT !.step = "ended"])]
      /\ UNCHANGED <<process, status, tunWriting, outbound, admission, dial>>
  BY DEF Answered, IInv, TypeOK
<1>2. CASE conn' = [conn EXCEPT ![s].step = "last"]
  BY <1>1, <1>2, StepKeeps DEF Step, Greeting
<1>3. CASE conn' = [conn EXCEPT ![s] = Settled([Destroyed(@) EXCEPT !.step = "ended"])]
  BY <1>1, <1>3, EndKeeps
<1> QED BY <1>1, <1>2, <1>3

LEMMA HandlerEndsKeeps ==
  ASSUME IInv, NEW s \in Streams, HandlerEnds(s)
  PROVE  IInv'
<1>1. /\ conn[s].step # "ended" /\ committed' \subseteq Streams
      /\ conn' = [conn EXCEPT ![s] = Settled([Destroyed(@) EXCEPT !.step = "ended"])]
      /\ UNCHANGED <<process, status, tunWriting, outbound, admission, dial>>
  BY DEF HandlerEnds, IInv, TypeOK
<1> QED BY <1>1, EndKeeps

LEMMA GreetedKeeps ==
  ASSUME IInv, NEW s \in Streams, Greeted(s)
  PROVE  IInv'
<1> DEFINE b == conn[s]
           k == b.key
           c == [b EXCEPT !.step = "reading"]
<1>1. /\ b.use = "session" /\ b.step = "first" /\ sessions[k] = s /\ ~stopping
      /\ conn' = [conn EXCEPT ![s] = c]
      /\ ready' = ready \cup {s} /\ shown' = [shown EXCEPT ![k] = TRUE]
      /\ UNCHANGED <<main, failed, now, sessions, tunWriting, outbound, reservations, attempts,
                     lastAdmission, dial, committed>>
  BY DEF Greeted, Current, Step, process, admission
<1>2. Fit(b) /\ b.step # "ended" /\ k \in Peers /\ s # None
  BY <1>1, EngineNone DEF IInv, ConnsFit, Fit
<1>3. /\ Fit(c) /\ c.step = "reading" /\ c.key = k /\ c.use = "session" /\ c.life = b.life
  <2> HIDE DEF b
  <2> QED BY <1>1, <1>2, StepMoves DEF Moves, Greeting
<1> HIDE DEF c
<1>4. /\ conn' \in [Streams -> Conns] /\ conn'[s] = c /\ \A t \in Streams \ {s} : conn'[t] = conn[t]
  BY <1>1, <1>3, Replaced DEF IInv, TypeOK, Fit
<1>5. /\ shown' \in [Peers -> BOOLEAN] /\ shown'[k] /\ \A j \in Peers \ {k} : shown'[j] = shown[j]
  BY <1>1, <1>2 DEF IInv, TypeOK
<1>6. ConnsFit'
  BY <1>3, <1>4 DEF IInv, ConnsFit
<1>7. SessionsHeld'
  BY <1>1, <1>3, <1>4 DEF IInv, SessionsHeld, TypeOK
<1>8. ReadyHeld'
  BY <1>1, <1>2, <1>3, <1>4 DEF IInv, ReadyHeld, TypeOK, Greeting
<1>9. ShownHeld'
  <2>1. \A j \in Peers \ {k} : sessions[j] # s
    BY <1>2 DEF IInv, SessionsHeld
  <2> QED BY <1>1, <1>5, <2>1 DEF IInv, ShownHeld
<1>10. DialsHeld'
  BY <1>1, <1>3, <1>4 DEF IInv, DialsHeld
<1>11. Halted'
  BY <1>1 DEF IInv, Halted, stopping
<1>12. OneWrites'
  BY <1>1, <1>3, <1>4 DEF IInv, OneWrites
<1>13. OutboundHeld'
  BY <1>1, <1>3, <1>4 DEF IInv, OutboundHeld, TypeOK, Greeting
<1>14. Places'
  <2>1. EnrollmentStreams' \subseteq EnrollmentStreams
    BY <1>3, <1>4 DEF EnrollmentStreams
  <2> QED BY <1>1, <2>1, FewerPlaces DEF Reserved
<1>15. TypeOK'
  BY <1>1, <1>4, <1>5 DEF IInv, TypeOK
<1> QED BY <1>6, <1>7, <1>8, <1>9, <1>10, <1>11, <1>12, <1>13, <1>14, <1>15 DEF IInv

\* The flag is set and cleared with the one write.
LEMMA WritingKeeps ==
  ASSUME IInv, NEW s \in Streams, NEW c, Moves(conn[s], c), conn' = [conn EXCEPT ![s] = c],
         tunWriting' \in BOOLEAN,
         \/ ~tunWriting /\ tunWriting'
         \/ conn[s].step = "writing" /\ c.step # "writing",
         UNCHANGED <<process, status, outbound, admission, dial, committed>>
  PROVE  IInv'
<1>1. UNCHANGED <<main, failed, now, sessions, ready, shown, outbound,
                  reservations, attempts, lastAdmission, dial, committed>>
  BY DEF process, status, admission
<1>2. Rest'
  BY <1>1, MoveKeepsRest
<1>3. /\ conn' \in [Streams -> Conns] /\ conn'[s] = c /\ \A t \in Streams \ {s} : conn'[t] = conn[t]
  BY Replaced DEF IInv, TypeOK, Moves, Fit
<1>4. OneWrites'
  BY <1>3 DEF IInv, OneWrites
<1>5. TypeOK'
  BY <1>1, <1>3 DEF IInv, TypeOK
<1> QED BY <1>2, <1>4, <1>5 DEF IInv, Rest

LEMMA PacketKeeps ==
  ASSUME IInv, NEW s \in Streams, Packet(s) \/ Written(s) \/ WriteThrows(s)
  PROVE  IInv'
<1> DEFINE b == conn[s]
<1>1. Fit(b)
  BY DEF IInv, ConnsFit
<1>2. UNCHANGED <<process, status, outbound, admission, dial, committed>>
  BY DEF Packet, Written, WriteThrows
<1>3. ASSUME NEW to \in {"reading", "writing"}, b.step \in {"reading", "writing"},
             conn' = [conn EXCEPT ![s].step = to]
      PROVE  \E c : Moves(b, c) /\ conn' = [conn EXCEPT ![s] = c] /\ c.step = to
  <2> DEFINE c == [b EXCEPT !.step = to]
  <2>1. conn' = [conn EXCEPT ![s] = c]
    BY <1>3
  <2> HIDE DEF b
  <2>2. Moves(b, c) /\ c.step = to
    <3>1. b.step # "ended" /\ (b.step \in Greeting => to \in Greeting)
      BY <1>3 DEF Greeting
    <3>2. to \in {"first", "reading", "writing", "enrolling", "answering", "last"}
      BY <1>3
    <3> QED BY <1>1, <3>1, <3>2, StepMoves
  <2> QED BY <2>1, <2>2
<1>4. CASE Packet(s)
  <2>1. /\ b.step = "reading" /\ conn' = [conn EXCEPT ![s].step = "writing"] /\ ~tunWriting /\ tunWriting'
        /\ tunWriting' \in BOOLEAN
    BY <1>4 DEF Packet, Step
  <2>2. PICK c : Moves(b, c) /\ conn' = [conn EXCEPT ![s] = c] /\ c.step = "writing"
    BY <1>3, <2>1
  <2> QED BY <1>2, <2>1, <2>2, WritingKeeps
<1>5. CASE Written(s)
  <2>1. /\ b.step = "writing" /\ conn' = [conn EXCEPT ![s].step = "reading"] /\ tunWriting' \in BOOLEAN
    BY <1>5 DEF Written, Step
  <2>2. PICK c : Moves(b, c) /\ conn' = [conn EXCEPT ![s] = c] /\ c.step = "reading"
    BY <1>3, <2>1
  <2> QED BY <1>2, <2>1, <2>2, WritingKeeps
<1>6. CASE WriteThrows(s)
  <2> DEFINE c == Settled([Destroyed(b) EXCEPT !.step = "ended"])
  <2>1. b.step = "writing" /\ conn' = [conn EXCEPT ![s] = c] /\ tunWriting' \in BOOLEAN
    BY <1>6 DEF WriteThrows
  <2>2. Moves(b, c) /\ c.step = "ended"
    BY <1>1, <2>1, EndMoves
  <2> HIDE DEF c
  <2> QED BY <1>2, <2>1, <2>2, WritingKeeps
<1> QED BY <1>4, <1>5, <1>6

-----------------------------------------------------------------------------
(* Packets from the device *)

LEMMA ForwardKeeps ==
  ASSUME IInv, NEW k \in Peers, Forward(k)
  PROVE  IInv'
<1>1. /\ sessions[k] # None /\ sessions[k] \in ready /\ outbound' = sessions[k]
      /\ UNCHANGED <<main, failed, now, conn, sessions, ready, shown, tunWriting, reservations, attempts,
                     lastAdmission, dial, committed>>
  BY DEF Forward, process, status, admission
<1>2. conn[outbound'].step \in Greeting /\ conn[outbound'].life \notin {"arriving", "connecting"}
  BY <1>1 DEF IInv, ReadyHeld, SessionsHeld
<1>3. OutboundHeld'
  BY <1>1, <1>2 DEF OutboundHeld
<1>4. /\ ConnsFit' /\ SessionsHeld' /\ ReadyHeld' /\ ShownHeld' /\ DialsHeld' /\ Halted' /\ OneWrites'
  BY <1>1 DEF IInv, ConnsFit, SessionsHeld, ReadyHeld, ShownHeld, DialsHeld, Halted, stopping, OneWrites
<1>5. Places'
  BY <1>1, FewerPlaces DEF EnrollmentStreams, Reserved
<1>6. TypeOK'
  BY <1>1 DEF IInv, TypeOK
<1> QED BY <1>3, <1>4, <1>5, <1>6 DEF IInv

LEMMA ForwardedKeeps ==
  ASSUME IInv, Forwarded
  PROVE  IInv'
<1> DEFINE s == outbound
           c == Destroyed(conn[s])
<1>1. /\ s \in Streams /\ outbound' = None
      /\ conn' = conn \/ conn' = [conn EXCEPT ![s] = c]
      /\ UNCHANGED <<main, failed, now, sessions, ready, shown, tunWriting, reservations, attempts,
                     lastAdmission, dial, committed>>
  BY DEF Forwarded, process, status, admission, IInv, TypeOK
<1>2. Fit(conn[s])
  BY <1>1 DEF IInv, ConnsFit
<1>3. /\ Fit(c) /\ c.step = conn[s].step /\ c.key = conn[s].key /\ c.use = conn[s].use
      /\ c.life = conn[s].life \/ (conn[s].life \in {"connecting", "open"} /\ c.life = "destroyed")
  BY <1>2, FitFields, DestroyMoves DEF Destroyed, Moves
<1> HIDE DEF c
<1>4. /\ conn' \in [Streams -> Conns]
      /\ \A t \in Streams :
           /\ Fit(conn'[t]) /\ conn'[t].step = conn[t].step
           /\ conn'[t].key = conn[t].key /\ conn'[t].use = conn[t].use
           /\ \/ conn'[t].life = conn[t].life
              \/ conn[t].life \in {"connecting", "open"} /\ conn'[t].life = "destroyed"
  BY <1>1, <1>3 DEF IInv, TypeOK, ConnsFit, Fit
<1>5. ConnsFit'
  BY <1>4 DEF ConnsFit
<1>6. SessionsHeld'
  BY <1>1, <1>4 DEF IInv, SessionsHeld, TypeOK
<1>7. ReadyHeld'
  BY <1>1, <1>4 DEF IInv, ReadyHeld, TypeOK
<1>8. ShownHeld'
  BY <1>1 DEF IInv, ShownHeld
<1>9. DialsHeld'
  BY <1>1, <1>4 DEF IInv, DialsHeld
<1>10. Halted'
  BY <1>1, <1>4 DEF IInv, Halted, stopping
<1>11. OneWrites'
  BY <1>1, <1>4 DEF IInv, OneWrites
<1>12. OutboundHeld'
  BY <1>1 DEF OutboundHeld
<1>13. Places'
  <2>1. EnrollmentStreams' \subseteq EnrollmentStreams
    BY <1>4 DEF EnrollmentStreams
  <2> QED BY <1>1, <2>1, FewerPlaces DEF Reserved
<1>14. TypeOK'
  BY <1>1, <1>4 DEF IInv, TypeOK
<1> QED BY <1>5, <1>6, <1>7, <1>8, <1>9, <1>10, <1>11, <1>12, <1>13, <1>14 DEF IInv

-----------------------------------------------------------------------------
(* Dialing *)

LEMMA DialKeeps ==
  ASSUME IInv, NEW k \in Dialed, Dial(k)
  PROVE  IInv'
<1>1. /\ main = "running" /\ dial[k] = "asleep"
      /\ UNCHANGED <<main, failed, now, sessions, ready, shown, tunWriting, outbound, reservations, attempts,
                     lastAdmission, committed>>
  BY DEF Dial, process, status, admission
<1>2. PICK s \in Spare :
        /\ conn' = [conn EXCEPT ![s] = [key |-> k, use |-> "none", life |-> "connecting", step |-> "ended"]]
        /\ dial' = [dial EXCEPT ![k] = s]
  BY DEF Dial
<1>3. /\ conn' \in [Streams -> Conns] /\ conn'[s].key = k /\ conn'[s].life = "connecting"
      /\ \A t \in Streams \ {s} : conn'[t] = conn[t]
      /\ \A j \in Dialed : dial[j] # s
      /\ ConnsFit' /\ SessionsHeld' /\ ReadyHeld' /\ ShownHeld' /\ Halted' /\ OneWrites' /\ OutboundHeld'
      /\ EnrollmentStreams' = EnrollmentStreams
  <2>1. k \in Keys /\ main # "stopped" /\ ~stopping
    BY <1>1 DEF Keys, Peers, stopping
  <2> QED BY <1>1, <1>2, <2>1, StartKeepsRest
<1>4. s \in Streams
  BY DEF Spare
<1>5. /\ dial' \in [Dialed -> Streams \cup {"asleep", "ended"}]
      /\ dial'[k] = s /\ \A j \in Dialed \ {k} : dial'[j] = dial[j]
  BY <1>2, <1>4 DEF IInv, TypeOK
<1>6. DialsHeld'
  BY <1>3, <1>4, <1>5 DEF IInv, DialsHeld
<1>7. Places'
  BY <1>1, <1>3, FewerPlaces DEF Reserved
<1>8. TypeOK'
  BY <1>1, <1>3, <1>5 DEF IInv, TypeOK
<1> QED BY <1>3, <1>6, <1>7, <1>8 DEF IInv

LEMMA ConnectedKeeps ==
  ASSUME IInv, NEW k \in Dialed, Connected(k)
  PROVE  IInv'
<1> DEFINE s == dial[k]
<1>1. /\ s \in Streams /\ conn[s].life = "connecting" /\ Attach(s)
      /\ UNCHANGED <<main, failed, now, ready, shown, tunWriting, outbound, reservations, attempts,
                     lastAdmission, dial, committed>>
  BY DEF Connected, process, admission
<1>2. conn[s].key \in Peers
  BY <1>1 DEF IInv, DialsHeld, Peers
<1>3. /\ conn' \in [Streams -> Conns] /\ sessions' \in [Peers -> Streams \cup {None}]
      /\ Rest' /\ OneWrites'
  BY <1>1, <1>2, AttachedKeeps
<1>4. TypeOK'
  BY <1>1, <1>3 DEF IInv, TypeOK
<1> QED BY <1>3, <1>4 DEF IInv, Rest

LEMMA ConnectFailsKeeps ==
  ASSUME IInv, NEW k \in Dialed, ConnectFails(k)
  PROVE  IInv'
<1> DEFINE s == dial[k]
           c == Destroyed(conn[s])
<1>1. /\ s \in Streams /\ conn[s].life = "connecting" /\ conn' = [conn EXCEPT ![s] = c]
      /\ dial' = [dial EXCEPT ![k] = "asleep"]
      /\ UNCHANGED <<main, failed, now, sessions, ready, shown, tunWriting, outbound, reservations,
                     attempts, lastAdmission, committed>>
  BY DEF ConnectFails, process, status, admission
<1>2. Fit(conn[s])
  BY <1>1 DEF IInv, ConnsFit
<1>3. /\ Fit(c) /\ c.step = conn[s].step /\ c.key = conn[s].key /\ c.use = conn[s].use
      /\ c.life = "destroyed"
  BY <1>1, <1>2, FitFields, DestroyMoves DEF Destroyed, Moves
<1> HIDE DEF c
<1>4. /\ conn' \in [Streams -> Conns]
      /\ \A t \in Streams :
           /\ Fit(conn'[t]) /\ conn'[t].step = conn[t].step
           /\ conn'[t].key = conn[t].key /\ conn'[t].use = conn[t].use
           /\ \/ conn'[t].life = conn[t].life
              \/ conn[t].life \in {"connecting", "open"} /\ conn'[t].life = "destroyed"
  BY <1>1, <1>3 DEF IInv, TypeOK, ConnsFit, Fit
<1>5. /\ dial' \in [Dialed -> Streams \cup {"asleep", "ended"}]
      /\ \A j \in Dialed : dial'[j] = dial[j] \/ dial'[j] \notin Streams
  BY <1>1, EngineNone DEF IInv, TypeOK
<1> HIDE DEF s
<1>6. ConnsFit'
  BY <1>4 DEF ConnsFit
<1>7. SessionsHeld'
  BY <1>1, <1>4 DEF IInv, SessionsHeld, TypeOK
<1>8. ReadyHeld'
  BY <1>1, <1>4 DEF IInv, ReadyHeld, TypeOK
<1>9. ShownHeld'
  BY <1>1 DEF IInv, ShownHeld
<1>10. DialsHeld'
  BY <1>4, <1>5 DEF IInv, DialsHeld
<1>11. Halted'
  BY <1>1, <1>4 DEF IInv, Halted, stopping
<1>12. OneWrites'
  BY <1>1, <1>4 DEF IInv, OneWrites
<1>13. OutboundHeld'
  BY <1>1, <1>4 DEF IInv, OutboundHeld, TypeOK
<1>14. Places'
  <2>1. EnrollmentStreams' \subseteq EnrollmentStreams
    BY <1>4 DEF EnrollmentStreams
  <2> QED BY <1>1, <2>1, FewerPlaces DEF Reserved
<1>15. TypeOK'
  BY <1>1, <1>4, <1>5 DEF IInv, TypeOK
<1> QED BY <1>6, <1>7, <1>8, <1>9, <1>10, <1>11, <1>12, <1>13, <1>14, <1>15 DEF IInv

-----------------------------------------------------------------------------
(* The engine *)

LEMMA EngineKeeps ==
  ASSUME IInv,
         \/ \E k \in Dialed : DialEnds(k)
         \/ DeviceOpened \/ Started \/ DeviceFails \/ Tick \/ UNCHANGED vars
  PROVE  IInv'
<1>1. UNCHANGED <<conn, sessions, ready, shown, tunWriting, outbound, reservations, attempts,
                  lastAdmission, committed>>
  BY DEF DialEnds, DeviceOpened, Started, DeviceFails, Tick, vars, status, admission, process
<1>2. /\ main' \in {"opening", "listening", "running", "stopping", "stopped"}
      /\ failed' \in BOOLEAN /\ now' \in 0 .. MaxTime
      /\ main' = main \/ (~stopping /\ ~stopping')
  <2>1. MaxTime \in Nat /\ now \in 0 .. MaxTime /\ failed \in BOOLEAN
        /\ main \in {"opening", "listening", "running", "stopping", "stopped"}
    BY EngineLimits DEF IInv, TypeOK
  <2>2. CASE (\E k \in Dialed : DialEnds(k)) \/ UNCHANGED vars
    BY <2>1, <2>2 DEF DialEnds, process, vars
  <2>3. CASE DeviceOpened \/ Started \/ DeviceFails
    BY <2>1, <2>3 DEF DeviceOpened, Started, DeviceFails, stopping
  <2>4. CASE Tick
    BY <2>1, <2>4 DEF Tick
  <2> QED BY <2>2, <2>3, <2>4
<1>3. /\ dial' \in [Dialed -> Streams \cup {"asleep", "ended"}]
      /\ \A j \in Dialed : dial'[j] = dial[j] \/ dial'[j] \notin Streams
  <2>1. CASE \E k \in Dialed : DialEnds(k)
    BY <2>1, EngineNone DEF DialEnds, IInv, TypeOK
  <2>2. CASE DeviceOpened \/ Started \/ DeviceFails \/ Tick \/ UNCHANGED vars
    BY <2>2 DEF DeviceOpened, Started, DeviceFails, Tick, vars, IInv, TypeOK
  <2> QED BY <2>1, <2>2
<1>4. /\ ConnsFit' /\ SessionsHeld' /\ ReadyHeld' /\ ShownHeld' /\ OneWrites' /\ OutboundHeld'
  BY <1>1 DEF IInv, ConnsFit, SessionsHeld, ReadyHeld, ShownHeld, OneWrites, OutboundHeld
<1>5. DialsHeld'
  BY <1>1, <1>3 DEF IInv, DialsHeld
<1>6. Halted'
  BY <1>1, <1>2 DEF IInv, Halted, stopping
<1>7. Places'
  BY <1>1, FewerPlaces DEF EnrollmentStreams, Reserved
<1>8. TypeOK'
  BY <1>1, <1>2, <1>3 DEF IInv, TypeOK
<1> QED BY <1>4, <1>5, <1>6, <1>7, <1>8 DEF IInv

\* stop() destroys what is open or being made, and takes the sessions with it.
LEMMA StopKeeps ==
  ASSUME IInv, Stop
  PROVE  IInv'
<1>1. /\ main' = "stopping" /\ ~stopping
      /\ sessions' = [k \in Peers |-> None]
      /\ ready' = ready \ {sessions[k] : k \in Peers}
      /\ shown' = [k \in Peers |-> shown[k] /\ sessions[k] \notin ready]
      /\ conn' = [s \in Streams |-> IF s \in Tracked THEN Destroyed(conn[s]) ELSE conn[s]]
      /\ UNCHANGED <<failed, now, tunWriting, outbound, reservations, attempts, lastAdmission, dial, committed>>
  BY DEF Stop, stopping, admission
<1>2. ASSUME NEW s \in Streams
      PROVE  /\ Fit(conn'[s]) /\ conn'[s].step = conn[s].step
             /\ conn'[s].key = conn[s].key /\ conn'[s].use = conn[s].use
             /\ \/ conn'[s].life = conn[s].life
                \/ conn[s].life \in {"connecting", "open"} /\ conn'[s].life = "destroyed"
             /\ conn'[s].life \notin {"connecting", "open"}
  <2> DEFINE b == conn[s]
  <2>1. Fit(b)
    BY DEF IInv, ConnsFit
  <2>2. conn'[s] = IF s \in Tracked THEN Destroyed(b) ELSE b
    BY <1>1
  <2>3. b.life \in {"connecting", "open"} => s \in Tracked
    BY <2>1, FitFields DEF Tracked, EnrollmentStreams, Fit
  <2> HIDE DEF b
  <2>4. /\ Fit(Destroyed(b)) /\ Destroyed(b).step = b.step
        /\ Destroyed(b).key = b.key /\ Destroyed(b).use = b.use
        /\ \/ Destroyed(b).life = b.life
           \/ b.life \in {"connecting", "open"} /\ Destroyed(b).life = "destroyed"
        /\ Destroyed(b).life \notin {"connecting", "open"}
    BY <2>1, FitFields, DestroyMoves DEF Destroyed, Moves
  <2> QED BY <2>1, <2>2, <2>3, <2>4 DEF b
<1>3. ready' = {}
  BY <1>1 DEF IInv, ReadyHeld
<1>4. /\ conn' \in [Streams -> Conns] /\ sessions' \in [Peers -> Streams \cup {None}]
      /\ shown' \in [Peers -> BOOLEAN]
  BY <1>1, <1>2 DEF Fit
<1>5. ConnsFit'
  BY <1>2 DEF ConnsFit
<1>6. SessionsHeld' /\ ReadyHeld'
  BY <1>1, <1>3 DEF SessionsHeld, ReadyHeld
<1>7. ShownHeld'
  BY <1>1, <1>3 DEF IInv, ShownHeld
<1>8. DialsHeld'
  BY <1>1, <1>2 DEF IInv, DialsHeld
<1>9. Halted'
  BY <1>1, <1>2, <1>3 DEF Halted, stopping
<1>10. OneWrites'
  BY <1>1, <1>2 DEF IInv, OneWrites
<1>11. OutboundHeld'
  BY <1>1, <1>2 DEF IInv, OutboundHeld, TypeOK
<1>12. Places'
  <2>1. EnrollmentStreams' \subseteq EnrollmentStreams
    BY <1>2 DEF EnrollmentStreams
  <2> QED BY <1>1, <2>1, FewerPlaces DEF Reserved
<1>13. TypeOK'
  BY <1>1, <1>3, <1>4 DEF IInv, TypeOK
<1> QED BY <1>5, <1>6, <1>7, <1>8, <1>9, <1>10, <1>11, <1>12, <1>13 DEF IInv

LEMMA CleanedUpKeeps ==
  ASSUME IInv, CleanedUp
  PROVE  IInv'
<1>1. /\ main = "stopping" /\ main' = "stopped"
      /\ conn' = [s \in Streams |-> IF conn[s].life = "arriving" THEN Unused ELSE conn[s]]
      /\ UNCHANGED <<failed, now, sessions, ready, shown, tunWriting, outbound, reservations, attempts,
                     lastAdmission, dial, committed>>
  BY DEF CleanedUp, status, admission
<1>2. /\ conn' \in [Streams -> Conns] /\ ConnsFit'
      /\ \A s \in Streams : \/ conn'[s] = conn[s] /\ conn[s].life # "arriving"
                            \/ conn'[s] = Unused /\ conn[s].life = "arriving"
  BY <1>1, UnusedFits DEF IInv, TypeOK, ConnsFit, Fit
<1>3. SessionsHeld' /\ ReadyHeld'
  BY <1>1 DEF IInv, Halted, stopping, SessionsHeld, ReadyHeld
<1>4. ShownHeld'
  BY <1>1 DEF IInv, ShownHeld
<1>5. DialsHeld'
  BY <1>1, <1>2 DEF IInv, DialsHeld
<1>6. Halted'
  BY <1>1, <1>2 DEF IInv, Halted, stopping, Unused
<1>7. OneWrites'
  BY <1>1, <1>2 DEF IInv, OneWrites, Unused
<1>8. OutboundHeld'
  BY <1>1, <1>2 DEF IInv, OutboundHeld, TypeOK
<1>9. Places'
  <2>1. EnrollmentStreams' \subseteq EnrollmentStreams
    BY <1>2 DEF EnrollmentStreams, Unused
  <2> QED BY <1>1, <2>1, FewerPlaces DEF Reserved
<1>10. TypeOK'
  BY <1>1, <1>2 DEF IInv, TypeOK
<1> QED BY <1>2, <1>3, <1>4, <1>5, <1>6, <1>7, <1>8, <1>9, <1>10 DEF IInv

-----------------------------------------------------------------------------
(* Theorems *)

LEMMA InitIInv == Init => IInv
<1> SUFFICES ASSUME Init PROVE IInv
  OBVIOUS
<1>1. TypeOK
  <2>1. /\ 0 \in 0 .. MaxTime /\ <<>> \in Seq(0 .. MaxTime)
        /\ Unused \in Conns
    BY UnusedFits, EngineLimits DEF Fit
  <2>2. /\ conn \in [Streams -> Conns] /\ sessions \in [Peers -> Streams \cup {None}]
        /\ shown \in [Peers -> BOOLEAN]
        /\ reservations \in [Strangers -> 0 .. MaxTime + ReservationLife \cup {None}]
        /\ lastAdmission \in [Accepting -> 0 .. MaxTime \cup {None}]
        /\ dial \in [Dialed -> Streams \cup {"asleep", "ended"}]
    BY <2>1 DEF Init
  <2> QED BY <2>1, <2>2 DEF Init, TypeOK
<1>2. ConnsFit /\ SessionsHeld /\ ReadyHeld
  BY UnusedFits DEF Init, ConnsFit, SessionsHeld, ReadyHeld
<1>3. ShownHeld /\ DialsHeld
  BY EngineNone DEF Init, ShownHeld, DialsHeld
<1>4. Halted /\ OneWrites /\ OutboundHeld
  BY DEF Init, Halted, stopping, OneWrites, OutboundHeld, Unused
<1>5. Places
  <2>1. EnrollmentStreams = {} /\ Reserved = {}
    BY DEF Init, EnrollmentStreams, Reserved, Unused
  <2>2. IsFiniteSet({}) /\ Cardinality({}) = 0 /\ MaxContacts \in Nat
    BY FS_EmptySet, EngineLimits
  <2> QED BY <2>1, <2>2 DEF Places
<1> QED BY <1>1, <1>2, <1>3, <1>4, <1>5 DEF IInv

LEMMA StepKeepsIInv == IInv /\ [Next]_vars => IInv'
<1> SUFFICES ASSUME IInv, [Next]_vars PROVE IInv'
  OBVIOUS
<1>1. ASSUME NEW k \in Accepting, AdmitPeer(k) PROVE IInv'
  BY <1>1, AdmitPeerKeeps
<1>2. ASSUME NEW k \in Strangers, Knock(k) PROVE IInv'
  BY <1>2, KnockKeeps
<1>3. ASSUME NEW s \in Streams, HandshakeFails(s) \/ OnConnection(s) PROVE IInv'
  BY <1>3, HandshakeFailsKeeps, OnConnectionKeeps
<1>4. ASSUME NEW s \in Streams, Ends(s) \/ TimesOut(s) \/ CloseEvent(s) PROVE IInv'
  BY <1>4, EndsKeeps, CloseEventKeeps DEF TimesOut
<1>5. ASSUME NEW s \in Streams, Handler(s) PROVE IInv'
  BY <1>5, HelloSentKeeps, GreetedKeeps, InvitationComesKeeps, PacketKeeps, HandlerEndsKeeps DEF Handler
<1>6. ASSUME NEW s \in Streams, Answers(s) PROVE IInv'
  BY <1>6, EnrollmentEndsKeeps, AnsweredKeeps, PacketKeeps DEF Answers
<1>7. ASSUME NEW k \in Peers, Forward(k) PROVE IInv'
  BY <1>7, ForwardKeeps
<1>8. CASE Forwarded
  BY <1>8, ForwardedKeeps
<1>9. ASSUME NEW k \in Dialed, Dial(k) \/ Connected(k) \/ ConnectFails(k) PROVE IInv'
  BY <1>9, DialKeeps, ConnectedKeeps, ConnectFailsKeeps
<1>10. CASE (\E k \in Dialed : DialEnds(k)) \/ DeviceOpened \/ Started \/ DeviceFails \/ Tick \/ UNCHANGED vars
  BY <1>10, EngineKeeps
<1>11. CASE Stop \/ CleanedUp
  BY <1>11, StopKeeps, CleanedUpKeeps
<1>12. CASE Ended
  BY <1>12, EngineKeeps DEF Ended
<1> QED BY <1>1, <1>2, <1>3, <1>4, <1>5, <1>6, <1>7, <1>8, <1>9, <1>10, <1>11, <1>12 DEF Next

\* The inductive invariant holds in every state of every behaviour.
LEMMA Invariance == Spec => []IInv
BY InitIInv, StepKeepsIInv, PTL DEF Spec

\* Type correctness, for any keys, names of connections, limits and times.
THEOREM TypeCorrect == Spec => []TypeOK
<1>1. IInv => TypeOK
  BY DEF IInv
<1> QED BY <1>1, Invariance, PTL

\* However connections come, fail, time out and cross: what onPeerStatus said last of a
\* peer is true, and stop leaves no session and no connection behind.
THEOREM StatusesAreTrue == Spec => []StatusIsTrue
<1>1. IInv => StatusIsTrue
  <2> SUFFICES ASSUME IInv PROVE StatusIsTrue
    OBVIOUS
  <2>1. \A k \in Peers : shown[k] <=> sessions[k] \in ready
    BY DEF IInv, ShownHeld
  <2>2. \A s \in ready : conn[s].key \in Peers /\ sessions[conn[s].key] = s
    BY DEF IInv, ReadyHeld
  <2>3. stopping => ready = {}
    BY DEF IInv, Halted
  <2>4. main = "stopped" => /\ \A s \in Streams : conn[s].life \notin {"arriving", "connecting", "open"}
                            /\ \A k \in Peers : sessions[k] = None
    BY DEF IInv, Halted, stopping
  <2> QED BY <2>1, <2>2, <2>3, <2>4 DEF StatusIsTrue
<1> QED BY <1>1, Invariance, PTL

\* With any number of sessions and strangers: one write to the packet device at a time, no
\* packet into a greeting or an answer, and no stranger beyond the places there are.
THEOREM NothingIsEverOverused == Spec => []NothingIsOverused
<1>1. IInv => NothingIsOverused
  BY DEF IInv, OneWrites, OutboundHeld, Greeting, Places, Reserved, NothingIsOverused
<1> QED BY <1>1, Invariance, PTL

=============================================================================
