------------------------------- MODULE Engine -------------------------------
(***************************************************************************)
(* The packet engine: startVpnEngine of src/vpn/engine.ts.  It opens the   *)
(* packet device and a DHT server, keeps at most one session per           *)
(* configured peer, dials the peers it is to dial again and again, and,    *)
(* for a receiver, lets a few strangers in to enroll.                      *)
(*                                                                         *)
(* One connection is one element of Streams.  Its life is what the         *)
(* transport shows: destroy() is called, the "close" event comes later.    *)
(* Its step is the await its handler is at; the handler outlives the       *)
(* connection.  What goes on between two awaits is one action.  What a     *)
(* session forwards is PacketPolicy's business: here a packet is admitted  *)
(* or not.                                                                 *)
(***************************************************************************)
EXTENDS Integers, Sequences, FiniteSets

CONSTANTS
  Accepting,       \* keys of configured peers that connect to us
  Dialed,          \* keys of configured peers that we connect to
  Strangers,       \* other keys
  Enrolling,       \* options.enrollment is there
  None,            \* no key, no connection, no time
  Streams,         \* names for connections, used again when nothing refers to them
  MaxContacts,     \* enrollment streams and reservations at a time
  MaxAttempts,     \* enrollment contacts let in per AttemptWindow
  AttemptWindow,   \* 60 s
  ReservationLife, \* 10 s
  RetryInterval,   \* 1 s
  MaxTime          \* bound of the model: the monotonic clock shows 0 .. MaxTime

ASSUME EngineNone   == /\ None \notin Accepting \cup Dialed \cup Strangers \cup Streams \cup Nat
                       /\ {"asleep", "ended"} \cap Streams = {}
ASSUME EngineKeys   == /\ Accepting \cap Dialed = {}
                       /\ (Accepting \cup Dialed) \cap Strangers = {}
                       /\ Enrolling \in BOOLEAN
ASSUME EngineLimits == {MaxContacts, MaxAttempts, AttemptWindow, ReservationLife,
                        RetryInterval, MaxTime} \subseteq Nat

VARIABLES
  main,          \* "opening", "listening", "running", "stopping" or "stopped"
  failed,        \* the promise `failed` is resolved
  now,           \* options.now()
  conn,          \* each connection: key, use, life, step
  sessions,      \* the session of each peer
  ready,         \* connections whose session is ready
  shown,         \* history: what onPeerStatus last said of each peer
  tunWriting,    \* the flag of that name
  outbound,      \* the connection a packet from the device is being sent on
  reservations,  \* enrollmentReservations: when each stranger's runs out
  attempts,      \* enrollmentAttempts
  lastAdmission, \* lastAdmissions
  dial,          \* what dial(peer) is at: a connection, "asleep" or "ended"
  committed      \* connections with an enrollment committed but not announced

vars == <<main, failed, now, conn, sessions, ready, shown, tunWriting, outbound,
          reservations, attempts, lastAdmission, dial, committed>>
admission == <<reservations, attempts, lastAdmission>>
status    == <<sessions, ready, shown>>
process   == <<main, failed, now>>

Peers == Accepting \cup Dialed
Keys  == Peers \cup Strangers

Unused == [key |-> None, use |-> "none", life |-> "closed", step |-> "ended"]
Conns  == [key : Keys, use : {"none", "session", "enrollment"},
           life : {"arriving", "connecting", "open", "destroyed", "closed"},
           step : {"hello", "first", "reading", "writing", "enrolling", "answering", "last", "ended"}]
          \cup {Unused}

stopping == main \in {"stopping", "stopped"}
Spare    == {s \in Streams : conn[s] = Unused /\ outbound # s}

\* A connection that is closed and whose handler has ended is forgotten.
Settled(c) == IF c.life = "closed" /\ c.step = "ended" THEN Unused ELSE c

\* Fault: a connection that has closed is closed once more.
DestroyedAgain(c) == [c EXCEPT !.life = "destroyed"]

\* stream.destroy()
Destroyed(c) == IF c.life \in {"connecting", "open"} THEN [c EXCEPT !.life = "destroyed"] ELSE c

EnrollmentStreams == {s \in Streams : conn[s].use = "enrollment" /\ conn[s].step # "ended"}

\* `streams`: what stop() destroys.
Tracked ==
  EnrollmentStreams \cup {s \in Streams : conn[s].life = "connecting"}
    \cup {s \in Streams : conn[s].use = "session" /\ conn[s].life # "closed"}

-----------------------------------------------------------------------------
(* The firewall: who may complete a handshake *)

Listening == main \in {"listening", "running", "stopping"}

\* A connection comes in.  (Of the model's names enough are left to dial with.)
Arrives(k) ==
  \E s \in Spare :
    /\ Cardinality(Spare) > Cardinality({d \in Dialed : dial[d] = "asleep"})
    /\ conn' = [conn EXCEPT ![s] = [key |-> k, use |-> "none", life |-> "arriving", step |-> "ended"]]

AdmitPeer(k) ==
  /\ Listening /\ k \in Accepting
  /\ sessions[k] = None
  /\ lastAdmission[k] # None => now - lastAdmission[k] >= RetryInterval
  /\ lastAdmission' = [lastAdmission EXCEPT ![k] = now]
  /\ Arrives(k)
  /\ UNCHANGED <<process, status, tunWriting, outbound, reservations, attempts, dial, committed>>

\* Reservations that still count, and the attempts from the first one that does.
Kept   == [k \in Strangers |-> IF reservations[k] = None \/ reservations[k] <= now
                               THEN None ELSE reservations[k]]
Old(i) == \A j \in 1 .. i : now - attempts[j] >= AttemptWindow
Recent == SubSeq(attempts, 1 + Cardinality({i \in 1 .. Len(attempts) : Old(i)}), Len(attempts))

\* Fault: only the streams that have arrived are counted.
RoomByStreams(k) ==
  /\ Len(Recent) < MaxAttempts
  /\ Cardinality(EnrollmentStreams) < MaxContacts
  /\ Kept[k] = None

Room(k) ==
  /\ Len(Recent) < MaxAttempts
  /\ Cardinality(EnrollmentStreams) + Cardinality({j \in Strangers : Kept[j] # None}) < MaxContacts
  /\ Kept[k] = None

\* A stranger knocks; whatever the answer, what is out of date is dropped.
Knock(k) ==
  /\ Listening /\ k \in Strangers
  /\ Enrolling /\ ~stopping
  /\ IF Room(k)
     THEN /\ attempts' = Append(Recent, now)
          /\ reservations' = [Kept EXCEPT ![k] = now + ReservationLife]
          /\ Arrives(k)
     ELSE /\ attempts' = Recent
          /\ reservations' = Kept
          /\ UNCHANGED conn
  /\ UNCHANGED <<process, status, tunWriting, outbound, lastAdmission, dial, committed>>

\* The handshake fails although the firewall let it pass.
HandshakeFails(s) ==
  /\ conn[s].life = "arriving"
  /\ conn' = [conn EXCEPT ![s] = Unused]
  /\ UNCHANGED <<process, status, tunWriting, outbound, admission, dial, committed>>

-----------------------------------------------------------------------------
(* Connections *)

Unattached(s) == [conn EXCEPT ![s].life = "destroyed", ![s].step = "ended"]

\* Fault: a new session takes the place of the one there is.
Supplant(s) ==
  /\ conn' = IF stopping THEN Unattached(s)
             ELSE [conn EXCEPT ![s].use = "session", ![s].life = "open", ![s].step = "hello"]
  /\ sessions' = IF stopping THEN sessions ELSE [sessions EXCEPT ![conn[s].key] = s]

\* attach: a connection becomes the session of its peer, if that has none.
Attach(s) ==
  LET k == conn[s].key IN
  IF stopping \/ sessions[k] # None
  THEN conn' = Unattached(s) /\ UNCHANGED sessions
  ELSE /\ conn' = [conn EXCEPT ![s].use = "session", ![s].life = "open", ![s].step = "hello"]
       /\ sessions' = [sessions EXCEPT ![k] = s]

\* attachEnrollment
AttachEnrollment(s) ==
  IF Cardinality(EnrollmentStreams) >= MaxContacts
  THEN conn' = Unattached(s)
  ELSE conn' = [conn EXCEPT ![s].use = "enrollment", ![s].life = "open", ![s].step = "first"]

\* The server hands over a connection; a stranger must have a reservation left.
OnConnection(s) ==
  LET k == conn[s].key IN
  /\ conn[s].life = "arriving"
  /\ IF k \in Strangers
     THEN /\ reservations' = [reservations EXCEPT ![k] = None]
          /\ IF reservations[k] # None /\ ~stopping
             THEN AttachEnrollment(s) ELSE conn' = Unattached(s)
          /\ UNCHANGED sessions
     ELSE Attach(s) /\ UNCHANGED reservations
  /\ UNCHANGED <<process, ready, shown, tunWriting, outbound, attempts, lastAdmission, dial, committed>>

\* The peer or the transport ends a connection.
Ends(s) ==
  /\ conn[s].life = "open"
  /\ conn' = [conn EXCEPT ![s] = Destroyed(@)]
  /\ UNCHANGED <<process, status, tunWriting, outbound, admission, dial, committed>>

\* The 10 s timer of a session that is not ready, or of an enrollment.
TimesOut(s) == s \notin ready /\ Ends(s)

\* Fault: dial() does not hear of the close.
CloseUnheard(s) ==
  LET k == conn[s].key
      mine == k \in Peers /\ sessions[k] = s IN
  /\ conn[s].life = "destroyed"
  /\ conn' = [conn EXCEPT ![s] = Settled([@ EXCEPT !.life = "closed"])]
  /\ sessions' = IF mine THEN [sessions EXCEPT ![k] = None] ELSE sessions
  /\ ready' = ready \ {s}
  /\ shown' = IF s \in ready THEN [shown EXCEPT ![k] = FALSE] ELSE shown
  /\ UNCHANGED <<process, tunWriting, outbound, admission, dial, committed>>

\* The "close" event: the session is gone, and dial() wakes from its wait.
CloseEvent(s) ==
  LET k == conn[s].key
      mine == k \in Peers /\ sessions[k] = s IN
  /\ conn[s].life = "destroyed"
  /\ conn' = [conn EXCEPT ![s] = Settled([@ EXCEPT !.life = "closed"])]
  /\ sessions' = IF mine THEN [sessions EXCEPT ![k] = None] ELSE sessions
  /\ ready' = ready \ {s}
  /\ shown' = IF s \in ready THEN [shown EXCEPT ![k] = FALSE] ELSE shown
  /\ dial' = IF k \in Dialed /\ dial[k] = s THEN [dial EXCEPT ![k] = "asleep"] ELSE dial
  /\ UNCHANGED <<process, tunWriting, outbound, admission, committed>>

-----------------------------------------------------------------------------
(* The handler of a session or of an enrollment *)

Step(s, from, to) == conn[s].step = from /\ conn' = [conn EXCEPT ![s].step = to]

HelloSent(s) ==
  /\ conn[s].life = "open" /\ Step(s, "hello", "first")
  /\ UNCHANGED <<process, status, tunWriting, outbound, admission, dial, committed>>

\* The session is still the peer's and the engine is not stopping.
Current(s) == sessions[conn[s].key] = s /\ ~stopping

\* The peer's greeting comes first.
Greeted(s) ==
  /\ conn[s].use = "session" /\ conn[s].life = "open" /\ Current(s)
  /\ Step(s, "first", "reading")
  /\ ready' = ready \cup {s}
  /\ shown' = [shown EXCEPT ![conn[s].key] = TRUE]
  /\ UNCHANGED <<process, sessions, tunWriting, outbound, admission, dial, committed>>

\* An invitation comes first: on an enrollment stream, or from a peer known already.
InvitationComes(s) ==
  /\ conn[s].life = "open"
  /\ conn[s].use = "enrollment" \/ (conn[s].use = "session" /\ Enrolling /\ Current(s))
  /\ Step(s, "first", "enrolling")
  /\ UNCHANGED <<process, status, tunWriting, outbound, admission, dial, committed>>

\* The receiver's enroll resolves, the device is committed; or it rejects.
EnrollmentEnds(s) ==
  /\ Step(s, "enrolling", "answering")
  /\ \/ UNCHANGED committed
     \/ committed' = committed \cup {s}
  /\ UNCHANGED <<process, status, tunWriting, outbound, admission, dial>>

\* The answer is sent, or sending it throws; `changed` is called either way.
Answered(s) ==
  /\ conn[s].step = "answering"
  /\ committed' = committed \ {s}
  /\ \/ conn[s].life = "open" /\ conn' = [conn EXCEPT ![s].step = "last"]
     \/ conn' = [conn EXCEPT ![s] = Settled([Destroyed(@) EXCEPT !.step = "ended"])]
  /\ UNCHANGED <<process, status, tunWriting, outbound, admission, dial>>

\* A packet the policy admits goes to the device, unless another is on its way.
Packet(s) ==
  /\ s \in ready /\ Current(s)
  /\ ~tunWriting
  /\ Step(s, "reading", "writing")
  /\ tunWriting' = TRUE
  /\ UNCHANGED <<process, status, outbound, admission, dial, committed>>

Written(s) ==
  /\ Step(s, "writing", "reading")
  /\ tunWriting' = FALSE
  /\ UNCHANGED <<process, status, outbound, admission, dial, committed>>

\* The readable side ends, or the handler throws: finally stream.destroy().
HandlerEnds(s) ==
  /\ conn[s].step \in {"hello", "first", "reading", "last"}
  /\ conn' = [conn EXCEPT ![s] = Settled([Destroyed(@) EXCEPT !.step = "ended"])]
  /\ UNCHANGED <<process, status, tunWriting, outbound, admission, dial, committed>>

WriteThrows(s) ==
  /\ conn[s].step = "writing"
  /\ conn' = [conn EXCEPT ![s] = Settled([Destroyed(@) EXCEPT !.step = "ended"])]
  /\ tunWriting' = FALSE
  /\ UNCHANGED <<process, status, outbound, admission, dial, committed>>

-----------------------------------------------------------------------------
(* Packets from the device: one at a time, whichever peer they are for *)

Forward(k) ==
  /\ main = "running"
  /\ outbound = None
  /\ sessions[k] # None /\ sessions[k] \in ready
  /\ outbound' = sessions[k]
  /\ UNCHANGED <<process, conn, status, tunWriting, admission, dial, committed>>

\* frames.send returns, or throws and the stream is destroyed.
Forwarded ==
  /\ outbound # None
  /\ outbound' = None
  /\ conn' \in {conn, [conn EXCEPT ![outbound] = Destroyed(@)]}
  /\ UNCHANGED <<process, status, tunWriting, admission, dial, committed>>

-----------------------------------------------------------------------------
(* Dialing *)

Dial(k) ==
  /\ main = "running"
  /\ dial[k] = "asleep"
  /\ \E s \in Spare :
       /\ conn' = [conn EXCEPT ![s] = [key |-> k, use |-> "none", life |-> "connecting", step |-> "ended"]]
       /\ dial' = [dial EXCEPT ![k] = s]
  /\ UNCHANGED <<process, status, tunWriting, outbound, admission, committed>>

Connected(k) ==
  /\ dial[k] \in Streams /\ conn[dial[k]].life = "connecting"
  /\ Attach(dial[k])
  /\ UNCHANGED <<process, ready, shown, tunWriting, outbound, admission, dial, committed>>

\* An error, a close or the 20 s timer before the connection is there, or another
\* key than the peer's.
ConnectFails(k) ==
  /\ dial[k] \in Streams /\ conn[dial[k]].life = "connecting"
  /\ conn' = [conn EXCEPT ![dial[k]] = Destroyed(@)]
  /\ dial' = [dial EXCEPT ![k] = "asleep"]
  /\ UNCHANGED <<process, status, tunWriting, outbound, admission, committed>>

DialEnds(k) ==
  /\ stopping
  /\ dial[k] = "asleep"
  /\ dial' = [dial EXCEPT ![k] = "ended"]
  /\ UNCHANGED <<process, conn, status, tunWriting, outbound, admission, committed>>

-----------------------------------------------------------------------------
(* Start, failure, stop *)

DeviceOpened ==
  /\ main = "opening"
  /\ main' = "listening"
  /\ UNCHANGED <<failed, now, conn, status, tunWriting, outbound, admission, dial, committed>>

\* server.listen returns; the first Dial follows at once.
Started ==
  /\ main = "listening"
  /\ main' = "running"
  /\ UNCHANGED <<failed, now, conn, status, tunWriting, outbound, admission, dial, committed>>

DeviceFails ==
  /\ main \in {"listening", "running"}
  /\ failed' = TRUE
  /\ UNCHANGED <<main, now, conn, status, tunWriting, outbound, admission, dial, committed>>

\* stop() up to its first await; a start that fails calls it too.
Stop ==
  /\ main \in {"opening", "listening", "running"}
  /\ main' = "stopping"
  /\ sessions' = [k \in Peers |-> None]
  /\ ready' = ready \ {sessions[k] : k \in Peers}
  /\ shown' = [k \in Peers |-> shown[k] /\ sessions[k] \notin ready]
  /\ conn' = [s \in Streams |-> IF s \in Tracked THEN Destroyed(conn[s]) ELSE conn[s]]
  /\ UNCHANGED <<failed, now, tunWriting, outbound, admission, dial, committed>>

\* server.close, tun.close and dht.destroy have settled.
CleanedUp ==
  /\ main = "stopping"
  /\ main' = "stopped"
  /\ conn' = [s \in Streams |-> IF conn[s].life = "arriving" THEN Unused ELSE conn[s]]
  /\ UNCHANGED <<failed, now, status, tunWriting, outbound, admission, dial, committed>>

Tick ==
  /\ now < MaxTime
  /\ now' = now + 1
  /\ UNCHANGED <<main, failed, conn, status, tunWriting, outbound, admission, dial, committed>>

Init ==
  /\ main = "opening" /\ failed = FALSE /\ now = 0
  /\ conn = [s \in Streams |-> Unused]
  /\ sessions = [k \in Peers |-> None]
  /\ ready = {}
  /\ shown = [k \in Peers |-> FALSE]
  /\ tunWriting = FALSE /\ outbound = None
  /\ reservations = [k \in Strangers |-> None]
  /\ attempts = <<>>
  /\ lastAdmission = [k \in Accepting |-> None]
  /\ dial = [k \in Dialed |-> "asleep"]
  /\ committed = {}

Handler(s) ==
  \/ HelloSent(s) \/ Greeted(s) \/ InvitationComes(s)
  \/ Packet(s)
  \/ HandlerEnds(s)

Answers(s) == EnrollmentEnds(s) \/ Answered(s) \/ Written(s) \/ WriteThrows(s)

\* Nothing is left to happen once stop is through.
Ended ==
  /\ main = "stopped" /\ now = MaxTime
  /\ \A s \in Streams : conn[s] = Unused
  /\ UNCHANGED vars

Next ==
  \/ \E k \in Accepting : AdmitPeer(k)
  \/ \E k \in Strangers : Knock(k)
  \/ \E s \in Streams :
       \/ HandshakeFails(s) \/ OnConnection(s)
       \/ Ends(s) \/ TimesOut(s) \/ CloseEvent(s)
       \/ Handler(s) \/ Answers(s)
  \/ \E k \in Peers : Forward(k)
  \/ Forwarded
  \/ \E k \in Dialed : Dial(k) \/ Connected(k) \/ ConnectFails(k) \/ DialEnds(k)
  \/ DeviceOpened \/ Started \/ DeviceFails \/ Stop \/ CleanedUp
  \/ Tick
  \/ Ended

Spec == Init /\ [][Next]_vars

\* Timers fire, "close" follows destroy(), the awaits of a handler settle once its
\* connection is gone, those on the receiver and the device settle in any case, and
\* dial() goes on.  Nothing is asked of peers, and an open session may last.
Fairness ==
  /\ \A s \in Streams :
       /\ WF_vars(TimesOut(s)) /\ WF_vars(CloseEvent(s))
       /\ WF_vars(conn[s].life # "open" /\ HandlerEnds(s))
       /\ WF_vars(EnrollmentEnds(s)) /\ WF_vars(Answered(s)) /\ WF_vars(Written(s))
  /\ \A k \in Dialed : WF_vars(Dial(k)) /\ WF_vars(ConnectFails(k))
  /\ WF_vars(Forwarded)

FairSpec == Spec /\ Fairness

-----------------------------------------------------------------------------
(* Properties *)

TypeOK ==
  /\ main \in {"opening", "listening", "running", "stopping", "stopped"}
  /\ {failed, tunWriting} \subseteq BOOLEAN
  /\ now \in 0 .. MaxTime
  /\ conn \in [Streams -> Conns]
  /\ sessions \in [Peers -> Streams \cup {None}]
  /\ ready \subseteq Streams /\ committed \subseteq Streams
  /\ shown \in [Peers -> BOOLEAN]
  /\ outbound \in Streams \cup {None}
  /\ reservations \in [Strangers -> 0 .. MaxTime + ReservationLife \cup {None}]
  /\ attempts \in Seq(0 .. MaxTime)
  /\ lastAdmission \in [Accepting -> 0 .. MaxTime \cup {None}]
  /\ dial \in [Dialed -> Streams \cup {"asleep", "ended"}]

\* What onPeerStatus last said of a peer is true: it is connected when its one
\* session is ready.  No connection is ready that is not the session of the peer
\* whose key it was authenticated with; after stop nobody is shown as connected, and when
\* stop has returned no connection is open or being made.
StatusIsTrue ==
  /\ \A k \in Peers : shown[k] <=> sessions[k] \in ready
  /\ \A s \in ready : conn[s].key \in Peers /\ sessions[conn[s].key] = s
  /\ stopping => ready = {}
  /\ main = "stopped" =>
       /\ \A s \in Streams : conn[s].life \notin {"arriving", "connecting", "open"}
       /\ \A k \in Peers : sessions[k] = None

\* Nothing is used beyond what it holds.  The packet device is written by one session at a
\* time, and the flag says when; no packet from the device meets a greeting or an answer that
\* is still being written on the same connection (PacketFraming.send throws on concurrent
\* writes, and the session would be lost); and strangers hold at most MaxContacts places, on
\* their way and arrived together, so that a contact the firewall let in finds its place.
NothingIsOverused ==
  /\ \A s, t \in Streams :
       conn[s].step = "writing" => tunWriting /\ (conn[t].step = "writing" => s = t)
  /\ outbound # None => conn[outbound].step \notin {"hello", "answering"}
  /\ Cardinality(EnrollmentStreams)
       + Cardinality({k \in Strangers : reservations[k] # None}) <= MaxContacts

\* Nobody is forgotten.  `changed` is called for every enrollment the receiver committed,
\* whatever becomes of the connection and of the answer meanwhile; a session that does not
\* complete the greeting gives up its place, so that its peer can connect again; and as long
\* as the engine runs, a peer it is to dial has a session that is ready or is dialed again
\* and again.
NobodyIsForgotten ==
  /\ \A s \in Streams : s \in committed ~> s \notin committed
  /\ \A k \in Peers : sessions[k] # None ~> sessions[k] = None \/ sessions[k] \in ready
  /\ \A k \in Dialed :
       []<>(main # "running" \/ sessions[k] \in ready) \/ []<><<Dial(k)>>_vars

=============================================================================
