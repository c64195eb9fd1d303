------------------------------ MODULE Tunnel -------------------------------
(***************************************************************************)
(* The macOS packet tunnel: PacketTunnelProvider.swift, which the system   *)
(* starts and stops, and the worklet in its process, which runs            *)
(* src/vpn/worklet-bridge.ts around one engine or one pairing.  They talk  *)
(* over a pair of pipes, one frame after the other.                        *)
(*                                                                         *)
(* The provider's handlers run on one serial queue, so that each is an     *)
(* action.  The worklet's loop is where its await is; its engine goes on   *)
(* beside it.  A failure ends the process, and with it the worklet.        *)
(***************************************************************************)
EXTENDS Naturals, Sequences, Sifting

CONSTANTS
  Limit,  \* frames the provider keeps for its pipe, the one being written included
  Wire,   \* frames on the way in a pipe
  None

Frames  == {"pair", "start", "ready", "stop", "packet"}
Replies == {"settings", "paired", "rejected", "unclear", "running", "peer", "packet",
            "stopped", "error"}

\* There is room for a frame behind the one being written (Limit is 32).
ASSUME TunnelAssumption == Limit \in Nat \ {0, 1} /\ Wire \in Nat \ {0}
ASSUME TunnelNone       == None \notin Frames

VARIABLES
  phase,      \* of the provider: `stopped`, `stopping` or neither
  session,    \* `pairing`, `settingsRequested`, `settingsApplied`, `running`
  lock,       \* `lockFD` holds the identity's lock
  timer,      \* `timeout`
  out,        \* `outgoing`: frames to write, the one being written, a packet read
  started,    \* what the start handler was told, or that it waits
  ended,      \* why the last session ended
  calls,      \* setTunnelNetworkSettings under way, of this generation or an old one
  routes,     \* the settings in force: of this generation, an old one or none
  saved,      \* config.json names a receiver
  toWorklet, toProvider,  \* the pipes
  bridge,     \* the worklet: `state`, where its loop is, and its engine
  open,       \* the worklet's end of the pipes
  admitted    \* history: the receiver has admitted the device in this session

provider == <<phase, session, lock, timer, out, started, ended>>
system   == <<calls, routes, saved>>
worklet  == <<bridge, open, admitted>>
vars     == <<provider, system, toWorklet, toProvider, worklet>>

NoSession == [pairing |-> FALSE, requested |-> FALSE, applied |-> FALSE, running |-> FALSE]
NoBridge  == [state |-> "none", at |-> "none", engine |-> "none"]
Nothing   == [pending |-> <<>>, inFlight |-> None, reading |-> FALSE]

-----------------------------------------------------------------------------
(* The provider's output: one write at a time *)

Idle(o)  == o.inFlight = None /\ o.pending = <<>>
Count(o) == Len(o.pending) + (IF o.inFlight = None THEN 0 ELSE 1)

WriteNext(o) ==
  IF o.inFlight = None /\ o.pending # <<>>
  THEN [o EXCEPT !.inFlight = Head(o.pending), !.pending = Tail(o.pending)]
  ELSE o

Queued(o, f) == WriteNext([o EXCEPT !.pending = Append(@, f)])

\* Fault: packets that wait are sent before the stop.
KeepPackets(o) == o

DiscardPackets(o) == [o EXCEPT !.pending = Sifted(@, {"packet"})]

\* Packets are asked of the system only when all those before are written.
ReadPackets(o, running) == IF running /\ Idle(o) THEN [o EXCEPT !.reading = TRUE] ELSE o

-----------------------------------------------------------------------------
(* The end of a session *)

Reset ==
  /\ phase' = "stopped" /\ session' = NoSession /\ lock' = FALSE
  /\ timer' = "off" /\ out' = Nothing /\ routes' = "none"
  /\ toWorklet' = <<>> /\ toProvider' = <<>> /\ open' = FALSE

\* The worklet cannot be waited for, so that the process ends: _exit(1).
Fail(told, why) ==
  /\ Reset
  /\ bridge' = NoBridge /\ calls' = <<>>
  /\ started' = IF started # "waiting" THEN started
                ELSE IF session.pairing THEN told ELSE "failed"
  /\ ended' = why

\* The process stays.  terminate() is not waited for: what the engine does goes on.
\* Calls to the system that are under way belong to the past.
Finish ==
  /\ Reset
  /\ bridge' = [NoBridge EXCEPT !.engine = bridge.engine]
  /\ calls' = [i \in DOMAIN calls |-> "old"]
  /\ started' = IF started # "waiting" THEN started
                ELSE IF session.pairing THEN "unknown" ELSE "failed"
  /\ ended' = "graceful"

-----------------------------------------------------------------------------
(* What the system asks *)

\* The lock is taken, config and seed are read, the worklet is started and told what
\* to do.  Or something of that fails: before there is a worklet the session finishes.
StartTunnel(pairing) ==
  /\ phase = "stopped" /\ Len(calls) <= 1
  /\ \/ /\ pairing \/ saved
        /\ phase' = "started" /\ lock' = TRUE
        /\ session' = [NoSession EXCEPT !.pairing = pairing]
        /\ started' = "waiting" /\ ended' = "none"
        /\ out' = Queued(Nothing, IF pairing THEN "pair" ELSE "start")
        /\ timer' = "start"
        /\ bridge' = [state |-> "initial", at |-> "reading", engine |-> "none"]
        /\ open' = TRUE
     \/ /\ started' = IF pairing THEN "definite" ELSE "failed"
        /\ ended' = "refused"
        /\ UNCHANGED <<phase, session, lock, timer, out, bridge, open>>
  /\ admitted' = FALSE
  /\ UNCHANGED <<system, toWorklet, toProvider>>

\* Fault: a stop waits for the worklet as long as it takes.
StopUntimed ==
  /\ phase = "started"
  /\ phase' = "stopping"
  /\ session' = [session EXCEPT !.running = FALSE]
  /\ out' = Queued(DiscardPackets(out), "stop")
  /\ timer' = "off"
  /\ UNCHANGED <<lock, started, ended, system, toWorklet, toProvider, worklet>>

\* There is room for the control frame (`Understood`), so that sendControl does not throw.
StopTunnel ==
  /\ phase = "started"
  /\ phase' = "stopping"
  /\ session' = [session EXCEPT !.running = FALSE]
  /\ out' = Queued(DiscardPackets(out), "stop")
  /\ timer' = "stop"
  /\ UNCHANGED <<lock, started, ended, system, toWorklet, toProvider, worklet>>

Timeout ==
  /\ timer # "off"
  /\ Fail("unknown", "timeout")
  /\ UNCHANGED <<saved, admitted>>

Killed ==
  /\ phase # "stopped"
  /\ Fail("unknown", "killed")
  /\ UNCHANGED <<saved, admitted>>

-----------------------------------------------------------------------------
(* Frames to the worklet *)

\* Fault: a packet read is not begun again after a write.
WrittenOnly ==
  /\ out.inFlight # None /\ Len(toWorklet) < Wire
  /\ toWorklet' = Append(toWorklet, out.inFlight)
  /\ out' = WriteNext([out EXCEPT !.inFlight = None])
  /\ UNCHANGED <<phase, session, lock, timer, started, ended, system, toProvider, worklet>>

Written ==
  /\ out.inFlight # None /\ Len(toWorklet) < Wire
  /\ toWorklet' = Append(toWorklet, out.inFlight)
  /\ out' = ReadPackets(WriteNext([out EXCEPT !.inFlight = None]), session.running)
  /\ UNCHANGED <<phase, session, lock, timer, started, ended, system, toProvider, worklet>>

Packets(n) == [i \in 1..n |-> "packet"]

\* Fault: all packets of a batch are kept.
PacketsUnbounded(n) ==
  /\ out.reading /\ session.running
  /\ out' = ReadPackets(WriteNext([out EXCEPT !.reading = FALSE, !.pending = @ \o Packets(n)]), TRUE)
  /\ UNCHANGED <<phase, session, lock, timer, started, ended, system, toWorklet, toProvider, worklet>>

\* n packets of the system are IPv4: those beyond the limit are dropped.
PacketsRead(n) ==
  /\ out.reading /\ session.running
  /\ LET kept == IF n > Limit - Count(out) THEN Limit - Count(out) ELSE n
         read == [out EXCEPT !.reading = FALSE, !.pending = @ \o Packets(kept)]
     IN  out' = ReadPackets(WriteNext(read), TRUE)
  /\ UNCHANGED <<phase, session, lock, timer, started, ended, system, toWorklet, toProvider, worklet>>

-----------------------------------------------------------------------------
(* Frames from the worklet *)

\* The frames that are expected.
Expects(f) ==
  \/ f = "settings" /\ phase = "started" /\ ~session.requested
  \/ f = "paired" /\ phase = "started" /\ session.pairing /\ ~session.requested
  \/ f \in {"rejected", "unclear"} /\ phase = "started" /\ session.pairing
  \/ f = "running" /\ phase = "started" /\ session.applied /\ ~session.running
  \/ f = "peer" /\ session.requested
  \/ f = "packet" /\ (session.running \/ phase = "stopping")
  \/ f = "stopped" /\ phase = "stopping"

Arrived == phase # "stopped" /\ toProvider # <<>>

Receives(f) == Arrived /\ Head(toProvider) = f /\ Expects(f)

\* Any other ends the session, and so does an error the worklet reports.
Unexpected ==
  /\ Arrived /\ ~Expects(Head(toProvider))
  /\ Fail("unknown", IF Head(toProvider) = "error" THEN "error" ELSE "unexpected")
  /\ UNCHANGED <<saved, admitted>>

\* The system is asked to apply settings, unless they conflict with the Mac's.
Requests(conflict) ==
  /\ \/ /\ session' = [session EXCEPT !.requested = TRUE]
        /\ calls' = Append(calls, "new")
        /\ toProvider' = Tail(toProvider)
        /\ UNCHANGED <<phase, lock, timer, out, started, ended, routes, toWorklet, bridge, open>>
     \/ Fail(conflict, "conflict")
  /\ UNCHANGED <<saved, admitted>>

ReceiveSettings == Receives("settings") /\ Requests("definite")

ReceivePaired == Receives("paired") /\ Requests("unknown")

ReceivePairError ==
  /\ \/ Receives("rejected") /\ Fail("definite", "rejected")
     \/ Receives("unclear") /\ Fail("unknown", "rejected")
  /\ UNCHANGED <<saved, admitted>>

\* The start is through.
Answers == started' = "ok" /\ timer' = "off"

ReceiveRunning ==
  /\ Receives("running")
  /\ session' = [session EXCEPT !.running = TRUE]
  /\ Answers
  /\ out' = ReadPackets(out, TRUE)
  /\ toProvider' = Tail(toProvider)
  /\ UNCHANGED <<phase, lock, ended, system, toWorklet, worklet>>

\* The state of the peer, for the menu, or a packet for the Mac.
ReceiveTraffic ==
  /\ Receives("peer") \/ Receives("packet")
  /\ toProvider' = Tail(toProvider)
  /\ UNCHANGED <<provider, system, toWorklet, worklet>>

ReceiveStopped ==
  /\ Receives("stopped")
  /\ Finish
  /\ UNCHANGED <<saved, admitted>>

\* The pipe is closed at the other end; what was not written is lost.
Closed ==
  /\ phase # "stopped" /\ ~open
  /\ Fail("unknown", "closed")
  /\ UNCHANGED <<saved, admitted>>

\* setTunnelNetworkSettings is through, for this generation: a connection goes on with
\* the worklet, a pairing is saved and then reported.
Goes ==
  IF session.pairing
  THEN /\ saved' = TRUE
       /\ session' = [session EXCEPT !.applied = TRUE, !.running = TRUE]
       /\ Answers
       /\ UNCHANGED out
  ELSE /\ session' = [session EXCEPT !.applied = TRUE]
       /\ out' = Queued(out, "ready")
       /\ UNCHANGED <<saved, started, timer>>

\* Fault: the generation of the call is not looked at.
SettingsUnchecked ==
  /\ calls # <<>>
  /\ calls' = Tail(calls) /\ routes' = Head(calls)
  /\ IF phase = "started" /\ ~session.applied
     THEN Goes ELSE UNCHANGED <<session, timer, out, started, saved>>
  /\ UNCHANGED <<phase, lock, ended, toWorklet, toProvider, worklet>>

SettingsDone ==
  /\ calls # <<>>
  /\ calls' = Tail(calls) /\ routes' = Head(calls)
  /\ IF Head(calls) = "new" /\ phase = "started"
     THEN Goes ELSE UNCHANGED <<session, timer, out, started, saved>>
  /\ UNCHANGED <<phase, lock, ended, toWorklet, toProvider, worklet>>

\* The system refuses the settings, or the pairing cannot be saved for certain.
SettingsFail ==
  /\ calls # <<>>
  /\ IF Head(calls) = "new" /\ phase = "started"
     THEN /\ Fail("unknown", "settings")
          /\ saved' \in {saved, saved \/ session.pairing}
     ELSE /\ calls' = Tail(calls)
          /\ UNCHANGED <<provider, routes, saved, toWorklet, toProvider, bridge, open>>
  /\ UNCHANGED admitted

-----------------------------------------------------------------------------
(* The worklet *)

bridgeOnly == <<provider, system>>

\* A frame that cannot be kept closes the pipe.
Send(f) ==
  IF open /\ Len(toProvider) < Wire
  THEN toProvider' = Append(toProvider, f) /\ UNCHANGED open
  ELSE open' = FALSE /\ UNCHANGED toProvider

\* The frames that are accepted; any other is an error (`Understood`: there is none).
Accepts(f) ==
  \/ f \in {"pair", "start"} /\ bridge.state = "initial"
  \/ f = "ready" /\ bridge.state = "settings"
  \/ f = "packet" /\ bridge.state = "running"
  \/ f = "stop" /\ bridge.state # "stopped"

\* The loop of `receive` has the next frame.
Reads(f) ==
  /\ bridge.at = "reading" /\ open
  /\ toWorklet # <<>> /\ Head(toWorklet) = f /\ Accepts(f)
  /\ toWorklet' = Tail(toWorklet)

\* Up to the await of pairWithReceiver.
PairBegins ==
  /\ Reads("pair")
  /\ bridge' = [bridge EXCEPT !.state = "starting", !.at = "pairing"]
  /\ UNCHANGED <<bridgeOnly, toProvider, open, admitted>>

\* pairWithReceiver resolves, or rejects with a reason that says what the receiver
\* has done, or with none, when it may have done anything (module Pairing).
PairEnds ==
  /\ bridge.at = "pairing"
  /\ bridge' = [bridge EXCEPT !.at = "reading"]
  /\ \/ Send("paired") /\ admitted' = TRUE
     \/ Send("rejected") /\ UNCHANGED admitted
     \/ Send("unclear") /\ admitted' \in BOOLEAN
  /\ UNCHANGED <<bridgeOnly, toWorklet>>

StartBegins ==
  /\ Reads("start")
  /\ bridge' = [bridge EXCEPT !.state = "settings"]
  /\ Send("settings")
  /\ UNCHANGED <<bridgeOnly, admitted>>

\* The settings are in force: startEngine is called, and not waited for.
EngineStarts ==
  /\ Reads("ready")
  /\ bridge' = [bridge EXCEPT !.state = "starting", !.engine = "starting"]
  /\ UNCHANGED <<bridgeOnly, toProvider, open, admitted>>

EngineStarted ==
  /\ bridge.engine = "starting"
  /\ IF bridge.state = "stopped"
     THEN bridge' = [bridge EXCEPT !.engine = "up"] /\ UNCHANGED <<toProvider, open>>
     ELSE bridge' = [bridge EXCEPT !.engine = "up", !.state = "running"] /\ Send("running")
  /\ UNCHANGED <<bridgeOnly, toWorklet, admitted>>

\* startEngine has rejected and left nothing: the pipe is closed.
EngineStartFails ==
  /\ bridge.engine = "starting"
  /\ bridge' = [bridge EXCEPT !.engine = "none"]
  /\ open' = FALSE
  /\ UNCHANGED <<bridgeOnly, toWorklet, toProvider, admitted>>

\* A packet for the engine's device.
Delivers ==
  /\ Reads("packet")
  /\ UNCHANGED <<bridgeOnly, bridge, toProvider, open, admitted>>

\* shutdown(), up to its await of the start and of runtime.stop().
StopBegins ==
  /\ Reads("stop")
  /\ bridge' = [bridge EXCEPT !.state = "stopped", !.at = "stopping"]
  /\ UNCHANGED <<bridgeOnly, toProvider, open, admitted>>

\* The pipe was closed: `receive` ends, and the worklet shuts down.
LoopEnds ==
  /\ bridge.at = "reading" /\ ~open
  /\ bridge' = [bridge EXCEPT !.state = "stopped", !.at = "ending"]
  /\ UNCHANGED <<bridgeOnly, toWorklet, toProvider, open, admitted>>

ShuttingDown == bridge.at \in {"stopping", "ending"}

EngineStops ==
  /\ ShuttingDown /\ bridge.engine = "up"
  /\ bridge' = [bridge EXCEPT !.engine = "stopping"]
  /\ UNCHANGED <<bridgeOnly, toWorklet, toProvider, open, admitted>>

\* runtime.stop() is through.
EngineStopped ==
  /\ bridge.engine = "stopping"
  /\ bridge' = [bridge EXCEPT !.engine = "down"]
  /\ UNCHANGED <<bridgeOnly, toWorklet, toProvider, open, admitted>>

\* It has rejected, after every clean-up was tried: an error is reported, if there is a
\* pipe, and the worklet exits.
EngineStopFails ==
  /\ bridge.engine = "stopping"
  /\ bridge' = [bridge EXCEPT !.engine = "down", !.at = "ending"]
  /\ open' = FALSE
  /\ toProvider' = IF open /\ Len(toProvider) < Wire THEN Append(toProvider, "error") ELSE toProvider
  /\ UNCHANGED <<bridgeOnly, toWorklet, admitted>>

\* Fault: the stop is acknowledged while the engine still stops.
AcknowledgesEarly ==
  /\ bridge.at = "stopping" /\ bridge.engine # "starting"
  /\ bridge' = [bridge EXCEPT !.at = "reading"]
  /\ Send("stopped")
  /\ UNCHANGED <<bridgeOnly, toWorklet, admitted>>

\* shutdown() is through.
Acknowledges ==
  /\ bridge.at = "stopping" /\ bridge.engine \in {"none", "down"}
  /\ bridge' = [bridge EXCEPT !.at = "reading"]
  /\ Send("stopped")
  /\ UNCHANGED <<bridgeOnly, toWorklet, admitted>>

\* The engine fails while it is not being stopped: the pipe is closed.
EngineFails ==
  /\ bridge.engine = "up" /\ bridge.state = "running" /\ open
  /\ open' = FALSE
  /\ UNCHANGED <<bridgeOnly, bridge, toWorklet, toProvider, admitted>>

\* The engine reports a peer, also while it stops, or has a packet for the Mac, which
\* it waits to send.
EngineSends ==
  /\ bridge.engine \in {"up", "stopping"} /\ open
  /\ \/ Send("peer")
     \/ bridge.engine = "up" /\ Len(toProvider) < Wire /\ Send("packet")
  /\ UNCHANGED <<bridgeOnly, bridge, toWorklet, admitted>>

-----------------------------------------------------------------------------
(* The specification *)

Init ==
  /\ phase = "stopped" /\ session = NoSession /\ lock = FALSE /\ timer = "off"
  /\ out = Nothing /\ started = "none" /\ ended = "none"
  /\ calls = <<>> /\ routes = "none" /\ saved \in BOOLEAN
  /\ toWorklet = <<>> /\ toProvider = <<>>
  /\ bridge = NoBridge /\ open = FALSE /\ admitted = FALSE

Receive ==
  \/ ReceiveSettings \/ ReceivePaired \/ ReceivePairError \/ ReceiveRunning
  \/ ReceiveTraffic \/ ReceiveStopped \/ Unexpected \/ Closed

Bridge ==
  \/ PairBegins \/ PairEnds \/ StartBegins \/ EngineStarts \/ EngineStarted
  \/ EngineStartFails \/ Delivers \/ StopBegins \/ LoopEnds
  \/ EngineStops \/ EngineStopped \/ EngineStopFails \/ Acknowledges
  \/ EngineFails \/ EngineSends

Next ==
  \/ \E pairing \in BOOLEAN : StartTunnel(pairing)
  \/ StopTunnel \/ Timeout \/ Killed
  \/ Written \/ \E n \in 0..(Limit + 1) : PacketsRead(n)
  \/ Receive \/ SettingsDone \/ SettingsFail
  \/ Bridge

Spec == Init /\ [][Next]_vars

\* Timers fire.  Nothing is asked of the worklet, of the system or of the pipes.
FairSpec == Spec /\ WF_vars(Timeout)

-----------------------------------------------------------------------------
(* Properties *)

TypeOK ==
  /\ phase \in {"stopped", "started", "stopping"}
  /\ session \in [pairing : BOOLEAN, requested : BOOLEAN, applied : BOOLEAN, running : BOOLEAN]
  /\ lock \in BOOLEAN /\ open \in BOOLEAN /\ saved \in BOOLEAN /\ admitted \in BOOLEAN
  /\ timer \in {"off", "start", "stop"}
  /\ out \in [pending : Seq(Frames), inFlight : Frames \cup {None}, reading : BOOLEAN]
  /\ Count(out) <= Limit
  /\ started \in {"none", "waiting", "ok", "failed", "definite", "unknown"}
  /\ ended \in {"none", "refused", "graceful", "timeout", "killed", "conflict",
                "unexpected", "rejected", "error", "closed", "settings"}
  /\ calls \in Seq({"new", "old"}) /\ routes \in {"none", "new", "old"}
  /\ toWorklet \in Seq(Frames) /\ Len(toWorklet) <= Wire
  /\ toProvider \in Seq(Replies) /\ Len(toProvider) <= Wire
  /\ bridge \in [state : {"none", "initial", "settings", "starting", "running", "stopped"},
                 at : {"none", "reading", "pairing", "stopping", "ending"},
                 engine : {"none", "starting", "up", "stopping", "down"}]

\* "Terminating this dedicated provider process keeps the identity lock until the OS has
\* stopped every thread": while the worklet pairs, or its engine lives in any way, the
\* process holds the lock, whatever fails and whoever stops it.
EngineHasLock ==
  bridge.at = "pairing" \/ bridge.engine \in {"starting", "up", "stopping"} => lock

\* What the system and the app are told of a start is true.  A tunnel that runs has the
\* settings of this session in force, not those of a call the session before made, its engine
\* has started, and packets of the Mac are waited for, now or after the write under way, so
\* that they never come to a standstill.  A pairing that is reported has been admitted by the
\* receiver and saved; one that is reported to have failed for a definite reason has admitted
\* nobody, although routes are checked, settings applied and the result saved after the
\* receiver has committed.
ReportsAreTrue ==
  /\ session.running =>
       /\ routes = "new"
       /\ IF session.pairing THEN admitted /\ saved
          ELSE /\ bridge.engine \notin {"none", "starting"}
               /\ out.reading \/ out.inFlight # None
  /\ started = "definite" => ~admitted

\* The two sides understand each other: whatever stops, fails and races, the worklet
\* never gets a frame it has to refuse, a tunnel that has started is never ended by a frame
\* the provider did not expect, and there is always room for the stop.
Understood ==
  /\ bridge.at = "reading" /\ open /\ toWorklet # <<>> => Accepts(Head(toWorklet))
  /\ started = "ok" => ended # "unexpected"
  /\ phase = "started" => Count(DiscardPackets(out)) < Limit

\* Every start is answered and every stop comes to an end, however the worklet hangs.
EveryCallIsAnswered ==
  /\ started = "waiting" ~> started # "waiting"
  /\ phase = "stopping" ~> phase = "stopped"

=============================================================================
