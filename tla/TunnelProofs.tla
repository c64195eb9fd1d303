--------------------------- MODULE TunnelProofs ----------------------------
(***************************************************************************)
(* Proofs about Tunnel for any length of the pipes and any limit of the    *)
(* provider's queue: the lock, what is reported and what is understood.    *)
(***************************************************************************)
EXTENDS Tunnel, SequenceTheorems, WellFoundedInduction, TLAPS

-----------------------------------------------------------------------------
(* The inductive invariant *)

\* Between sessions there is nothing but calls of the past.
AtRest ==
  phase = "stopped" =>
    /\ session = NoSession /\ out = Nothing /\ toWorklet = <<>> /\ toProvider = <<>>
    /\ bridge.at = "none" /\ bridge.engine \in {"none", "down"} /\ ~open
    /\ \A i \in 1 .. Len(calls) : calls[i] = "old"

\* In a session the lock is held, and its start waits or is through.
Held ==
  phase # "stopped" =>
    /\ lock /\ started \in {"waiting", "ok"} /\ ended = "none"
    /\ bridge.state # "none" /\ bridge.at # "none"

\* How far the session is.
Progress ==
  /\ session.applied => session.requested
  /\ session.running => phase = "started" /\ session.applied /\ started = "ok"
  /\ phase # "stopped" /\ started = "ok" =>
       /\ session.requested
       /\ phase = "started" => session.running
       /\ ~session.pairing => bridge.engine \notin {"none", "starting"}
  /\ session.running /\ ~session.pairing =>
       /\ open => bridge.state = "running"
       /\ out.reading \/ out.inFlight # None
  /\ phase = "started" /\ ~session.pairing /\ session.requested /\ ~session.applied =>
       bridge.state = "settings"

\* The call of this session is behind those of earlier ones, and the last to be through.
Asked ==
  phase = "started" =>
    /\ ~session.requested => \A i \in 1 .. Len(calls) : calls[i] = "old"
    /\ session.requested /\ ~session.applied =>
         calls # <<>> /\ \A i \in 1 .. Len(calls) : calls[i] = "new" <=> i = Len(calls)
    /\ session.applied => calls = <<>> /\ routes = "new"

\* Packets may be on their way only where the engine has them, if anybody reads them.
Flows == session.applied /\ ~session.pairing /\ (open => bridge.state = "running")

\* What the provider has to write.
Output ==
  /\ out.inFlight = None => out.pending = <<>>
  /\ phase = "started" => /\ \A i \in 1 .. Len(out.pending) : out.pending[i] = "packet"
                          /\ out.inFlight # "stop"
  /\ phase = "stopping" => out.pending \in {<<>>, <<"stop">>}
  /\ out.inFlight = "stop" => out.pending = <<>>
  /\ out.inFlight = "packet" \/ (\E i \in 1 .. Len(out.pending) : out.pending[i] = "packet") => Flows
  /\ out.reading => ~session.pairing

Opening == {"pair", "start", "ready"}

\* The worklet is where it takes such a frame.
Opens(f) ==
  /\ f = "pair"  => bridge.state = "initial" /\ session.pairing
  /\ f = "start" => bridge.state = "initial" /\ ~session.pairing
  /\ f = "ready" => bridge.state = "settings" /\ session.applied

\* The frames on their way: those that open something come alone, the stop comes last.
Stream ==
  /\ out.inFlight \in Opening => toWorklet = <<>> /\ Opens(out.inFlight)
  /\ \A i \in 1 .. Len(toWorklet) :
       /\ toWorklet[i] \in Opening => i = 1 /\ Opens(toWorklet[i])
       /\ toWorklet[i] = "packet" => Flows
       /\ toWorklet[i] = "stop" => i = Len(toWorklet) /\ out.inFlight = None /\ phase = "stopping"
  /\ phase # "stopped" /\ open /\ bridge.state = "stopped" =>
       phase = "stopping" /\ toWorklet = <<>> /\ out.inFlight = None

\* The replies that come once, before all others.
Early == {"settings", "paired", "rejected", "unclear", "running"}

Replied ==
  \A i \in 1 .. Len(toProvider) :
    /\ toProvider[i] \in Early => i = 1 /\ started = "waiting"
    /\ toProvider[i] = "settings" => /\ ~session.pairing /\ ~session.requested
                                     /\ phase = "started" => bridge.state = "settings"
    /\ toProvider[i] \in {"paired", "rejected", "unclear"} => session.pairing /\ ~session.requested
    /\ toProvider[i] = "paired" => admitted
    /\ toProvider[i] = "rejected" => ~admitted
    /\ toProvider[i] = "running" => /\ ~session.pairing
                                    /\ bridge.engine \notin {"none", "starting"}
                                    /\ open => bridge.state \in {"running", "stopped"}
    /\ toProvider[i] = "stopped" => /\ phase = "stopping" /\ bridge.state = "stopped"
                                    /\ bridge.at # "pairing" /\ bridge.engine \in {"none", "down"}

\* Where the worklet is.
Works ==
  phase # "stopped" =>
    /\ bridge.state = "initial" =>
         /\ bridge.at = "reading" /\ bridge.engine = "none" /\ open /\ toProvider = <<>>
         /\ ~session.requested /\ ~admitted
    /\ bridge.state = "settings" =>
         /\ bridge.at = "reading" /\ bridge.engine = "none" /\ open /\ ~session.pairing
         /\ \A i \in 1 .. Len(toProvider) : toProvider[i] = "settings"
    /\ bridge.at = "pairing" =>
         /\ session.pairing /\ ~session.requested /\ toProvider = <<>> /\ ~admitted
         /\ bridge.state = "starting"
    /\ session.pairing => bridge.engine = "none"
    /\ bridge.engine = "starting" =>
         /\ toProvider = <<>> /\ session.applied /\ started = "waiting"
         /\ bridge.state \in {"starting", "stopped"}
    /\ bridge.at = "stopping" => phase = "stopping"
    /\ bridge.at \in {"stopping", "ending"} \/ bridge.engine = "stopping" => bridge.state = "stopped"
    /\ bridge.state = "stopped" /\ bridge.at = "reading" => bridge.engine \in {"none", "down"}

\* What is behind the reports.
Truth ==
  /\ session.pairing /\ session.requested => admitted
  /\ session.pairing /\ session.running => saved
  /\ started = "definite" => phase = "stopped" /\ ~admitted
  /\ started = "ok" => ended # "unexpected"

IInv == TypeOK /\ AtRest /\ Held /\ Progress /\ Asked /\ Output /\ Stream /\ Replied /\ Works /\ Truth

-----------------------------------------------------------------------------
(* Sequences *)

LEMMA TailOf ==
  ASSUME NEW S, NEW s \in Seq(S), s # <<>>
  PROVE  /\ Tail(s) \in Seq(S) /\ Len(s) \in Nat /\ Len(s) >= 1 /\ Len(Tail(s)) = Len(s) - 1
         /\ Head(s) = s[1] /\ s[1] \in S
         /\ \A i \in 1 .. Len(Tail(s)) :
              i + 1 \in 1 .. Len(s) /\ i + 1 # 1 /\ Tail(s)[i] = s[i + 1] /\ s[i + 1] \in S
<1>1. Len(s) \in Nat /\ Len(s) >= 1
  BY EmptySeq, LenProperties
<1>2. Tail(s) \in Seq(S) /\ Len(Tail(s)) = Len(s) - 1 /\ \A i \in 1 .. Len(Tail(s)) : Tail(s)[i] = s[i + 1]
  BY HeadTailProperties
<1>3. \A i \in 1 .. Len(s) : s[i] \in S
  BY ElementOfSeq
<1>4. \A i \in 1 .. Len(Tail(s)) : i + 1 \in 1 .. Len(s) /\ i + 1 # 1
  BY <1>1, <1>2
<1> QED BY <1>1, <1>2, <1>3, <1>4

LEMMA AppendOf ==
  ASSUME NEW S, NEW s \in Seq(S), NEW f \in S
  PROVE  /\ Append(s, f) \in Seq(S) /\ Len(s) \in Nat /\ Len(Append(s, f)) = Len(s) + 1
         /\ Append(s, f) # <<>> /\ (s = <<>> => Append(s, f) = <<f>>)
         /\ \A i \in 1 .. Len(Append(s, f)) :
              \/ i \in 1 .. Len(s) /\ i # Len(s) + 1 /\ Append(s, f)[i] = s[i]
              \/ i = Len(s) + 1 /\ Append(s, f)[i] = f
<1>1. /\ Append(s, f) \in Seq(S) /\ Len(s) \in Nat /\ Len(Append(s, f)) = Len(s) + 1
      /\ \A i \in 1 .. Len(s) : Append(s, f)[i] = s[i]
      /\ Append(s, f)[Len(s) + 1] = f
  BY AppendProperties, LenProperties
<1>2. Append(s, f) # <<>>
  BY <1>1, EmptySeq
<1>3. s = <<>> => Append(s, f) = <<f>>
  OBVIOUS
<1>4. \A i \in 1 .. Len(s) + 1 : (i \in 1 .. Len(s) /\ i # Len(s) + 1) \/ i = Len(s) + 1
  BY <1>1
<1> QED BY <1>1, <1>2, <1>3, <1>4

\* A nonempty set of natural numbers has a least element.
LEMMA LeastExists ==
  ASSUME NEW S \in SUBSET Nat, S # {}
  PROVE  \E x \in S : \A y \in S : x <= y
<1> DEFINE R == OpToRel(<, Nat)
<1>1. IsWellFoundedOn(R, Nat)
  BY NatLessThanWellFounded
<1>2. \A x, y \in Nat : y < x => <<y, x>> \in R
  BY DEF OpToRel
<1> HIDE DEF R
<1>3. PICK x \in S : \A y \in S : <<y, x>> \notin R
  BY <1>1, WFMin
<1>4. x \in Nat /\ \A y \in S : y \in Nat /\ ~(y < x)
  BY <1>2, <1>3
<1>5. \A y \in S : x <= y
  BY <1>4
<1> QED BY <1>5

\* Nothing is left of a sequence all of whose elements are sifted out.
LEMMA AllSifted ==
  ASSUME NEW S, NEW s \in Seq(S), NEW K, \A i \in 1 .. Len(s) : s[i] \in K
  PROVE  Sifted(s, K) = <<>>
<1> DEFINE Solves(g) == g = [n \in 0 .. Len(s) |->
                              IF n = 0 THEN <<>>
                              ELSE IF s[n] \in K THEN g[n - 1] ELSE Append(g[n - 1], s[n])]
           left == CHOOSE g : Solves(g)
           void == [n \in 0 .. Len(s) |-> <<>>]
<1>0. Len(s) \in Nat
  BY LenProperties
<1>1. Solves(void)
  <2>1. \A n \in 0 .. Len(s) : n # 0 => n \in 1 .. Len(s) /\ n - 1 \in 0 .. Len(s)
    BY <1>0
  <2> QED BY <2>1
<1>2. Solves(left)
  BY <1>1
<1>3. Sifted(s, K) = left[Len(s)]
  BY DEF Sifted
<1> HIDE DEF left, void
<1>4. \A n \in 0 .. Len(s) : left[n] = IF n = 0 THEN <<>>
                                      ELSE IF s[n] \in K THEN left[n - 1] ELSE Append(left[n - 1], s[n])
  BY <1>2
<1> HIDE DEF Solves
<1> DEFINE Bad == {n \in 0 .. Len(s) : left[n] # <<>>}
<1>5. ASSUME Bad # {} PROVE FALSE
  <2>1. PICK n \in Bad : \A k \in Bad : n <= k
    <3>1. Bad \in SUBSET Nat
      BY <1>0
    <3> HIDE DEF Bad
    <3> QED BY <1>5, <3>1, LeastExists
  <2>2. n \in 0 .. Len(s) /\ left[n] # <<>>
    OBVIOUS
  <2>3. n # 0
    BY <1>0, <1>4, <2>2
  <2>4. n - 1 \in 0 .. Len(s) /\ n \in 1 .. Len(s) /\ ~(n <= n - 1)
    BY <1>0, <2>2, <2>3
  <2>5. left[n - 1] = <<>>
    BY <2>1, <2>4
  <2> QED BY <1>4, <2>2, <2>3, <2>4, <2>5
<1>6. Len(s) \in 0 .. Len(s)
  BY <1>0
<1> QED BY <1>3, <1>5, <1>6

-----------------------------------------------------------------------------
(* The end of a session *)

Starts == {"none", "waiting", "ok", "failed", "definite", "unknown"}
Ends   == {"none", "refused", "graceful", "timeout", "killed", "conflict",
           "unexpected", "rejected", "error", "closed", "settings"}

\* Whatever came before, nothing of it stays.
LEMMA ResetKeeps ==
  ASSUME Reset, NEW e \in {"none", "down"}, bridge' = [NoBridge EXCEPT !.engine = e],
         calls' \in Seq({"new", "old"}), \A i \in 1 .. Len(calls') : calls'[i] = "old",
         started' \in Starts, ended' \in Ends, saved' \in BOOLEAN, admitted' \in BOOLEAN,
         started' = "definite" => ~admitted', started' = "ok" => ended' # "unexpected"
  PROVE  IInv'
<1>1. /\ phase' = "stopped" /\ session' = NoSession /\ lock' = FALSE
      /\ timer' = "off" /\ out' = Nothing /\ routes' = "none"
      /\ toWorklet' = <<>> /\ toProvider' = <<>> /\ open' = FALSE
  BY DEF Reset
<1>2. /\ ~session'.pairing /\ ~session'.requested /\ ~session'.applied /\ ~session'.running
      /\ session' \in [pairing : BOOLEAN, requested : BOOLEAN, applied : BOOLEAN, running : BOOLEAN]
  BY <1>1 DEF NoSession
<1>3. /\ out'.pending = <<>> /\ out'.inFlight = None /\ ~out'.reading
      /\ out' \in [pending : Seq(Frames), inFlight : Frames \cup {None}, reading : BOOLEAN]
      /\ Len(<<>>) = 0
  BY <1>1 DEF Nothing
<1>4. /\ bridge'.state = "none" /\ bridge'.at = "none" /\ bridge'.engine = e
      /\ bridge' \in [state : {"none", "initial", "settings", "starting", "running", "stopped"},
                      at : {"none", "reading", "pairing", "stopping", "ending"},
                      engine : {"none", "starting", "up", "stopping", "down"}]
  BY DEF NoBridge
<1>5. TypeOK'
  <2>1. Count(out)' = 0
    BY <1>3 DEF Count
  <2>2. toWorklet' \in Seq(Frames) /\ Len(toWorklet') <= Wire
    BY <1>1, <1>3, TunnelAssumption
  <2>3. toProvider' \in Seq(Replies) /\ Len(toProvider') <= Wire
    BY <1>1, <1>3, TunnelAssumption
  <2>4. Count(out)' <= Limit
    BY <2>1, TunnelAssumption
  <2>5. phase' \in {"stopped", "started", "stopping"} /\ lock' \in BOOLEAN /\ open' \in BOOLEAN
    BY <1>1
  <2>6. timer' \in {"off", "start", "stop"} /\ routes' \in {"none", "new", "old"}
    BY <1>1
  <2> QED BY <1>2, <1>3, <1>4, <2>2, <2>3, <2>4, <2>5, <2>6 DEF TypeOK, Starts, Ends
<1>6. AtRest'
  BY <1>1, <1>4 DEF AtRest
<1>7. Held' /\ Asked' /\ Works'
  BY <1>1 DEF Held, Asked, Works
<1>8. Progress'
  BY <1>1, <1>2 DEF Progress
<1>9. Output'
  BY <1>1, <1>2, <1>3, TunnelNone DEF Output, Frames
<1>10. Stream'
  BY <1>1, <1>3, TunnelNone DEF Stream, Opening, Frames
<1>11. Replied'
  BY <1>1, <1>3 DEF Replied
<1>12. Truth'
  BY <1>1, <1>2 DEF Truth
<1> QED BY <1>5, <1>6, <1>7, <1>8, <1>9, <1>10, <1>11, <1>12 DEF IInv

\* A failure ends the process.  Nothing was admitted where it says so.
LEMMA FailKeeps ==
  ASSUME IInv, NEW told \in {"unknown", "definite"}, NEW why \in Ends, Fail(told, why),
         saved' \in BOOLEAN, admitted' = admitted,
         session.pairing /\ told = "definite" => ~admitted,
         why = "unexpected" => started # "ok"
  PROVE  IInv'
<1>1. /\ Reset /\ bridge' = NoBridge /\ calls' = <<>> /\ ended' = why
      /\ started' = IF started # "waiting" THEN started
                    ELSE IF session.pairing THEN told ELSE "failed"
  BY DEF Fail
<1>2. started \in Starts /\ admitted \in BOOLEAN /\ (started = "definite" => ~admitted)
  BY DEF IInv, TypeOK, Truth, Starts
<1>3. /\ started' \in Starts /\ ended' \in Ends
      /\ started' = "definite" => ~admitted'
      /\ started' = "ok" => ended' # "unexpected"
  BY <1>1, <1>2 DEF Starts
<1>4. bridge' = [NoBridge EXCEPT !.engine = "none"]
  BY <1>1 DEF NoBridge
<1>5. calls' \in Seq({"new", "old"}) /\ \A i \in 1 .. Len(calls') : calls'[i] = "old"
  BY <1>1
<1> QED BY <1>1, <1>2, <1>3, <1>4, <1>5, ResetKeeps

\* A stop that was acknowledged: the engine is down.
LEMMA FinishKeeps ==
  ASSUME IInv, Finish, bridge.engine \in {"none", "down"}, UNCHANGED <<saved, admitted>>
  PROVE  IInv'
<1>1. /\ Reset /\ bridge' = [NoBridge EXCEPT !.engine = bridge.engine]
      /\ calls' = [i \in DOMAIN calls |-> "old"] /\ ended' = "graceful"
      /\ started' = IF started # "waiting" THEN started
                    ELSE IF session.pairing THEN "unknown" ELSE "failed"
  BY DEF Finish
<1>2. /\ started \in Starts /\ admitted \in BOOLEAN /\ saved \in BOOLEAN
      /\ (started = "definite" => ~admitted) /\ calls \in Seq({"new", "old"})
  BY DEF IInv, TypeOK, Truth, Starts
<1>3. /\ started' \in Starts /\ ended' \in Ends
      /\ started' = "definite" => ~admitted'
  BY <1>1, <1>2 DEF Starts, Ends
<1>4. calls' \in Seq({"new", "old"}) /\ \A i \in 1 .. Len(calls') : calls'[i] = "old"
  <2>1. DOMAIN calls = 1 .. Len(calls) /\ Len(calls) \in Nat
    BY <1>2, LenProperties
  <2> QED BY <1>1, <2>1
<1> QED BY <1>1, <1>2, <1>3, <1>4, ResetKeeps

LEMMA TimeoutKeeps == ASSUME IInv, Timeout PROVE IInv'
BY FailKeeps DEF Timeout, Ends, IInv, TypeOK

LEMMA KilledKeeps == ASSUME IInv, Killed PROVE IInv'
BY FailKeeps DEF Killed, Ends, IInv, TypeOK

LEMMA ClosedKeeps == ASSUME IInv, Closed PROVE IInv'
BY FailKeeps DEF Closed, Ends, IInv, TypeOK

-----------------------------------------------------------------------------
(* What the first frame from the worklet says *)

LEMMA FirstReply ==
  ASSUME IInv, toProvider # <<>>
  PROVE  LET f == Head(toProvider) IN
         /\ f \in Replies
         /\ f \in Early => started = "waiting"
         /\ f = "settings" => /\ ~session.pairing /\ ~session.requested
                              /\ phase = "started" => bridge.state = "settings"
         /\ f \in {"paired", "rejected", "unclear"} => session.pairing /\ ~session.requested
         /\ f = "paired" => admitted
         /\ f = "rejected" => ~admitted
         /\ f = "running" => /\ ~session.pairing
                             /\ bridge.engine \notin {"none", "starting"}
                             /\ open => bridge.state \in {"running", "stopped"}
         /\ f = "stopped" => /\ phase = "stopping" /\ bridge.state = "stopped"
                             /\ bridge.at # "pairing" /\ bridge.engine \in {"none", "down"}
<1>1. toProvider \in Seq(Replies) /\ Replied
  BY DEF IInv, TypeOK
<1>2. Head(toProvider) = toProvider[1] /\ 1 \in 1 .. Len(toProvider) /\ toProvider[1] \in Replies
  BY <1>1, TailOf
<1> QED BY <1>1, <1>2 DEF Replied

\* A tunnel that has started understands whatever the worklet sends.
LEMMA UnexpectedKeeps == ASSUME IInv, Unexpected PROVE IInv'
<1> DEFINE f   == Head(toProvider)
           why == IF f = "error" THEN "error" ELSE "unexpected"
<1>1. /\ phase # "stopped" /\ toProvider # <<>> /\ ~Expects(f)
      /\ Fail("unknown", why) /\ UNCHANGED <<saved, admitted>>
  BY DEF Unexpected, Arrived
<1>2. f # "error" => started # "ok"
  <2> SUFFICES ASSUME f # "error", started = "ok" PROVE FALSE
    OBVIOUS
  <2>1. /\ f \in Replies /\ f \notin Early /\ (f = "stopped" => phase = "stopping")
    BY <1>1, FirstReply
  <2>2. session.requested /\ (phase = "started" => session.running)
    BY <1>1 DEF IInv, Progress
  <2>3. phase \in {"started", "stopping"}
    BY <1>1 DEF IInv, TypeOK
  <2>4. f \in {"peer", "packet", "stopped"}
    BY <2>1 DEF Replies, Early
  <2> HIDE DEF f
  <2> QED BY <1>1, <2>1, <2>2, <2>3, <2>4 DEF Expects
<1>3. saved \in BOOLEAN
  BY DEF IInv, TypeOK
<1>4. why \in Ends /\ (why = "unexpected" => started # "ok")
  BY <1>2 DEF Ends
<1> HIDE DEF why
<1> QED BY <1>1, <1>3, <1>4, FailKeeps

LEMMA ReceivePairErrorKeeps == ASSUME IInv, ReceivePairError PROVE IInv'
<1>1. saved \in BOOLEAN /\ UNCHANGED <<saved, admitted>>
  BY DEF ReceivePairError, IInv, TypeOK
<1>2. CASE Receives("rejected") /\ Fail("definite", "rejected")
  <2>1. ~admitted
    BY <1>2, FirstReply DEF Receives, Arrived
  <2> QED BY <1>1, <1>2, <2>1, FailKeeps DEF Ends
<1>3. CASE Receives("unclear") /\ Fail("unknown", "rejected")
  BY <1>1, <1>3, FailKeeps DEF Ends
<1> QED BY <1>2, <1>3 DEF ReceivePairError

LEMMA ReceiveStoppedKeeps == ASSUME IInv, ReceiveStopped PROVE IInv'
<1>1. bridge.engine \in {"none", "down"}
  BY FirstReply DEF ReceiveStopped, Receives, Arrived
<1> QED BY <1>1, FinishKeeps DEF ReceiveStopped

-----------------------------------------------------------------------------
(* The worklet *)

Bridges == [state : {"none", "initial", "settings", "starting", "running", "stopped"},
            at : {"none", "reading", "pairing", "stopping", "ending"},
            engine : {"none", "starting", "up", "stopping", "down"}]

\* Its steps leave the provider and the system alone.
Same == UNCHANGED <<phase, session, lock, timer, out, started, ended, calls, routes, saved>>

LEMMA BridgeOnly == ASSUME UNCHANGED bridgeOnly PROVE Same
BY DEF bridgeOnly, provider, system, Same

\* What a step of the worklet that reads and sends nothing keeps.
LEMMA QuietKeeps ==
  ASSUME IInv, Same, UNCHANGED <<toWorklet, toProvider, admitted>>, phase # "stopped",
         bridge' \in Bridges, bridge'.at = bridge.at \/ bridge'.at = "ending",
         \/ bridge'.state = bridge.state
         \/ bridge'.state = "stopped" /\ bridge'.at = "ending" /\ ~open,
         bridge.state # "initial", bridge.state # "settings", bridge'.at # "none",
         open' \in BOOLEAN, open' => open,
         bridge'.engine \in {bridge.engine, "none", "stopping", "down"},
         bridge'.engine = "none" => bridge.engine \in {"none", "starting"},
         bridge'.engine = "stopping" => bridge'.state = "stopped" /\ bridge'.at # "reading",
         bridge'.at = "ending" => bridge'.state = "stopped",
         bridge.engine \in {"none", "down"} => bridge'.engine = bridge.engine,
         bridge.engine = "starting" => bridge'.engine \in {"none", "starting"}
  PROVE  IInv'
<1>0. /\ phase' = phase /\ session' = session /\ lock' = lock /\ timer' = timer /\ out' = out
      /\ started' = started /\ ended' = ended /\ calls' = calls /\ routes' = routes
      /\ saved' = saved /\ toWorklet' = toWorklet /\ toProvider' = toProvider
      /\ admitted' = admitted
  BY DEF Same
<1> USE <1>0 DEF IInv
<1>1. TypeOK'
  BY DEF TypeOK, Bridges, Count
<1>2. AtRest' /\ Held' /\ Asked'
  BY DEF AtRest, Held, Asked
<1>3. Progress'
  BY DEF Progress
<1>4. Output'
  BY DEF Output, Flows
<1>5. Stream'
  BY DEF Stream, Opens, Opening, Flows
<1>6. Replied'
  BY DEF Replied
<1>7. Works'
  BY DEF Works
<1>8. Truth'
  BY DEF Truth
<1> QED BY <1>1, <1>2, <1>3, <1>4, <1>5, <1>6, <1>7, <1>8

\* Between sessions the worklet does nothing.
LEMMA InSession ==
  ASSUME IInv, bridge.at # "none" \/ bridge.engine \notin {"none", "down"} \/ open
  PROVE  phase # "stopped" /\ bridge \in Bridges /\ open \in BOOLEAN /\ bridge.state # "none" /\ bridge.at # "none"
<1>1. phase # "stopped" /\ bridge \in Bridges /\ open \in BOOLEAN
  BY DEF IInv, TypeOK, AtRest, Bridges
<1> QED BY <1>1 DEF IInv, Held

LEMMA EngineStartFailsKeeps == ASSUME IInv, EngineStartFails PROVE IInv'
<1>1. phase # "stopped" /\ bridge \in Bridges /\ open \in BOOLEAN /\ bridge.at # "none"
  BY InSession DEF EngineStartFails
<1>2. /\ bridge.engine = "starting" /\ bridge' = [bridge EXCEPT !.engine = "none"] /\ open' = FALSE
      /\ Same /\ UNCHANGED <<toWorklet, toProvider, admitted>>
  BY BridgeOnly DEF EngineStartFails
<1>3. /\ bridge' \in Bridges /\ bridge'.engine = "none"
      /\ bridge'.at = bridge.at /\ bridge'.state = bridge.state
  BY <1>1, <1>2 DEF Bridges
<1>4. bridge.state \in {"starting", "stopped"} /\ (bridge.at = "ending" => bridge.state = "stopped")
  BY <1>1, <1>2 DEF IInv, Works
<1> QED BY <1>1, <1>2, <1>3, <1>4, QuietKeeps

LEMMA LoopEndsKeeps == ASSUME IInv, LoopEnds PROVE IInv'
<1>1. phase # "stopped" /\ bridge \in Bridges /\ open \in BOOLEAN
  BY InSession DEF LoopEnds
<1>2. /\ bridge.at = "reading" /\ ~open
      /\ bridge' = [bridge EXCEPT !.state = "stopped", !.at = "ending"]
      /\ open' = open /\ Same /\ UNCHANGED <<toWorklet, toProvider, admitted>>
  BY BridgeOnly DEF LoopEnds
<1>3. /\ bridge' \in Bridges /\ bridge'.engine = bridge.engine
      /\ bridge'.at = "ending" /\ bridge'.state = "stopped"
  BY <1>1, <1>2 DEF Bridges
<1>4. bridge.state # "initial" /\ bridge.state # "settings"
  BY <1>1, <1>2 DEF IInv, Works
<1> QED BY <1>1, <1>2, <1>3, <1>4, QuietKeeps

LEMMA EngineStopsKeeps == ASSUME IInv, EngineStops PROVE IInv'
<1>1. phase # "stopped" /\ bridge \in Bridges /\ open \in BOOLEAN /\ bridge.at # "none"
  BY InSession DEF EngineStops, ShuttingDown
<1>2. /\ bridge.at \in {"stopping", "ending"} /\ bridge.engine = "up"
      /\ bridge' = [bridge EXCEPT !.engine = "stopping"]
      /\ open' = open /\ Same /\ UNCHANGED <<toWorklet, toProvider, admitted>>
  BY BridgeOnly DEF EngineStops, ShuttingDown
<1>3. /\ bridge' \in Bridges /\ bridge'.engine = "stopping"
      /\ bridge'.at = bridge.at /\ bridge'.state = bridge.state
  BY <1>1, <1>2 DEF Bridges
<1>4. bridge.state = "stopped"
  BY <1>1, <1>2 DEF IInv, Works
<1> QED BY <1>1, <1>2, <1>3, <1>4, QuietKeeps

LEMMA EngineStoppedKeeps == ASSUME IInv, EngineStopped PROVE IInv'
<1>1. phase # "stopped" /\ bridge \in Bridges /\ open \in BOOLEAN /\ bridge.at # "none"
  BY InSession DEF EngineStopped
<1>2. /\ bridge.engine = "stopping" /\ bridge' = [bridge EXCEPT !.engine = "down"]
      /\ open' = open /\ Same /\ UNCHANGED <<toWorklet, toProvider, admitted>>
  BY BridgeOnly DEF EngineStopped
<1>3. /\ bridge' \in Bridges /\ bridge'.engine = "down"
      /\ bridge'.at = bridge.at /\ bridge'.state = bridge.state
  BY <1>1, <1>2 DEF Bridges
<1>4. bridge.state = "stopped"
  BY <1>1, <1>2 DEF IInv, Works
<1> QED BY <1>1, <1>2, <1>3, <1>4, QuietKeeps

LEMMA EngineFailsKeeps == ASSUME IInv, EngineFails PROVE IInv'
<1>1. phase # "stopped" /\ bridge \in Bridges /\ open \in BOOLEAN /\ bridge.at # "none"
  BY InSession DEF EngineFails
<1>2. /\ bridge.engine = "up" /\ bridge.state = "running" /\ bridge' = bridge
      /\ open' = FALSE /\ Same /\ UNCHANGED <<toWorklet, toProvider, admitted>>
  BY BridgeOnly DEF EngineFails
<1>3. bridge.at # "ending"
  BY <1>1, <1>2 DEF IInv, Works
<1> QED BY <1>1, <1>2, <1>3, QuietKeeps

\* A frame to the provider comes behind the others, or the pipe is closed.
LEMMA SendOf ==
  ASSUME TypeOK, NEW f \in Replies, Send(f)
  PROVE  /\ open' \in BOOLEAN /\ (open' => open)
         /\ toProvider' \in Seq(Replies) /\ Len(toProvider') <= Wire
         /\ \A i \in 1 .. Len(toProvider') :
              \/ i \in 1 .. Len(toProvider) /\ toProvider'[i] = toProvider[i]
              \/ i = Len(toProvider) + 1 /\ toProvider'[i] = f
         /\ toProvider = <<>> => /\ open => open'
                                 /\ \A i \in 1 .. Len(toProvider') : i = 1 /\ toProvider'[i] = f
<1>1. open \in BOOLEAN /\ toProvider \in Seq(Replies) /\ Len(toProvider) <= Wire
  BY DEF TypeOK
<1>2. Len(<<>>) = 0 /\ Wire \in Nat /\ Wire > 0
  BY TunnelAssumption
<1>3. CASE open /\ Len(toProvider) < Wire
  <2>1. toProvider' = Append(toProvider, f) /\ open' = open
    BY <1>3 DEF Send
  <2>2. /\ Append(toProvider, f) \in Seq(Replies) /\ Len(Append(toProvider, f)) = Len(toProvider) + 1
        /\ Len(toProvider) \in Nat
        /\ \A i \in 1 .. Len(Append(toProvider, f)) :
              \/ i \in 1 .. Len(toProvider) /\ i # Len(toProvider) + 1 /\ Append(toProvider, f)[i] = toProvider[i]
              \/ i = Len(toProvider) + 1 /\ Append(toProvider, f)[i] = f
    BY <1>1, AppendOf
  <2> QED BY <1>1, <1>2, <1>3, <2>1, <2>2
<1>4. CASE ~(open /\ Len(toProvider) < Wire)
  <2>1. toProvider' = toProvider /\ open' = FALSE
    BY <1>4 DEF Send
  <2>2. toProvider = <<>> => ~open /\ Len(toProvider) = 0
    BY <1>1, <1>2, <1>4
  <2>3. toProvider = <<>> => \A i \in 1 .. Len(toProvider') : i = 1 /\ toProvider'[i] = f
    BY <2>1, <2>2
  <2>4. /\ open' \in BOOLEAN /\ (open' => open)
        /\ toProvider' \in Seq(Replies) /\ Len(toProvider') <= Wire
        /\ \A i \in 1 .. Len(toProvider') : i \in 1 .. Len(toProvider) /\ toProvider'[i] = toProvider[i]
    BY <1>1, <2>1
  <2> QED BY <2>2, <2>3, <2>4
<1> QED BY <1>3, <1>4

\* The pairing is over, one way or the other.
LEMMA PairEndsKeeps == ASSUME IInv, PairEnds PROVE IInv'
<1>1. phase # "stopped" /\ bridge \in Bridges /\ open \in BOOLEAN
  BY InSession DEF PairEnds
<1>2. /\ bridge.at = "pairing" /\ bridge' = [bridge EXCEPT !.at = "reading"]
      /\ Same /\ toWorklet' = toWorklet
  BY BridgeOnly DEF PairEnds
<1>3. PICK f \in {"paired", "rejected", "unclear"} :
        /\ Send(f) /\ admitted' \in BOOLEAN
        /\ (f = "paired" => admitted') /\ (f = "rejected" => admitted' = admitted)
  BY DEF PairEnds, IInv, TypeOK
<1>4. /\ open' \in BOOLEAN /\ (open' => open)
      /\ toProvider' \in Seq(Replies) /\ Len(toProvider') <= Wire
      /\ \A i \in 1 .. Len(toProvider') : i = 1 /\ toProvider'[i] = f
  <2>1. toProvider = <<>>
    BY <1>1, <1>2 DEF IInv, Works
  <2>2. f \in Replies
    BY DEF Replies
  <2> QED BY <1>3, <2>1, <2>2, SendOf DEF IInv
<1>5. /\ bridge' \in Bridges /\ bridge'.engine = bridge.engine
      /\ bridge'.at = "reading" /\ bridge'.state = bridge.state
  BY <1>1, <1>2 DEF Bridges
<1>6. /\ session.pairing /\ ~session.requested /\ ~admitted
      /\ bridge.state = "starting" /\ bridge.engine = "none"
  BY <1>1, <1>2 DEF IInv, Works
<1>7. started = "waiting"
  BY <1>1, <1>6 DEF IInv, Held, Progress
<1>8. /\ phase' = phase /\ session' = session /\ lock' = lock /\ timer' = timer /\ out' = out
      /\ started' = started /\ ended' = ended /\ calls' = calls /\ routes' = routes
      /\ saved' = saved /\ toWorklet' = toWorklet
  BY <1>2 DEF Same
<1> USE <1>8 DEF IInv
<1>9. TypeOK'
  BY <1>3, <1>4, <1>5 DEF TypeOK, Bridges, Count
<1>10. AtRest' /\ Held' /\ Asked'
  BY <1>1, <1>5 DEF AtRest, Held, Asked
<1>11. Progress'
  BY <1>4, <1>5 DEF Progress
<1>12. Output'
  BY <1>4, <1>5 DEF Output, Flows
<1>13. Stream'
  BY <1>4, <1>5 DEF Stream, Opens, Opening, Flows
<1>14. Replied'
  BY <1>3, <1>4, <1>6, <1>7 DEF Replied
<1>15. Works'
  BY <1>5, <1>6 DEF Works
<1>16. Truth'
  BY <1>1, <1>6 DEF Truth
<1> QED BY <1>9, <1>10, <1>11, <1>12, <1>13, <1>14, <1>15, <1>16

\* What the worklet says later, when nothing depends on it but the end.
LEMMA LateSendKeeps ==
  ASSUME IInv, Same, UNCHANGED <<toWorklet, admitted>>, phase # "stopped",
         NEW f \in {"peer", "packet", "error", "stopped"},
         toProvider' \in Seq(Replies), Len(toProvider') <= Wire,
         \A i \in 1 .. Len(toProvider') :
           (i \in 1 .. Len(toProvider) /\ toProvider'[i] = toProvider[i]) \/ toProvider'[i] = f,
         open' \in BOOLEAN, open' => open,
         bridge \in Bridges, bridge' \in Bridges,
         bridge'.state = bridge.state, bridge.state \notin {"none", "initial", "settings"},
         bridge.engine # "starting", bridge.at # "pairing",
         \/ bridge'.engine = bridge.engine
         \/ bridge.engine = "stopping" /\ bridge'.engine = "down",
         bridge'.at \in {bridge.at, "reading", "ending"}, bridge'.at \notin {"none", "pairing"},
         bridge'.at = "ending" \/ bridge'.engine = "stopping" => bridge.state = "stopped",
         bridge'.at = "reading" /\ bridge.state = "stopped" => bridge'.engine \in {"none", "down"},
         f = "stopped" => phase = "stopping" /\ bridge.state = "stopped"
                          /\ bridge'.engine \in {"none", "down"}
  PROVE  IInv'
<1>0. /\ phase' = phase /\ session' = session /\ lock' = lock /\ timer' = timer /\ out' = out
      /\ started' = started /\ ended' = ended /\ calls' = calls /\ routes' = routes
      /\ saved' = saved /\ toWorklet' = toWorklet /\ admitted' = admitted
  BY DEF Same
<1> USE <1>0 DEF IInv
<1>1. TypeOK'
  BY DEF TypeOK, Bridges, Count
<1>2. AtRest' /\ Held' /\ Asked'
  BY DEF AtRest, Held, Asked
<1>3. Progress'
  BY DEF Progress
<1>4. Output'
  BY DEF Output, Flows
<1>5. Stream'
  BY DEF Stream, Opens, Opening, Flows
<1>6. Replied'
  BY DEF Replied, Early
<1>7. Works'
  BY DEF Works
<1>8. Truth'
  BY DEF Truth
<1> QED BY <1>1, <1>2, <1>3, <1>4, <1>5, <1>6, <1>7, <1>8

LEMMA EngineStopFailsKeeps == ASSUME IInv, EngineStopFails PROVE IInv'
<1>1. phase # "stopped" /\ bridge \in Bridges /\ open \in BOOLEAN /\ bridge.at # "none"
  BY InSession DEF EngineStopFails
<1>2. /\ bridge.engine = "stopping"
      /\ bridge' = [bridge EXCEPT !.engine = "down", !.at = "ending"] /\ open' = FALSE
      /\ toProvider' = IF open /\ Len(toProvider) < Wire THEN Append(toProvider, "error") ELSE toProvider
      /\ Same /\ UNCHANGED <<toWorklet, admitted>>
  BY BridgeOnly DEF EngineStopFails
<1>3. /\ bridge' \in Bridges /\ bridge'.engine = "down"
      /\ bridge'.at = "ending" /\ bridge'.state = bridge.state
  BY <1>1, <1>2 DEF Bridges
<1>4. bridge.state = "stopped" /\ bridge.at # "pairing"
  BY <1>1, <1>2 DEF IInv, Works
<1>5. /\ toProvider' \in Seq(Replies) /\ Len(toProvider') <= Wire
      /\ \A i \in 1 .. Len(toProvider') :
           (i \in 1 .. Len(toProvider) /\ toProvider'[i] = toProvider[i]) \/ toProvider'[i] = "error"
  <2>1. toProvider \in Seq(Replies) /\ Len(toProvider) <= Wire /\ "error" \in Replies /\ Wire \in Nat
    BY TunnelAssumption DEF IInv, TypeOK, Replies
  <2>2. /\ Append(toProvider, "error") \in Seq(Replies)
        /\ Len(Append(toProvider, "error")) = Len(toProvider) + 1 /\ Len(toProvider) \in Nat
        /\ \A i \in 1 .. Len(Append(toProvider, "error")) :
              \/ i \in 1 .. Len(toProvider) /\ i # Len(toProvider) + 1
                 /\ Append(toProvider, "error")[i] = toProvider[i]
              \/ i = Len(toProvider) + 1 /\ Append(toProvider, "error")[i] = "error"
    BY <2>1, AppendOf
  <2>3. CASE open /\ Len(toProvider) < Wire
    BY <1>2, <2>1, <2>2, <2>3
  <2>4. CASE ~(open /\ Len(toProvider) < Wire)
    BY <1>2, <2>1, <2>4
  <2> QED BY <2>3, <2>4
<1> QED BY <1>1, <1>2, <1>3, <1>4, <1>5, LateSendKeeps

\* The engine is down before the stop is acknowledged.
LEMMA AcknowledgesKeeps == ASSUME IInv, Acknowledges PROVE IInv'
<1>1. phase # "stopped" /\ bridge \in Bridges /\ open \in BOOLEAN
  BY InSession DEF Acknowledges
<1>2. /\ bridge.at = "stopping" /\ bridge.engine \in {"none", "down"}
      /\ bridge' = [bridge EXCEPT !.at = "reading"] /\ Send("stopped")
      /\ Same /\ UNCHANGED <<toWorklet, admitted>>
  BY BridgeOnly DEF Acknowledges
<1>3. /\ bridge' \in Bridges /\ bridge'.engine = bridge.engine
      /\ bridge'.at = "reading" /\ bridge'.state = bridge.state
  BY <1>1, <1>2 DEF Bridges
<1>4. bridge.state = "stopped" /\ phase = "stopping"
  BY <1>1, <1>2 DEF IInv, Works
<1>5. /\ open' \in BOOLEAN /\ (open' => open)
      /\ toProvider' \in Seq(Replies) /\ Len(toProvider') <= Wire
      /\ \A i \in 1 .. Len(toProvider') :
           (i \in 1 .. Len(toProvider) /\ toProvider'[i] = toProvider[i]) \/ toProvider'[i] = "stopped"
  <2>1. "stopped" \in Replies
    BY DEF Replies
  <2> QED BY <1>2, <2>1, SendOf DEF IInv
<1> QED BY <1>1, <1>2, <1>3, <1>4, <1>5, LateSendKeeps

LEMMA EngineSendsKeeps == ASSUME IInv, EngineSends PROVE IInv'
<1>1. phase # "stopped" /\ bridge \in Bridges /\ open \in BOOLEAN /\ bridge.at # "none" /\ bridge.state # "none"
  BY InSession DEF EngineSends
<1>2. /\ bridge.engine \in {"up", "stopping"} /\ bridge' = bridge
      /\ Same /\ UNCHANGED <<toWorklet, admitted>>
  BY BridgeOnly DEF EngineSends
<1>3. PICK f \in {"peer", "packet"} : Send(f)
  BY DEF EngineSends
<1>4. /\ open' \in BOOLEAN /\ (open' => open)
      /\ toProvider' \in Seq(Replies) /\ Len(toProvider') <= Wire
      /\ \A i \in 1 .. Len(toProvider') :
           (i \in 1 .. Len(toProvider) /\ toProvider'[i] = toProvider[i]) \/ toProvider'[i] = f
  <2>1. f \in Replies
    BY DEF Replies
  <2> QED BY <1>3, <2>1, SendOf DEF IInv
<1>5. /\ bridge.state \notin {"initial", "settings"} /\ bridge.at # "pairing"
      /\ bridge.at = "ending" \/ bridge.engine = "stopping" => bridge.state = "stopped"
      /\ bridge.at = "reading" /\ bridge.state = "stopped" => bridge.engine \in {"none", "down"}
  BY <1>1, <1>2 DEF IInv, Works
<1> QED BY <1>1, <1>2, <1>3, <1>4, <1>5, LateSendKeeps

\* The engine is up: the tunnel may run, unless it is being stopped.
LEMMA EngineStartedKeeps == ASSUME IInv, EngineStarted PROVE IInv'
<1>1. phase # "stopped" /\ bridge \in Bridges /\ open \in BOOLEAN /\ bridge.at # "none"
  BY InSession DEF EngineStarted
<1>2. bridge.engine = "starting" /\ Same /\ UNCHANGED <<toWorklet, admitted>>
  BY BridgeOnly DEF EngineStarted
<1>3. /\ toProvider = <<>> /\ session.applied /\ started = "waiting" /\ ~session.pairing
      /\ bridge.state \in {"starting", "stopped"} /\ bridge.at # "pairing"
  BY <1>1, <1>2 DEF IInv, Works
<1>4. /\ bridge' \in Bridges /\ bridge'.at = bridge.at /\ bridge'.engine = "up"
      /\ bridge'.state = IF bridge.state = "stopped" THEN "stopped" ELSE "running"
      /\ open' \in BOOLEAN /\ (open' => open)
      /\ toProvider' \in Seq(Replies) /\ Len(toProvider') <= Wire
      /\ \A i \in 1 .. Len(toProvider') : i = 1 /\ toProvider'[i] = "running"
  <2>1. CASE bridge.state = "stopped"
    <3>1. bridge' = [bridge EXCEPT !.engine = "up"] /\ UNCHANGED <<toProvider, open>>
      BY <2>1 DEF EngineStarted
    <3>2. Len(<<>>) = 0 /\ toProvider \in Seq(Replies) /\ Len(toProvider) <= Wire
      BY DEF IInv, TypeOK
    <3> QED BY <1>1, <1>3, <2>1, <3>1, <3>2 DEF Bridges
  <2>2. CASE bridge.state # "stopped"
    <3>1. bridge' = [bridge EXCEPT !.engine = "up", !.state = "running"] /\ Send("running")
      BY <2>2 DEF EngineStarted
    <3>2. "running" \in Replies
      BY DEF Replies
    <3>3. /\ open' \in BOOLEAN /\ (open' => open)
          /\ toProvider' \in Seq(Replies) /\ Len(toProvider') <= Wire
          /\ \A i \in 1 .. Len(toProvider') : i = 1 /\ toProvider'[i] = "running"
      BY <1>3, <3>1, <3>2, SendOf DEF IInv
    <3> QED BY <1>1, <2>2, <3>1, <3>3 DEF Bridges
  <2> QED BY <2>1, <2>2
<1>5. bridge.at # "reading" \/ bridge.state # "stopped"
  BY <1>1, <1>2 DEF IInv, Works
<1>6. ~session.running
  BY <1>3 DEF IInv, Progress
<1>7. /\ phase' = phase /\ session' = session /\ lock' = lock /\ timer' = timer /\ out' = out
      /\ started' = started /\ ended' = ended /\ calls' = calls /\ routes' = routes
      /\ saved' = saved /\ toWorklet' = toWorklet /\ admitted' = admitted
  BY <1>2 DEF Same
<1> USE <1>7 DEF IInv
<1>8. TypeOK'
  BY <1>4 DEF TypeOK, Bridges, Count
<1>9. AtRest' /\ Held' /\ Asked'
  BY <1>1, <1>4 DEF AtRest, Held, Asked
<1>10. Progress'
  BY <1>3, <1>4, <1>6 DEF Progress
<1>11. Output'
  BY <1>3, <1>4 DEF Output, Flows
<1>12. Stream'
  BY <1>3, <1>4 DEF Stream, Opens, Opening, Flows
<1>13. Replied'
  BY <1>3, <1>4 DEF Replied, Early
<1>14. Works'
  BY <1>1, <1>2, <1>3, <1>4, <1>5 DEF Works
<1>15. Truth'
  BY DEF Truth
<1> QED BY <1>8, <1>9, <1>10, <1>11, <1>12, <1>13, <1>14, <1>15

\* What the worklet reads is the frame in front.
LEMMA ReadsOf ==
  ASSUME IInv, NEW f, Reads(f)
  PROVE  /\ phase # "stopped" /\ bridge \in Bridges /\ open /\ open \in BOOLEAN /\ bridge.at = "reading"
         /\ Accepts(f) /\ toWorklet # <<>> /\ 1 \in 1 .. Len(toWorklet) /\ toWorklet[1] = f
         /\ f \in Frames
         /\ toWorklet' \in Seq(Frames) /\ Len(toWorklet') <= Wire
         /\ Len(toWorklet) \in Nat /\ Len(toWorklet') = Len(toWorklet) - 1
         /\ \A i \in 1 .. Len(toWorklet') :
              i + 1 \in 1 .. Len(toWorklet) /\ i + 1 # 1 /\ toWorklet'[i] = toWorklet[i + 1]
<1>1. /\ bridge.at = "reading" /\ open /\ toWorklet # <<>> /\ Head(toWorklet) = f /\ Accepts(f)
      /\ toWorklet' = Tail(toWorklet)
  BY DEF Reads
<1>2. phase # "stopped" /\ bridge \in Bridges /\ open \in BOOLEAN
  BY <1>1, InSession
<1>3. toWorklet \in Seq(Frames) /\ Len(toWorklet) <= Wire /\ Wire \in Nat
  BY TunnelAssumption DEF IInv, TypeOK
<1>4. /\ Tail(toWorklet) \in Seq(Frames) /\ Len(toWorklet) \in Nat /\ Len(toWorklet) >= 1
      /\ Len(Tail(toWorklet)) = Len(toWorklet) - 1
      /\ Head(toWorklet) = toWorklet[1] /\ toWorklet[1] \in Frames
      /\ \A i \in 1 .. Len(Tail(toWorklet)) :
           i + 1 \in 1 .. Len(toWorklet) /\ i + 1 # 1 /\ Tail(toWorklet)[i] = toWorklet[i + 1]
  BY <1>1, <1>3, TailOf
<1> QED BY <1>1, <1>2, <1>3, <1>4

LEMMA PairBeginsKeeps == ASSUME IInv, PairBegins PROVE IInv'
<1>1. /\ phase # "stopped" /\ bridge \in Bridges /\ open /\ bridge.at = "reading"
      /\ Accepts("pair") /\ 1 \in 1 .. Len(toWorklet) /\ toWorklet[1] = "pair" /\ toWorklet # <<>>
      /\ toWorklet' \in Seq(Frames) /\ Len(toWorklet') <= Wire
      /\ Len(toWorklet) \in Nat /\ Len(toWorklet') = Len(toWorklet) - 1
      /\ \A i \in 1 .. Len(toWorklet') :
           i + 1 \in 1 .. Len(toWorklet) /\ i + 1 # 1 /\ toWorklet'[i] = toWorklet[i + 1]
  BY ReadsOf DEF PairBegins
<1>2. /\ bridge' = [bridge EXCEPT !.state = "starting", !.at = "pairing"]
      /\ Same /\ UNCHANGED <<toProvider, open, admitted>>
  BY BridgeOnly DEF PairBegins
<1>3. bridge.state = "initial" /\ session.pairing
  BY <1>1 DEF IInv, Stream, Opens, Opening
<1>4. bridge.engine = "none" /\ toProvider = <<>> /\ ~session.requested /\ ~admitted
  BY <1>1, <1>3 DEF IInv, Works
<1>5. /\ bridge' \in Bridges /\ bridge'.engine = "none"
      /\ bridge'.at = "pairing" /\ bridge'.state = "starting"
  BY <1>1, <1>2, <1>4 DEF Bridges
<1>6. /\ phase' = phase /\ session' = session /\ lock' = lock /\ timer' = timer /\ out' = out
      /\ started' = started /\ ended' = ended /\ calls' = calls /\ routes' = routes
      /\ saved' = saved /\ toProvider' = toProvider /\ open' = open /\ admitted' = admitted
  BY <1>2 DEF Same
<1> USE <1>6 DEF IInv
<1>7. TypeOK'
  BY <1>1, <1>5 DEF TypeOK, Bridges, Count
<1>8. AtRest' /\ Held' /\ Asked'
  BY <1>1, <1>5 DEF AtRest, Held, Asked
<1>9. Progress'
  BY <1>3, <1>4, <1>5 DEF Progress
<1>10. Output'
  BY <1>1, <1>3 DEF Output, Flows
<1>11. Stream'
  BY <1>1, <1>3, <1>5 DEF Stream, Flows
<1>12. Replied'
  BY <1>4 DEF Replied
<1>13. Works'
  BY <1>3, <1>4, <1>5 DEF Works
<1>14. Truth'
  BY DEF Truth
<1> QED BY <1>7, <1>8, <1>9, <1>10, <1>11, <1>12, <1>13, <1>14

LEMMA StartBeginsKeeps == ASSUME IInv, StartBegins PROVE IInv'
<1>1. /\ phase # "stopped" /\ bridge \in Bridges /\ open /\ bridge.at = "reading"
      /\ Accepts("start") /\ 1 \in 1 .. Len(toWorklet) /\ toWorklet[1] = "start" /\ toWorklet # <<>>
      /\ toWorklet' \in Seq(Frames) /\ Len(toWorklet') <= Wire
      /\ Len(toWorklet) \in Nat /\ Len(toWorklet') = Len(toWorklet) - 1
      /\ \A i \in 1 .. Len(toWorklet') :
           i + 1 \in 1 .. Len(toWorklet) /\ i + 1 # 1 /\ toWorklet'[i] = toWorklet[i + 1]
  BY ReadsOf DEF StartBegins
<1>2. bridge' = [bridge EXCEPT !.state = "settings"] /\ Send("settings") /\ Same /\ admitted' = admitted
  BY BridgeOnly DEF StartBegins
<1>3. bridge.state = "initial" /\ ~session.pairing
  BY <1>1 DEF IInv, Stream, Opens, Opening
<1>4. bridge.engine = "none" /\ toProvider = <<>> /\ ~session.requested /\ ~admitted
  BY <1>1, <1>3 DEF IInv, Works
<1>5. /\ bridge' \in Bridges /\ bridge'.engine = "none"
      /\ bridge'.at = "reading" /\ bridge'.state = "settings"
  BY <1>1, <1>2, <1>4 DEF Bridges
<1>6. /\ open' /\ open' \in BOOLEAN
      /\ toProvider' \in Seq(Replies) /\ Len(toProvider') <= Wire
      /\ \A i \in 1 .. Len(toProvider') : i = 1 /\ toProvider'[i] = "settings"
  <2>1. "settings" \in Replies
    BY DEF Replies
  <2> QED BY <1>1, <1>2, <1>4, <2>1, SendOf DEF IInv
<1>7. started = "waiting"
  BY <1>1, <1>4 DEF IInv, Held, Progress
<1>8. /\ phase' = phase /\ session' = session /\ lock' = lock /\ timer' = timer /\ out' = out
      /\ started' = started /\ ended' = ended /\ calls' = calls /\ routes' = routes
      /\ saved' = saved /\ admitted' = admitted
  BY <1>2 DEF Same
<1> USE <1>8 DEF IInv
<1>9. TypeOK'
  BY <1>1, <1>5, <1>6 DEF TypeOK, Bridges, Count
<1>10. AtRest' /\ Held' /\ Asked'
  BY <1>1, <1>5 DEF AtRest, Held, Asked
<1>11. Progress'
  BY <1>3, <1>4, <1>5, <1>7 DEF Progress
<1>12. Output'
  BY <1>1, <1>3 DEF Output, Flows
<1>13. Stream'
  BY <1>1, <1>3, <1>5 DEF Stream, Flows
<1>14. Replied'
  BY <1>3, <1>4, <1>5, <1>6, <1>7 DEF Replied
<1>15. Works'
  BY <1>3, <1>4, <1>5, <1>6 DEF Works
<1>16. Truth'
  BY DEF Truth
<1> QED BY <1>9, <1>10, <1>11, <1>12, <1>13, <1>14, <1>15, <1>16

\* The settings are in force, and the worklet has said nothing since it sent them.
LEMMA EngineStartsKeeps == ASSUME IInv, EngineStarts PROVE IInv'
<1>1. /\ phase # "stopped" /\ bridge \in Bridges /\ open /\ bridge.at = "reading"
      /\ Accepts("ready") /\ 1 \in 1 .. Len(toWorklet) /\ toWorklet[1] = "ready" /\ toWorklet # <<>>
      /\ toWorklet' \in Seq(Frames) /\ Len(toWorklet') <= Wire
      /\ Len(toWorklet) \in Nat /\ Len(toWorklet') = Len(toWorklet) - 1
      /\ \A i \in 1 .. Len(toWorklet') :
           i + 1 \in 1 .. Len(toWorklet) /\ i + 1 # 1 /\ toWorklet'[i] = toWorklet[i + 1]
  BY ReadsOf DEF EngineStarts
<1>2. /\ bridge' = [bridge EXCEPT !.state = "starting", !.engine = "starting"]
      /\ Same /\ UNCHANGED <<toProvider, open, admitted>>
  BY BridgeOnly DEF EngineStarts
<1>3. bridge.state = "settings" /\ session.applied /\ session.requested
  BY <1>1 DEF IInv, Stream, Opens, Opening, Progress
<1>4. /\ bridge.engine = "none" /\ ~session.pairing
      /\ \A i \in 1 .. Len(toProvider) : toProvider[i] = "settings"
  BY <1>1, <1>3 DEF IInv, Works
<1>5. started = "waiting"
  BY <1>1, <1>4 DEF IInv, Held, Progress
<1>6. toProvider = <<>>
  <2>1. \A i \in 1 .. Len(toProvider) : FALSE
    BY <1>3, <1>4 DEF IInv, Replied
  <2>2. toProvider \in Seq(Replies)
    BY DEF IInv, TypeOK
  <2>3. Len(toProvider) \in Nat /\ (toProvider # <<>> => Len(toProvider) >= 1)
    BY <2>2, TailOf, LenProperties
  <2>4. toProvider # <<>> => 1 \in 1 .. Len(toProvider)
    BY <2>3
  <2> QED BY <2>1, <2>4
<1>7. /\ bridge' \in Bridges /\ bridge'.engine = "starting"
      /\ bridge'.at = "reading" /\ bridge'.state = "starting"
  BY <1>1, <1>2 DEF Bridges
<1>8. ~session.running
  BY <1>5 DEF IInv, Progress
<1>9. /\ phase' = phase /\ session' = session /\ lock' = lock /\ timer' = timer /\ out' = out
      /\ started' = started /\ ended' = ended /\ calls' = calls /\ routes' = routes
      /\ saved' = saved /\ toProvider' = toProvider /\ open' = open /\ admitted' = admitted
  BY <1>2 DEF Same
<1> USE <1>9 DEF IInv
<1>10. TypeOK'
  BY <1>1, <1>7 DEF TypeOK, Bridges, Count
<1>11. AtRest' /\ Held' /\ Asked'
  BY <1>1, <1>7 DEF AtRest, Held, Asked
<1>12. Progress'
  BY <1>3, <1>5, <1>7, <1>8 DEF Progress
<1>13. Output'
  BY <1>1, <1>3 DEF Output, Flows
<1>14. Stream'
  BY <1>1, <1>3, <1>7 DEF Stream, Flows
<1>15. Replied'
  BY <1>6 DEF Replied
<1>16. Works'
  BY <1>3, <1>4, <1>5, <1>6, <1>7 DEF Works
<1>17. Truth'
  BY DEF Truth
<1> QED BY <1>10, <1>11, <1>12, <1>13, <1>14, <1>15, <1>16, <1>17

LEMMA DeliversKeeps == ASSUME IInv, Delivers PROVE IInv'
<1>1. /\ phase # "stopped" /\ toWorklet # <<>>
      /\ toWorklet' \in Seq(Frames) /\ Len(toWorklet') <= Wire
      /\ Len(toWorklet) \in Nat /\ Len(toWorklet') = Len(toWorklet) - 1
      /\ \A i \in 1 .. Len(toWorklet') :
           i + 1 \in 1 .. Len(toWorklet) /\ i + 1 # 1 /\ toWorklet'[i] = toWorklet[i + 1]
  BY ReadsOf DEF Delivers
<1>2. Same /\ UNCHANGED <<bridge, toProvider, open, admitted>>
  BY BridgeOnly DEF Delivers
<1>3. /\ phase' = phase /\ session' = session /\ lock' = lock /\ timer' = timer /\ out' = out
      /\ started' = started /\ ended' = ended /\ calls' = calls /\ routes' = routes /\ saved' = saved
      /\ bridge' = bridge /\ toProvider' = toProvider /\ open' = open /\ admitted' = admitted
  BY <1>2 DEF Same
<1> USE <1>3 DEF IInv
<1>4. TypeOK'
  BY <1>1 DEF TypeOK, Count
<1>5. AtRest' /\ Held' /\ Asked' /\ Progress' /\ Replied' /\ Works' /\ Truth'
  BY <1>1 DEF AtRest, Held, Asked, Progress, Replied, Works, Truth
<1>6. Output'
  BY DEF Output, Flows
<1>7. Stream'
  BY <1>1 DEF Stream, Flows, Opens
<1> QED BY <1>4, <1>5, <1>6, <1>7

\* The stop is the last frame.
LEMMA StopBeginsKeeps == ASSUME IInv, StopBegins PROVE IInv'
<1>1. /\ phase # "stopped" /\ bridge \in Bridges /\ open /\ bridge.at = "reading"
      /\ Accepts("stop") /\ 1 \in 1 .. Len(toWorklet) /\ toWorklet[1] = "stop" /\ toWorklet # <<>>
      /\ toWorklet' \in Seq(Frames) /\ Len(toWorklet') <= Wire
      /\ Len(toWorklet) \in Nat /\ Len(toWorklet') = Len(toWorklet) - 1
  BY ReadsOf DEF StopBegins
<1>2. /\ bridge' = [bridge EXCEPT !.state = "stopped", !.at = "stopping"]
      /\ Same /\ UNCHANGED <<toProvider, open, admitted>>
  BY BridgeOnly DEF StopBegins
<1>3. 1 = Len(toWorklet) /\ out.inFlight = None /\ phase = "stopping" /\ out.pending = <<>>
  BY <1>1 DEF IInv, Stream, Output
<1>4. toWorklet' = <<>> /\ Len(<<>>) = 0
  <2>1. Len(toWorklet') = 0 /\ toWorklet' \in Seq(Frames)
    <3>1. Len(toWorklet) = 1
      BY <1>3
    <3>2. Len(toWorklet') = Len(toWorklet) - 1 /\ toWorklet' \in Seq(Frames)
      BY <1>1
    <3> QED BY <3>1, <3>2
  <2>2. \A s \in Seq(Frames) : Len(s) = 0 => s = <<>>
    BY EmptySeq
  <2> QED BY <2>1, <2>2
<1>5. /\ bridge' \in Bridges /\ bridge'.engine = bridge.engine
      /\ bridge'.at = "stopping" /\ bridge'.state = "stopped"
  BY <1>1, <1>2 DEF Bridges
<1>6. bridge.state # "stopped"
  BY <1>1 DEF Accepts
<1>7. /\ phase' = phase /\ session' = session /\ lock' = lock /\ timer' = timer /\ out' = out
      /\ started' = started /\ ended' = ended /\ calls' = calls /\ routes' = routes
      /\ saved' = saved /\ toProvider' = toProvider /\ open' = open /\ admitted' = admitted
  BY <1>2 DEF Same
<1> USE <1>7 DEF IInv
<1>8. TypeOK'
  BY <1>1, <1>5 DEF TypeOK, Bridges, Count
<1>9. AtRest' /\ Held' /\ Asked'
  BY <1>1, <1>5 DEF AtRest, Held, Asked
<1>10. Progress'
  BY <1>3, <1>5 DEF Progress
<1>11. Output'
  BY <1>3, <1>4, TunnelNone DEF Output, Frames
<1>12. Stream'
  BY <1>3, <1>4, TunnelNone DEF Stream, Opening, Frames
<1>13. Replied'
  BY <1>3, <1>5, <1>6 DEF Replied
<1>14. Works'
  BY <1>3, <1>5 DEF Works
<1>15. Truth'
  BY DEF Truth
<1> QED BY <1>8, <1>9, <1>10, <1>11, <1>12, <1>13, <1>14, <1>15

-----------------------------------------------------------------------------
(* The provider's output *)

Outs == [pending : Seq(Frames), inFlight : Frames \cup {None}, reading : BOOLEAN]

LEMMA CountOf ==
  ASSUME NEW o \in Outs
  PROVE  /\ Len(o.pending) \in Nat /\ Count(o) \in Nat
         /\ o.inFlight = None => Count(o) = Len(o.pending)
         /\ o.inFlight # None => Count(o) = Len(o.pending) + 1
<1>1. Len(o.pending) \in Nat
  BY LenProperties DEF Outs
<1>2. CASE o.inFlight = None
  BY <1>1, <1>2 DEF Count
<1>3. CASE o.inFlight # None
  BY <1>1, <1>3 DEF Count
<1> QED BY <1>1, <1>2, <1>3

\* The next frame is begun where none is being written; none is lost.
LEMMA WriteNextOf ==
  ASSUME NEW o \in Outs
  PROVE  LET w == WriteNext(o) IN
         /\ w \in Outs /\ w.reading = o.reading /\ Count(w) = Count(o) /\ Count(o) \in Nat
         /\ o.inFlight = None /\ o.pending # <<>> =>
              /\ w.inFlight = o.pending[1] /\ w.pending = Tail(o.pending) /\ w.inFlight # None
         /\ o.inFlight # None \/ o.pending = <<>> => w = o
         /\ w.inFlight = None => w.pending = <<>>
<1>1. /\ o.pending \in Seq(Frames) /\ o.inFlight \in Frames \cup {None} /\ Len(o.pending) \in Nat
  BY LenProperties DEF Outs
<1>2. CASE o.inFlight = None /\ o.pending # <<>>
  <2> DEFINE w == [o EXCEPT !.inFlight = Head(o.pending), !.pending = Tail(o.pending)]
  <2>1. WriteNext(o) = w
    BY <1>2 DEF WriteNext
  <2>2. /\ Tail(o.pending) \in Seq(Frames) /\ Len(Tail(o.pending)) = Len(o.pending) - 1
        /\ Head(o.pending) = o.pending[1] /\ o.pending[1] \in Frames
    BY <1>1, <1>2, TailOf
  <2>3. /\ w \in Outs /\ w.reading = o.reading
        /\ w.inFlight = o.pending[1] /\ w.pending = Tail(o.pending)
    BY <1>1, <2>2 DEF Outs
  <2> HIDE DEF w
  <2>4. w.inFlight # None
    BY <2>2, <2>3, TunnelNone
  <2>5. Count(w) = Len(o.pending) /\ Count(o) = Len(o.pending)
    BY <1>1, <1>2, <2>2, <2>3, <2>4 DEF Count
  <2> QED BY <1>1, <1>2, <2>1, <2>3, <2>4, <2>5
<1>3. CASE ~(o.inFlight = None /\ o.pending # <<>>)
  <2>1. WriteNext(o) = o
    BY <1>3 DEF WriteNext
  <2>2. Count(o) \in Nat
    BY CountOf
  <2> QED BY <1>3, <2>1, <2>2
<1> QED BY <1>2, <1>3

\* A control frame is written, or waits behind the others.
LEMMA QueuedOf ==
  ASSUME NEW o \in Outs, o.inFlight = None => o.pending = <<>>, NEW f \in Frames
  PROVE  LET w == Queued(o, f) IN
         /\ w \in Outs /\ w.reading = o.reading
         /\ Count(w) = Count(o) + 1 /\ Count(o) \in Nat
         /\ o.inFlight = None => w.inFlight = f /\ w.pending = <<>>
         /\ o.inFlight # None => w.inFlight = o.inFlight /\ w.pending = Append(o.pending, f)
<1> DEFINE u == [o EXCEPT !.pending = Append(o.pending, f)]
<1>1. /\ o.pending \in Seq(Frames) /\ o.inFlight \in Frames \cup {None} /\ Len(o.pending) \in Nat
  BY LenProperties DEF Outs
<1>2. /\ Append(o.pending, f) \in Seq(Frames) /\ Len(Append(o.pending, f)) = Len(o.pending) + 1
      /\ Append(o.pending, f) # <<>> /\ (o.pending = <<>> => Append(o.pending, f) = <<f>>)
  BY <1>1, AppendOf
<1>3. /\ u \in Outs /\ u.pending = Append(o.pending, f) /\ u.inFlight = o.inFlight
      /\ u.reading = o.reading
  BY <1>2 DEF Outs
<1>4. Queued(o, f) = WriteNext(u)
  BY DEF Queued
<1> HIDE DEF u
<1>5. Count(u) = Count(o) + 1 /\ Count(o) \in Nat
  BY <1>1, <1>2, <1>3, CountOf
<1> DEFINE w == WriteNext(u)
<1>6. /\ w \in Outs /\ w.reading = u.reading /\ Count(w) = Count(u)
      /\ u.inFlight = None /\ u.pending # <<>> =>
           w.inFlight = u.pending[1] /\ w.pending = Tail(u.pending)
      /\ u.inFlight # None => w = u
  BY <1>3, WriteNextOf
<1> HIDE DEF w
<1>7. CASE o.inFlight = None
  <2>1. u.pending = <<f>> /\ u.pending # <<>>
    BY <1>2, <1>3, <1>7
  <2>2. w.inFlight = f /\ w.pending = <<>>
    BY <1>3, <1>6, <1>7, <2>1
  <2> QED BY <1>3, <1>4, <1>5, <1>6, <1>7, <2>2 DEF w
<1>8. CASE o.inFlight # None
  BY <1>3, <1>4, <1>5, <1>6, <1>8 DEF w
<1> QED BY <1>7, <1>8

\* Where only packets wait, none is left.
LEMMA DiscardOf ==
  ASSUME NEW o \in Outs, \A i \in 1 .. Len(o.pending) : o.pending[i] = "packet"
  PROVE  LET w == DiscardPackets(o) IN
         /\ w \in Outs /\ w.reading = o.reading /\ w.inFlight = o.inFlight /\ w.pending = <<>>
         /\ Count(w) = IF o.inFlight = None THEN 0 ELSE 1
<1>1. Sifted(o.pending, {"packet"}) = <<>>
  <2>1. o.pending \in Seq(Frames)
    BY DEF Outs
  <2> QED BY <2>1, AllSifted
<1>2. DiscardPackets(o) = [o EXCEPT !.pending = <<>>]
  BY <1>1 DEF DiscardPackets
<1> DEFINE w == [o EXCEPT !.pending = <<>>]
<1>3. w \in Outs /\ w.reading = o.reading /\ w.inFlight = o.inFlight /\ w.pending = <<>>
  BY EmptySeq DEF Outs
<1> HIDE DEF w
<1>4. Count(w) = IF o.inFlight = None THEN 0 ELSE 1
  BY <1>3, EmptySeq DEF Count
<1> QED BY <1>2, <1>3, <1>4 DEF w

\* Packets are read once nothing is written.
LEMMA ReadPacketsOf ==
  ASSUME NEW o \in Outs, NEW running \in BOOLEAN
  PROVE  LET w == ReadPackets(o, running) IN
         /\ w \in Outs /\ w.inFlight = o.inFlight /\ w.pending = o.pending /\ Count(w) = Count(o)
         /\ w.reading <=> o.reading \/ (running /\ o.inFlight = None /\ o.pending = <<>>)
<1> DEFINE w == [o EXCEPT !.reading = TRUE]
<1>1. w \in Outs /\ w.inFlight = o.inFlight /\ w.pending = o.pending /\ w.reading
  BY DEF Outs
<1> HIDE DEF w
<1>2. Count(w) = Count(o)
  BY <1>1 DEF Count
<1>3. CASE running /\ o.inFlight = None /\ o.pending = <<>>
  <2>1. ReadPackets(o, running) = w
    BY <1>3 DEF ReadPackets, Idle, w
  <2> QED BY <1>1, <1>2, <1>3, <2>1
<1>4. CASE ~(running /\ o.inFlight = None /\ o.pending = <<>>)
  <2>1. ReadPackets(o, running) = o
    BY <1>4 DEF ReadPackets, Idle
  <2>2. o.reading \in BOOLEAN
    BY DEF Outs
  <2> QED BY <1>4, <2>1, <2>2
<1> QED BY <1>3, <1>4

-----------------------------------------------------------------------------
(* What the system asks *)

StartTunnelBegins(pairing) ==
  /\ pairing \/ saved
  /\ phase' = "started" /\ lock' = TRUE
  /\ session' = [NoSession EXCEPT !.pairing = pairing]
  /\ started' = "waiting" /\ ended' = "none"
  /\ out' = Queued(Nothing, IF pairing THEN "pair" ELSE "start")
  /\ timer' = "start"
  /\ bridge' = [state |-> "initial", at |-> "reading", engine |-> "none"]
  /\ open' = TRUE

StartTunnelRefuses(pairing) ==
  /\ started' = (IF pairing THEN "definite" ELSE "failed")
  /\ ended' = "refused"
  /\ UNCHANGED <<phase, session, lock, timer, out, bridge, open>>

LEMMA StartTunnelSplits ==
  ASSUME NEW pairing \in BOOLEAN, StartTunnel(pairing)
  PROVE  /\ phase = "stopped" /\ admitted' = FALSE
         /\ UNCHANGED <<calls, routes, saved, toWorklet, toProvider>>
         /\ StartTunnelBegins(pairing) \/ StartTunnelRefuses(pairing)
BY DEF StartTunnel, StartTunnelBegins, StartTunnelRefuses, system

\* A start that is refused leaves everything as it was between sessions.
LEMMA RefusalKeeps ==
  ASSUME IInv, NEW pairing \in BOOLEAN, StartTunnel(pairing), StartTunnelRefuses(pairing)
  PROVE  IInv'
<1>1. /\ phase = "stopped" /\ admitted' = FALSE /\ calls' = calls /\ routes' = routes
      /\ saved' = saved /\ toWorklet' = toWorklet /\ toProvider' = toProvider
      /\ started' \in {"definite", "failed"} /\ ended' = "refused"
      /\ phase' = phase /\ session' = session /\ lock' = lock /\ timer' = timer /\ out' = out
      /\ bridge' = bridge /\ open' = open
  BY StartTunnelSplits DEF StartTunnelRefuses
<1> USE DEF IInv
<1>2. TypeOK'
  <2>1. admitted' \in BOOLEAN
    BY <1>1
  <2>2. TypeOK
    OBVIOUS
  <2>3. /\ phase' = phase /\ session' = session /\ lock' = lock /\ timer' = timer /\ out' = out
        /\ calls' = calls /\ routes' = routes /\ saved' = saved /\ bridge' = bridge /\ open' = open
        /\ toWorklet' = toWorklet /\ toProvider' = toProvider
        /\ started' \in {"definite", "failed"} /\ ended' = "refused"
    BY <1>1
  <2> QED BY <2>1, <2>2, <2>3 DEF TypeOK, Count
<1>3. AtRest' /\ Held' /\ Asked' /\ Works'
  BY <1>1 DEF AtRest, Held, Asked, Works
<1>4. Progress'
  BY <1>1 DEF Progress
<1>5. Output' /\ Stream'
  BY <1>1 DEF Output, Stream, Flows, Opens
<1>6. Replied'
  <2>1. toProvider = <<>> /\ Len(<<>>) = 0
    BY <1>1 DEF AtRest
  <2> QED BY <1>1, <2>1 DEF Replied
<1>7. Truth'
  <2>1. ~session.pairing /\ ~session.running
    BY <1>1 DEF AtRest, NoSession
  <2> QED BY <1>1, <2>1 DEF Truth
<1> QED BY <1>2, <1>3, <1>4, <1>5, <1>6, <1>7

\* A session begins with one frame, for a worklet that has read none.
LEMMA BeginningKeeps ==
  ASSUME IInv, NEW pairing \in BOOLEAN, StartTunnel(pairing), StartTunnelBegins(pairing)
  PROVE  IInv'
<1> DEFINE f == IF pairing THEN "pair" ELSE "start"
<1>1. /\ phase = "stopped" /\ admitted' = FALSE /\ calls' = calls /\ routes' = routes
      /\ saved' = saved /\ toWorklet' = toWorklet /\ toProvider' = toProvider
      /\ phase' = "started" /\ lock' = TRUE /\ started' = "waiting" /\ ended' = "none"
      /\ timer' = "start" /\ open' = TRUE
      /\ session' = [NoSession EXCEPT !.pairing = pairing]
      /\ out' = Queued(Nothing, f)
      /\ bridge' = [state |-> "initial", at |-> "reading", engine |-> "none"]
  BY StartTunnelSplits DEF StartTunnelBegins
<1>2. /\ session' \in [pairing : BOOLEAN, requested : BOOLEAN, applied : BOOLEAN, running : BOOLEAN]
      /\ session'.pairing = pairing /\ ~session'.requested /\ ~session'.applied /\ ~session'.running
  BY <1>1 DEF NoSession
<1>3. /\ out' \in Outs /\ out'.inFlight = f /\ out'.pending = <<>> /\ ~out'.reading
      /\ Count(out') = 1 /\ f \in {"pair", "start"} /\ (f = "pair" <=> pairing)
  <2>1. /\ Nothing \in Outs /\ Nothing.inFlight = None /\ Nothing.pending = <<>> /\ ~Nothing.reading
        /\ Len(<<>>) = 0
    BY EmptySeq DEF Nothing, Outs
  <2>2. f \in Frames /\ f \in {"pair", "start"} /\ (f = "pair" <=> pairing)
    BY DEF Frames
  <2> HIDE DEF f
  <2>3. Count(Nothing) = 0
    BY <2>1, CountOf
  <2> QED BY <1>1, <2>1, <2>2, <2>3, QueuedOf
<1>4. /\ bridge' \in Bridges
      /\ bridge'.state = "initial" /\ bridge'.at = "reading" /\ bridge'.engine = "none"
  BY <1>1 DEF Bridges
<1>5. /\ toWorklet = <<>> /\ toProvider = <<>> /\ Len(<<>>) = 0
      /\ \A i \in 1 .. Len(calls) : calls[i] = "old"
  BY <1>1 DEF IInv, AtRest
<1> HIDE DEF f
<1> USE DEF IInv
<1>6. TypeOK'
  <2>1. Count(out)' <= Limit
    BY <1>3, TunnelAssumption DEF Count
  <2>2. TypeOK
    OBVIOUS
  <2> QED BY <1>1, <1>2, <1>3, <1>4, <2>1, <2>2 DEF TypeOK, Outs, Bridges
<1>7. AtRest' /\ Held'
  BY <1>1, <1>4 DEF AtRest, Held
<1>8. Progress'
  BY <1>1, <1>2 DEF Progress
<1>9. Asked'
  BY <1>1, <1>2, <1>5 DEF Asked
<1>10. Output'
  BY <1>1, <1>3, <1>5, TunnelNone DEF Output, Frames
<1>11. Stream'
  BY <1>1, <1>2, <1>3, <1>4, <1>5 DEF Stream, Opens, Opening
<1>12. Replied'
  BY <1>1, <1>5 DEF Replied
<1>13. Works'
  BY <1>1, <1>2, <1>4, <1>5 DEF Works
<1>14. Truth'
  BY <1>1, <1>2 DEF Truth
<1> QED BY <1>6, <1>7, <1>8, <1>9, <1>10, <1>11, <1>12, <1>13, <1>14

LEMMA StartTunnelKeeps ==
  ASSUME IInv, NEW pairing \in BOOLEAN, StartTunnel(pairing)
  PROVE  IInv'
BY StartTunnelSplits, RefusalKeeps, BeginningKeeps

\* A stop comes behind the frame being written, and before every packet that waits.
LEMMA StopTunnelKeeps == ASSUME IInv, StopTunnel PROVE IInv'
<1>1. /\ phase = "started" /\ phase' = "stopping"
      /\ session' = [session EXCEPT !.running = FALSE]
      /\ out' = Queued(DiscardPackets(out), "stop") /\ timer' = "stop"
      /\ lock' = lock /\ started' = started /\ ended' = ended
      /\ calls' = calls /\ routes' = routes /\ saved' = saved
      /\ toWorklet' = toWorklet /\ toProvider' = toProvider
      /\ bridge' = bridge /\ open' = open /\ admitted' = admitted
  BY DEF StopTunnel, system, worklet
<1>2. /\ session' \in [pairing : BOOLEAN, requested : BOOLEAN, applied : BOOLEAN, running : BOOLEAN]
      /\ session'.pairing = session.pairing /\ session'.requested = session.requested
      /\ session'.applied = session.applied /\ ~session'.running
  BY <1>1 DEF IInv, TypeOK
<1>3. out \in Outs /\ (\A i \in 1 .. Len(out.pending) : out.pending[i] = "packet") /\ out.inFlight # "stop"
  BY <1>1 DEF IInv, TypeOK, Output, Outs
<1>4. /\ out' \in Outs /\ out'.reading = out.reading /\ Count(out') <= 2
      /\ out.inFlight = None => out'.inFlight = "stop" /\ out'.pending = <<>>
      /\ out.inFlight # None => out'.inFlight = out.inFlight /\ out'.pending = <<"stop">>
  <2> DEFINE w == DiscardPackets(out)
  <2>1. /\ w \in Outs /\ w.reading = out.reading /\ w.inFlight = out.inFlight /\ w.pending = <<>>
        /\ Count(w) = IF out.inFlight = None THEN 0 ELSE 1
    BY <1>3, DiscardOf
  <2> HIDE DEF w
  <2>2. out' = Queued(w, "stop") /\ "stop" \in Frames
    BY <1>1 DEF w, Frames
  <2>3. /\ out' \in Outs /\ out'.reading = w.reading
        /\ Count(out') = Count(w) + 1
        /\ w.inFlight = None => out'.inFlight = "stop" /\ out'.pending = <<>>
        /\ w.inFlight # None => out'.inFlight = w.inFlight /\ out'.pending = Append(w.pending, "stop")
    BY <2>1, <2>2, QueuedOf
  <2>4. Append(<<>>, "stop") = <<"stop">>
    OBVIOUS
  <2>5. Count(w) \in {0, 1}
    BY <2>1
  <2> QED BY <2>1, <2>3, <2>4, <2>5
<1>5. Len(<<>>) = 0 /\ Len(<<"stop">>) = 1 /\ <<"stop">>[1] = "stop"
  OBVIOUS
<1> USE DEF IInv
<1>6. TypeOK'
  <2>1. Count(out') <= Limit
    <3>1. Count(out') \in Nat
      BY <1>4, CountOf
    <3> QED BY <1>4, <3>1, TunnelAssumption
  <2>3. Count(out)' <= Limit
    BY <2>1 DEF Count
  <2>2. TypeOK
    OBVIOUS
  <2> QED BY <1>1, <1>2, <1>4, <2>2, <2>3 DEF TypeOK, Outs
<1>7. AtRest' /\ Held' /\ Asked'
  BY <1>1 DEF AtRest, Held, Asked
<1>8. Progress'
  BY <1>1, <1>2 DEF Progress
<1>9. Output'
  <2>1. out'.pending \in {<<>>, <<"stop">>}
    BY <1>4
  <2>2. \A i \in 1 .. Len(out'.pending) : out'.pending[i] = "stop"
    BY <1>5, <2>1
  <2>3. out'.inFlight = "packet" => Flows'
    BY <1>1, <1>2, <1>4, TunnelNone DEF Output, Flows, Frames
  <2>4. out'.inFlight = None => out'.pending = <<>>
    BY <1>4, TunnelNone DEF Frames
  <2> QED BY <1>1, <1>2, <1>3, <1>4, <2>1, <2>2, <2>3, <2>4 DEF Output
<1>10. Stream'
  BY <1>1, <1>2, <1>3, <1>4 DEF Stream, Opens, Opening, Flows
<1>11. Replied'
  BY <1>1, <1>2 DEF Replied
<1>12. Works'
  BY <1>1, <1>2 DEF Works
<1>13. Truth'
  BY <1>1, <1>2 DEF Truth
<1> QED BY <1>6, <1>7, <1>8, <1>9, <1>10, <1>11, <1>12, <1>13

-----------------------------------------------------------------------------
(* What is written *)

\* The next of what waits is begun, and once nothing does, packets are read.
LEMMA WrittenOf ==
  ASSUME NEW o \in Outs, NEW running \in BOOLEAN
  PROVE  LET w == ReadPackets(WriteNext([o EXCEPT !.inFlight = None]), running) IN
         /\ w \in Outs /\ Count(w) = Len(o.pending)
         /\ o.pending = <<>> => /\ w.inFlight = None /\ w.pending = <<>>
                                /\ w.reading <=> o.reading \/ running
         /\ o.pending # <<>> => /\ w.inFlight = o.pending[1] /\ w.inFlight # None
                                /\ w.pending = Tail(o.pending)
                                /\ w.reading <=> o.reading
<1> DEFINE z == [o EXCEPT !.inFlight = None]
           x == WriteNext(z)
           w == ReadPackets(x, running)
<1>1. z \in Outs /\ z.inFlight = None /\ z.pending = o.pending /\ z.reading = o.reading
  BY DEF Outs
<1>2. Count(z) = Len(o.pending)
  BY <1>1, CountOf
<1> HIDE DEF z
<1>3. /\ x \in Outs /\ x.reading = z.reading /\ Count(x) = Count(z)
      /\ z.pending # <<>> => /\ x.inFlight = z.pending[1] /\ x.pending = Tail(z.pending)
                             /\ x.inFlight # None
      /\ z.pending = <<>> => x = z
  BY <1>1, WriteNextOf
<1> HIDE DEF x
<1>4. /\ w \in Outs /\ w.inFlight = x.inFlight /\ w.pending = x.pending /\ Count(w) = Count(x)
      /\ w.reading <=> x.reading \/ (running /\ x.inFlight = None /\ x.pending = <<>>)
  BY <1>3, ReadPacketsOf
<1> HIDE DEF w
<1>5. CASE o.pending = <<>>
  BY <1>1, <1>2, <1>3, <1>4, <1>5 DEF w, x, z
<1>6. CASE o.pending # <<>>
  BY <1>1, <1>2, <1>3, <1>4, <1>6 DEF w, x, z
<1> QED BY <1>5, <1>6

\* While something is written nothing that opens waits behind it, and no stop is on its way.
LEMMA WritingSays ==
  ASSUME IInv, out.inFlight # None
  PROVE  /\ phase \in {"started", "stopping"} /\ out \in Outs /\ out.inFlight \in Frames
         /\ session.running => ~session.pairing
         /\ \A i \in 1 .. Len(out.pending) : out.pending[i] \in {"packet", "stop"}
         /\ \A i \in 1 .. Len(toWorklet) : toWorklet[i] # "stop"
         /\ out.inFlight = "stop" => phase = "stopping" /\ out.pending = <<>>
<1>1. out \in Outs /\ out.inFlight \in Frames /\ session.pairing \in BOOLEAN
  BY DEF IInv, TypeOK, Outs
<1>2. phase \in {"started", "stopping"}
  <2>1. phase # "stopped"
    BY DEF IInv, AtRest, Nothing
  <2> QED BY <2>1 DEF IInv, TypeOK
<1>3. session.running => ~session.pairing
  <2> SUFFICES ASSUME session.running, session.pairing PROVE FALSE
    BY <1>1
  <2>1. phase = "started" /\ session.requested
    BY DEF IInv, Progress
  <2>2. out.inFlight # "stop" /\ out.inFlight # "packet"
    BY <2>1 DEF IInv, Output, Flows
  <2>3. out.inFlight \in Opening /\ Opens(out.inFlight)
    BY <1>1, <2>2 DEF IInv, Stream, Opening, Frames
  <2>4. bridge.state # "initial" /\ bridge.state # "settings"
    BY <2>1 DEF IInv, Works
  <2> QED BY <2>3, <2>4 DEF Opening, Opens
<1>4. \A i \in 1 .. Len(out.pending) : out.pending[i] \in {"packet", "stop"}
  <2>1. CASE phase = "started"
    BY <2>1 DEF IInv, Output
  <2>2. CASE phase = "stopping"
    <3>1. /\ out.pending \in {<<>>, <<"stop">>} /\ Len(<<>>) = 0 /\ Len(<<"stop">>) = 1
          /\ <<"stop">>[1] = "stop"
      BY <2>2 DEF IInv, Output
    <3> QED BY <3>1
  <2> QED BY <1>2, <2>1, <2>2
<1>5. \A i \in 1 .. Len(toWorklet) : toWorklet[i] # "stop"
  BY DEF IInv, Stream
<1>6. out.inFlight = "stop" => phase = "stopping" /\ out.pending = <<>>
  BY <1>2 DEF IInv, Output
<1> QED BY <1>1, <1>2, <1>3, <1>4, <1>5, <1>6

LEMMA WrittenKeeps == ASSUME IInv, Written PROVE IInv'
<1>1. /\ out.inFlight # None /\ Len(toWorklet) < Wire
      /\ toWorklet' = Append(toWorklet, out.inFlight)
      /\ out' = ReadPackets(WriteNext([out EXCEPT !.inFlight = None]), session.running)
  BY DEF Written
<1>2. /\ phase' = phase /\ session' = session /\ lock' = lock /\ timer' = timer
      /\ started' = started /\ ended' = ended /\ calls' = calls /\ routes' = routes /\ saved' = saved
      /\ toProvider' = toProvider /\ bridge' = bridge /\ open' = open /\ admitted' = admitted
  BY DEF Written, system, worklet
<1>3. /\ phase \in {"started", "stopping"} /\ out \in Outs /\ out.inFlight \in Frames
      /\ session.running => ~session.pairing
      /\ \A i \in 1 .. Len(out.pending) : out.pending[i] \in {"packet", "stop"}
      /\ \A i \in 1 .. Len(toWorklet) : toWorklet[i] # "stop"
      /\ out.inFlight = "stop" => phase = "stopping" /\ out.pending = <<>>
  BY <1>1, WritingSays
<1>4. /\ out' \in Outs /\ Count(out') = Len(out.pending)
      /\ out.pending = <<>> => /\ out'.inFlight = None /\ out'.pending = <<>>
                               /\ out'.reading <=> out.reading \/ session.running
      /\ out.pending # <<>> => /\ out'.inFlight = out.pending[1] /\ out'.inFlight # None
                               /\ out'.pending = Tail(out.pending)
                               /\ out'.reading <=> out.reading
  <2>1. session.running \in BOOLEAN
    BY DEF IInv, TypeOK
  <2> QED BY <1>1, <1>3, <2>1, WrittenOf
<1>5. /\ toWorklet' \in Seq(Frames) /\ Len(toWorklet') <= Wire /\ Len(toWorklet') = Len(toWorklet) + 1
      /\ \A i \in 1 .. Len(toWorklet') :
            \/ i \in 1 .. Len(toWorklet) /\ toWorklet'[i] = toWorklet[i]
            \/ i = Len(toWorklet) + 1 /\ toWorklet'[i] = out.inFlight
  <2>1. toWorklet \in Seq(Frames) /\ Wire \in Nat
    BY TunnelAssumption DEF IInv, TypeOK
  <2> QED BY <1>1, <1>3, <2>1, AppendOf
<1>6. Len(<<>>) = 0
  OBVIOUS
<1>7. /\ \A i \in 1 .. Len(out'.pending) :
           i + 1 \in 1 .. Len(out.pending) /\ out'.pending[i] = out.pending[i + 1]
      /\ out'.inFlight \in {None, "packet", "stop"}
      /\ out'.inFlight # None => 1 \in 1 .. Len(out.pending) /\ out'.inFlight = out.pending[1]
  <2>1. CASE out.pending = <<>>
    BY <1>4, <1>6, <2>1
  <2>2. CASE out.pending # <<>>
    <3>1. /\ Len(out.pending) \in Nat /\ Len(out.pending) >= 1
          /\ \A i \in 1 .. Len(Tail(out.pending)) :
               i + 1 \in 1 .. Len(out.pending) /\ Tail(out.pending)[i] = out.pending[i + 1]
      BY <1>3, <2>2, TailOf DEF Outs
    <3>2. 1 \in 1 .. Len(out.pending)
      BY <3>1
    <3> QED BY <1>3, <1>4, <2>2, <3>1, <3>2
  <2> QED BY <2>1, <2>2
<1> USE DEF IInv
<1>8. TypeOK'
  <2>1. Count(out') <= Limit
    <3>1. Count(out) = Len(out.pending) + 1 /\ Len(out.pending) \in Nat /\ Limit \in Nat /\ Count(out) <= Limit
      BY <1>1, <1>3, CountOf, TunnelAssumption DEF TypeOK
    <3> QED BY <1>4, <3>1
  <2>2. Count(out)' <= Limit
    BY <2>1 DEF Count
  <2>3. TypeOK
    OBVIOUS
  <2> QED BY <1>2, <1>4, <1>5, <2>2, <2>3 DEF TypeOK, Outs
<1>9. AtRest' /\ Held' /\ Asked'
  BY <1>2, <1>3 DEF AtRest, Held, Asked
<1>10. Progress'
  BY <1>2, <1>4 DEF Progress
<1>11. Output'
  <2>1. out'.inFlight = None => out'.pending = <<>>
    BY <1>4
  <2>2. phase = "started" => /\ \A i \in 1 .. Len(out'.pending) : out'.pending[i] = "packet"
                             /\ out'.inFlight # "stop"
    BY <1>7, TunnelNone DEF Output, Frames
  <2>3. phase = "stopping" => out'.pending = <<>>
    <3>1. Tail(<<"stop">>) = <<>>
      OBVIOUS
    <3> QED BY <1>4, <3>1 DEF Output
  <2>4. out'.inFlight = "packet" \/ (\E i \in 1 .. Len(out'.pending) : out'.pending[i] = "packet") => Flows
    BY <1>7, TunnelNone DEF Output, Frames
  <2>5. out'.inFlight = "stop" => phase = "stopping"
    BY <1>3, <2>2
  <2>6. out'.reading => ~session.pairing
    BY <1>3, <1>4 DEF Output
  <2>7. Flows' <=> Flows
    BY <1>2 DEF Flows
  <2> QED BY <1>2, <2>1, <2>2, <2>3, <2>4, <2>5, <2>6, <2>7 DEF Output
<1>12. Stream'
  <2>1. out'.inFlight \notin Opening
    BY <1>7, TunnelNone DEF Opening, Frames
  <2>2. ASSUME NEW i \in 1 .. Len(toWorklet')
        PROVE  /\ toWorklet'[i] \in Opening => i = 1 /\ Opens(toWorklet'[i])
               /\ toWorklet'[i] = "packet" => Flows
               /\ toWorklet'[i] = "stop" =>
                    i = Len(toWorklet') /\ out'.inFlight = None /\ phase = "stopping"
    <3>1. CASE i \in 1 .. Len(toWorklet) /\ toWorklet'[i] = toWorklet[i]
      BY <1>3, <3>1 DEF Stream
    <3>2. CASE i = Len(toWorklet) + 1 /\ toWorklet'[i] = out.inFlight
      <4>1. out.inFlight \in Opening => i = 1 /\ Opens(out.inFlight)
        BY <1>6, <3>2 DEF Stream
      <4>2. out.inFlight = "packet" => Flows
        BY DEF Output
      <4> QED BY <1>3, <1>4, <1>5, <3>2, <4>1, <4>2
    <3> QED BY <1>5, <3>1, <3>2
  <2>3. ~(open /\ bridge.state = "stopped")
    BY <1>1, <1>3 DEF Stream
  <2> QED BY <1>2, <2>1, <2>2, <2>3 DEF Stream, Opens, Flows
<1>13. Replied' /\ Works' /\ Truth'
  BY <1>2 DEF Replied, Works, Truth
<1> QED BY <1>8, <1>9, <1>10, <1>11, <1>12, <1>13

\* Packets that were read wait behind the others, as many as there is room for.
LEMMA PacketsOf ==
  ASSUME NEW o \in Outs, NEW k \in Nat, \A i \in 1 .. Len(o.pending) : o.pending[i] = "packet"
  PROVE  LET w == ReadPackets(WriteNext([o EXCEPT !.reading = FALSE, !.pending = @ \o Packets(k)]), TRUE) IN
         /\ w \in Outs /\ Count(w) = Count(o) + k
         /\ w.inFlight = None => w.pending = <<>> /\ w.reading
         /\ w.inFlight \in {o.inFlight, "packet"}
         /\ \A i \in 1 .. Len(w.pending) : w.pending[i] = "packet"
<1> DEFINE s == o.pending \o Packets(k)
           r == [o EXCEPT !.reading = FALSE, !.pending = s]
           x == WriteNext(r)
           w == ReadPackets(x, TRUE)
<1>1. Packets(k) \in Seq(Frames) /\ Len(Packets(k)) = k /\ \A i \in 1 .. k : Packets(k)[i] = "packet"
  BY DEF Packets, Frames
<1>2. o.pending \in Seq(Frames) /\ Len(o.pending) \in Nat
  BY LenProperties DEF Outs
<1>3. /\ s \in Seq(Frames) /\ Len(s) = Len(o.pending) + k
      /\ \A i \in 1 .. Len(s) : s[i] = IF i <= Len(o.pending) THEN o.pending[i]
                                       ELSE Packets(k)[i - Len(o.pending)]
  <2>1. ASSUME NEW p \in Seq(Frames)
        PROVE  /\ o.pending \o p \in Seq(Frames) /\ Len(o.pending \o p) = Len(o.pending) + Len(p)
               /\ \A i \in 1 .. Len(o.pending) + Len(p) :
                    (o.pending \o p)[i] = IF i <= Len(o.pending) THEN o.pending[i]
                                          ELSE p[i - Len(o.pending)]
    BY <1>2, ConcatProperties
  <2> QED BY <1>1, <2>1
<1>4. \A i \in 1 .. Len(s) : s[i] = "packet"
  <2> HIDE DEF s
  <2> TAKE i \in 1 .. Len(s)
  <2>1. CASE i <= Len(o.pending)
    <3>1. i \in 1 .. Len(o.pending)
      BY <1>2, <1>3, <2>1
    <3> QED BY <1>3, <2>1, <3>1
  <2>2. CASE ~(i <= Len(o.pending))
    <3>1. i - Len(o.pending) \in 1 .. k
      BY <1>2, <1>3, <2>2
    <3> QED BY <1>1, <1>3, <2>2, <3>1
  <2> QED BY <2>1, <2>2
<1> HIDE DEF s
<1>5. /\ r \in Outs /\ r.pending = s /\ r.inFlight = o.inFlight /\ ~r.reading
  BY <1>3 DEF Outs
<1> HIDE DEF r
<1>6. Count(r) = Count(o) + k
  <2>1. /\ Len(o.pending) \in Nat
        /\ o.inFlight = None => Count(o) = Len(o.pending)
        /\ o.inFlight # None => Count(o) = Len(o.pending) + 1
    BY CountOf
  <2>2. /\ r.inFlight = None => Count(r) = Len(r.pending)
        /\ r.inFlight # None => Count(r) = Len(r.pending) + 1
    BY <1>5, CountOf
  <2>3. Len(r.pending) = Len(o.pending) + k /\ r.inFlight = o.inFlight
    BY <1>3, <1>5
  <2> QED BY <2>1, <2>2, <2>3
<1>7. /\ x \in Outs /\ x.reading = r.reading /\ Count(x) = Count(r)
      /\ r.inFlight = None /\ r.pending # <<>> =>
           x.inFlight = r.pending[1] /\ x.pending = Tail(r.pending)
      /\ r.inFlight # None \/ r.pending = <<>> => x = r
      /\ x.inFlight = None => x.pending = <<>>
  BY <1>5, WriteNextOf
<1> HIDE DEF x
<1>8. x.inFlight \in {o.inFlight, "packet"} /\ \A i \in 1 .. Len(x.pending) : x.pending[i] = "packet"
  <2>1. CASE r.inFlight = None /\ r.pending # <<>>
    <3>1. /\ Len(s) \in Nat /\ Len(s) >= 1
          /\ \A i \in 1 .. Len(Tail(s)) : i + 1 \in 1 .. Len(s) /\ Tail(s)[i] = s[i + 1]
      BY <1>3, <1>5, <2>1, TailOf
    <3>2. 1 \in 1 .. Len(s)
      BY <3>1
    <3> QED BY <1>4, <1>5, <1>7, <2>1, <3>1, <3>2
  <2>2. CASE r.inFlight # None \/ r.pending = <<>>
    BY <1>4, <1>5, <1>7, <2>2
  <2> QED BY <2>1, <2>2
<1>9. /\ w \in Outs /\ w.inFlight = x.inFlight /\ w.pending = x.pending /\ Count(w) = Count(x)
      /\ w.reading <=> x.reading \/ (TRUE /\ x.inFlight = None /\ x.pending = <<>>)
  BY <1>7, ReadPacketsOf
<1> HIDE DEF w
<1>10. w = ReadPackets(WriteNext([o EXCEPT !.reading = FALSE, !.pending = @ \o Packets(k)]), TRUE)
  BY DEF w, x, r, s
<1> QED BY <1>6, <1>7, <1>8, <1>9, <1>10

LEMMA PacketsReadKeeps == ASSUME IInv, NEW n \in 0 .. (Limit + 1), PacketsRead(n) PROVE IInv'
<1> DEFINE kept == IF n > Limit - Count(out) THEN Limit - Count(out) ELSE n
<1>1. /\ out.reading /\ session.running
      /\ out' = ReadPackets(WriteNext([out EXCEPT !.reading = FALSE, !.pending = @ \o Packets(kept)]), TRUE)
  BY DEF PacketsRead
<1>2. /\ phase' = phase /\ session' = session /\ lock' = lock /\ timer' = timer
      /\ started' = started /\ ended' = ended /\ calls' = calls /\ routes' = routes /\ saved' = saved
      /\ toWorklet' = toWorklet /\ toProvider' = toProvider
      /\ bridge' = bridge /\ open' = open /\ admitted' = admitted
  BY DEF PacketsRead, system, worklet
<1>3. out \in Outs /\ Count(out) \in Nat /\ Count(out) <= Limit /\ Limit \in Nat
  <2>1. out \in Outs /\ Count(out) <= Limit
    BY DEF IInv, TypeOK, Outs
  <2> QED BY <2>1, CountOf, TunnelAssumption
<1>4. kept \in Nat /\ Count(out) + kept <= Limit
  BY <1>3
<1> HIDE DEF kept
<1>5. phase = "started" /\ ~session.pairing /\ Flows
  <2>1. phase = "started" /\ session.applied /\ ~session.pairing
    BY <1>1 DEF IInv, Progress, Output
  <2> QED BY <1>1, <2>1 DEF IInv, Progress, Flows
<1>6. /\ \A i \in 1 .. Len(out.pending) : out.pending[i] = "packet"
      /\ out.inFlight # "stop"
  BY <1>5 DEF IInv, Output
<1>7. /\ out' \in Outs /\ Count(out') = Count(out) + kept
      /\ out'.inFlight = None => out'.pending = <<>> /\ out'.reading
      /\ out'.inFlight \in {out.inFlight, "packet"}
      /\ \A i \in 1 .. Len(out'.pending) : out'.pending[i] = "packet"
  BY <1>1, <1>3, <1>4, <1>6, PacketsOf
<1> USE DEF IInv
<1>8. TypeOK'
  <2>1. Count(out') <= Limit
    BY <1>4, <1>7
  <2>2. Count(out)' <= Limit
    BY <2>1 DEF Count
  <2>3. TypeOK
    OBVIOUS
  <2> QED BY <1>2, <1>7, <2>2, <2>3 DEF TypeOK, Outs
<1>9. AtRest' /\ Held' /\ Asked'
  BY <1>2, <1>5 DEF AtRest, Held, Asked
<1>10. Progress'
  BY <1>2, <1>7 DEF Progress
<1>11. Output'
  <2>1. Flows' <=> Flows
    BY <1>2 DEF Flows
  <2> QED BY <1>2, <1>5, <1>6, <1>7, <2>1 DEF Output
<1>12. Stream'
  <2>1. out'.inFlight \in Opening => out'.inFlight = out.inFlight
    BY <1>7 DEF Opening
  <2> QED BY <1>2, <1>5, <2>1 DEF Stream, Opens, Flows
<1>13. Replied' /\ Works' /\ Truth'
  BY <1>2 DEF Replied, Works, Truth
<1> QED BY <1>8, <1>9, <1>10, <1>11, <1>12, <1>13

-----------------------------------------------------------------------------
(* What the worklet says *)

\* What is left behind the first frame.
LEMMA RepliesLeft ==
  ASSUME IInv, toProvider # <<>>, toProvider' = Tail(toProvider)
  PROVE  /\ toProvider' \in Seq(Replies) /\ Len(toProvider') <= Wire
         /\ \A i \in 1 .. Len(toProvider') :
              /\ i + 1 \in 1 .. Len(toProvider) /\ toProvider'[i] = toProvider[i + 1]
              /\ toProvider'[i] \notin Early
<1>1. toProvider \in Seq(Replies) /\ Len(toProvider) <= Wire /\ Wire \in Nat /\ Replied
  BY TunnelAssumption DEF IInv, TypeOK
<1>2. /\ Tail(toProvider) \in Seq(Replies) /\ Len(toProvider) \in Nat
      /\ Len(Tail(toProvider)) = Len(toProvider) - 1
      /\ \A i \in 1 .. Len(Tail(toProvider)) :
           i + 1 \in 1 .. Len(toProvider) /\ i + 1 # 1 /\ Tail(toProvider)[i] = toProvider[i + 1]
  BY <1>1, TailOf
<1>3. \A i \in 1 .. Len(toProvider) : i # 1 => toProvider[i] \notin Early
  BY <1>1 DEF Replied
<1> QED BY <1>1, <1>2, <1>3

\* The settings are asked for: the call of this session is behind all others.
LEMMA RequestsKeeps ==
  ASSUME IInv, NEW f \in {"settings", "paired"}, Receives(f),
         session' = [session EXCEPT !.requested = TRUE], calls' = Append(calls, "new"),
         toProvider' = Tail(toProvider),
         UNCHANGED <<phase, lock, timer, out, started, ended, routes, toWorklet, bridge, open>>,
         UNCHANGED <<saved, admitted>>
  PROVE  IInv'
<1>1. /\ phase' = phase /\ lock' = lock /\ timer' = timer /\ out' = out /\ started' = started
      /\ ended' = ended /\ routes' = routes /\ toWorklet' = toWorklet /\ bridge' = bridge
      /\ open' = open /\ saved' = saved /\ admitted' = admitted
  OBVIOUS
<1>2. /\ phase = "started" /\ ~session.requested /\ started = "waiting" /\ toProvider # <<>>
      /\ f = "settings" => ~session.pairing /\ bridge.state = "settings"
      /\ f = "paired" => session.pairing /\ admitted
  BY FirstReply DEF Receives, Arrived, Expects, Early
<1>3. /\ session' \in [pairing : BOOLEAN, requested : BOOLEAN, applied : BOOLEAN, running : BOOLEAN]
      /\ session'.pairing = session.pairing /\ session'.requested
      /\ session'.applied = session.applied /\ session'.running = session.running
      /\ ~session.applied /\ ~session.running
  BY <1>2 DEF IInv, TypeOK, Progress
<1>4. /\ calls' \in Seq({"new", "old"}) /\ calls' # <<>>
      /\ \A i \in 1 .. Len(calls') : calls'[i] = "new" <=> i = Len(calls')
  <2>1. calls \in Seq({"new", "old"}) /\ \A i \in 1 .. Len(calls) : calls[i] = "old"
    BY <1>2 DEF IInv, TypeOK, Asked
  <2>2. /\ Append(calls, "new") \in Seq({"new", "old"}) /\ Append(calls, "new") # <<>>
        /\ Len(Append(calls, "new")) = Len(calls) + 1
        /\ \A i \in 1 .. Len(Append(calls, "new")) :
              \/ i \in 1 .. Len(calls) /\ i # Len(calls) + 1 /\ Append(calls, "new")[i] = calls[i]
              \/ i = Len(calls) + 1 /\ Append(calls, "new")[i] = "new"
    BY <2>1, AppendOf
  <2> QED BY <2>1, <2>2
<1>5. /\ toProvider' \in Seq(Replies) /\ Len(toProvider') <= Wire
      /\ \A i \in 1 .. Len(toProvider') :
           /\ i + 1 \in 1 .. Len(toProvider) /\ toProvider'[i] = toProvider[i + 1]
           /\ toProvider'[i] \notin Early
  BY <1>2, RepliesLeft
<1> USE DEF IInv
<1>6. TypeOK'
  <2>1. TypeOK
    OBVIOUS
  <2> QED BY <1>1, <1>3, <1>4, <1>5, <2>1 DEF TypeOK, Count
<1>7. AtRest' /\ Held'
  BY <1>1, <1>2 DEF AtRest, Held
<1>8. Progress'
  BY <1>1, <1>2, <1>3 DEF Progress
<1>9. Asked'
  BY <1>1, <1>3, <1>4 DEF Asked
<1>10. Output' /\ Stream'
  BY <1>1, <1>3 DEF Output, Stream, Flows, Opens
<1>11. Replied'
  BY <1>1, <1>3, <1>5 DEF Replied, Early
<1>12. Works'
  <2>1. bridge.state # "initial" /\ bridge.at # "pairing" /\ bridge.engine # "starting"
    BY <1>2 DEF Works
  <2> QED BY <1>1, <1>2, <1>3, <1>5, <2>1 DEF Works
<1>13. Truth'
  BY <1>1, <1>2, <1>3 DEF Truth
<1> QED BY <1>6, <1>7, <1>8, <1>9, <1>10, <1>11, <1>12, <1>13

LEMMA ReceiveSettingsKeeps == ASSUME IInv, ReceiveSettings PROVE IInv'
<1>1. /\ Receives("settings") /\ UNCHANGED <<saved, admitted>> /\ saved \in BOOLEAN
      /\ Requests("definite")
  BY DEF ReceiveSettings, Requests, IInv, TypeOK
<1>2. CASE Fail("definite", "conflict")
  <2>1. ~session.pairing
    BY <1>1, FirstReply DEF Receives, Arrived
  <2> QED BY <1>1, <1>2, <2>1, FailKeeps DEF Ends
<1>3. CASE ~Fail("definite", "conflict")
  BY <1>1, <1>3, RequestsKeeps DEF Requests
<1> QED BY <1>2, <1>3

LEMMA ReceivePairedKeeps == ASSUME IInv, ReceivePaired PROVE IInv'
<1>1. /\ Receives("paired") /\ UNCHANGED <<saved, admitted>> /\ saved \in BOOLEAN
      /\ Requests("unknown")
  BY DEF ReceivePaired, Requests, IInv, TypeOK
<1>2. CASE Fail("unknown", "conflict")
  BY <1>1, <1>2, FailKeeps DEF Ends
<1>3. CASE ~Fail("unknown", "conflict")
  BY <1>1, <1>3, RequestsKeeps DEF Requests
<1> QED BY <1>2, <1>3

\* The engine is up, the start is through, and packets are read from now on.
LEMMA ReceiveRunningKeeps == ASSUME IInv, ReceiveRunning PROVE IInv'
<1>1. /\ Receives("running") /\ session' = [session EXCEPT !.running = TRUE]
      /\ started' = "ok" /\ timer' = "off" /\ out' = ReadPackets(out, TRUE)
      /\ toProvider' = Tail(toProvider)
      /\ phase' = phase /\ lock' = lock /\ ended' = ended
      /\ calls' = calls /\ routes' = routes /\ saved' = saved /\ toWorklet' = toWorklet
      /\ bridge' = bridge /\ open' = open /\ admitted' = admitted
  BY DEF ReceiveRunning, Answers, system, worklet
<1>2. /\ phase = "started" /\ session.applied /\ ~session.running /\ toProvider # <<>>
      /\ started = "waiting" /\ ~session.pairing /\ bridge.engine \notin {"none", "starting"}
      /\ open => bridge.state \in {"running", "stopped"}
  BY <1>1, FirstReply DEF Receives, Arrived, Expects, Early
<1>3. /\ session' \in [pairing : BOOLEAN, requested : BOOLEAN, applied : BOOLEAN, running : BOOLEAN]
      /\ ~session'.pairing /\ session'.requested /\ session'.applied /\ session'.running
      /\ session.requested
  BY <1>1, <1>2 DEF IInv, TypeOK, Progress
<1>4. /\ open => bridge.state = "running"
      /\ ended = "none"
  BY <1>2 DEF IInv, Stream, Held
<1>5. /\ out \in Outs /\ out' \in Outs /\ out'.inFlight = out.inFlight /\ out'.pending = out.pending
      /\ Count(out') = Count(out)
      /\ out'.reading <=> out.reading \/ (out.inFlight = None /\ out.pending = <<>>)
  <2>1. out \in Outs
    BY DEF IInv, TypeOK, Outs
  <2>2. ReadPackets(out, TRUE) = out'
    BY <1>1
  <2> QED BY <2>1, <2>2, ReadPacketsOf
<1>6. /\ toProvider' \in Seq(Replies) /\ Len(toProvider') <= Wire
      /\ \A i \in 1 .. Len(toProvider') :
           /\ i + 1 \in 1 .. Len(toProvider) /\ toProvider'[i] = toProvider[i + 1]
           /\ toProvider'[i] \notin Early
  BY <1>1, <1>2, RepliesLeft
<1> USE DEF IInv
<1>7. TypeOK'
  <2>1. Count(out)' <= Limit
    <3>1. Count(out') <= Limit
      BY <1>5 DEF TypeOK
    <3> QED BY <3>1 DEF Count
  <2>2. TypeOK
    OBVIOUS
  <2>3. /\ timer' = "off" /\ started' = "ok"
        /\ phase' = phase /\ lock' = lock /\ ended' = ended
        /\ calls' = calls /\ routes' = routes /\ saved' = saved /\ toWorklet' = toWorklet
        /\ bridge' = bridge /\ open' = open /\ admitted' = admitted
    BY <1>1
  <2> QED BY <1>3, <1>5, <1>6, <2>1, <2>2, <2>3 DEF TypeOK, Outs
<1>8. AtRest' /\ Held'
  BY <1>1, <1>2 DEF AtRest, Held
<1>9. Progress'
  <2>1. out'.reading \/ out'.inFlight # None
    BY <1>5 DEF Output
  <2> QED BY <1>1, <1>2, <1>3, <1>4, <2>1 DEF Progress
<1>10. Asked'
  BY <1>1, <1>2, <1>3 DEF Asked
<1>11. Output'
  BY <1>1, <1>2, <1>3, <1>5 DEF Output, Flows
<1>12. Stream'
  BY <1>1, <1>2, <1>3, <1>5 DEF Stream, Flows, Opens
<1>13. Replied'
  BY <1>1, <1>3, <1>6 DEF Replied, Early
<1>14. Works'
  <2>1. bridge.state # "initial" /\ bridge.at # "pairing" /\ bridge.engine # "starting"
    BY <1>2 DEF Works
  <2> QED BY <1>1, <1>2, <1>3, <1>6, <2>1 DEF Works
<1>15. Truth'
  BY <1>1, <1>3, <1>4 DEF Truth
<1> QED BY <1>7, <1>8, <1>9, <1>10, <1>11, <1>12, <1>13, <1>14, <1>15

LEMMA ReceiveTrafficKeeps == ASSUME IInv, ReceiveTraffic PROVE IInv'
<1>1. /\ toProvider # <<>> /\ toProvider' = Tail(toProvider)
      /\ phase' = phase /\ session' = session /\ lock' = lock /\ timer' = timer /\ out' = out
      /\ started' = started /\ ended' = ended /\ calls' = calls /\ routes' = routes /\ saved' = saved
      /\ toWorklet' = toWorklet /\ bridge' = bridge /\ open' = open /\ admitted' = admitted
  BY DEF ReceiveTraffic, Receives, Arrived, provider, system, worklet
<1>2. /\ toProvider' \in Seq(Replies) /\ Len(toProvider') <= Wire
      /\ \A i \in 1 .. Len(toProvider') :
           /\ i + 1 \in 1 .. Len(toProvider) /\ toProvider'[i] = toProvider[i + 1]
           /\ toProvider'[i] \notin Early
  BY <1>1, RepliesLeft
<1> USE DEF IInv
<1>3. TypeOK'
  <2>1. TypeOK
    OBVIOUS
  <2> QED BY <1>1, <1>2, <2>1 DEF TypeOK, Count
<1>4. AtRest' /\ Held' /\ Asked' /\ Progress' /\ Truth'
  BY <1>1 DEF AtRest, Held, Asked, Progress, Truth
<1>5. Output' /\ Stream'
  BY <1>1 DEF Output, Stream, Flows, Opens
<1>6. Replied'
  BY <1>1, <1>2 DEF Replied
<1>7. Works'
  BY <1>1, <1>2 DEF Works
<1> QED BY <1>3, <1>4, <1>5, <1>6, <1>7

-----------------------------------------------------------------------------
(* What the system answers *)

\* The call that is answered is the session's own only when all others are through.
LEMMA AnswerOf ==
  ASSUME IInv, calls # <<>>
  PROVE  /\ Head(calls) \in {"new", "old"} /\ Tail(calls) \in Seq({"new", "old"})
         /\ phase = "started" /\ Head(calls) = "new" =>
              session.requested /\ ~session.applied /\ Tail(calls) = <<>>
         /\ phase = "started" /\ Head(calls) = "old" =>
              /\ ~session.applied
              /\ session.requested =>
                   /\ Tail(calls) # <<>>
                   /\ \A i \in 1 .. Len(Tail(calls)) : Tail(calls)[i] = "new" <=> i = Len(Tail(calls))
              /\ ~session.requested => \A i \in 1 .. Len(Tail(calls)) : Tail(calls)[i] = "old"
         /\ phase = "stopped" => \A i \in 1 .. Len(Tail(calls)) : Tail(calls)[i] = "old"
<1>1. calls \in Seq({"new", "old"})
  BY DEF IInv, TypeOK
<1>2. /\ Tail(calls) \in Seq({"new", "old"}) /\ Len(calls) \in Nat /\ Len(calls) >= 1
      /\ Len(Tail(calls)) = Len(calls) - 1 /\ Head(calls) = calls[1] /\ calls[1] \in {"new", "old"}
      /\ \A i \in 1 .. Len(Tail(calls)) : i + 1 \in 1 .. Len(calls) /\ Tail(calls)[i] = calls[i + 1]
  BY <1>1, TailOf
<1>3. 1 \in 1 .. Len(calls)
  BY <1>2
<1>4. ASSUME phase = "started" PROVE ~session.applied
  BY <1>4 DEF IInv, Asked
<1>5. ASSUME phase = "started", ~session.requested
      PROVE  Head(calls) # "new" /\ \A i \in 1 .. Len(Tail(calls)) : Tail(calls)[i] = "old"
  BY <1>2, <1>3, <1>5 DEF IInv, Asked
<1>6. ASSUME phase = "started", session.requested
      PROVE  \A i \in 1 .. Len(calls) : calls[i] = "new" <=> i = Len(calls)
  BY <1>4, <1>6 DEF IInv, Asked
<1>7. ASSUME phase = "started", session.requested, Head(calls) = "new" PROVE Tail(calls) = <<>>
  <2>1. Len(calls) = 1
    BY <1>2, <1>3, <1>6, <1>7
  <2>2. Len(Tail(calls)) = 0
    BY <1>2, <2>1
  <2> QED BY <1>2, <2>2, EmptySeq
<1>8. ASSUME phase = "started", session.requested, Head(calls) = "old"
      PROVE  /\ Tail(calls) # <<>>
             /\ \A i \in 1 .. Len(Tail(calls)) : Tail(calls)[i] = "new" <=> i = Len(Tail(calls))
  <2>1. Len(calls) # 1
    BY <1>2, <1>3, <1>6, <1>8
  <2>2. Len(Tail(calls)) # 0
    BY <1>2, <2>1
  <2>3. Tail(calls) # <<>>
    BY <2>2, EmptySeq
  <2>4. \A i \in 1 .. Len(Tail(calls)) : Tail(calls)[i] = "new" <=> i + 1 = Len(calls)
    BY <1>2, <1>6, <1>8
  <2>5. \A i \in 1 .. Len(Tail(calls)) : i + 1 = Len(calls) <=> i = Len(Tail(calls))
    BY <1>2
  <2> QED BY <2>3, <2>4, <2>5
<1>9. ASSUME phase = "stopped" PROVE \A i \in 1 .. Len(Tail(calls)) : Tail(calls)[i] = "old"
  BY <1>2, <1>9 DEF IInv, AtRest
<1> QED BY <1>2, <1>4, <1>5, <1>7, <1>8, <1>9

\* An answer that comes after its session has no effect but on the routes.
LEMMA LateAnswerKeeps ==
  ASSUME IInv, calls # <<>>, ~(Head(calls) = "new" /\ phase = "started"),
         calls' = Tail(calls), routes' \in {"none", "new", "old"},
         UNCHANGED <<phase, session, lock, timer, out, started, ended, saved>>,
         UNCHANGED <<toWorklet, toProvider, bridge, open, admitted>>
  PROVE  IInv'
<1>1. /\ phase' = phase /\ session' = session /\ lock' = lock /\ timer' = timer /\ out' = out
      /\ started' = started /\ ended' = ended /\ saved' = saved /\ toWorklet' = toWorklet
      /\ toProvider' = toProvider /\ bridge' = bridge /\ open' = open /\ admitted' = admitted
  OBVIOUS
<1>2. /\ Head(calls) \in {"new", "old"} /\ calls' \in Seq({"new", "old"})
      /\ phase = "started" =>
           /\ ~session.applied
           /\ session.requested => /\ calls' # <<>>
                                   /\ \A i \in 1 .. Len(calls') : calls'[i] = "new" <=> i = Len(calls')
           /\ ~session.requested => \A i \in 1 .. Len(calls') : calls'[i] = "old"
      /\ phase = "stopped" => \A i \in 1 .. Len(calls') : calls'[i] = "old"
  BY AnswerOf
<1> USE DEF IInv
<1>3. TypeOK'
  <2>1. TypeOK
    OBVIOUS
  <2> QED BY <1>1, <1>2, <2>1 DEF TypeOK, Count
<1>4. AtRest' /\ Asked'
  BY <1>1, <1>2 DEF AtRest, Asked
<1>5. Held' /\ Progress' /\ Truth'
  BY <1>1 DEF Held, Progress, Truth
<1>6. Output' /\ Stream'
  BY <1>1 DEF Output, Stream, Flows, Opens
<1>7. Replied' /\ Works'
  BY <1>1 DEF Replied, Works
<1> QED BY <1>3, <1>4, <1>5, <1>6, <1>7

\* What is left alone when the settings are in force.
Elsewhere ==
  UNCHANGED <<phase, lock, ended, toWorklet, toProvider, bridge, open, admitted>>

\* A pairing is saved, and then reported.
LEMMA PairingGoes ==
  ASSUME IInv, phase = "started", calls # <<>>, Head(calls) = "new",
         calls' = Tail(calls), routes' = Head(calls), session.pairing, Goes, Elsewhere
  PROVE  IInv'
<1>1. /\ saved' = TRUE /\ session' = [session EXCEPT !.applied = TRUE, !.running = TRUE]
      /\ started' = "ok" /\ timer' = "off" /\ out' = out
      /\ phase' = phase /\ lock' = lock /\ ended' = ended /\ toWorklet' = toWorklet
      /\ toProvider' = toProvider /\ bridge' = bridge /\ open' = open /\ admitted' = admitted
  BY DEF Goes, Answers, Elsewhere
<1>2. session.requested /\ ~session.applied /\ calls' = <<>> /\ routes' = "new"
  BY AnswerOf
<1>3. /\ session' \in [pairing : BOOLEAN, requested : BOOLEAN, applied : BOOLEAN, running : BOOLEAN]
      /\ session'.pairing /\ session'.requested /\ session'.applied /\ session'.running
  BY <1>1, <1>2 DEF IInv, TypeOK
<1>4. ended = "none"
  BY DEF IInv, Held
<1>5. \A i \in 1 .. Len(toProvider) : toProvider[i] \notin Early
  BY <1>2 DEF IInv, Replied, Early
<1> USE DEF IInv
<1>6. TypeOK'
  <2>1. calls' \in Seq({"new", "old"})
    BY <1>2, EmptySeq
  <2>2. saved' \in BOOLEAN
    BY <1>1
  <2>3. /\ started' = "ok" /\ timer' = "off" /\ out' = out
        /\ phase' = phase /\ lock' = lock /\ ended' = ended /\ toWorklet' = toWorklet
        /\ toProvider' = toProvider /\ bridge' = bridge /\ open' = open /\ admitted' = admitted
    BY <1>1
  <2> QED BY <1>2, <1>3, <2>1, <2>2, <2>3 DEF TypeOK, Count
<1>7. AtRest' /\ Held'
  BY <1>1 DEF AtRest, Held
<1>8. Asked'
  BY <1>2, <1>3 DEF Asked
<1>9. Progress'
  BY <1>1, <1>3 DEF Progress
<1>10. Output'
  BY <1>1, <1>3 DEF Output, Flows
<1>11. Stream'
  BY <1>1, <1>2, <1>3 DEF Stream, Opens, Opening, Flows
<1>12. Replied'
  BY <1>1, <1>5 DEF Replied, Early
<1>13. Works'
  BY <1>1, <1>2, <1>3 DEF Works
<1>14. Truth'
  <2>1. admitted
    BY <1>2 DEF Truth
  <2> QED BY <1>1, <1>4, <2>1 DEF Truth
<1> QED BY <1>6, <1>7, <1>8, <1>9, <1>10, <1>11, <1>12, <1>13, <1>14

\* A connection goes on with the worklet, which waits for nothing else, and nothing is on
\* its way there.
LEMMA ConnectionGoes ==
  ASSUME IInv, phase = "started", calls # <<>>, Head(calls) = "new",
         calls' = Tail(calls), routes' = Head(calls), ~session.pairing, Goes, Elsewhere
  PROVE  IInv'
<1>1. /\ session' = [session EXCEPT !.applied = TRUE] /\ out' = Queued(out, "ready")
      /\ saved' = saved /\ started' = started /\ timer' = timer
      /\ phase' = phase /\ lock' = lock /\ ended' = ended /\ toWorklet' = toWorklet
      /\ toProvider' = toProvider /\ bridge' = bridge /\ open' = open /\ admitted' = admitted
  BY DEF Goes, Elsewhere
<1>2. session.requested /\ ~session.applied /\ calls' = <<>> /\ routes' = "new"
  BY AnswerOf
<1>3. /\ session' \in [pairing : BOOLEAN, requested : BOOLEAN, applied : BOOLEAN, running : BOOLEAN]
      /\ ~session'.pairing /\ session'.requested /\ session'.applied
      /\ session'.running = session.running
  BY <1>1, <1>2 DEF IInv, TypeOK
<1>4. bridge.state = "settings" /\ ~session.running
  BY <1>2 DEF IInv, Progress
<1>5. out \in Outs /\ out.inFlight = None /\ out.pending = <<>>
  <2>1. out \in Outs /\ out.inFlight \in Frames \cup {None}
    BY DEF IInv, TypeOK, Outs
  <2>2. out.inFlight \notin Frames
    BY <1>2, <1>4 DEF IInv, Output, Stream, Opens, Opening, Flows, Frames
  <2> QED BY <2>1, <2>2 DEF IInv, Output
<1>6. toWorklet = <<>>
  <2>1. toWorklet \in Seq(Frames)
    BY DEF IInv, TypeOK
  <2>2. ASSUME toWorklet # <<>> PROVE FALSE
    <3>1. 1 \in 1 .. Len(toWorklet) /\ toWorklet[1] \in Frames
      BY <2>1, <2>2, TailOf
    <3> QED BY <1>2, <1>4, <3>1 DEF IInv, Stream, Opens, Opening, Flows, Frames
  <2> QED BY <2>2
<1>7. /\ out' \in Outs /\ out'.reading = out.reading /\ Count(out') = 1
      /\ out'.inFlight = "ready" /\ out'.pending = <<>> /\ Len(<<>>) = 0
  <2>1. "ready" \in Frames /\ Len(<<>>) = 0
    BY DEF Frames
  <2>2. Count(out) = 0
    BY <1>5, <2>1, CountOf
  <2> QED BY <1>1, <1>5, <2>1, <2>2, QueuedOf
<1> USE DEF IInv
<1>8. TypeOK'
  <2>1. calls' \in Seq({"new", "old"})
    BY <1>2, EmptySeq
  <2>2. Count(out)' <= Limit
    BY <1>7, TunnelAssumption DEF Count
  <2>3. /\ saved' = saved /\ started' = started /\ timer' = timer
        /\ phase' = phase /\ lock' = lock /\ ended' = ended /\ toWorklet' = toWorklet
        /\ toProvider' = toProvider /\ bridge' = bridge /\ open' = open /\ admitted' = admitted
    BY <1>1
  <2>4. out' \in Outs /\ routes' = "new"
    BY <1>2, <1>7
  <2> QED BY <1>3, <2>1, <2>2, <2>3, <2>4 DEF TypeOK, Outs
<1>9. AtRest' /\ Held'
  BY <1>1 DEF AtRest, Held
<1>10. Asked'
  BY <1>2, <1>3 DEF Asked
<1>11. Progress'
  BY <1>1, <1>3, <1>4 DEF Progress
<1>12. Output'
  BY <1>1, <1>3, <1>7, TunnelNone DEF Output, Frames
<1>13. Stream'
  <2>1. ~(open /\ bridge.state = "stopped")
    BY <1>4
  <2> QED BY <1>1, <1>3, <1>4, <1>6, <1>7, <2>1 DEF Stream, Opens, Opening
<1>14. Replied'
  BY <1>1, <1>2, <1>3 DEF Replied, Early
<1>15. Works'
  BY <1>1, <1>3, <1>4 DEF Works
<1>16. Truth'
  BY <1>1, <1>3, <1>4 DEF Truth
<1> QED BY <1>8, <1>9, <1>10, <1>11, <1>12, <1>13, <1>14, <1>15, <1>16

LEMMA SettingsDoneKeeps == ASSUME IInv, SettingsDone PROVE IInv'
<1>1. /\ calls # <<>> /\ calls' = Tail(calls) /\ routes' = Head(calls)
      /\ UNCHANGED <<phase, lock, ended, toWorklet, toProvider, bridge, open, admitted>>
  BY DEF SettingsDone, worklet
<1>2. Head(calls) \in {"new", "old"}
  BY <1>1, AnswerOf
<1>3. CASE Head(calls) = "new" /\ phase = "started"
  <2>1. Goes /\ Elsewhere
    BY <1>1, <1>3 DEF SettingsDone, Elsewhere
  <2> QED BY <1>1, <1>3, <2>1, PairingGoes, ConnectionGoes
<1>4. CASE ~(Head(calls) = "new" /\ phase = "started")
  <2>1. UNCHANGED <<session, timer, out, started, saved>>
    BY <1>4 DEF SettingsDone
  <2> QED BY <1>1, <1>2, <1>4, <2>1, LateAnswerKeeps
<1> QED BY <1>3, <1>4

LEMMA SettingsFailKeeps == ASSUME IInv, SettingsFail PROVE IInv'
<1>1. calls # <<>> /\ admitted' = admitted /\ Head(calls) \in {"new", "old"}
  BY AnswerOf DEF SettingsFail
<1>2. CASE Head(calls) = "new" /\ phase = "started"
  <2>1. Fail("unknown", "settings") /\ saved' \in {saved, saved \/ session.pairing}
    BY <1>2 DEF SettingsFail
  <2>2. saved' \in BOOLEAN
    BY <2>1 DEF IInv, TypeOK
  <2> QED BY <1>1, <2>1, <2>2, FailKeeps DEF Ends
<1>3. CASE ~(Head(calls) = "new" /\ phase = "started")
  <2>1. /\ calls' = Tail(calls)
        /\ UNCHANGED <<phase, session, lock, timer, out, started, ended, saved>>
        /\ UNCHANGED <<toWorklet, toProvider, bridge, open, admitted>>
        /\ routes' = routes
    BY <1>1, <1>3 DEF SettingsFail, provider
  <2>2. routes \in {"none", "new", "old"}
    BY DEF IInv, TypeOK
  <2> QED BY <1>1, <1>3, <2>1, <2>2, LateAnswerKeeps
<1> QED BY <1>2, <1>3

-----------------------------------------------------------------------------
(* Theorems *)

LEMMA InitEstablishes == Init => IInv
<1> SUFFICES ASSUME Init PROVE IInv
  OBVIOUS
<1>1. /\ phase = "stopped" /\ session = NoSession /\ lock = FALSE /\ timer = "off"
      /\ out = Nothing /\ started = "none" /\ ended = "none" /\ calls = <<>>
      /\ routes = "none" /\ saved \in BOOLEAN /\ toWorklet = <<>> /\ toProvider = <<>>
      /\ bridge = NoBridge /\ open = FALSE /\ admitted = FALSE
  BY DEF Init
<1>2. /\ session \in [pairing : BOOLEAN, requested : BOOLEAN, applied : BOOLEAN, running : BOOLEAN]
      /\ ~session.pairing /\ ~session.requested /\ ~session.applied /\ ~session.running
  BY <1>1 DEF NoSession
<1>3. /\ out.pending = <<>> /\ out.inFlight = None /\ ~out.reading /\ out \in Outs
      /\ Len(out.pending) = 0
  BY <1>1, EmptySeq DEF Nothing, Outs
<1>4. /\ bridge.state = "none" /\ bridge.at = "none" /\ bridge.engine = "none"
      /\ bridge \in Bridges
  BY <1>1 DEF NoBridge, Bridges
<1>5. TypeOK
  <2>1. Count(out) <= Limit
    BY <1>3, CountOf, TunnelAssumption
  <2>2. /\ toWorklet \in Seq(Frames) /\ Len(toWorklet) <= Wire
        /\ toProvider \in Seq(Replies) /\ Len(toProvider) <= Wire
        /\ calls \in Seq({"new", "old"})
    BY <1>1, EmptySeq, TunnelAssumption
  <2> QED BY <1>1, <1>2, <1>3, <1>4, <2>1, <2>2 DEF TypeOK, Outs, Bridges
<1>6. AtRest /\ Held /\ Asked /\ Works
  BY <1>1, <1>3, <1>4, EmptySeq DEF AtRest, Held, Asked, Works
<1>7. Progress
  BY <1>1, <1>2 DEF Progress
<1>8. Output /\ Stream
  BY <1>1, <1>2, <1>3, EmptySeq, TunnelNone DEF Output, Stream, Opening, Frames
<1>9. Replied /\ Truth
  BY <1>1, <1>2, EmptySeq DEF Replied, Truth
<1> QED BY <1>5, <1>6, <1>7, <1>8, <1>9 DEF IInv

LEMMA NothingKeeps == ASSUME IInv, UNCHANGED vars PROVE IInv'
<1>1. /\ UNCHANGED <<phase, session, lock, timer, out, started, ended, calls, routes, saved>>
      /\ UNCHANGED <<toWorklet, toProvider, bridge, open, admitted>>
  BY DEF vars, provider, system, worklet
<1>2. TypeOK'
  BY <1>1 DEF IInv, TypeOK, Count
<1>3. AtRest' /\ Held' /\ Asked' /\ Works'
  BY <1>1 DEF IInv, AtRest, Held, Asked, Works
<1>4. Progress' /\ Truth'
  BY <1>1 DEF IInv, Progress, Truth
<1>5. Output' /\ Stream' /\ Replied'
  BY <1>1 DEF IInv, Output, Stream, Replied, Flows, Opens
<1> QED BY <1>2, <1>3, <1>4, <1>5 DEF IInv

LEMMA NextKeeps == IInv /\ [Next]_vars => IInv'
<1> SUFFICES ASSUME IInv, [Next]_vars PROVE IInv'
  OBVIOUS
<1>1. CASE \E pairing \in BOOLEAN : StartTunnel(pairing)
  BY <1>1, StartTunnelKeeps
<1>2. CASE StopTunnel \/ Timeout \/ Killed
  BY <1>2, StopTunnelKeeps, TimeoutKeeps, KilledKeeps
<1>3. CASE Written
  BY <1>3, WrittenKeeps
<1>4. CASE \E n \in 0 .. (Limit + 1) : PacketsRead(n)
  BY <1>4, PacketsReadKeeps
<1>5. CASE Receive
  BY <1>5, ReceiveSettingsKeeps, ReceivePairedKeeps, ReceivePairErrorKeeps, ReceiveRunningKeeps,
     ReceiveTrafficKeeps, ReceiveStoppedKeeps, UnexpectedKeeps, ClosedKeeps DEF Receive
<1>6. CASE SettingsDone \/ SettingsFail
  BY <1>6, SettingsDoneKeeps, SettingsFailKeeps
<1>7. CASE Bridge
  <2>1. CASE PairBegins \/ PairEnds \/ StartBegins \/ EngineStarts \/ EngineStarted
    BY <2>1, PairBeginsKeeps, PairEndsKeeps, StartBeginsKeeps, EngineStartsKeeps, EngineStartedKeeps
  <2>2. CASE EngineStartFails \/ Delivers \/ StopBegins \/ LoopEnds
    BY <2>2, EngineStartFailsKeeps, DeliversKeeps, StopBeginsKeeps, LoopEndsKeeps
  <2>3. CASE EngineStops \/ EngineStopped \/ EngineStopFails \/ Acknowledges
    BY <2>3, EngineStopsKeeps, EngineStoppedKeeps, EngineStopFailsKeeps, AcknowledgesKeeps
  <2>4. CASE EngineFails \/ EngineSends
    BY <2>4, EngineFailsKeeps, EngineSendsKeeps
  <2> QED BY <1>7, <2>1, <2>2, <2>3, <2>4 DEF Bridge
<1>8. CASE UNCHANGED vars
  BY <1>8, NothingKeeps
<1> QED BY <1>1, <1>2, <1>3, <1>4, <1>5, <1>6, <1>7, <1>8 DEF Next

\* The invariant holds in every state of every execution.
LEMMA Inductive == Spec => []IInv
BY InitEstablishes, NextKeeps, PTL DEF Spec

\* The state has its type: no pipe holds more than it takes, and the provider never has more
\* to write than its limit, the control frames it queues past every check included.
THEOREM TypeCorrect == Spec => []TypeOK
<1>1. IInv => TypeOK
  BY DEF IInv
<1> QED BY <1>1, Inductive, PTL

\* PacketTunnelProvider.swift with src/vpn/worklet-bridge.ts: the lock is not released while an
\* engine lives or a pairing is under way, whatever fails and however the two race.
THEOREM LockOutlivesEngine == Spec => []EngineHasLock
<1>1. IInv => EngineHasLock
  BY DEF IInv, AtRest, Held, EngineHasLock
<1> QED BY <1>1, Inductive, PTL

\* What the system and the app are told of a start is true when it is told, and stays true
\* while the session lasts.
THEOREM ReportsStayTrue == Spec => []ReportsAreTrue
<1>1. ASSUME IInv PROVE ReportsAreTrue
  <2>1. started = "definite" => ~admitted
    BY <1>1 DEF IInv, Truth
  <2>2. ASSUME session.running PROVE routes = "new"
    BY <1>1, <2>2 DEF IInv, Progress, Asked
  <2>3. ASSUME session.running, session.pairing PROVE admitted /\ saved
    BY <1>1, <2>3 DEF IInv, Progress, Truth
  <2>4. ASSUME session.running, ~session.pairing
        PROVE  bridge.engine \notin {"none", "starting"} /\ (out.reading \/ out.inFlight # None)
    BY <1>1, <2>4 DEF IInv, Progress
  <2> QED BY <2>1, <2>2, <2>3, <2>4 DEF ReportsAreTrue
<1> QED BY <1>1, Inductive, PTL

\* Neither side ever gets a frame it has to refuse once a tunnel has started, and a stop is
\* never refused for want of room: for pipes and queues of any length.
THEOREM TheyUnderstand == Spec => []Understood
<1>1. ASSUME IInv PROVE Understood
  <2>1. started = "ok" => ended # "unexpected"
    BY <1>1 DEF IInv, Truth
  <2>2. ASSUME phase = "started" PROVE Count(DiscardPackets(out)) < Limit
    <3>1. out \in Outs /\ \A i \in 1 .. Len(out.pending) : out.pending[i] = "packet"
      BY <1>1, <2>2 DEF IInv, TypeOK, Output, Outs
    <3>2. Count(DiscardPackets(out)) \in {0, 1}
      BY <3>1, DiscardOf
    <3> QED BY <3>2, TunnelAssumption
  <2>3. ASSUME bridge.at = "reading", open, toWorklet # <<>> PROVE Accepts(Head(toWorklet))
    <3>1. toWorklet \in Seq(Frames)
      BY <1>1 DEF IInv, TypeOK
    <3>2. Head(toWorklet) = toWorklet[1] /\ toWorklet[1] \in Frames /\ 1 \in 1 .. Len(toWorklet)
      BY <2>3, <3>1, TailOf
    <3>3. phase # "stopped"
      BY <1>1, <2>3 DEF IInv, AtRest
    <3>4. bridge.state # "stopped"
      BY <1>1, <2>3, <3>3 DEF IInv, Stream
    <3>5. toWorklet[1] \in Opening => Opens(toWorklet[1])
      BY <1>1, <3>2 DEF IInv, Stream
    <3>6. toWorklet[1] = "packet" => bridge.state = "running"
      BY <1>1, <2>3, <3>2 DEF IInv, Stream, Flows
    <3> QED BY <3>2, <3>4, <3>5, <3>6 DEF Accepts, Opens, Opening, Frames
  <2> QED BY <2>1, <2>2, <2>3 DEF Understood
<1> QED BY <1>1, Inductive, PTL

=============================================================================
