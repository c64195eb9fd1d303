------------------------------ MODULE Pairing -------------------------------
(***************************************************************************)
(* Joining a receiver: the dialer's side (pairWithReceiver of              *)
(* src/vpn/pair.ts, within peerJoinCommand of src/cli/main.ts), the        *)
(* receiver's side (enroll and attachEnrollment of src/vpn/engine.ts with  *)
(* the enroll hook of src/vpn/receiver.ts) and the connection between      *)
(* them, which may end at any moment for either of them with the request   *)
(* or the answer under way.                                                *)
(*                                                                         *)
(* Each attempt has a connection of its own.  The store is the one of      *)
(* ReceiverStore, reduced to the devices and invitations it has committed  *)
(* and to what the owner revokes of them; the four reasons for which it    *)
(* rejects a device are one, "rejected".                                   *)
(***************************************************************************)
EXTENDS FiniteSets

CONSTANTS
  Dialers,   \* identities that join
  Secrets,   \* secrets of the receiver's invitations
  Attempts,  \* runs of `peer join`
  Nothing    \* no identity, secret, answer or outcome

Failures == {"unusable", "rejected", "unavailable"}
Answers  == {"accepted", "unusable", "rejected", "unknown"}

ASSUME NothingAssumption == Nothing \notin Failures \cup Answers

VARIABLES
  attempt,   \* each attempt: its dialer, secret, phase and outcome
  request,   \* whether the attempt's request may still reach the receiver
  handler,   \* the receiver's handler of the attempt's connection
  open,      \* attempts whose connection the receiver has not seen end
  reply,     \* the answer under way to the dialer, or Nothing
  devices,   \* dialers the receiver has
  revoked,   \* history: dialers revoked since the receiver last had them
  usable,    \* secrets outstanding in its store
  failed,    \* the store refuses every operation
  committed, \* history: attempts whose enrollment was committed
  configs    \* each dialer's config: "empty", "paired" or "edited"

joinVars == <<attempt, request, handler, open, reply, devices, revoked, usable, failed, committed, configs>>
dialer   == <<attempt, configs>>
wire     == <<request, reply>>
ledger   == <<devices, revoked, usable, failed, committed>>

Unstarted == [dialer |-> Nothing, secret |-> Nothing, phase |-> "idle", outcome |-> Nothing]

Runs == [dialer : Dialers, secret : Secrets \cup {Nothing},
         phase : {"connecting", "submitted", "accepted", "saving", "done"},
         outcome : {Nothing, "accepted", "unknown"} \cup Failures]

InPhase(a, ph) == attempt[a].phase = ph
Becomes(a, ph) == attempt' = [attempt EXCEPT ![a].phase = ph]

\* The process runs, and has the lock of its identity.
Running(a) == attempt[a].phase \notin {"idle", "done"}

Concludes(a, o) ==
  attempt' = [attempt EXCEPT ![a].phase = IF o = "accepted" THEN "accepted" ELSE "done",
                             ![a].outcome = o]

-----------------------------------------------------------------------------
(* The dialer *)

\* `peer join`, under the identity's lock and on a config without peers.  An
\* invitation that cannot be parsed is unusable at once.
Join(a, d) ==
  /\ attempt[a] = Unstarted /\ configs[d] = "empty"
  /\ \A b \in Attempts : Running(b) => attempt[b].dialer # d
  /\ \/ \E s \in Secrets :
          attempt' = [attempt EXCEPT ![a] = [Unstarted EXCEPT !.dialer = d, !.secret = s, !.phase = "connecting"]]
     \/ attempt' = [attempt EXCEPT ![a] =
                     [Unstarted EXCEPT !.dialer = d, !.phase = "done", !.outcome = "unusable"]]
  /\ UNCHANGED <<wire, handler, open, ledger, configs>>

\* The receiver handles the connection, or turns it away: at its limits, while it
\* stops, or because the identity already is a peer of this generation.
Contacts(a) ==
  \/ handler' = [handler EXCEPT ![a] = "waiting"] /\ open' = open \cup {a}
  \/ handler' = [handler EXCEPT ![a] = "ended"] /\ UNCHANGED open

\* Fault: `submitted` is set when the request has been written.
SubmitLate(a) ==
  /\ InPhase(a, "connecting")
  /\ \/ handler[a] = "none" /\ Contacts(a) /\ request' = request \cup {a} /\ UNCHANGED attempt
     \/ handler[a] # "none" /\ Becomes(a, "submitted") /\ UNCHANGED <<request, handler, open>>
  /\ UNCHANGED <<reply, ledger, configs>>

\* Connected to the receiver's key.  From here on the request may have been sent.
Submit(a) ==
  /\ InPhase(a, "connecting")
  /\ Contacts(a)
  /\ request' = request \cup {a}
  /\ Becomes(a, "submitted")
  /\ UNCHANGED <<reply, ledger, configs>>

\* Fault: the timer is there for the connection only.
TimerUntilConnected(a) ==
  /\ \/ InPhase(a, "connecting") /\ Concludes(a, "unavailable")
     \/ InPhase(a, "submitted") /\ a \notin open /\ Concludes(a, "unknown")
  /\ UNCHANGED <<wire, handler, open, ledger, configs>>

\* The 20 s timer, the end of the connection, an error or an answer that cannot be
\* understood.
GiveUp(a) ==
  /\ \/ InPhase(a, "connecting") /\ Concludes(a, "unavailable")
     \/ InPhase(a, "submitted") /\ Concludes(a, "unknown")
  /\ UNCHANGED <<wire, handler, open, ledger, configs>>

\* The first answer counts.
Hear(a) ==
  /\ InPhase(a, "submitted") /\ reply[a] # Nothing
  /\ Concludes(a, reply[a])
  /\ UNCHANGED <<wire, handler, open, ledger, configs>>

\* The config is not what it was, or the addresses conflict with local ones.
SaveRefused(a) ==
  /\ InPhase(a, "accepted") /\ Becomes(a, "done")
  /\ UNCHANGED <<wire, handler, open, ledger, configs>>

ConfigUnchanged(a) ==
  /\ InPhase(a, "accepted") /\ configs[attempt[a].dialer] = "empty"
  /\ Becomes(a, "saving")
  /\ UNCHANGED <<wire, handler, open, ledger, configs>>

\* saveConfig puts the new file in the old one's place, or fails.
SaveConfig(a) ==
  /\ InPhase(a, "saving") /\ Becomes(a, "done")
  /\ configs' \in {configs, [configs EXCEPT ![attempt[a].dialer] = "paired"]}
  /\ UNCHANGED <<wire, handler, open, ledger>>

\* The process dies; its lock goes with it.
Killed(a) ==
  /\ Running(a) /\ Becomes(a, "done")
  /\ UNCHANGED <<wire, handler, open, ledger, configs>>

\* `peer pair`, or the owner, writes peers of his own to the config.
EditConfig(d) ==
  /\ configs[d] = "empty"
  /\ configs' = [configs EXCEPT ![d] = "edited"]
  /\ UNCHANGED <<attempt, wire, handler, open, ledger>>

-----------------------------------------------------------------------------
(* The receiver *)

\* The connection ends for the receiver: the dialer destroyed it, 10 s are over or
\* the engine stops.  A handler still without the request is done.
Drop(a) ==
  /\ a \in open
  /\ open' = open \ {a}
  /\ handler' = [handler EXCEPT ![a] = IF @ = "waiting" THEN "ended" ELSE @]
  /\ UNCHANGED <<dialer, wire, ledger>>

Read(a) ==
  /\ handler[a] = "waiting" /\ a \in request
  /\ request' = request \ {a}
  /\ handler' = [handler EXCEPT ![a] = "enrolling"]
  /\ UNCHANGED <<dialer, reply, open, ledger>>

\* What the handler has to send.
Answer(a, r) ==
  /\ handler[a] = "enrolling"
  /\ handler' = [handler EXCEPT ![a] = r]
  /\ UNCHANGED <<dialer, wire, open>>

\* Fault: the new device takes the others' place.
CommitsAlone(a) ==
  /\ devices' = {attempt[a].dialer}
  /\ revoked' = revoked \ {attempt[a].dialer}
  /\ usable' = usable \ {attempt[a].secret}
  /\ committed' = committed \cup {a}

\* The device and the use of its invitation, in one save.
Commits(a) ==
  /\ devices' = devices \cup {attempt[a].dialer}
  /\ revoked' = revoked \ {attempt[a].dialer}
  /\ usable' = usable \ {attempt[a].secret}
  /\ committed' = committed \cup {a}

Admissible(a) == a \in open /\ ~failed /\ attempt[a].secret \in usable

Enrolls(a) ==
  /\ Admissible(a) /\ Commits(a)
  /\ Answer(a, "accepted")
  /\ UNCHANGED failed

\* Known before anything is saved: no room, no address, a route in the way.
Rejects(a) ==
  /\ Answer(a, "rejected")
  /\ UNCHANGED ledger

\* No such invitation, or it is spent or expired.
Unusable(a) ==
  /\ a \in open /\ ~failed /\ attempt[a].secret \notin usable
  /\ Answer(a, "unusable")
  /\ UNCHANGED ledger

\* The connection ended, the receiver stops or its storage is unavailable.
EnrollEnds(a) ==
  /\ Answer(a, "unknown")
  /\ UNCHANGED ledger

\* The save fails, before or after the new file took its place.
StorageFails(a) ==
  /\ Admissible(a)
  /\ Answer(a, "unknown")
  /\ failed' = TRUE
  /\ Commits(a) \/ UNCHANGED <<devices, revoked, usable, committed>>

\* The answer is sent, if there still is a connection, and the stream ends.
Send(a) ==
  /\ handler[a] \in Answers
  /\ reply' = IF a \in open THEN [reply EXCEPT ![a] = handler[a]] ELSE reply
  /\ handler' = [handler EXCEPT ![a] = "ended"]
  /\ UNCHANGED <<dialer, request, open, ledger>>

\* The invitation expires.
Expire(s) ==
  /\ s \in usable /\ usable' = usable \ {s}
  /\ UNCHANGED <<dialer, wire, handler, open, devices, revoked, failed, committed>>

\* The engine stops: no connection is left, and who waits for a request is done.
GenerationStops ==
  /\ open' = {}
  /\ handler' = [a \in Attempts |-> IF handler[a] = "waiting" THEN "ended" ELSE handler[a]]

Forgets(d) == devices' = devices \ {d} /\ revoked' = revoked \cup {d}

\* The owner revokes a device: the generation stops before the device is taken out of the
\* file.  If that fails, before or after, or no generation follows, so does the receiver.
Revokes(d) ==
  /\ d \in devices /\ ~failed
  /\ GenerationStops
  /\ \/ Forgets(d) /\ failed' \in BOOLEAN
     \/ failed' = TRUE /\ UNCHANGED <<devices, revoked>>
  /\ UNCHANGED <<dialer, wire, usable, committed>>

\* The receiver dies, in whatever state, and starts again from its file.
Restart ==
  /\ handler' = [a \in Attempts |-> IF handler[a] = "none" THEN "none" ELSE "ended"]
  /\ open' = {} /\ failed' = FALSE
  /\ UNCHANGED <<dialer, wire, devices, revoked, usable, committed>>

-----------------------------------------------------------------------------
JoinInit ==
  /\ attempt = [a \in Attempts |-> Unstarted]
  /\ request = {} /\ open = {}
  /\ devices = {} /\ revoked = {} /\ committed = {}
  /\ handler = [a \in Attempts |-> "none"]
  /\ reply = [a \in Attempts |-> Nothing]
  /\ usable = Secrets /\ failed = FALSE
  /\ configs = [d \in Dialers |-> "empty"]

\* What the dialer does without anybody's help.
GoesOn(a) == GiveUp(a) \/ SaveRefused(a) \/ SaveConfig(a)

Dialing(a) ==
  \/ \E d \in Dialers : Join(a, d)
  \/ Submit(a) \/ Hear(a) \/ ConfigUnchanged(a) \/ Killed(a) \/ GoesOn(a)

Handling(a) ==
  \/ Drop(a) \/ Read(a) \/ Send(a)
  \/ Enrolls(a) \/ Rejects(a) \/ Unusable(a) \/ EnrollEnds(a) \/ StorageFails(a)

JoinNext ==
  \/ \E a \in Attempts : Dialing(a) \/ Handling(a)
  \/ \E d \in Dialers : EditConfig(d) \/ Revokes(d)
  \/ \E s \in Secrets : Expire(s)
  \/ Restart

JoinSpec == JoinInit /\ [][JoinNext]_joinVars

\* The dialer's timer fires and its own file operations end; nothing is assumed of
\* the receiver or of the network.
Fairness == \A a \in Attempts : WF_joinVars(GoesOn(a))

FairSpec == JoinSpec /\ Fairness

-----------------------------------------------------------------------------
(* Properties *)

\* Attempts, connections and config are what the code's types allow; who was committed is in
\* the store until the owner revokes him, and nobody else is.
JoinTypeOK ==
  /\ attempt \in [Attempts -> Runs \cup {Unstarted}]
  /\ request \subseteq Attempts /\ open \subseteq Attempts /\ committed \subseteq Attempts
  /\ handler \in [Attempts -> {"none", "waiting", "enrolling", "ended"} \cup Answers]
  /\ reply \in [Attempts -> Answers \cup {Nothing}]
  /\ devices \cup revoked = {attempt[a].dialer : a \in committed} /\ devices \cap revoked = {}
  /\ usable \subseteq Secrets
  /\ failed \in BOOLEAN /\ configs \in [Dialers -> {"empty", "paired", "edited"}]

\* What a dialer is told is true, whatever was lost or died on the way.  Who is told a
\* definite failure was not admitted by that request and will not be: `peer join` reports "no
\* admission confirmed" for everything but "unknown".  An answer of acceptance stands for an
\* update on disk, as the store saves before enroll returns and the engine answers after it;
\* and a config with the receiver in it is that of a device which the receiver has, or which
\* its owner has revoked since.
OutcomeIsTrue ==
  /\ \A a \in Attempts : /\ attempt[a].outcome \in Failures => a \notin committed
                         /\ attempt[a].outcome = "accepted" => a \in committed
  /\ \A d \in Dialers : configs[d] = "paired" => d \in devices \cup revoked

\* `peer join` ends, whether or not there is a receiver that answers: none runs for ever.
JoinEnds ==
  \A a \in Attempts : []<>~Running(a)

=============================================================================
