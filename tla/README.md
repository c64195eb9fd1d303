# Kepos in TLA+

Kepos connects hosts that own a key pair each: a *receiver* keeps a list of
devices it has admitted, gives each an address of its private pool and a TCP
grant, and carries IPv4 packets between them over HyperDHT streams. A *dialer*
joins a receiver once, with an invitation, and connects from then on. This
directory holds TLA+ modules translated from that code, the TLC configurations
that check them on small instances, and proofs of the most important theorems
for every value of the constants. `PROJECT.json` says which lines each
definition stands for, which property watches which hazard, and which fault of
the code each property catches.

All paths below are relative to the repository. `vpn/` is `src/vpn/`.

    tlc -workers 2 -config MCReceiverStore.cfg MCReceiverStore
    tlapm ReceiverStoreProofs.tla

## 1. The system

| part | state | operations | hard behaviour | what makes it correct |
|---|---|---|---|---|
| **receiver store** `vpn/receiver-state.ts` | receiver.json, a copy in memory, a `failed` flag, one queue of operations | open, list, createInvitation, enroll, grant, revoke; each ends in `save` | a crash, power loss or I/O error between write, rename, directory sync and answer; limits of devices, addresses, invitations; expiry under a clock that is set | whatever is on disk can be opened; what was confirmed survives; one invitation admits once; a device keeps its place |
| **receiver process** `vpn/receiver.ts`, `vpn/runtime.ts` | the current generation, the queue of tasks, a reload timer, `stopping`, `failed` | start-up, control commands, enrollment hook, reload, stop | start-up, timer, engines and stop run beside the queue; stops and launches fail half-way | a device never does more than the committed policy allows; generations do not overlap; stop ends and leaves nothing; an admitted device gets served |
| **packet engine** `vpn/engine.ts` | sessions by peer, tracked streams, enrollment reservations and attempts, the writer flag, one dial loop per peer | firewall, connection, greeting, enrollment, packets either way, dial, status, stop | a handler outlives its stream; close events come late; second connections; timers; stop in the middle of anything | status is true; writers exclude each other; places of strangers are bounded; committed enrollments are announced; peers are dialed again |
| **packet policy** `vpn/packet-policy.ts` | flow table, order of closed flows, time of the next sweep | admit (in or out), clear | reuse of tuples, capacity, clock, wrap-around | only granted connections open; the table is current; established flows stay; an orderly connection passes to its end |
| **pairing** `vpn/pair.ts`, `vpn/invitation.ts`, `src/cli/main.ts` | phase and outcome of an attempt; the dialer's config | `peer join`: connect, submit, hear, save the config | a lost request or answer, a timer that races the answer, a receiver that dies or whose storage fails | a definite failure means no admission; acceptance means it is on disk; join ends |
| **runtime lock** `src/runtime/runtime-lock.ts` | the kernel's lock on the open descriptor of a file that stays | acquire, release | a conflict, a chmod, unlock or close that fails, the death of the owner | one owner per identity, and none for ever |
| **command line** `src/cli/*` | config file, signals, a chain of reloads, the engine that runs | peer join/pair/vpn, receiver commands | a reload that stops one engine and starts the next, against a signal, a failure or a broken config | one engine at a time; a stop leaves nothing; the config in the file is the one that runs, or none |
| **framing** `vpn/framing.ts`, `vpn/worklet-framing.ts` | a read buffer, a pending write | send, receive | splits, backpressure, close while waiting | packets come out whole, in order and once, or the stream ends with an error |
| **peer state** `src/state/*`, `src/app-config.ts`, `src/config.ts`, `src/config-toml.ts` | the identity directory, the config file | setup peer, peer join, peer pair | kills between two files; writers that do not share a lock; a damaged or lost identity; an owner who edits | a key that others know is not replaced; a config that was read is not dropped |
| **worklet bridge** `vpn/worklet-bridge.ts`, `vpn/worklet-entry.ts` | `state`, one engine or one pairing, a pipe | pair, start, ready, packet, stop, end of the pipe | stop during start; an engine that goes on while frames arrive | one engine, stopped before the stop is acknowledged |
| **tunnel provider** `apps/macos/Sources/KeposVPN/PacketTunnelProvider.swift`, `WorkletFrames.swift` | the session, the identity's lock, a queue of frames, timers, pending completions | start, stop, settings applied, frames and packets either way, failures | callbacks of a session that is over; a stop that crosses frames; failures after the receiver has committed | the lock outlives the engine; a tunnel that runs has its settings; definite errors mean no admission; every call is answered |
| **macOS controller** `VPNController.swift`, `TunnelLifecycle.swift`, `ManagedPeerState.swift` | the phase shown, the managed profile | connect, disconnect, pair, refresh | overlapping async operations | what is shown and saved belongs to the latest operation |
| **TUN helper** `vpn/linux-tun.ts`, `vpn/native/tun.c` | a child process, a TUN, two pipes | open, configure, copy, close | exit of either side at any await; a close that meets a send that waits | the interface goes when the open fails, the device is closed or the process ends |
| transport `src/mux/*`, diagnostics, menu and routes of the macOS app, web site, scripts | | | | not protocol state of their own; see 7 |

How they interact. `startReceiver` opens the store, takes a snapshot of the
devices and calls `startVpn` with it, which opens the TUN (helper process, routes)
and `startVpnEngine`. The engine calls back into the receiver: `enroll` when a
connected stranger presents an invitation, `changed` when the answer has been
sent or lost. Those callbacks, the commands from the control socket and the
reload timer become tasks of one promise chain; a task that changes the policy
stops the current generation first, saves, and launches a new one. Each session
of an engine owns one `PacketPolicy`, which sees the packets of both directions.
On the dialer `peer join` holds the identity's runtime lock, calls
`pairWithReceiver` and writes the config; `peer vpn` and `peer receiver` hold it as long
as they run an engine, and `peer vpn` replaces its engine when the config changes.

The list of hazards, each at the line where it bites, is in
`PROJECT.json`; the properties are named after what would go wrong.

## 2. The modules

    AdmissionLedger                    what the store promises
          ^  refines (KeepsPromise)
    ReceiverStore  <---- ReceiverStoreProofs
          :  reduced to what callers see
    Receiver  <---- ReceiverProofs     generations, tasks, start-up, stop
          :  enroll / changed
    Engine  <---- EngineProofs         sessions, enrollment, dialing
          :  one per session
    PacketPolicy  <---- PacketPolicyProofs
          ^  INSTANCE
    PolicyTraffic  <---- DataPathProofs  two TCP ends around it
          :  the device both ends of Engine write to
    TunDevice  <---- DataPathProofs    host, helper process, pipes

    PeerVpn  <---- PeerVpnProofs       processes: lock, command, reloads, signals;
                                       one engine is a whole run of Receiver or Engine

    Pairing  <---- PeerProofs          dialer + wire + receiver
          :  the dialer's files
    PeerState  <---- PeerProofs        identity and config under setup, join, pair

    Tunnel  <---- TunnelProofs         macOS: provider + pipes + worklet, around one
                                       engine or one pairing

    Sifting           filter on sequences, for PacketPolicy and Tunnel

`MC<Module>` extends the module with the sets TLC needs. A definition headed
"Fault:" is not part of a specification: it is what a plausible bug would make of
the definition after it, and each property is shown to fail under one of them.

**ReceiverStore** is `class ReceiverState`. `serial` admits one operation at a
time, so `phase` says where the one save is: `staging` (temporary file written
and synced or not yet), `renamed`, `synced`. The file has two contents: `file`,
what any process reads, and `platter`, what a power loss leaves; a rename changes
the first, the directory sync copies it to the second. `Complete` is
`this.state = next` and the caller's resumption, `SaveFails` the catch block,
`CompleteUnclean` an `unlink` that fails in the finally block after the state was
replaced. `SaveFails` answers `storage` or `unclean`, because the clean-up can
throw an error of its own. `Exit` is the death of the process at any stage,
`PowerLoss` also takes what was not synced. A file that fails `validate` cannot
be opened, so `Reopen` has `Valid(file)` as its guard and `ReopenAccepts` says that
the guard is never what stops it. The directory itself is made at `receiver-state.ts:109` and
nothing ever syncs its parent; `PowerLoss` takes the first sync inside it to settle it as well. Secrets stand for their digests; the order of
the arrays, texts and permissions are left out. `issued`, `spending` and `spent` are
history.

**AdmissionLedger** is the promise to callers: a ledger that changes atomically,
"done" only for what no power loss can undo, "refused" only when nothing changed,
"unknown" in between. `KeepsPromise` in ReceiverStore maps `file` to the ledger,
`platter` to what is settled, and the stages after the rename to `changed`.

**Receiver** is the closure `startReceiver` returns. `main` follows start-up and
stop, `task`/`step`/`held` the task at the head of the promise chain and its
await, `queue` the rest of the chain, `engine[g]` each generation with the policy it
was launched from. The store is used through `Outcomes(n)`: an operation saves `n`,
or fails with or without having saved it and with either error, or is rejected
because the store has failed. These are the answers of ReceiverStore. `Contact`
is an engine that calls `enroll`; `EarlyContact` says whether peers reach an engine
before `startVpn` has returned, which they do (the DHT server listens before the
last await). `Break` is the end of the TUN helper or of the control socket.

**Engine** is the closure of `startVpnEngine`. A connection is a record: its
key, what it was attached as, its life as the transport shows it (`destroy()` and
the `close` event are two steps) and the await its handler is at. A handler runs
on after its stream is closed, as it does in the code, until its await settles.
`stop()` is `Stop` (everything up to its first await) and `CleanedUp`. The firewall
is `AdmitPeer` and `Knock`, with reservations and attempts. `Recent` is the loop that
shifts old attempts from the front until one is not old; under a clock that is set back
that is not the same as a filter.

**PacketPolicy** is the class, one action per outcome of `admit`. The cases of a
segment on a tracked flow (`Repeats`, `Replies`, `RepliesAgain`, `Establishes`,
`Continues`, `Resets`) are the branches of the code in its order. A packet swept
the table before it was looked at, so the actions work on `Swept`.

`Tick` sets the clock to any reading from `Times`, as `Date.now` may be set back;
`steady` is history: it never was.

**Sifting** is Array.prototype.filter, and a Set some of whose elements are deleted: what
SelectSeq says, as a recursive function instead of a RECURSIVE operator, which the prover
cannot take in any module it works on.

**PolicyTraffic** instantiates PacketPolicy between the two ends of a TCP connection.
An end has what TCP has: its state, what it sent, what was acknowledged and
received. Positions become sequence numbers modulo `SeqSpace` only in `Packet`, so
that the ends are right by construction and whatever goes wrong is the policy's doing.
The path between the ends is the connection of the session, which keeps the order;
the engine drops a packet when the device is busy or the session is gone, before the policy
or behind it: on its way out, when the session does not take it (`IsDropped`), on its way in, when
the write to the device fails or the host does not take it (`IsLost`). Then the ends send again.
Ends and path are external to the repository.

**TunDevice** is `openLinuxTun`, `PacketFraming` and the loop of `tun.c`, with the
pipes between host and helper as sequences of bytes. `host` is the await of `openLinuxTun`,
then of `close()`; `done` counts the calls of `ip` that took effect on the
interface, which the helper's exit undoes. `reader` is the state of `receive()`: the rest of
its chunk, the header and the packet it has of it. `input` and `output` are the buffers of
`tun.c`. `Chunk` and `WritesByte` cut the stream anywhere. A send that waits is
`sending`; `SendSettles` is "drain", "close" or "error". Node destroys the stdin of
a child that exits, and `HostDies` closes all ends the host has.

**PeerState** is the identity directory and the config file under the three commands that write
them. `setup peer` and `peer join` hold the runtime lock, `peer pair` and the
owner's editor do not, so `proc` has for each command the await it is at and the config it
read (`found`) and is to write (`next`). Writing a file is one step, since it is made
beside its place and renamed; what a kill leaves beside it nobody reads. `Valid` is
`parsePeerConfig` with its references, duplicates and limits. `Accident` loses or
damages the identity or restores a copy, while no command runs; `Edit` is the owner,
who may also write what is not valid. `known` is history: the seed whose public key
was printed or admitted.

**Pairing** composes the dialer (`pairWithReceiver` in `peerJoinCommand`), the
wire and the receiver's handler (`attachEnrollment`, the enroll hook and the store).
Either side sees the connection end on its own; a request on the wire may still be
read after the dialer gave up, an answer may arrive after the receiver died.
`submitted` is set before the request is written, as in `pair.ts`. The reasons
`excluded`, `capacity` and `pool`, and a conflict of routes, are one answer here
("rejected"): the dialer treats them alike but for the text. `Revokes` is the owner's command at
the receiver: the generation stops, with every connection and every handler that waits for a request,
then the device is taken out of the file, or that fails and the receiver with it. The device's dialer
is not told and keeps its config, so that `OutcomeIsTrue` allows it to name a receiver
whose owner has revoked the device since; `revoked` is that history.

**PeerVpn** is `peerVpnCommand` and `receiverCommand` in several processes for one
identity, the kernel's lock, `waitForSignal` and the config file. Each process
has three places: `main` is the await of the command, `reload` the await of the
reload at hand (`pending` stands for those behind it in the chain) and `signal`
where the stop of a signal is. `running`, `current`, `closing` and `fatal` are
the variables of the closure; `launching` is the engine `start` awaits. An engine is
one call of `startVpn` or `startReceiver`: it starts, is up, closes, and has
stopped, or its stop has rejected after every clean-up was tried. What goes on
inside is the subject of Engine and Receiver; that a failed start leaves nothing is
assumed here; section 5 says where `startReceiver` does not keep that.
`Finally` is the start of the finally block, which `StopsRunning`, `Stopped` and
`Released` go through. A signal nobody listens to, as in start-up, and a second one
kill the process (`Killed`); the lock goes with the process.

**Tunnel** composes the packet tunnel provider with the worklet in its process. The
provider's handlers run on one serial dispatch queue, so each is an action; `session`
holds `pairing`, `settingsRequested`, `settingsApplied` and `running`, `out` the
`WorkletOutput` (frames that wait, the one being written, whether a packet read is under
way). `bridge` is the closure of `runWorkletBridge`: its `state`, the await its loop is at,
and the engine it started, which goes on by itself. `calls` are the
setTunnelNetworkSettings calls under way, `new` when they belong to the session and
`old` when their generation is over. `Fail` ends the process, as `_exit(1)` does when a
worklet exists: engine, pipes and calls go with it. `Finish` is the end after
"stopped": the process stays, and since `terminate()` is not waited for, an engine that
lives would go on. A frame is its type; an answer of `pairWithReceiver` is `paired`,
`rejected` (a reason that says nobody was admitted) or `unclear`, which is what
module Pairing shows of them. `Expects` and `Accepts` are the guards of the two sides;
anything else ends the session (`Unexpected`), and that the worklet never has to refuse a
frame is `Understood`, so that there is no action for it. The completion of a write is
taken to be queued before any answer to the frame written.

Seen while modelling it: a stop that crosses a "settings", "paired" or "running" frame ends the
process by `_exit` instead of gracefully, since the provider does not expect those while it
stops. `Understood` therefore speaks of tunnels that have started; the start that is
cut short is answered all the same (`EveryCallIsAnswered`).

## 3. The runs

| run | instance | what it shows |
|---|---|---|
| `store` | the receiver's key and two devices, two secrets, two invitations, three addresses of which the receiver has one, life 1, clock 0..1 | `ReopenAccepts`, `DoneIsDurable`, `SpentStaysSpent`, `DevicesKeepTheirPlace`, and that the store implements the ledger (`KeepsPromise`) |
| `receiver` | one device, two grants, three generations, one waiting task | `NoBypass`, `OneGeneration`; under fairness `StopEnds`, `AdmittedIsServed` |
| `engine` | a peer that connects, a peer that is dialed, two strangers, three connections, one place | `StatusIsTrue`, `NothingIsOverused` |
| `engine_liveness` | the same with one stranger and two connections | `NobodyIsForgotten` |
| `policy` | two ports on each side of which one is granted, two flows, clock 0..3 that may be set back | `OnlyGrantedConnections`, `TableIsCurrent`, `EstablishedStays` |
| `policy_traffic` | one connection, opened by either side, one byte on its way out, sequence numbers modulo 8 that start at 6 and 7, windows of 2, one segment on the path each way | `ClosedIsOver`; under fairness `ConnectionsGetThrough` |
| `pairing` | two dialers, two invitations, two attempts | `OutcomeIsTrue`; under fairness `JoinEnds` |
| `peer_state` | two commands at a time, two seeds, two edits, four approvals, seven configs of which three are wrong | `IdentityIsKept`, `NothingIsLost` |
| `tun_device` | three packets each way of one or two bytes, pipes of four bytes, high-water mark of six, three calls of `ip` | `PacketsArriveWhole`; under fairness `ClosingRemovesIt` |
| `peer_vpn` | one `peer vpn` and one `peer receiver`, two configs and a broken one, two names for engines | `OneRuntime`, `SignalStops`; under fairness `FollowsConfig`, `LockComesFree` |
| `tunnel` | one provider and its worklet, queue and pipes of three frames | `EngineHasLock`, `ReportsAreTrue`, `Understood`; under fairness `EveryCallIsAnswered` |

The twelfth run, `receiver_early_contact`, is a disagreement between the code and
what is written about it; see section 5. Several properties are conjunctions of what
used to be properties of their own; the comment above each says what the parts are.

Why the bounds are enough.

* *store.* Two devices compete for an address, a device and an invitation are each
  at most one from their limit, an excluded address can be the last free one, and
  the clock passes the life of an invitation and comes back. Every save can be
  interrupted at every stage and followed by any other operation. `MaxDevices` is
  as large as the number of keys that may enroll, so the refusal for want of a
  place (as opposed to want of an address) is not met by TLC; the theorems cover it.
* *receiver.* One generation runs, one is launched and one is being stopped at the
  same time in the worst case, hence three names. A queue of one waiting task is
  enough for every order of two tasks with the timer and stop; `receiver_early_contact`
  has two keys, because the engine left over and the engine in charge must route
  different devices to live side by side. Commands
  cannot be sent when the queue is full, reloads always can.
* *engine.* The session of each peer and one more connection, in all orders; names are
  used again when nothing refers to them, and `Arrives` leaves enough of them for
  the dial loops. Attempts and reservations run out within the clock's range.
* *policy.* Two tuples share a local port and two a remote one, and the table is full
  with two. `SeqSpace` is 1 here: every comparison of numbers then succeeds, so a
  segment passes whenever some choice of numbers would let it pass. What the numbers
  exclude is not shown by this run, only what holds whatever they are: that is
  what `policy_traffic` is for.
* *policy_traffic.* The numbers wrap around in both directions, once behind the
  request and once behind the byte. An end may be ahead by two positions, well below half of
  the sequence space, as TCP's windows are; a segment can be SYN, byte, FIN, byte and FIN, or an
  acknowledgement only, alone or again. Either side may open the connection, so that the byte is
  sent by the end that opened it and by the one that answered; the other stream has its request
  and its end. `ClosedIsOver` holds with a byte each way as well (148277 states, no error), and
  section 6 proves it for streams of any length. The clock stands still: a
  connection is shorter than the five minutes of a handshake and the minute of a
  closed flow.
* *pairing.* Two attempts are a retry with the same invitation, two dialers with one
  invitation, or two joins at once; a third adds no new interaction, as an
  attempt touches the others only through the store and its dialer's config. A
  device can be revoked while its dialer still waits, saves its config or joins again.
* *peer_state.* A command meets at most one other that has no lock; a third would repeat
  the second. Two seeds show a replacement. The configs have each kind of reference (by label,
  by key, to nobody), a label that looks like a key, and duplicate addresses.
* *tun_device.* A frame is a header of two bytes and one or two more, so that a
  chunk can end within a header, between header and packet, within a packet, and hold
  several frames; pipes of four bytes hold no two frames, the mark is met with two. Two calls
  of `ip` make the interface usable, the third is a route.
* *peer_vpn.* A third process could only wait like the second. Two engines may exist at a
  time (the faults of the model make them alive at a time), and a name is free again when
  its engine is down and nothing refers to it. Of the reloads that wait in the
  chain one is modelled: each of them reads the config when its turn comes, so that
  several in a row do what one after the other does. Two configs and a broken one
  give every change: new, the same again, back to the old one, unusable, repaired.
* *tunnel.* The code's limit is 32 frames on either side. Three are enough for a frame being
  written, packets that wait and the stop behind them, for batches that exceed the room
  left, and for a pipe that fills up from the worklet's side, which then closes it. Sessions
  follow each other without end. `StartTunnel` waits until at most one call of an earlier session is
  under way, so that `calls` never holds more than two. The system asks for one stop per session.

## 4. Fairness

* `Receiver!FairSpec`: the task at hand goes on (each await in it settles), timers
  fire, answers of enrollments are sent or lost, and the awaits of `stop()` settle. These
  are promises of Node and of the engine's stop, which gives each clean-up its turn
  (`src/runtime/cleanup.ts`). Nothing is asked of clients, peers or start-up. `AdmittedIsServed`
  allows for the receiver to fail, to stop, and for the two errors that the
  code loses (`masked`, `unserved`).
* `Engine!FairSpec`: timers fire, `close` follows `destroy()`, a handler whose stream
  is gone settles, the receiver's enroll and a write to the device settle, dial loops
  go on. Nothing is asked of a peer on an open stream.
* `Pairing!FairSpec`: the dialer's timer fires and its file operations end. Nothing is
  asked of the receiver or of the network.
* `PeerVpn!FairSpec`: every await settles (reading the config, `startVpn`, stops, unlock
  and close), a reload in the chain gets its turn, and the interval fires while it is
  set. Nobody has to start a process, send a signal or edit the config, and no engine
  has to fail. `FollowsConfig` asks for the config that stays; while it
  changes nothing is promised.
* `TunDevice!TunFairSpec`: the helper starts, reports, notices SIGTERM and a pipe without its other
  end; the system reports its exit; `ip` succeeds or fails, `send` and `close` go on. A
  device that is open need not carry anything.
* `PolicyTraffic!FairSpec`: an end sends again what was not acknowledged, and does so in vain not
  for ever (strong fairness of getting it onto the path: TCP retransmits, and the losses of the
  engine are not aimed at one segment); what is on the path arrives at the policy or the end; and a
  segment that is sent again and again is not lost behind the policy each time (strong fairness of
  `GetsThrough`, for the same reason: a device that fails for ever ends the engine).
* `Tunnel!FairSpec`: only the provider's timer fires. The worklet, the system and the pipes may
  hang anywhere. The timer runs from the start to its answer and from the stop to its end.

## 5. Where code and documents disagree

* `receiver_early_contact`: `receiver.ts:90` says "Stop before changing a grant, so no
  preexisting flow can bypass it." Start-up's launch is not a task, so a reload planned
  by an early enrollment overlaps with it; one of the two engines is then never stopped.

Seen while modelling, and not the subject of a run:

* `docs/peer-vpn.md:39` says "A storage error fails the receiver rather than continuing with
  a potentially stale policy." When closing or unlinking the temporary file fails as well
  (`receiver-state.ts:149`), that error replaces the `ReceiverStorageError` the receiver looks
  for: the store has failed, the receiver has not. `AdmittedIsServed` allows for it
  (`masked`).
* `docs/peer-vpn.md:137` says the interface is removed "on startup failure". When the
  control socket cannot be bound after an enrollment (`receiver.ts:143`), the reload timer
  set by it launches a generation after `startReceiver` threw.
* `docs/peer-vpn.md:116` says that incomplete handshakes expire after five minutes. Sweeps are
  planned by the wall clock (`packet-policy.ts:99`); when that is set back, they wait until it
  has caught up. `TableIsCurrent` promises it only while `steady`.
* An invitation that expired unused stays in the file until the next invitation is created, or an
  enrollment saves, and counts by the clock alone (`receiver-state.ts:187`): when the clock is set back
  before that, it is outstanding again. `SpentStaysSpent` promises that a used one is not.
* `config.ts:163` resolves a reference that looks like a key to the peer with that key;
  `engine.ts:68` and `worklet-bridge.ts:83` take the first peer whose label or key it is. The two differ
  when the label of one peer is the key of another.
* `linux-tun.ts:110` configures the interface by its name. If the helper dies and another
  process gets the same `kep` number meanwhile, `ip` configures that one.
* `VPNControl.swift:113` says that pairing "Requires a disconnected provider". `pair()` of the
  menu bar app also accepts a shown `.failed` (VPN status unavailable), which says nothing of
  the tunnel; if one runs it is stopped, and the outcome is reported as unknown.
* `TunnelLifecycle` in `.stopping` goes on to show "disconnecting" when the system starts the tunnel
  again before `.disconnected` was observed.

The passing runs of Receiver take `EarlyContact = {"task"}`: peers reach an engine
during its launch by a task, but not the first one during start-up, where the
finding already breaks `NoBypass` and `OneGeneration`.

## 6. What is proved

**ReceiverStoreProofs**, for all keys, secrets, grants, pools, limits and clocks that
satisfy the module's four assumptions:

| theorem | property |
|---|---|
| `TypeCorrect` | `TypeOK` |
| `NeverLockedOut` | `ReopenAccepts` |
| `DoneSurvives` | `DoneIsDurable` |
| `InvitationsAreSingleUse` | `SpentStaysSpent` |
| `DevicesStay` | `DevicesKeepTheirPlace` |
| `LedgerIsKept` | `KeepsPromise` |

None of the properties is inductive. `DoneIsDurable` speaks of the idle store too, where it
depends on which of `file`, `platter` and `next` agree at each stage of a save;
`ReopenAccepts` depends on the state about to be written being valid; `SpentStaysSpent`
on the fact that a state about to be written lacks the secret being spent, and that
no secret that anyone holds is drawn again. The inductive invariant is

    IInv == TypeOK /\ Files /\ Stages /\ Uses

where `Files` says that every stored state is valid and finite and that what was
issued stands on a settled file, `Stages` which copies agree at which stage, and `Uses`
where a spent secret, or one being spent, may be. The proof has one lemma per
operation that shows that the state it saves is `Savable` (valid, and the devices of the
old state keep their places), and `StepKeepsIInv` with one step per action.
Cardinalities come from FiniteSetTheorems. `DevicesStay` follows from the same
invariant: only a rename changes `file` outside a power loss, and `next` is `Savable`.

`LedgerIsKept` is the refinement, step by step: every step of the store is a step of
AdmissionLedger or changes nothing the ledger shows. The rename is the one step that changes the
ledger, and it happens several steps after the operation that decided what to write. A
second invariant bridges them: `Promises` says that while a save is staged, the state about to
be written is one operation of the ledger away from the one on the disk, that is
`Invited`, `Admitted`, `Restricted` or `Removed`, or it is the first file. That enrolling picks
an address at all where the ledger allows any rests on the fact that a nonempty set of numbers
has a least one.

**ReceiverProofs**, for any keys, grants, generations and queue:

| theorem | property |
|---|---|
| `TypeCorrect` | `TypeOK` |
| `NoFlowOutlivesItsGrant` | `NoBypass` |
| `OneAtATime` | `OneGeneration` |

The first holds with early contact and without. The other two are false with it (section 5), and
have `ContactAfterStart`, which says `"startup" \notin EarlyContact`, as a hypothesis: the engine
that start-up launches is not reached before it is handed over. Engines launched by tasks may
be. Neither property is inductive, and neither shows without the other:

    IInv == StepFits /\ Quiet /\ Single /\ Drains /\ Served /\ NoBypass

`StepFits` ties the await of a task to what it holds: a generation being stopped or one being
launched, the latter with the policy there is. `Quiet` says that nothing else goes on
until start-up has its generation, `Single` that from then on only the generation of the task or
the current one lives, `Drains` which tasks of the queue `stop()` no longer waits for (those
that leave the generation alone), and `Served` that a receiver which has not failed serves
between its tasks. The attempt showed a flaw of the model: a launch could take the name of
the generation that `stop()` still held to stop it. `Free` now excludes it.

**EngineProofs**, for any peers, strangers, connections, limits and times, with `EngineNone`,
`EngineKeys` (who is dialed, who is accepted and who is a stranger differ) and `EngineLimits`:

| theorem | property |
|---|---|
| `TypeCorrect` | `TypeOK` |
| `StatusesAreTrue` | `StatusIsTrue` |
| `NothingIsEverOverused` | `NothingIsOverused` |

    IInv == /\ TypeOK
            /\ ConnsFit /\ SessionsHeld /\ ReadyHeld /\ ShownHeld /\ DialsHeld
            /\ Halted /\ OneWrites /\ OutboundHeld /\ Places

Handlers run on after their stream is closed, and close events come late, so that the parts
say what a name may still stand for: the session of a peer is a connection of that peer whose
close was not handled (`SessionsHeld`), a ready connection is the session of its peer and past its
greeting (`ReadyHeld`), what was said last of a peer is whether it is ready (`ShownHeld`), and
the connection a packet is being sent on was ready and its name not used again
(`OutboundHeld`). `Halted` is what `Stop` establishes and late handlers keep. `Places` counts streams of
strangers and reservations together: a reservation becomes a stream in one step. Most steps
only move one connection (`Moves`), and `MoveKeepsRest` is their common part.

**PacketPolicyProofs**, for any ports, grant, sequence space, limits and clock, with
`PolicyAssumption`:

| theorem | property |
|---|---|
| `TypeCorrect` | `TypeOK` |
| `OnlyGranted` | `OnlyGrantedConnections` |
| `TableStaysCurrent` | `TableIsCurrent` |
| `EstablishedFlowsStay` | `EstablishedStays` |

The invariant is `Good` of the table and `Timed`: while the clock was never set back, the next
sweep comes in time for every handshake. `Good` says that every flow may have been opened on its
tuple (`Known`), that the order of closed flows lists exactly these, each once (`Ordered`), and that
the table is within its limit. The table of the code is a map and a list that change
together, and each of its operations has a lemma: `RemovalIsGood`, `UpdateIsGood`,
`CloseIsGood`, `OpenIsGood`, `SweptIsGood`, `VacatedIsGood`, `ReclaimedIsGood`. `EstablishedStays` is shown
from what each lemma says of the established flows (`Thinned`, `Follows`): making room and sweeping
take none of them, a packet only that of its own tuple, and only when it is a reset.

**PeerVpnProofs**, for any processes, any of them receivers, any configs and any
engines, with `PeerVpnAssumption` (receivers are processes, `Broken` is no config)
and `NoneAssumption`:

| theorem | property |
|---|---|
| `TypeCorrect` | `TypeOK` |
| `OneRuntimeAtATime` | `OneRuntime` |
| `SignalsStop` | `SignalStops` |

`OneRuntime` relates engines to the owner of the lock, and no step shows it alone:
that a reload starts no second engine depends on the first having been asked to
stop earlier, that the lock may go depends on no reload being under way. The
inductive invariant is

    IInv == TypeOK /\ Places /\ Commands /\ Chains

`Places` says that an engine that lives is the one its process launches or runs, and
never both; `Commands` what each place of the command implies for lock, engine,
reloads and signals (from `locked` to `releasing` the process has the lock; outside
`running` and `ending` no reload is under way; at `releasing` the engine is down);
`Chains` the same for the reload at hand and the stop of a signal. There is one lemma
per action. `Exits` and `Killed` are both `Gone`. That two processes are not both
past the lock needs no conjunct of its own: both would be the owner. `OneRuntime` then
follows because a living engine is in one of the two places of the owner and only one
of them is filled.

**PeerProofs** is about the commands of a peer, in two parts. The first is about PeerState, for any commands at a time, any labels, keys, addresses and configs that an
owner writes, with `PeerStateBounds`, `PeerStateNone` (the states of the directory differ) and
`PeerStateEdits` (what is written by hand has the shape of a config; it need not be valid):

| theorem | property |
|---|---|
| `TypeCorrect` | `TypeOK` |
| `IdentityStays` | `IdentityIsKept` |
| `NothingGoesLost` | `NothingIsLost` |

`IdentityIsKept` is not inductive: whether a command may create an identity was decided at an
earlier await, when it read the config, and `peer pair` saves without the lock a config
that says there is an identity. The inductive invariant is

    IInv == TypeOK /\ IdentityIsKept /\ Knows

where `Knows` says what a command knows at each await: at the identity, that nobody knows a key if
there is none; from then on, that the key it has is the one on the disk, which only the owner of
the lock changes; in `peer pair`, that the next config has a peer, and that there is an
identity unless it was lost. There is one lemma per action, over three that say what a command that
ends, or goes on, leaves to the others (`FinishKeeps`, `GoingOnKeeps`, `OthersKnow`). That
approving a peer leaves a config with peers (`ApprovedIsConfigured`) rests on SequenceTheorems.

`NothingGoesLost` needs what a command knows of the config it read: `Composes` says that what a
`peer join` is about to save is the config it read with a receiver added, where there was
none, and what a `peer pair` is about to save keeps all that it read. That an approval
keeps everything (`ApprovalKeeps`) is the hard part: it removes the peer it replaces from a
sequence, so that `WithoutIsTheRest` says what is left, and references by label or key must
still name the same peers (`NamesResolve`), which they do because `peer pair` refuses a label or
key that conflicts.

The second part is about Pairing, `peer join` with the receiver that admits it, for any dialers,
secrets, attempts and times, with `NothingAssumption`. (Names that both modules need are
`JoinInit`, `JoinSpec` and so on in Pairing.)

| theorem | property |
|---|---|
| `JoinTypeCorrect` | `JoinTypeOK` |
| `OutcomesAreTrue` | `OutcomeIsTrue` |

The invariant `JoinInv` is `JoinTypeOK`, that a dialer whose config names the receiver is admitted or
was revoked since, and `Honest(a)` of each attempt. `Honest` follows one request from the dialer over the handler to the
answer: a handler commits only after it has read the request, sends one answer when it is
through, and the answer says what it did. The case that matters is a definite failure, told by a
dialer's own timer or by an answer: the handler of that attempt never came to be, or has
ended without committing, and neither changes later.

**TunnelProofs**, for any length of the pipes and any limit of the provider's queue, with
`TunnelAssumption` (the limit is two or more, 32 in the code) and `TunnelNone`:

| theorem | property |
|---|---|
| `TypeCorrect` | `TypeOK` |
| `LockOutlivesEngine` | `EngineHasLock` |
| `ReportsStayTrue` | `ReportsAreTrue` |
| `TheyUnderstand` | `Understood` |

    IInv == TypeOK /\ AtRest /\ Held /\ Progress /\ Asked /\ Output /\ Stream /\ Replied /\ Works /\ Truth

Two programs that see each other's state late agree only because of what is on the way between
them, so that the invariant speaks of every frame. `Output` says what may wait behind the
write under way, `Stream` that on the way to the worklet a frame that opens something comes alone
and finds the worklet where it takes it, packets only where the engine has them, and the stop
last. `Replied` says the same of the way back: replies that come once come before all
others, and each says what was true when it was sent. `Progress`, `Held` and `Works` say how far
provider and worklet are, `Asked` that the call to the system that belongs to the session is
behind those of the past, `AtRest` what a session leaves, and `Truth` what stands behind a
report. `TypeOK` is part of it and not of the assumptions: that the queue never exceeds its
limit, although control frames are queued without a check, depends on what the
session has sent. There is one lemma per handler, over `FailKeeps` and `FinishKeeps` for the
many ways a session ends.

**DataPathProofs** is about the two modules on a packet's way between interface and session. Of
TunDevice, for any packets, pipes, limits and number of calls of `ip`, with `TunBounds` and
`TunSizes` (there is a packet, and none is empty), and of PolicyTraffic, for any sequence space,
initial numbers and lengths of the two streams, with `TrafficAssumption`:

| theorem | property |
|---|---|
| `TypeCorrect` | `TunDevice!TypeOK` |
| `PacketsComeOutWhole` | `TunDevice!PacketsArriveWhole` |
| `NothingStays` | the safety part of `TunDevice!ClosingRemovesIt` |
| `ClosedWhenOver` | `PolicyTraffic!ClosedIsOver` |

    TunInv == Types /\ Opened /\ Room /\ Outward /\ Writing /\ Reading /\ Inward

A byte is known by its frame and its place in it, and the invariant says where each one is.
`Run(q, a, b)` says that q holds the consecutive bytes from a on and up to the one before b:
`stdin` holds a run from the place that the helper is at, behind what it has of a packet, to
the first byte of the next frame, and `chunk` and `stdout` together a run from the place the host is at
to the next byte that the helper writes. So where bytes are cut does not matter: a run may be cut
anywhere (`RunCut`), both parts are runs, and a frame is put behind a run as another (`RunJoin`).
`Outward` holds whatever happens: bytes that a dead helper leaves in the pipe stay a run. The run of `Inward` is
lost when the host's reader fails, which then delivers nothing more. `Reading` says what
header, length and body are between the steps of `receive`, `Writing` that the helper
still has the end of the last packet it took, and `Room` that a host which may send has room
for one more frame. `PacketsArriveWhole` also promises that a stream which ends without an error
lost nothing: it ends between frames, `stdout` is empty then, and a run that is empty has its two
ends at one place, so that what the helper wrote last is what the host had last.
There is one lemma per step. That `LongestFrame`, a CHOOSE, exists, and that bytes of a run do
not come earlier than it begins (`RunStays`), are shown from a least counterexample (see below). `NothingStays` has an invariant of
its own, `Ended`: the promise `closed` is resolved by the helper's end only, which a failed open and a
close await.

    TrafficInv == EndsFit /\ TableFits

The policy sees only numbers modulo `SeqSpace`, and of what goes out it sees what may be lost behind
it. `TrafficInv` says which position each number in the flow stands for. `EndsFit` is TCP
itself: no end sends more than its window ahead of what was acknowledged (`EndFits`), the other
one received what was sent and what it acknowledged (`Heard`), and segments under way tell the
truth and acknowledge in order (`PathFits`). `AckedTo(d, f, a)` is the heart of `TableFits`: the last
acknowledgement by d that the policy took stands for a position a, which d has received and
which is at least what the sender knows of (its `acked`). Segments on their way out were
seen, so they acknowledge no more than a; those on their way in were not, so they acknowledge no
less. Hence whatever comes next acknowledges at least a and at most a window more (`Noticed`),
where comparison modulo `SeqSpace` is comparison (`Compared`): no acknowledgement is missed
because numbers wrap around, and none is taken for more than it says. `FinFits` says that the end
of a stream is marked if the other end may have it. As long as a handshake is not done nothing but the
handshake went through (`Young`), so that a flow starts with nothing missed, also one that a late
request opens. `Counted` and `Compared` are lemmas about `%` with a divisor that is any number; they
follow from division with remainder being unique (`Remainder`). Streams may be
longer than the sequence space.

What is only model-checked:

* All liveness properties (`StopEnds`, `AdmittedIsServed`, `NobodyIsForgotten`,
  `ConnectionsGetThrough`, `JoinEnds`, `ClosingRemovesIt`, `FollowsConfig`, `LockComesFree`,
  `EveryCallIsAnswered`): they need ENABLED and fairness. Only the safety part of `ClosingRemovesIt`
  is proved.
* `NoBypass` and `OneGeneration` under early contact are false, see section 5.

The recursive functions of the models are reasoned about without induction over an operator,
which the prover does not offer. What a function computes up to n is wrong for some n or for
none, the numbers for which it is wrong are a set, and a nonempty set of numbers has a least
element (`LeastExists`, from well-founded induction), which leads to a contradiction. So
`SiftedIsWhatIsLeft` and `AllSifted` say what Sifted leaves.

## 7. What is not modelled

* HyperDHT, its streams and UDP: external. Engine and Pairing use what `src/mux` and
  the handlers see of a stream: it connects, delivers, closes or fails.
* Cryptography, key derivation, formats (TOML, invitation text, JSON), permissions of
  files: abstracted to values that are valid or are refused.
* What is written to the config between the comparison and the write of `peer join`
  (`main.ts:245`), or between the reading and the write of `peer pair` (`main.ts:312`), is lost: the
  code takes no lock against it. PeerState has these steps, and `NothingIsLost` promises
  no more than that nothing is lost which the command had read.
* Backpressure of one peer on all others in the packet loop: the loop awaits each send.
* Of the macOS provider: status and prepare messages (`handleAppMessage`), the checks of
  addresses, keys and routes in frames (a conflict is a choice), the split of the byte stream
  into frames. The lock's file is `.peer.peer.runtime.lock` of the managed directory; taking it
  succeeds or refuses the start, as in PeerVpn.
* The menu bar app's controller (`VPNController.swift` and its helpers): what
  it does rests on how the system's managers and preferences behave, which has to be modelled
  with it; first in the plan. `worklet-framing.ts` below the level of frames: its `receive` is that of
  `framing.ts` with a byte for the kind, its queue is the 32 frames of Tunnel.
* The other commands (`peer key`, `peer status`, receiver commands to a running
  receiver) read and print, or are the commands of Receiver.
* Diagnostics, menus, route arithmetic, web site, scripts.

## 8. Plan

Done: all the modules of section 2, their runs, and the proofs of section 6. Next, in this
order:

1. **Controller**: the menu bar app's connect, pair and refresh, whose awaits on the
   system's managers overlap, with `TunnelLifecycle`; what is shown belongs to the latest
   operation, and one owner of the managed profile. Its run can take the place of
   `engine_liveness` once the instance of `engine` is small enough to check its property.
2. PolicyTraffic with a second connection on the same ports, after the first one is closed, and a
   clock that goes on.
