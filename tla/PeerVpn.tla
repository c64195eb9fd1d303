------------------------------ MODULE PeerVpn -------------------------------
(***************************************************************************)
(* The processes that own an identity: `peer vpn` and `peer receiver` of   *)
(* src/cli/main.ts with the lock of src/runtime/runtime-lock.ts and the    *)
(* signals of src/cli/signals.ts.  `peer vpn` polls its config and         *)
(* replaces its engine when the config has changed; it ends on a signal,   *)
(* on a config it cannot use and when its engine fails.                    *)
(*                                                                         *)
(* Three things go on in a process at a time: the command itself (main),   *)
(* the tail of its chain of reloads (reload) and the stop a signal asked   *)
(* for (signal).  An engine here is one call of startVpn, or startReceiver *)
(* with all its generations: it starts, fails and stops.                   *)
(***************************************************************************)
EXTENDS Naturals, FiniteSets

CONSTANTS
  Processes,  \* processes, all for one identity
  Receivers,  \* those that run `peer receiver`; the others run `peer vpn`
  Configs,    \* contents of the config file that parse
  Broken,     \* any other content, or no file
  Engines,    \* names for engines; a name is used again when nothing refers to it
  None

ASSUME PeerVpnAssumption == Receivers \subseteq Processes /\ Broken \notin Configs
ASSUME NoneAssumption    == None \notin Processes \cup Engines \cup Configs

VARIABLES
  config,    \* the config file
  owner,     \* the process that has the kernel's lock on the lock file
  engine,    \* each engine: its process, config and state
  main,      \* the await the command is at
  reload,    \* the await the reload at hand is at
  pending,   \* a reload waits in the chain behind it
  timer,     \* the interval that adds reloads is set
  signal,    \* where the handler of signals is at
  running,   \* `running`: an engine or None
  launching, \* the engine being started
  current,   \* `current`: the config last put into service
  next,      \* `next`: the new config of the reload at hand
  closing,   \* `closing`
  fatal      \* the promise `failed` is resolved

chain   == <<reload, pending, timer>>
service == <<running, launching, current, next>>
local   == <<main, chain, signal, service, closing, fatal>>
vars    == <<config, owner, engine, local>>

Spare == [by |-> None, config |-> None, state |-> "none"]

Alive(g)  == engine[g].state \in {"starting", "up", "closing"}
IsUp(g)   == engine[g].state = "up"
Free      == {g \in Engines : ~Alive(g) /\ \A p \in Processes : running[p] # g /\ launching[p] # g}

Set(f, p, v) == [f EXCEPT ![p] = v]

Launch(p, g, c) ==
  /\ g \in Free
  /\ engine' = Set(engine, g, [by |-> p, config |-> c, state |-> "starting"])
  /\ launching' = Set(launching, p, g)

\* The engine's stop(), once; later calls wait for the first.
Closing(g) == IF g # None /\ IsUp(g) THEN [engine EXCEPT ![g].state = "closing"] ELSE engine

\* stop() has settled, or there is nothing to stop.
Settled(g) == g # None => engine[g].state # "closing"

-----------------------------------------------------------------------------
(* The lock *)

\* The config is read first: without a valid one the command throws.
Begin(p) ==
  /\ main[p] = "idle" /\ config \in Configs
  /\ main' = Set(main, p, "locking")
  /\ current' = Set(current, p, config)
  /\ UNCHANGED <<config, owner, engine, chain, signal, running, launching, next, closing, fatal>>

\* open, then tryLock: the lock belongs to the open descriptor.
Acquire(p) ==
  /\ main[p] = "locking" /\ owner = None
  /\ owner' = p
  /\ main' = Set(main, p, "locked")
  /\ UNCHANGED <<config, engine, chain, signal, service, closing, fatal>>

\* chmod fails and the descriptor is closed, or the command goes on to start.
Secured(p) ==
  /\ main[p] = "locked"
  /\ \/ main' = Set(main, p, "releasing") /\ UNCHANGED <<engine, launching>>
     \/ /\ main' = Set(main, p, "starting")
        /\ \E g \in Engines : Launch(p, g, current[p])
  /\ UNCHANGED <<config, owner, chain, signal, running, current, next, closing, fatal>>

\* unlock and close: only if both fail the lock stays with the process until it ends.
Released(p) ==
  /\ main[p] = "releasing"
  /\ main' = Set(main, p, "done")
  /\ owner' \in {None, owner}
  /\ UNCHANGED <<config, engine, chain, signal, service, closing, fatal>>

-----------------------------------------------------------------------------
(* The command *)

Started(p) ==
  /\ main[p] = "starting"
  /\ engine' = [engine EXCEPT ![launching[p]].state = "up"]
  /\ running' = Set(running, p, launching[p])
  /\ launching' = Set(launching, p, None)
  /\ main' = Set(main, p, "running")
  /\ timer' = Set(timer, p, p \notin Receivers)
  /\ signal' = Set(signal, p, "waiting")
  /\ UNCHANGED <<config, owner, reload, pending, current, next, closing, fatal>>

\* finally: no reload is begun from here on, and signals are no longer heard.
Finally(p) ==
  /\ main' = Set(main, p, "ending")
  /\ closing' = Set(closing, p, TRUE)
  /\ timer' = Set(timer, p, FALSE)
  /\ signal' = IF signal[p] = "waiting" THEN Set(signal, p, "off") ELSE signal

\* startVpn stops what it had started and throws.
StartFails(p) ==
  /\ main[p] = "starting"
  /\ engine' = Set(engine, launching[p], Spare)
  /\ launching' = Set(launching, p, None)
  /\ Finally(p)
  /\ UNCHANGED <<config, owner, reload, pending, running, current, next, fatal>>

\* Fault: the command waits for a signal only.
EndsOnSignal(p) ==
  /\ main[p] = "running"
  /\ signal[p] = "through"
  /\ Finally(p)
  /\ UNCHANGED <<config, owner, engine, reload, pending, service, fatal>>

\* Promise.race: the stop a signal asked for is through, or something failed.
Ends(p) ==
  /\ main[p] = "running"
  /\ signal[p] = "through" \/ fatal[p]
  /\ Finally(p)
  /\ UNCHANGED <<config, owner, engine, reload, pending, service, fatal>>

\* The chain of reloads has come to its end.
NoReload(p) == reload[p] = "idle" /\ ~pending[p]

\* await reloadTask; running?.stop()
StopsRunning(p) ==
  /\ main[p] = "ending" /\ NoReload(p)
  /\ main' = Set(main, p, "stopping")
  /\ engine' = Closing(running[p])
  /\ UNCHANGED <<config, owner, chain, signal, service, closing, fatal>>

\* Fault: the lock is given up while the engine stops.
StoppedUnawaited(p) ==
  /\ main[p] = "stopping"
  /\ main' = Set(main, p, "releasing")
  /\ UNCHANGED <<config, owner, engine, chain, signal, service, closing, fatal>>

\* try { await running?.stop() } finally { await lock.release() }
Stopped(p) ==
  /\ main[p] = "stopping" /\ Settled(running[p])
  /\ main' = Set(main, p, "releasing")
  /\ UNCHANGED <<config, owner, engine, chain, signal, service, closing, fatal>>

-----------------------------------------------------------------------------
(* Reloads *)

\* The interval adds a reload to the chain (of those that wait, one is modelled).
Tick(p) ==
  /\ timer[p] /\ ~pending[p]
  /\ pending' = Set(pending, p, TRUE)
  /\ UNCHANGED <<config, owner, engine, main, reload, timer, signal, service, closing, fatal>>

ReloadBegins(p) ==
  /\ pending[p] /\ reload[p] = "idle"
  /\ pending' = Set(pending, p, FALSE)
  /\ reload' = IF closing[p] THEN reload ELSE Set(reload, p, "loading")
  /\ UNCHANGED <<config, owner, engine, main, timer, signal, service, closing, fatal>>

\* The reload at hand is over.
Over(p) == reload' = Set(reload, p, "idle") /\ next' = Set(next, p, None)

\* catch: fatal(error)
ReloadFails(p) == Over(p) /\ fatal' = Set(fatal, p, TRUE)

\* Fault: a config that cannot be used is not news.
LoadBrokenIgnored(p) ==
  /\ config = Broken
  /\ Over(p)
  /\ UNCHANGED <<engine, fatal>>

\* The config cannot be used, is not new, or makes the old engine stop.
LoadBroken(p) ==
  /\ config = Broken
  /\ ReloadFails(p)
  /\ UNCHANGED engine

LoadSame(p) ==
  /\ config = current[p]
  /\ Over(p)
  /\ UNCHANGED <<engine, fatal>>

\* Fault: what the file holds is put into service unparsed.
LoadUnparsed(p) ==
  /\ config # current[p]
  /\ reload' = Set(reload, p, "stopping")
  /\ engine' = Closing(running[p])
  /\ next' = Set(next, p, config)
  /\ UNCHANGED fatal

LoadNew(p) ==
  /\ config \in Configs \ {current[p]}
  /\ reload' = Set(reload, p, "stopping")
  /\ engine' = Closing(running[p])
  /\ next' = Set(next, p, config)
  /\ UNCHANGED fatal

Loads(p) ==
  /\ reload[p] = "loading"
  /\ LoadBroken(p) \/ LoadSame(p) \/ LoadNew(p)
  /\ UNCHANGED <<config, owner, main, pending, timer, signal, running, launching, current, closing>>

\* The old engine is gone: running = undefined, start(next).  Or its stop rejected.
Restarts(p) ==
  /\ reload[p] = "stopping" /\ Settled(running[p])
  /\ IF running[p] # None /\ engine[running[p]].state = "rejected"
     THEN ReloadFails(p) /\ UNCHANGED <<engine, running, launching, current>>
     ELSE /\ running' = Set(running, p, None)
          /\ current' = Set(current, p, next[p])
          /\ \E g \in Engines : Launch(p, g, next[p])
          /\ reload' = Set(reload, p, "starting")
          /\ UNCHANGED <<next, fatal>>
  /\ UNCHANGED <<config, owner, main, pending, timer, signal, closing>>

\* start(next) resolves, whether or not the command is closing by now, or rejects.
Restarted(p) ==
  /\ reload[p] = "starting"
  /\ launching' = Set(launching, p, None)
  /\ \/ /\ engine' = [engine EXCEPT ![launching[p]].state = "up"]
        /\ running' = Set(running, p, launching[p])
        /\ Over(p)
        /\ UNCHANGED fatal
     \/ /\ engine' = Set(engine, launching[p], Spare)
        /\ ReloadFails(p)
        /\ UNCHANGED running
  /\ UNCHANGED <<config, owner, main, pending, timer, signal, current, closing>>

-----------------------------------------------------------------------------
(* Signals *)

\* stop(): closing = true, the interval is cleared.  (`peer receiver` has none.)
Signal(p) ==
  /\ signal[p] = "waiting"
  /\ signal' = Set(signal, p, "draining")
  /\ closing' = Set(closing, p, TRUE)
  /\ timer' = Set(timer, p, FALSE)
  /\ UNCHANGED <<config, owner, engine, main, reload, pending, service, fatal>>

\* Fault: stop() does not wait for the reload at hand.
DrainedAtOnce(p) ==
  /\ signal[p] = "draining"
  /\ signal' = Set(signal, p, "stopping")
  /\ engine' = Closing(running[p])
  /\ UNCHANGED <<config, owner, main, chain, service, closing, fatal>>

\* await reloadTask; running?.stop()
Drained(p) ==
  /\ signal[p] = "draining" /\ NoReload(p)
  /\ signal' = Set(signal, p, "stopping")
  /\ engine' = Closing(running[p])
  /\ UNCHANGED <<config, owner, main, chain, service, closing, fatal>>

\* stop() resolves, or rejects, which ends the command as well.
SignalServed(p) ==
  /\ signal[p] = "stopping" /\ Settled(running[p])
  /\ signal' = Set(signal, p, "through")
  /\ UNCHANGED <<config, owner, engine, main, chain, service, closing, fatal>>

-----------------------------------------------------------------------------
(* Engines, processes and files *)

\* The engine's stop() resolves, or rejects after every clean-up was tried.
EngineStops(g) ==
  /\ engine[g].state = "closing"
  /\ \E s \in {"stopped", "rejected"} : engine' = [engine EXCEPT ![g].state = s]
  /\ UNCHANGED <<config, owner, local>>

\* The engine's `failed` resolves; it counts if the engine still is the one,
\* and for `peer vpn` only before it closes.
EngineFails(p) ==
  /\ running[p] # None /\ IsUp(running[p])
  /\ closing[p] => p \in Receivers
  /\ fatal' = Set(fatal, p, TRUE)
  /\ UNCHANGED <<config, owner, engine, main, chain, signal, service, closing>>

\* The process ends, its engines and descriptors with it.
Gone(p) ==
  /\ engine' = [g \in Engines |-> IF engine[g].by = p THEN Spare ELSE engine[g]]
  /\ owner' = IF owner = p THEN None ELSE owner
  /\ main' = Set(main, p, "idle")
  /\ reload' = Set(reload, p, "idle") /\ pending' = Set(pending, p, FALSE)
  /\ timer' = Set(timer, p, FALSE) /\ signal' = Set(signal, p, "off")
  /\ running' = Set(running, p, None) /\ launching' = Set(launching, p, None)
  /\ current' = Set(current, p, None) /\ next' = Set(next, p, None)
  /\ closing' = Set(closing, p, FALSE) /\ fatal' = Set(fatal, p, FALSE)
  /\ UNCHANGED config

\* The command is through, or has found the lock taken.
Exits(p) ==
  /\ main[p] = "done" \/ (main[p] = "locking" /\ owner # None)
  /\ Gone(p)

\* SIGKILL, or a signal while nobody listens: during start-up, or a second one.
Killed(p) == main[p] # "idle" /\ Gone(p)

\* Some command or an editor puts another file in the config's place.
EditConfig ==
  /\ config' \in (Configs \cup {Broken}) \ {config}
  /\ UNCHANGED <<owner, engine, local>>

Each(v) == [p \in Processes |-> v]

Init ==
  /\ config \in Configs
  /\ owner = None
  /\ engine = [g \in Engines |-> Spare]
  /\ main = Each("idle")
  /\ reload = Each("idle") /\ pending = Each(FALSE) /\ timer = Each(FALSE)
  /\ signal = Each("off")
  /\ running = Each(None) /\ launching = Each(None)
  /\ current = Each(None) /\ next = Each(None)
  /\ closing = Each(FALSE) /\ fatal = Each(FALSE)

Command(p) ==
  \/ Acquire(p) \/ Secured(p) \/ Started(p) \/ StartFails(p)
  \/ Ends(p) \/ StopsRunning(p) \/ Stopped(p) \/ Released(p) \/ Exits(p)

Reload(p) == ReloadBegins(p) \/ Loads(p) \/ Restarts(p) \/ Restarted(p)

Serve(p) == Drained(p) \/ SignalServed(p)

Next ==
  \/ \E p \in Processes :
       \/ Begin(p) \/ Command(p) \/ Reload(p) \/ Serve(p)
       \/ Tick(p) \/ Signal(p) \/ EngineFails(p) \/ Killed(p)
  \/ \E g \in Engines : EngineStops(g)
  \/ EditConfig

Spec == Init /\ [][Next]_vars

\* Every await settles and the interval fires.  Nobody has to send a signal.
Fairness ==
  /\ \A p \in Processes : /\ WF_vars(Command(p)) /\ WF_vars(Reload(p))
                          /\ WF_vars(Serve(p)) /\ WF_vars(Tick(p))
  /\ \A g \in Engines : WF_vars(EngineStops(g))

FairSpec == Spec /\ Fairness

-----------------------------------------------------------------------------
(* Properties *)

TypeOK ==
  /\ config \in Configs \cup {Broken}
  /\ owner \in Processes \cup {None}
  /\ engine \in [Engines -> [by : Processes, config : Configs,
                             state : {"starting", "up", "closing", "stopped", "rejected"}] \cup {Spare}]
  /\ main \in [Processes -> {"idle", "locking", "locked", "starting", "running", "ending",
                             "stopping", "releasing", "done"}]
  /\ reload \in [Processes -> {"idle", "loading", "stopping", "starting"}]
  /\ signal \in [Processes -> {"off", "waiting", "draining", "stopping", "through"}]
  /\ {pending, timer, closing, fatal} \subseteq [Processes -> BOOLEAN]
  /\ {running, launching} \subseteq [Processes -> Engines \cup {None}]
  /\ {current, next} \subseteq [Processes -> Configs \cup {None}]

\* docs/peer-vpn.md, "only one runtime can own the identity": no two engines are alive at any time,
\* in one process or in two, and the process of the one that is has the lock,
\* through reloads, failures, signals and kills.
OneRuntime ==
  \A g, h \in Engines : Alive(g) => /\ engine[g].by = owner
                                    /\ Alive(h) => g = h

\* When the stop a signal asked for has returned, nothing runs and no reload will
\* start anything, wherever the reload was when the signal came.
SignalStops ==
  \A p \in Processes : signal[p] = "through" =>
    /\ \A g \in Engines : engine[g].by = p => ~Alive(g)
    /\ reload[p] = "idle"

\* docs/peer-vpn.md: a change of the config restarts the VPN, and "an invalid Linux
\* reload or failed restart stops the VPN instead of keeping old grants": `peer vpn`
\* comes to run the config there is, or gives the identity up, if the file stays.
FollowsConfig ==
  \A p \in Processes \ Receivers, c \in Configs \cup {Broken} :
    main[p] = "running" /\ config = c ~>
      \/ config # c \/ owner # p
      \/ running[p] # None /\ IsUp(running[p]) /\ engine[running[p]].config = c

\* A process that was told to stop, or whose engine or reload has failed, gives the
\* lock up, so that the identity can be used again.
LockComesFree ==
  \A p \in Processes : closing[p] \/ fatal[p] ~> owner # p

=============================================================================
