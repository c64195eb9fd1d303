--------------------------- MODULE PeerVpnProofs ---------------------------
(***************************************************************************)
(* Proofs about PeerVpn for any number of processes, configs and engines:  *)
(* one runtime at a time, and nothing left after a stop.                   *)
(***************************************************************************)
EXTENDS PeerVpn, TLAPS

-----------------------------------------------------------------------------
(* The inductive invariant *)

Halting(g) == g # None => engine[g].state \in {"closing", "stopped", "rejected"}
Down(g)    == g # None => engine[g].state \in {"stopped", "rejected"}

\* Each engine that lives is the one its process starts or runs.
Places ==
  /\ \A g \in Engines :
       /\ engine[g].state = "starting" => launching[engine[g].by] = g
       /\ engine[g].state \in {"up", "closing"} => running[engine[g].by] = g
  /\ \A p \in Processes :
       /\ launching[p] # None => /\ engine[launching[p]].by = p
                                 /\ engine[launching[p]].state = "starting"
                                 /\ running[p] = None
       /\ running[p] # None => /\ engine[running[p]].by = p
                               /\ engine[running[p]].state # "starting"
       /\ launching[p] # None <=> main[p] = "starting" \/ reload[p] = "starting"

\* What the command's place says of the lock, of the engine and of the other two.
Commands ==
  \A p \in Processes :
    /\ main[p] \notin {"idle", "locking", "done"} => owner = p
    /\ main[p] \in {"idle", "locking", "locked", "starting"} =>
         running[p] = None /\ signal[p] = "off"
    /\ main[p] # "idle" => current[p] # None
    /\ main[p] = "stopping" => Halting(running[p])
    /\ main[p] \in {"releasing", "done"} => Down(running[p])
    /\ main[p] \notin {"running", "ending"} => NoReload(p)
    /\ timer[p] => main[p] = "running" /\ signal[p] = "waiting"
    /\ signal[p] = "waiting" => main[p] = "running"

\* What the reload at hand and the stop of a signal say of the engine.
Chains ==
  \A p \in Processes :
    /\ reload[p] = "stopping" => next[p] # None /\ Halting(running[p])
    /\ signal[p] \in {"stopping", "through"} => NoReload(p)
    /\ signal[p] = "stopping" => Halting(running[p])
    /\ signal[p] = "through" => Down(running[p])

IInv == TypeOK /\ Places /\ Commands /\ Chains

-----------------------------------------------------------------------------
(* Engines *)

Used == [by : Processes, config : Configs,
         state : {"starting", "up", "closing", "stopped", "rejected"}]

\* An engine in use that changes its state stays an engine in use.
LEMMA EngineMoves ==
  ASSUME engine \in [Engines -> Used \cup {Spare}],
         NEW g \in Engines, engine[g].state # "none",
         NEW s \in {"starting", "up", "closing", "stopped", "rejected"}
  PROVE  [engine EXCEPT ![g].state = s] \in [Engines -> Used \cup {Spare}]
<1>1. engine[g] \in Used
  BY DEF Spare
<1>2. [engine[g] EXCEPT !.state = s] \in Used
  BY <1>1 DEF Used
<1> QED BY <1>2

\* Asking an engine, or none, to stop leaves engines.
LEMMA ClosingIsTyped ==
  ASSUME engine \in [Engines -> Used \cup {Spare}], NEW g \in Engines \cup {None}
  PROVE  Closing(g) \in [Engines -> Used \cup {Spare}]
<1>1. CASE g # None /\ IsUp(g)
  <2>1. g \in Engines /\ engine[g].state # "none"
    BY <1>1 DEF IsUp
  <2> QED BY <1>1, <2>1, EngineMoves DEF Closing
<1>2. CASE ~(g # None /\ IsUp(g))
  BY <1>2 DEF Closing
<1> QED BY <1>1, <1>2

-----------------------------------------------------------------------------
(* The steps of one process *)

\* Reading the config and going for the lock.
LEMMA BeginKeepsIInv ==
  ASSUME IInv, NEW p \in Processes, Begin(p)
  PROVE  IInv'
<1> USE PeerVpnAssumption, NoneAssumption DEF IInv, Set, Begin, chain, service, local
<1>1. TypeOK'
  BY DEF TypeOK, Spare
<1>2. Places'
  BY DEF TypeOK, Places, Commands, Chains, NoReload, Spare, Halting, Down
<1>3. Commands'
  BY DEF TypeOK, Places, Commands, Chains, NoReload, Spare, Halting, Down
<1>4. Chains'
  BY DEF TypeOK, Places, Commands, Chains, NoReload, Spare, Halting, Down
<1> QED BY <1>1, <1>2, <1>3, <1>4

\* Taking the lock: nobody else is past it.
LEMMA AcquireKeepsIInv ==
  ASSUME IInv, NEW p \in Processes, Acquire(p)
  PROVE  IInv'
<1> USE PeerVpnAssumption, NoneAssumption DEF IInv, Set, Acquire, chain, service, local
<1>1. TypeOK'
  BY DEF TypeOK, Spare
<1>2. Places'
  BY DEF TypeOK, Places, Commands, Chains, NoReload, Spare, Halting, Down
<1>3. Commands'
  BY DEF TypeOK, Places, Commands, Chains, NoReload, Spare, Halting, Down
<1>4. Chains'
  BY DEF TypeOK, Places, Commands, Chains, NoReload, Spare, Halting, Down
<1> QED BY <1>1, <1>2, <1>3, <1>4

\* The lock is had: the engine to start is one nobody has.
LEMMA SecuredKeepsIInv ==
  ASSUME IInv, NEW p \in Processes, Secured(p)
  PROVE  IInv'
<1> USE PeerVpnAssumption, NoneAssumption DEF IInv, Set, Secured, Launch, Free, Alive, chain, service, local
<1>1. TypeOK'
  <2>1. CASE main' = Set(main, p, "releasing") /\ UNCHANGED <<engine, launching>>
    BY <2>1 DEF TypeOK
  <2>2. ASSUME NEW g \in Engines, Launch(p, g, current[p]), main' = Set(main, p, "starting")
        PROVE  TypeOK'
    <3>1. [by |-> p, config |-> current[p], state |-> "starting"] \in Used
      BY DEF TypeOK, Commands, Used
    <3>2. engine' \in [Engines -> Used \cup {Spare}]
      BY <2>2, <3>1 DEF TypeOK, Used
    <3> QED BY <2>2, <3>2 DEF TypeOK, Used
  <2> QED BY <2>1, <2>2
<1>2. Places'
  BY DEF TypeOK, Places, Commands, Chains, NoReload, Spare, Halting, Down
<1>3. Commands'
  BY DEF TypeOK, Places, Commands, Chains, NoReload, Spare, Halting, Down
<1>4. Chains'
  BY DEF TypeOK, Places, Commands, Chains, NoReload, Spare, Halting, Down
<1> QED BY <1>1, <1>2, <1>3, <1>4

\* Giving the lock up: the engine is down by then.
LEMMA ReleasedKeepsIInv ==
  ASSUME IInv, NEW p \in Processes, Released(p)
  PROVE  IInv'
<1> USE PeerVpnAssumption, NoneAssumption DEF IInv, Set, Released, chain, service, local
<1>1. TypeOK'
  BY DEF TypeOK, Spare
<1>2. Places'
  BY DEF TypeOK, Places, Commands, Chains, NoReload, Spare, Halting, Down
<1>3. Commands'
  BY DEF TypeOK, Places, Commands, Chains, NoReload, Spare, Halting, Down
<1>4. Chains'
  BY DEF TypeOK, Places, Commands, Chains, NoReload, Spare, Halting, Down
<1> QED BY <1>1, <1>2, <1>3, <1>4

\* The engine is up and is the one the process runs.
LEMMA StartedKeepsIInv ==
  ASSUME IInv, NEW p \in Processes, Started(p)
  PROVE  IInv'
<1> USE PeerVpnAssumption, NoneAssumption DEF IInv, Set, Started, chain, service, local
<1>1. TypeOK'
  <2>1. launching[p] \in Engines /\ engine[launching[p]].state = "starting"
    BY DEF TypeOK, Places
  <2>2. engine' \in [Engines -> Used \cup {Spare}]
    BY <2>1, EngineMoves DEF TypeOK, Used
  <2> QED BY <2>1, <2>2 DEF TypeOK, Used
<1>2. Places'
  BY DEF TypeOK, Places, Commands, Chains, NoReload, Spare, Halting, Down
<1>3. Commands'
  BY DEF TypeOK, Places, Commands, Chains, NoReload, Spare, Halting, Down
<1>4. Chains'
  BY DEF TypeOK, Places, Commands, Chains, NoReload, Spare, Halting, Down
<1> QED BY <1>1, <1>2, <1>3, <1>4

\* The start has failed and leaves no engine.
LEMMA StartFailsKeepsIInv ==
  ASSUME IInv, NEW p \in Processes, StartFails(p)
  PROVE  IInv'
<1> USE PeerVpnAssumption, NoneAssumption DEF IInv, Set, StartFails, Finally, chain, service, local
<1>1. TypeOK'
  <2>1. engine' \in [Engines -> Used \cup {Spare}]
    BY DEF TypeOK, Used
  <2>2. signal' \in [Processes -> {"off", "waiting", "draining", "stopping", "through"}]
    BY DEF TypeOK
  <2> QED BY <2>1, <2>2 DEF TypeOK, Used
<1>2. Places'
  BY DEF TypeOK, Places, Commands, Chains, NoReload, Spare, Halting, Down
<1>3. Commands'
  BY DEF TypeOK, Places, Commands, Chains, NoReload, Spare, Halting, Down
<1>4. Chains'
  BY DEF TypeOK, Places, Commands, Chains, NoReload, Spare, Halting, Down
<1> QED BY <1>1, <1>2, <1>3, <1>4

\* The command ends: no reload begins and no signal is heard from here on.
LEMMA EndsKeepsIInv ==
  ASSUME IInv, NEW p \in Processes, Ends(p)
  PROVE  IInv'
<1> USE PeerVpnAssumption, NoneAssumption DEF IInv, Set, Ends, Finally, chain, service, local
<1>1. TypeOK'
  BY DEF TypeOK
<1>2. Places'
  BY DEF TypeOK, Places, Commands, Chains, NoReload, Spare, Halting, Down
<1>3. Commands'
  BY DEF TypeOK, Places, Commands, Chains, NoReload, Spare, Halting, Down
<1>4. Chains'
  BY DEF TypeOK, Places, Commands, Chains, NoReload, Spare, Halting, Down
<1> QED BY <1>1, <1>2, <1>3, <1>4

\* The command has waited for the reloads and stops the engine.
LEMMA StopsRunningKeepsIInv ==
  ASSUME IInv, NEW p \in Processes, StopsRunning(p)
  PROVE  IInv'
<1> USE PeerVpnAssumption, NoneAssumption DEF IInv, Set, StopsRunning, Closing, IsUp, chain, service, local
<1>1. TypeOK'
  BY DEF TypeOK, Spare
<1>2. Places'
  BY DEF TypeOK, Places, Commands, Chains, NoReload, Spare, Halting, Down
<1>3. Commands'
  BY DEF TypeOK, Places, Commands, Chains, NoReload, Spare, Halting, Down
<1>4. Chains'
  BY DEF TypeOK, Places, Commands, Chains, NoReload, Spare, Halting, Down
<1> QED BY <1>1, <1>2, <1>3, <1>4

\* The engine is down, so that the lock may go.
LEMMA StoppedKeepsIInv ==
  ASSUME IInv, NEW p \in Processes, Stopped(p)
  PROVE  IInv'
<1> USE PeerVpnAssumption, NoneAssumption DEF IInv, Set, Stopped, Settled, chain, service, local
<1>1. TypeOK'
  BY DEF TypeOK, Spare
<1>2. Places'
  BY DEF TypeOK, Places, Commands, Chains, NoReload, Spare, Halting, Down
<1>3. Commands'
  BY DEF TypeOK, Places, Commands, Chains, NoReload, Spare, Halting, Down
<1>4. Chains'
  BY DEF TypeOK, Places, Commands, Chains, NoReload, Spare, Halting, Down
<1> QED BY <1>1, <1>2, <1>3, <1>4

\* The interval adds a reload, which it does only while the command runs.
LEMMA TickKeepsIInv ==
  ASSUME IInv, NEW p \in Processes, Tick(p)
  PROVE  IInv'
<1> USE PeerVpnAssumption, NoneAssumption DEF IInv, Set, Tick, chain, service, local
<1>1. TypeOK'
  BY DEF TypeOK, Spare
<1>2. Places'
  BY DEF TypeOK, Places, Commands, Chains, NoReload, Spare, Halting, Down
<1>3. Commands'
  BY DEF TypeOK, Places, Commands, Chains, NoReload, Spare, Halting, Down
<1>4. Chains'
  BY DEF TypeOK, Places, Commands, Chains, NoReload, Spare, Halting, Down
<1> QED BY <1>1, <1>2, <1>3, <1>4

\* A reload begins; none waits any more.
LEMMA ReloadBeginsKeepsIInv ==
  ASSUME IInv, NEW p \in Processes, ReloadBegins(p)
  PROVE  IInv'
<1> USE PeerVpnAssumption, NoneAssumption DEF IInv, Set, ReloadBegins, chain, service, local
<1>1. TypeOK'
  BY DEF TypeOK, Spare
<1>2. Places'
  BY DEF TypeOK, Places, Commands, Chains, NoReload, Spare, Halting, Down
<1>3. Commands'
  BY DEF TypeOK, Places, Commands, Chains, NoReload, Spare, Halting, Down
<1>4. Chains'
  BY DEF TypeOK, Places, Commands, Chains, NoReload, Spare, Halting, Down
<1> QED BY <1>1, <1>2, <1>3, <1>4

\* A reload has read the config.
LEMMA LoadsKeepsIInv ==
  ASSUME IInv, NEW p \in Processes, Loads(p)
  PROVE  IInv'
<1> USE PeerVpnAssumption, NoneAssumption DEF IInv, Set, Loads, Over, chain, service, local
<1>1. CASE LoadBroken(p) \/ LoadSame(p)
  <2> USE <1>1 DEF LoadBroken, LoadSame, ReloadFails
  <2>1. TypeOK'
    <3>1. reload' \in [Processes -> {"idle", "loading", "stopping", "starting"}]
      BY DEF TypeOK
    <3>2. next' \in [Processes -> Configs \cup {None}] /\ fatal' \in [Processes -> BOOLEAN]
      BY DEF TypeOK
    <3> QED BY <3>1, <3>2 DEF TypeOK
  <2>2. Places'
    BY DEF TypeOK, Places, Commands, Chains, NoReload, Spare, Halting, Down
  <2>3. Commands'
    BY DEF TypeOK, Places, Commands, Chains, NoReload, Spare, Halting, Down
  <2>4. Chains'
    BY DEF TypeOK, Places, Commands, Chains, NoReload, Spare, Halting, Down
  <2> QED BY <2>1, <2>2, <2>3, <2>4
<1>2. CASE LoadNew(p)
  <2> USE <1>2 DEF LoadNew
  <2>1. TypeOK'
    <3>1. engine' \in [Engines -> Used \cup {Spare}]
      BY ClosingIsTyped DEF TypeOK, Used
    <3>2. next' \in [Processes -> Configs \cup {None}]
      BY DEF TypeOK
    <3> QED BY <3>1, <3>2 DEF TypeOK, Used
  <2> USE DEF Closing, IsUp
  <2>2. Places'
    BY DEF TypeOK, Places, Commands, Chains, NoReload, Spare, Halting, Down
  <2>3. Commands'
    BY DEF TypeOK, Places, Commands, Chains, NoReload, Spare, Halting, Down
  <2>4. Chains'
    BY DEF TypeOK, Places, Commands, Chains, NoReload, Spare, Halting, Down
  <2> QED BY <2>1, <2>2, <2>3, <2>4
<1> QED BY <1>1, <1>2

\* The old engine is down: the new one takes its place and is no second one.
LEMMA RestartsKeepsIInv ==
  ASSUME IInv, NEW p \in Processes, Restarts(p)
  PROVE  IInv'
<1> USE PeerVpnAssumption, NoneAssumption DEF IInv, Set, chain, service, local
<1>1. CASE running[p] # None /\ engine[running[p]].state = "rejected"
  <2> USE <1>1 DEF Restarts, ReloadFails, Over
  <2>1. TypeOK'
    <3>1. reload' \in [Processes -> {"idle", "loading", "stopping", "starting"}]
      BY DEF TypeOK
    <3>2. next' \in [Processes -> Configs \cup {None}] /\ fatal' \in [Processes -> BOOLEAN]
      BY DEF TypeOK
    <3> QED BY <3>1, <3>2 DEF TypeOK
  <2>2. Places'
    BY DEF TypeOK, Places, Commands, Chains, NoReload, Spare, Halting, Down
  <2>3. Commands'
    BY DEF TypeOK, Places, Commands, Chains, NoReload, Spare, Halting, Down
  <2>4. Chains'
    BY DEF TypeOK, Places, Commands, Chains, NoReload, Spare, Halting, Down
  <2> QED BY <2>1, <2>2, <2>3, <2>4
<1>2. CASE ~(running[p] # None /\ engine[running[p]].state = "rejected")
  <2>1. PICK g \in Engines : Launch(p, g, next[p])
    BY <1>2 DEF Restarts
  <2>2. /\ reload[p] = "stopping" /\ Settled(running[p])
        /\ running' = Set(running, p, None) /\ current' = Set(current, p, next[p])
        /\ reload' = Set(reload, p, "starting")
        /\ UNCHANGED <<config, owner, main, pending, timer, signal, closing, next, fatal>>
    BY <1>2 DEF Restarts
  <2> USE <2>2 DEF Settled
  <2>3. next[p] \in Configs
    BY DEF TypeOK, Chains
  <2>4. g \in Free /\ launching' = Set(launching, p, g)
        /\ engine' = Set(engine, g, [by |-> p, config |-> next[p], state |-> "starting"])
    BY <2>1 DEF Launch
  <2>5. running[p] # None => engine[running[p]].state = "stopped"
    BY <1>2 DEF TypeOK, Places, Chains, Halting
  <2>6. TypeOK'
    <3>1. [by |-> p, config |-> next[p], state |-> "starting"] \in Used
      BY <2>3 DEF Used
    <3>2. engine' \in [Engines -> Used \cup {Spare}]
      BY <2>4, <3>1 DEF TypeOK, Used
    <3>3. /\ launching' \in [Processes -> Engines \cup {None}]
          /\ current' \in [Processes -> Configs \cup {None}]
      BY <2>3, <2>4 DEF TypeOK
    <3> QED BY <3>2, <3>3 DEF TypeOK, Used
  <2>7. Places'
    <3>1. /\ engine'[g].by = p /\ engine'[g].state = "starting"
          /\ \A h \in Engines \ {g} : engine'[h] = engine[h]
      BY <2>4 DEF TypeOK
    <3>2. launching[p] = None /\ main[p] # "starting"
      BY DEF TypeOK, Places, Commands, NoReload
    <3> QED BY <2>4, <2>5, <3>1, <3>2 DEF TypeOK, Places, Free, Alive
  <2>8. Commands'
    BY <2>4, <2>5 DEF TypeOK, Places, Commands, Chains, NoReload, Spare, Halting, Down, Free, Alive
  <2>9. Chains'
    BY <2>4, <2>5 DEF TypeOK, Places, Commands, Chains, NoReload, Spare, Halting, Down, Free, Alive
  <2> QED BY <2>6, <2>7, <2>8, <2>9
<1> QED BY <1>1, <1>2

\* The new engine is up, or nothing is.
LEMMA RestartedKeepsIInv ==
  ASSUME IInv, NEW p \in Processes, Restarted(p)
  PROVE  IInv'
<1> USE PeerVpnAssumption, NoneAssumption DEF IInv, Set, Over, chain, service, local
<1> DEFINE g == launching[p]
<1>1. /\ reload[p] = "starting" /\ launching' = Set(launching, p, None)
      /\ reload' = Set(reload, p, "idle") /\ next' = Set(next, p, None)
      /\ UNCHANGED <<config, owner, main, pending, timer, signal, current, closing>>
  BY DEF Restarted, ReloadFails
<1>2. g \in Engines /\ engine[g].by = p /\ engine[g].state = "starting" /\ running[p] = None
  BY <1>1 DEF TypeOK, Places
<1>3. main[p] # "starting"
  BY <1>1 DEF Commands, NoReload
<1>4. \A h \in Engines : h # g /\ engine[h].state = "starting" => engine[h].by # p
  BY DEF Places
<1>5. \A q \in Processes : q # p => launching[q] # g /\ running[q] # g
  BY <1>2 DEF Places
<1> HIDE DEF g
<1> USE <1>1, <1>2
<1>6. CASE engine' = [engine EXCEPT ![g].state = "up"] /\ running' = Set(running, p, g)
             /\ UNCHANGED fatal
  <2>1. /\ engine'[g].by = p /\ engine'[g].state = "up"
        /\ \A h \in Engines \ {g} : engine'[h] = engine[h]
    BY <1>6 DEF TypeOK
  <2>2. engine' \in [Engines -> Used \cup {Spare}]
    BY <1>6, EngineMoves DEF TypeOK, Used
  <2>3. running' \in [Processes -> Engines \cup {None}]
    BY <1>6 DEF TypeOK
  <2>4. TypeOK'
    BY <1>6, <2>2, <2>3 DEF TypeOK, Used
  <2>5. Places'
    BY <1>3, <1>4, <1>5, <1>6, <2>1 DEF TypeOK, Places
  <2>6. Commands'
    BY <1>3, <1>5, <1>6, <2>1 DEF TypeOK, Places, Commands, Chains, NoReload, Spare, Halting, Down
  <2>7. Chains'
    BY <1>3, <1>5, <1>6, <2>1 DEF TypeOK, Places, Commands, Chains, NoReload, Spare, Halting, Down
  <2> QED BY <2>4, <2>5, <2>6, <2>7
<1>7. CASE engine' = Set(engine, g, Spare) /\ fatal' = Set(fatal, p, TRUE) /\ UNCHANGED running
  <2>1. engine'[g] = Spare /\ \A h \in Engines \ {g} : engine'[h] = engine[h]
    BY <1>7 DEF TypeOK
  <2>2. engine' \in [Engines -> Used \cup {Spare}]
    BY <1>7 DEF TypeOK, Used
  <2>3. TypeOK'
    BY <1>7, <2>2 DEF TypeOK, Used
  <2>4. Places'
    BY <1>3, <1>4, <1>5, <1>7, <2>1 DEF TypeOK, Places, Spare
  <2>5. Commands'
    BY <1>3, <1>5, <1>7, <2>1 DEF TypeOK, Places, Commands, Chains, NoReload, Spare, Halting, Down
  <2>6. Chains'
    BY <1>3, <1>5, <1>7, <2>1 DEF TypeOK, Places, Commands, Chains, NoReload, Spare, Halting, Down
  <2> QED BY <2>3, <2>4, <2>5, <2>6
<1> QED BY <1>6, <1>7 DEF Restarted, ReloadFails, g

\* A signal is heard.
LEMMA SignalKeepsIInv ==
  ASSUME IInv, NEW p \in Processes, Signal(p)
  PROVE  IInv'
<1> USE PeerVpnAssumption, NoneAssumption DEF IInv, Set, Signal, chain, service, local
<1>1. TypeOK'
  BY DEF TypeOK, Spare
<1>2. Places'
  BY DEF TypeOK, Places, Commands, Chains, NoReload, Spare, Halting, Down
<1>3. Commands'
  BY DEF TypeOK, Places, Commands, Chains, NoReload, Spare, Halting, Down
<1>4. Chains'
  BY DEF TypeOK, Places, Commands, Chains, NoReload, Spare, Halting, Down
<1> QED BY <1>1, <1>2, <1>3, <1>4

\* The stop of a signal has waited for the reloads and stops the engine.
LEMMA DrainedKeepsIInv ==
  ASSUME IInv, NEW p \in Processes, Drained(p)
  PROVE  IInv'
<1> USE PeerVpnAssumption, NoneAssumption DEF IInv, Set, Drained, Closing, IsUp, chain, service, local
<1>1. TypeOK'
  BY DEF TypeOK, Spare
<1>2. Places'
  BY DEF TypeOK, Places, Commands, Chains, NoReload, Spare, Halting, Down
<1>3. Commands'
  BY DEF TypeOK, Places, Commands, Chains, NoReload, Spare, Halting, Down
<1>4. Chains'
  BY DEF TypeOK, Places, Commands, Chains, NoReload, Spare, Halting, Down
<1> QED BY <1>1, <1>2, <1>3, <1>4

\* The stop of a signal is through: the engine is down.
LEMMA SignalServedKeepsIInv ==
  ASSUME IInv, NEW p \in Processes, SignalServed(p)
  PROVE  IInv'
<1> USE PeerVpnAssumption, NoneAssumption DEF IInv, Set, SignalServed, Settled, chain, service, local
<1>1. TypeOK'
  BY DEF TypeOK, Spare
<1>2. Places'
  BY DEF TypeOK, Places, Commands, Chains, NoReload, Spare, Halting, Down
<1>3. Commands'
  BY DEF TypeOK, Places, Commands, Chains, NoReload, Spare, Halting, Down
<1>4. Chains'
  BY DEF TypeOK, Places, Commands, Chains, NoReload, Spare, Halting, Down
<1> QED BY <1>1, <1>2, <1>3, <1>4

\* The failure of an engine is only noted.
LEMMA EngineFailsKeepsIInv ==
  ASSUME IInv, NEW p \in Processes, EngineFails(p)
  PROVE  IInv'
<1> USE PeerVpnAssumption, NoneAssumption DEF IInv, Set, EngineFails, IsUp, chain, service, local
<1>1. TypeOK'
  BY DEF TypeOK, Spare
<1>2. Places'
  BY DEF TypeOK, Places, Commands, Chains, NoReload, Spare, Halting, Down
<1>3. Commands'
  BY DEF TypeOK, Places, Commands, Chains, NoReload, Spare, Halting, Down
<1>4. Chains'
  BY DEF TypeOK, Places, Commands, Chains, NoReload, Spare, Halting, Down
<1> QED BY <1>1, <1>2, <1>3, <1>4

\* A process ends: its engines go with it and leave the others alone.
LEMMA GoneKeepsIInv ==
  ASSUME IInv, NEW p \in Processes, Gone(p)
  PROVE  IInv'
<1> USE PeerVpnAssumption, NoneAssumption DEF IInv, Set, Gone, chain, service, local
<1>1. TypeOK'
  BY DEF TypeOK, Spare
<1>2. /\ owner' = IF owner = p THEN None ELSE owner
      /\ main'[p] = "idle" /\ reload'[p] = "idle" /\ ~pending'[p] /\ ~timer'[p] /\ signal'[p] = "off"
      /\ running'[p] = None /\ launching'[p] = None
  BY DEF TypeOK
<1>3. ASSUME NEW q \in Processes, q # p
      PROVE  /\ main'[q] = main[q] /\ reload'[q] = reload[q] /\ pending'[q] = pending[q]
             /\ timer'[q] = timer[q] /\ signal'[q] = signal[q] /\ running'[q] = running[q]
             /\ launching'[q] = launching[q] /\ current'[q] = current[q] /\ next'[q] = next[q]
  BY <1>3 DEF TypeOK
<1>4. \A g \in Engines : engine'[g] = IF engine[g].by = p THEN Spare ELSE engine[g]
  OBVIOUS
<1>5. \A g \in Engines : engine[g] # Spare => engine[g].by \in Processes /\ engine[g].state # "none"
  BY DEF TypeOK
<1>6. /\ Spare.state = "none" /\ \A g \in Engines : engine[g].by = p \/ engine'[g] = engine[g]
      /\ \A g \in Engines : engine[g].by = p => engine'[g].state = "none"
  BY <1>4 DEF Spare
<1>7. ASSUME NEW q \in Processes, q # p
      PROVE  /\ running[q] # None => running[q] \in Engines /\ engine'[running[q]] = engine[running[q]]
             /\ launching[q] # None => launching[q] \in Engines /\ engine'[launching[q]] = engine[launching[q]]
  <2>1. running[q] \in Engines \cup {None} /\ launching[q] \in Engines \cup {None}
    BY DEF TypeOK
  <2>2. /\ running[q] # None => engine[running[q]].by = q
        /\ launching[q] # None => engine[launching[q]].by = q
    BY DEF Places
  <2> QED BY <1>6, <1>7, <2>1, <2>2
<1> HIDE DEF IInv, Gone
<1>8. Places /\ Commands /\ Chains
  BY DEF IInv
<1>9. Places'
  <2>1. ASSUME NEW g \in Engines
        PROVE  /\ engine'[g].state = "starting" => launching'[engine'[g].by] = g
               /\ engine'[g].state \in {"up", "closing"} => running'[engine'[g].by] = g
    <3>1. CASE engine[g].by = p
      BY <1>6, <3>1
    <3>2. CASE engine[g].by # p
      <4>1. engine'[g] = engine[g]
        BY <1>6, <3>2
      <4>2. CASE engine[g] = Spare
        BY <1>6, <4>1, <4>2
      <4>3. CASE engine[g] # Spare
        <5>1. engine[g].by \in Processes
          BY <1>5, <4>3
        <5> QED BY <1>3, <1>8, <3>2, <4>1, <5>1 DEF Places
      <4> QED BY <4>2, <4>3
    <3> QED BY <3>1, <3>2
  <2>2. ASSUME NEW q \in Processes
        PROVE  /\ launching'[q] # None => /\ engine'[launching'[q]].by = q
                                          /\ engine'[launching'[q]].state = "starting"
                                          /\ running'[q] = None
               /\ running'[q] # None => /\ engine'[running'[q]].by = q
                                        /\ engine'[running'[q]].state # "starting"
               /\ launching'[q] # None <=> main'[q] = "starting" \/ reload'[q] = "starting"
    <3>1. CASE q = p
      BY <1>2, <3>1
    <3>2. CASE q # p
      BY <1>3, <1>7, <1>8, <3>2 DEF Places
    <3> QED BY <3>1, <3>2
  <2> QED BY <2>1, <2>2 DEF Places
<1>10. \A q \in Processes : q # p => /\ Halting(running[q]) => Halting(running[q])'
                                     /\ Down(running[q]) => Down(running[q])'
  BY <1>3, <1>7 DEF Halting, Down
<1>11. Commands'
  <2>1. ASSUME NEW q \in Processes, q # p
        PROVE  main'[q] \notin {"idle", "locking", "done"} => owner' = q
    BY <1>2, <1>3, <1>8, <2>1 DEF Commands
  <2>2. ASSUME NEW q \in Processes, q # p
        PROVE  /\ main'[q] \in {"idle", "locking", "locked", "starting"} =>
                    running'[q] = None /\ signal'[q] = "off"
               /\ main'[q] # "idle" => current'[q] # None
               /\ main'[q] = "stopping" => Halting(running[q])'
               /\ main'[q] \in {"releasing", "done"} => Down(running[q])'
               /\ main'[q] \notin {"running", "ending"} => NoReload(q)'
               /\ timer'[q] => main'[q] = "running" /\ signal'[q] = "waiting"
               /\ signal'[q] = "waiting" => main'[q] = "running"
    BY <1>3, <1>8, <1>10, <2>2 DEF Commands, NoReload
  <2>3. main'[p] = "idle" /\ NoReload(p)' /\ ~timer'[p] /\ signal'[p] = "off" /\ running'[p] = None
    BY <1>2 DEF NoReload
  <2> QED BY <2>1, <2>2, <2>3 DEF Commands
<1>12. Chains'
  <2>1. ASSUME NEW q \in Processes, q # p
        PROVE  /\ reload'[q] = "stopping" => next'[q] # None /\ Halting(running[q])'
               /\ signal'[q] \in {"stopping", "through"} => NoReload(q)'
               /\ signal'[q] = "stopping" => Halting(running[q])'
               /\ signal'[q] = "through" => Down(running[q])'
    BY <1>3, <1>8, <1>10, <2>1 DEF Chains, NoReload
  <2>2. reload'[p] = "idle" /\ signal'[p] = "off"
    BY <1>2
  <2> QED BY <2>1, <2>2 DEF Chains
<1> QED BY <1>1, <1>9, <1>11, <1>12 DEF IInv

\* An engine's stop is through: it is the one its process runs.
LEMMA EngineStopsKeepsIInv ==
  ASSUME IInv, NEW g \in Engines, EngineStops(g)
  PROVE  IInv'
<1> USE PeerVpnAssumption, NoneAssumption DEF IInv, chain, service, local
<1>1. PICK s \in {"stopped", "rejected"} : engine' = [engine EXCEPT ![g].state = s]
  BY DEF EngineStops
<1>2. engine[g].state = "closing" /\ UNCHANGED <<config, owner, local>>
  BY DEF EngineStops
<1> USE <1>1, <1>2
<1>3. TypeOK'
  <2>1. engine' \in [Engines -> Used \cup {Spare}]
    BY EngineMoves DEF TypeOK, Used
  <2> QED BY <2>1 DEF TypeOK, Used
<1>4. Places'
  BY DEF TypeOK, Places, Spare
<1>5. Commands'
  BY DEF TypeOK, Places, Commands, NoReload, Spare, Halting, Down
<1>6. Chains'
  BY DEF TypeOK, Places, Chains, NoReload, Spare, Halting, Down
<1> QED BY <1>3, <1>4, <1>5, <1>6

\* Another config file changes nothing in the processes.
LEMMA EditConfigKeepsIInv ==
  ASSUME IInv, EditConfig
  PROVE  IInv'
<1>1. TypeOK'
  BY DEF IInv, EditConfig, TypeOK, local, chain, service
<1> QED BY <1>1 DEF IInv, EditConfig, Places, Commands, Chains, NoReload, Halting, Down,
                    local, chain, service

\* A step that changes nothing keeps the invariant.
LEMMA StutterKeepsIInv ==
  ASSUME IInv, UNCHANGED vars
  PROVE  IInv'
BY DEF IInv, TypeOK, Places, Commands, Chains, NoReload, Halting, Down,
       vars, local, chain, service

\* Before any process is started there is no engine and no owner.
LEMMA InitHasIInv == Init => IInv
<1> SUFFICES ASSUME Init PROVE IInv
  OBVIOUS
<1> USE NoneAssumption DEF Init, Each
<1>1. TypeOK
  BY DEF TypeOK
<1>2. Places
  BY DEF Places, Spare
<1>3. Commands
  BY DEF Commands, NoReload
<1>4. Chains
  BY DEF Chains
<1> QED BY <1>1, <1>2, <1>3, <1>4 DEF IInv

\* Every step of every process, engine and editor keeps the invariant.
LEMMA StepKeepsIInv == IInv /\ [Next]_vars => IInv'
<1> SUFFICES ASSUME IInv, [Next]_vars PROVE IInv'
  OBVIOUS
<1>1. CASE UNCHANGED vars
  BY <1>1, StutterKeepsIInv
<1>2. CASE EditConfig
  BY <1>2, EditConfigKeepsIInv
<1>3. ASSUME NEW g \in Engines, EngineStops(g) PROVE IInv'
  BY <1>3, EngineStopsKeepsIInv
<1>4. ASSUME NEW p \in Processes, Command(p) PROVE IInv'
  <2>1. CASE Exits(p)
    BY <2>1, GoneKeepsIInv DEF Exits
  <2>2. CASE ~Exits(p)
    BY <1>4, <2>2, AcquireKeepsIInv, SecuredKeepsIInv, StartedKeepsIInv, StartFailsKeepsIInv,
       EndsKeepsIInv, StopsRunningKeepsIInv, StoppedKeepsIInv, ReleasedKeepsIInv DEF Command
  <2> QED BY <2>1, <2>2
<1>5. ASSUME NEW p \in Processes, Reload(p) PROVE IInv'
  BY <1>5, ReloadBeginsKeepsIInv, LoadsKeepsIInv, RestartsKeepsIInv, RestartedKeepsIInv DEF Reload
<1>6. ASSUME NEW p \in Processes, Serve(p) PROVE IInv'
  BY <1>6, DrainedKeepsIInv, SignalServedKeepsIInv DEF Serve
<1>7. ASSUME NEW p \in Processes, Begin(p) \/ Tick(p) \/ Signal(p) \/ EngineFails(p) PROVE IInv'
  BY <1>7, BeginKeepsIInv, TickKeepsIInv, SignalKeepsIInv, EngineFailsKeepsIInv
<1>8. ASSUME NEW p \in Processes, Killed(p) PROVE IInv'
  BY <1>8, GoneKeepsIInv DEF Killed
<1> QED BY <1>1, <1>2, <1>3, <1>4, <1>5, <1>6, <1>7, <1>8 DEF Next

\* The inductive invariant holds in every state of every behaviour.
LEMMA Invariance == Spec => []IInv
BY InitHasIInv, StepKeepsIInv, PTL DEF Spec

-----------------------------------------------------------------------------
(* What follows from it *)

\* An engine that lives is in its place at the owner, which has one such place filled.
LEMMA IInvHasOneRuntime == IInv => OneRuntime
<1> SUFFICES ASSUME IInv, NEW g \in Engines, NEW h \in Engines, Alive(g)
             PROVE  engine[g].by = owner /\ (Alive(h) => g = h)
  BY DEF OneRuntime
<1>1. ASSUME NEW e \in Engines, Alive(e)
      PROVE  /\ engine[e].by \in Processes /\ engine[e].by = owner
             /\ e = running[owner] \/ e = launching[owner]
  <2>1. engine[e].by \in Processes
    BY <1>1 DEF IInv, TypeOK, Alive, Spare
  <2>2. e = running[engine[e].by] \/ e = launching[engine[e].by]
    BY <1>1 DEF IInv, Places, Alive
  <2>3. engine[e].by = owner
    BY <1>1, <2>1, <2>2, NoneAssumption
    DEF IInv, TypeOK, Places, Commands, NoReload, Down, Alive
  <2> QED BY <2>1, <2>2, <2>3
<1>2. launching[owner] # None => running[owner] = None
  BY <1>1 DEF IInv, Places
<1> QED BY <1>1, <1>2, NoneAssumption

\* Behind a stop that is through, both places of the process are empty or down.
LEMMA IInvHasSignalStops == IInv => SignalStops
<1> SUFFICES ASSUME IInv, NEW p \in Processes, signal[p] = "through"
             PROVE  /\ \A g \in Engines : engine[g].by = p => ~Alive(g)
                    /\ reload[p] = "idle"
  BY DEF SignalStops
<1>1. reload[p] = "idle" /\ Down(running[p])
  BY DEF IInv, Chains, NoReload
<1>2. launching[p] = None
  BY <1>1 DEF IInv, Places, Commands
<1> QED BY <1>1, <1>2, NoneAssumption DEF IInv, Places, Alive, Down

\* Type correctness, for any number of processes, configs and engines.
THEOREM TypeCorrect == Spec => []TypeOK
<1>1. IInv => TypeOK
  BY DEF IInv
<1> QED BY <1>1, Invariance, PTL

\* docs/peer-vpn.md:140, "only one runtime can own the identity": however many
\* processes are started for it and however they reload, fail and die, at most one
\* engine lives, in the process that has the lock.
THEOREM OneRuntimeAtATime == Spec => []OneRuntime
BY Invariance, IInvHasOneRuntime, PTL

\* Once the stop a signal asked for has returned, its process runs nothing, and no
\* reload that was under way starts anything any more.
THEOREM SignalsStop == Spec => []SignalStops
BY Invariance, IInvHasSignalStops, PTL

=============================================================================
