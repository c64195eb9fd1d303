------------------------------ MODULE Receiver ------------------------------
(***************************************************************************)
(* The receiver process: startReceiver of src/vpn/receiver.ts.  It keeps   *)
(* at most one generation of the packet engine (startVpn), launched from a *)
(* snapshot of the device policy in the store, and replaces it whenever    *)
(* the policy changes.  Control commands, enrollments called by an engine  *)
(* and reloads go through one queue of tasks (`serialize`); stopping,      *)
(* start-up, the reload timer and the engines run beside it.               *)
(*                                                                         *)
(* The store is the one of ReceiverStore, reduced to what its callers see: *)
(* the policy that is committed, whether the store has failed for good,    *)
(* and the kind of error an operation ends with.                           *)
(***************************************************************************)
EXTENDS Integers, Sequences, FiniteSets

CONSTANTS
  Keys,         \* public keys of dialers
  Grants,       \* TCP grants
  AllPorts,     \* the grant of a newly admitted device
  None,         \* a key that is not authorised, or no generation
  Generations,  \* names for engines; a name is used again when nothing refers to it
  EarlyContact, \* launches ("startup", "task") during which peers reach the engine
                \* before startVpn has returned
  MaxQueue      \* bound of the model: commands and enrollments waiting

ASSUME GrantAssumption      == AllPorts \in Grants /\ None \notin Grants
ASSUME GenerationAssumption == None \notin Generations
ASSUME ContactAssumption    == EarlyContact \subseteq {"startup", "task"}
ASSUME QueueAssumption      == MaxQueue \in Nat

VARIABLES
  policy,       \* the store's devices: [Keys -> Grants \cup {None}]
  storeFailed,  \* the store refuses every operation
  masked,       \* history: some save failed with an error other than ReceiverStorageError
  main,         \* where startReceiver, and later stop(), has got to
  failed,       \* the promise `failed` is resolved
  runtime,      \* `runtime`: the current generation, or None
  engine,       \* each generation's state and the policy it was launched with
  queue,        \* tasks behind the current one (`tail`)
  task,         \* the current task, or Nothing
  step,         \* the await the current task is at
  held,         \* the generation the current task stops or launches
  sending,      \* keys whose enrollment is committed and whose answer is being sent
  timer,        \* reloadTimer is set
  drain,        \* tasks stop() still waits for
  last,         \* the generation stop(), or a start-up that failed, is stopping
  unserved      \* history: a command gave up because the old generation's stop failed

vars == <<policy, storeFailed, masked, main, failed, runtime, engine, queue, task,
          step, held, sending, timer, drain, last, unserved>>
store  == <<policy, storeFailed, masked>>
worker == <<queue, task, step, held, drain>>

Policies == [Keys -> Grants \cup {None}]
Nobody   == [k \in Keys |-> None]
Unused   == [state |-> "closed", config |-> Nobody]

Nothing == [kind |-> "none"]
Enrollments == [kind : {"enroll"}, key : Keys, by : Generations]
Commands == [kind : {"invite", "list"}]
              \cup [kind : {"grant"}, key : Keys, grant : Grants]
              \cup [kind : {"revoke"}, key : Keys]
Reload == [kind |-> "reload"]
Tasks == Enrollments \cup Commands \cup {Reload}

Alive(g)   == engine[g].state \in {"starting", "up", "closing"}
Serving(g) == engine[g].state = "up"
stopping   == main \in {"stopping", "draining", "closing", "stopped"}

\* stop() of a generation, once; later calls wait for the first.
Closing(e, g) == IF Alive(g) THEN [e EXCEPT ![g].state = "closing"] ELSE e

-----------------------------------------------------------------------------
(* What callers see of the store: an operation that saves n *)

Outcomes(n) ==
  IF storeFailed
  THEN {[policy |-> policy, storeFailed |-> TRUE, error |-> "storage"]}
  ELSE {[policy |-> n, storeFailed |-> FALSE, error |-> "none"],
        [policy |-> n, storeFailed |-> FALSE, error |-> "unclean"]}
       \cup [policy : {policy, n}, storeFailed : {TRUE}, error : {"storage", "unclean"}]

Store(o) ==
  /\ policy' = o.policy
  /\ storeFailed' = o.storeFailed
  /\ masked' = (masked \/ o.error = "unclean")

-----------------------------------------------------------------------------
(* The queue of tasks *)

Waiting == Len(queue) + (IF task = Nothing THEN 0 ELSE 1)

\* Fault: tasks that end before stop() began are counted too.
FinishMiscounted ==
  /\ task' = Nothing
  /\ step' = "idle"
  /\ held' = None
  /\ drain' = drain - 1
  /\ UNCHANGED queue

Finish ==
  /\ task' = Nothing
  /\ step' = "idle"
  /\ held' = None
  /\ drain' = IF drain = 0 THEN 0 ELSE drain - 1
  /\ UNCHANGED queue

GoTo(s, g) ==
  /\ step' = s
  /\ held' = g
  /\ UNCHANGED <<queue, task, drain>>

Enqueue(t) ==
  /\ queue' = Append(queue, t)
  /\ UNCHANGED <<task, step, held, drain>>

Take ==
  /\ task = Nothing
  /\ queue # <<>>
  /\ task' = Head(queue)
  /\ queue' = Tail(queue)
  /\ step' = "begin"
  /\ UNCHANGED <<store, main, failed, runtime, engine, held, sending, timer, drain, last, unserved>>

\* A client of the control socket sends a request.
Command(c) ==
  /\ main = "serving"
  /\ Len(queue) < MaxQueue
  /\ Enqueue(c)
  /\ UNCHANGED <<store, main, failed, runtime, engine, sending, timer, last, unserved>>

\* An engine passes on the enrollment request of a connected peer.
Reachable(g) ==
  \/ Serving(g)
  \/ engine[g].state = "starting" /\ (IF held = g THEN "task" ELSE "startup") \in EarlyContact

Contact(g, k) ==
  /\ Reachable(g)
  /\ Len(queue) < MaxQueue
  /\ k \notin sending
  /\ \A i \in 1 .. Len(queue) : queue[i].kind = "enroll" => queue[i].key # k
  /\ Enqueue([kind |-> "enroll", key |-> k, by |-> g])
  /\ UNCHANGED <<store, main, failed, runtime, engine, sending, timer, last, unserved>>

-----------------------------------------------------------------------------
(* Enrollment *)

\* The pool conflicts with a route, the stream or the receiver has ended, or the
\* store turns the request down.
RefuseEnrollment ==
  /\ step = "begin" /\ task.kind = "enroll"
  /\ Finish
  /\ UNCHANGED <<store, main, failed, runtime, engine, sending, timer, last, unserved>>

\* The stream's engine is not stopping and nor is the receiver.
IsOpen == ~stopping /\ engine[task.by].state \in {"starting", "up"}

Admitted(k) == [policy EXCEPT ![k] = IF @ = None THEN AllPorts ELSE @]

Enroll ==
  /\ step = "begin" /\ task.kind = "enroll"
  /\ IsOpen
  /\ \E o \in Outcomes(Admitted(task.key)) :
       /\ Store(o)
       /\ failed' = (failed \/ o.error = "storage")
       /\ sending' = IF o.error = "none" THEN sending \cup {task.key} ELSE sending
  /\ Finish
  /\ UNCHANGED <<main, runtime, engine, timer, last, unserved>>

\* Fault: the reload is announced only if the answer could be sent.
AnnounceIfSent(k) ==
  /\ k \in sending
  /\ sending' = sending \ {k}
  /\ timer' \in {timer, TRUE}
  /\ UNCHANGED <<store, main, failed, runtime, engine, worker, last, unserved>>

\* The engine has sent its answer, or failed to: `changed` sets the timer.
Changed(k) ==
  /\ k \in sending
  /\ sending' = sending \ {k}
  /\ timer' = TRUE
  /\ UNCHANGED <<store, main, failed, runtime, engine, worker, last, unserved>>

TimerFires ==
  /\ timer
  /\ timer' = FALSE
  /\ Enqueue(Reload)
  /\ UNCHANGED <<store, main, failed, runtime, engine, sending, last, unserved>>

-----------------------------------------------------------------------------
(* Commands that leave the runtime alone *)

Inquire ==
  /\ step = "begin" /\ task.kind \in {"invite", "list"}
  /\ IF task.kind = "invite"
     THEN \E o \in Outcomes(policy) :
            Store(o) /\ failed' = (failed \/ o.error = "storage")
     ELSE failed' = (failed \/ storeFailed) /\ UNCHANGED store
  /\ Finish
  /\ UNCHANGED <<main, runtime, engine, sending, timer, last, unserved>>

-----------------------------------------------------------------------------
(* Replacing the generation: grant, revoke, reload *)

Replaces == task.kind \in {"grant", "revoke", "reload"}

\* A reload that comes too late, a command for an unknown device or on a store
\* that has failed.
TurnedDown ==
  IF task.kind = "reload" THEN stopping ELSE storeFailed \/ policy[task.key] = None

TurnDown ==
  /\ step = "begin" /\ Replaces
  /\ TurnedDown
  /\ failed' = (failed \/ (task.kind # "reload" /\ storeFailed))
  /\ Finish
  /\ UNCHANGED <<store, main, runtime, engine, sending, timer, last, unserved>>

AfterStop == IF task.kind = "reload" THEN "launch" ELSE "apply"

\* Fault: the new policy is applied while the old generation still serves.
ApplyFirst ==
  /\ step = "begin" /\ Replaces
  /\ ~TurnedDown
  /\ GoTo(AfterStop, None)
  /\ UNCHANGED <<store, main, failed, runtime, engine, sending, timer, last, unserved>>

\* Fault: the next generation is launched without awaiting the old one's stop.
StopNotAwaited ==
  /\ step = "begin" /\ Replaces
  /\ ~TurnedDown
  /\ runtime' = None
  /\ engine' = IF runtime = None THEN engine ELSE Closing(engine, runtime)
  /\ GoTo(AfterStop, None)
  /\ UNCHANGED <<store, main, failed, sending, timer, last, unserved>>

\* const old = runtime; runtime = undefined; await old?.stop().
StopOld ==
  /\ step = "begin" /\ Replaces
  /\ ~TurnedDown
  /\ runtime' = None
  /\ IF runtime = None
     THEN GoTo(AfterStop, None) /\ UNCHANGED engine
     ELSE /\ engine' = Closing(engine, runtime)
          /\ GoTo("stopping", runtime)
  /\ UNCHANGED <<store, main, failed, sending, timer, last, unserved>>

OldStopped ==
  /\ step = "stopping"
  /\ engine' = [engine EXCEPT ![held] = Unused]
  /\ GoTo(AfterStop, None)
  /\ UNCHANGED <<store, main, failed, runtime, sending, timer, last, unserved>>

\* stop() rejects after every clean-up step was tried.  A reload fails the
\* receiver; a command only reports an error, and leaves no generation behind.
OldStopRejects ==
  /\ step = "stopping"
  /\ engine' = [engine EXCEPT ![held] = Unused]
  /\ failed' = (failed \/ task.kind = "reload")
  /\ unserved' = (unserved \/ task.kind # "reload")
  /\ Finish
  /\ UNCHANGED <<store, main, runtime, sending, timer, last>>

Apply ==
  /\ step = "apply"
  /\ \E o \in Outcomes([policy EXCEPT ![task.key] =
                          IF task.kind = "grant" THEN task.grant ELSE None]) :
       /\ Store(o)
       /\ failed' = (failed \/ o.error # "none")
       /\ IF o.error = "none" THEN GoTo("launch", None) ELSE Finish
  /\ UNCHANGED <<main, runtime, engine, sending, timer, last, unserved>>

\* A name that neither an engine nor a waiting enrollment uses, nor who waits for its stop.
Free(g) ==
  /\ ~Alive(g) /\ g # runtime
  /\ main \in {"closing", "aborting"} => g # last
  /\ \A i \in 1 .. Len(queue) : queue[i].kind = "enroll" => queue[i].by # g

\* launch: list the devices, call startVpn with them.
Launch ==
  /\ step = "launch"
  /\ IF storeFailed
     THEN failed' = TRUE /\ Finish /\ UNCHANGED engine
     ELSE \E g \in Generations :
            /\ Free(g)
            /\ engine' = [engine EXCEPT ![g] = [state |-> "starting", config |-> policy]]
            /\ GoTo("starting", g)
            /\ UNCHANGED failed
  /\ UNCHANGED <<store, main, runtime, sending, timer, last, unserved>>

\* The TUN takes no address that another engine's device routes already.
RoutesFree(g) ==
  \A h \in Generations \ {g}, k \in Keys :
    Alive(h) => engine[h].config[k] = None \/ engine[g].config[k] = None

Started ==
  /\ step = "starting"
  /\ RoutesFree(held)
  /\ engine' = [engine EXCEPT ![held].state = "up"]
  /\ runtime' = held
  /\ Finish
  /\ UNCHANGED <<store, main, failed, sending, timer, last, unserved>>

StartFails ==
  /\ step = "starting"
  /\ engine' = [engine EXCEPT ![held] = Unused]
  /\ failed' = TRUE
  /\ Finish
  /\ UNCHANGED <<store, main, runtime, sending, timer, last, unserved>>

-----------------------------------------------------------------------------
(* Start-up, failure of an engine, stop *)

\* The generation that start-up launches, outside the queue of tasks.
Initial == CHOOSE g \in Generations : engine[g].state = "starting" /\ held # g

StartupLaunched ==
  /\ main = "launching"
  /\ RoutesFree(Initial)
  /\ engine' = [engine EXCEPT ![Initial].state = "up"]
  /\ runtime' = Initial
  /\ main' = "binding"
  /\ UNCHANGED <<store, failed, worker, sending, timer, last, unserved>>

\* await runtime?.stop()
StopLast(e) ==
  /\ last' = runtime
  /\ engine' = IF runtime = None THEN e ELSE Closing(e, runtime)

\* catch: await runtime?.stop(), then startReceiver throws.
Abort(e) ==
  /\ main' = "aborting"
  /\ StopLast(e)
  /\ UNCHANGED <<store, failed, runtime, worker, sending, timer, unserved>>

StartupFails ==
  \/ main = "launching" /\ Abort([engine EXCEPT ![Initial] = Unused])
  \/ main = "binding" /\ Abort(engine)

Bound ==
  /\ main = "binding"
  /\ main' = "serving"
  /\ UNCHANGED <<store, failed, runtime, engine, worker, sending, timer, last, unserved>>

\* The TUN of the current generation ends, or the control socket fails.
Break ==
  /\ \/ runtime # None /\ Serving(runtime)
     \/ main = "serving"
  /\ ~stopping
  /\ failed' = TRUE
  /\ UNCHANGED <<store, main, runtime, engine, worker, sending, timer, last, unserved>>

\* stop(): no new command from here on, and no reload that was only planned.
Stop ==
  /\ main = "serving"
  /\ main' = "stopping"
  /\ timer' = FALSE
  /\ UNCHANGED <<store, failed, runtime, engine, worker, sending, last, unserved>>

\* server.close has called back; `await tail` waits for the tasks there are.
ServerClosed ==
  /\ main = "stopping"
  /\ main' = "draining"
  /\ drain' = Waiting
  /\ UNCHANGED <<store, failed, runtime, engine, queue, task, step, held, sending, timer, last, unserved>>

\* Fault: stop does not wait for the tasks.
NotDrained ==
  /\ main = "draining"
  /\ main' = "closing"
  /\ StopLast(engine)
  /\ UNCHANGED <<store, failed, runtime, worker, sending, timer, unserved>>

Drained ==
  /\ main = "draining"
  /\ drain = 0
  /\ main' = "closing"
  /\ StopLast(engine)
  /\ UNCHANGED <<store, failed, runtime, worker, sending, timer, unserved>>

\* The last generation's stop() returns or rejects; either ends stop or start-up.
Closed ==
  /\ main \in {"closing", "aborting"}
  /\ main' = IF main = "closing" THEN "stopped" ELSE "aborted"
  /\ engine' = IF last = None THEN engine ELSE [engine EXCEPT ![last] = Unused]
  /\ UNCHANGED <<store, failed, runtime, worker, sending, timer, last, unserved>>

\* Nothing is left to happen once stop or a failed start-up is through.
Ended ==
  /\ main \in {"stopped", "aborted"}
  /\ task = Nothing /\ queue = <<>> /\ sending = {} /\ ~timer
  /\ UNCHANGED vars

\* startReceiver has opened the store and called startVpn with its devices.
Init ==
  /\ policy \in Policies
  /\ storeFailed = FALSE /\ masked = FALSE
  /\ main = "launching" /\ failed = FALSE
  /\ runtime = None
  /\ \E g \in Generations :
       engine = [h \in Generations |->
                   IF h = g THEN [state |-> "starting", config |-> policy] ELSE Unused]
  /\ queue = <<>> /\ task = Nothing /\ step = "idle" /\ held = None
  /\ sending = {} /\ timer = FALSE /\ drain = 0 /\ last = None /\ unserved = FALSE

TaskStep ==
  \/ Take
  \/ RefuseEnrollment \/ Enroll \/ Inquire
  \/ TurnDown \/ StopOld \/ OldStopped \/ OldStopRejects
  \/ Apply \/ Launch \/ Started \/ StartFails

Next ==
  \/ TaskStep
  \/ \E c \in Commands : Command(c)
  \/ \E g \in Generations, k \in Keys : Contact(g, k)
  \/ \E k \in Keys : Changed(k)
  \/ TimerFires
  \/ StartupLaunched \/ StartupFails \/ Bound \/ Break
  \/ Stop \/ ServerClosed \/ Drained \/ Closed
  \/ Ended

Spec == Init /\ [][Next]_vars

\* Every await of a task and of stop() settles, the answer of an enrollment is
\* sent or lost, and timers fire.  Nothing is asked of clients, peers or engines.
Fairness ==
  /\ WF_vars(TaskStep)
  /\ WF_vars(TimerFires)
  /\ \A k \in Keys : WF_vars(Changed(k))
  /\ WF_vars(ServerClosed) /\ WF_vars(Drained) /\ WF_vars(Closed)

FairSpec == Spec /\ Fairness

-----------------------------------------------------------------------------
(* Properties *)

TypeOK ==
  /\ policy \in Policies
  /\ {storeFailed, masked, failed, timer, unserved} \subseteq BOOLEAN
  /\ main \in {"launching", "binding", "serving", "stopping", "draining", "closing",
               "stopped", "aborting", "aborted"}
  /\ {runtime, last} \subseteq Generations \cup {None}
  /\ engine \in [Generations -> [state : {"starting", "up", "closing", "closed"},
                                 config : Policies]]
  /\ queue \in Seq(Tasks)
  /\ task \in Tasks \cup {Nothing}
  /\ step \in {"idle", "begin", "stopping", "apply", "launch", "starting"}
  /\ held \in Generations \cup {None}
  /\ sending \subseteq Keys
  /\ drain \in Nat

\* "Stop before changing a grant, so no preexisting flow can bypass it": an
\* engine that serves never lets a device do more than the committed policy
\* allows it now, whatever mixture of commands, enrollments, reloads, store
\* failures and shutdown came before.
NoBypass ==
  \A g \in Generations, k \in Keys :
    Serving(g) /\ engine[g].config[k] # None => policy[k] = engine[g].config[k]

\* There is one generation.  Two never overlap: none is launched before the one before it
\* has released the TUN, the routes and the DHT node.  And a receiver at rest that has not
\* failed has one that serves, unless a command gave up because the clean-up of the old
\* one failed.
OneGeneration ==
  /\ \A g, h \in Generations : Alive(g) /\ Alive(h) => g = h
  /\ main = "serving" /\ ~failed /\ ~unserved /\ task = Nothing =>
       runtime # None /\ Serving(runtime)

\* stop() comes to an end, although engines go on passing enrollments to the queue it
\* waits for, and from then on no engine runs and no task will launch one.
StopEnds ==
  main = "stopping" ~>
    [](/\ main = "stopped"
       /\ \A g \in Generations : ~Alive(g)
       /\ step \notin {"stopping", "apply", "launch", "starting"})

\* A device the store admitted is never forgotten: whether its answer was sent or lost, and
\* whatever the tasks and generations do meanwhile, it comes to be served with the grant
\* it then has, or is revoked, or the receiver fails or stops (or an error of the
\* clean-up hid what the store did or left the receiver without a generation).
AdmittedIsServed ==
  \A k \in Keys :
    policy[k] # None /\ main = "serving" ~>
      \/ runtime # None /\ Serving(runtime) /\ engine[runtime].config[k] = policy[k]
      \/ policy[k] = None
      \/ failed \/ masked \/ unserved \/ main # "serving"

=============================================================================
