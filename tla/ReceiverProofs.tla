--------------------------- MODULE ReceiverProofs ---------------------------
(***************************************************************************)
(* Proofs about Receiver, for any devices, grants, generations and queue:  *)
(* its types, and, if peers do not reach the engine that start-up launches *)
(* before it is there, that no flow outlives its grant and that there is   *)
(* one generation.                                                         *)
(***************************************************************************)
EXTENDS Receiver, TLAPS

-----------------------------------------------------------------------------
(* The inductive invariants *)

\* Until start-up has launched its generation, that one is neither a task's nor current.
Begun ==
  main = "launching" => \E g \in Generations : engine[g].state = "starting" /\ held # g /\ runtime # g

Sound == TypeOK /\ Begun

Replacing == {"stopping", "apply", "launch", "starting"}

\* Where a task is fits what it is for.  What it launches has the policy there is.
StepFits ==
  /\ step = "idle" <=> task = Nothing
  /\ step \in Replacing => Replaces /\ runtime = None
  /\ step = "apply" => task.kind # "reload"
  /\ IF step \in {"stopping", "starting"} THEN held \in Generations ELSE held = None
  /\ step = "stopping" => engine[held].state \notin {"starting", "up"}
  /\ step = "starting" =>
       /\ engine[held].state = "starting" /\ engine[held].config = policy
       /\ main \in {"closing", "aborting"} => held # last

\* Until start-up has launched its generation nothing else goes on.
Quiet ==
  main = "launching" =>
    /\ task = Nothing /\ queue = <<>> /\ sending = {} /\ ~timer /\ runtime = None
    /\ \E g \in Generations :
         /\ engine[g].state = "starting" /\ engine[g].config = policy
         /\ \A h \in Generations : Alive(h) => h = g

\* From then on only the current generation lives, or the one a task stops or launches.
Current == IF step \in {"stopping", "starting"} THEN held ELSE runtime

Single ==
  main # "launching" =>
    \A g \in Generations :
      /\ Alive(g) => g = Current
      /\ engine[g].state = "starting" => step = "starting"

\* Tasks that stop() does not wait for are those that leave the generation alone then.
Late(t) == t.kind \in {"enroll", "reload"}

Drains ==
  main \in {"draining", "closing", "stopped"} =>
    /\ \A i \in 1 .. Len(queue) : (IF task = Nothing THEN i ELSE i + 1) > drain => Late(queue[i])
    /\ drain = 0 => step \notin Replacing /\ (task # Nothing => Late(task))
    /\ main # "draining" => drain = 0

Served ==
  main \in {"binding", "serving"} /\ ~failed /\ ~unserved /\ step \notin Replacing =>
    runtime # None /\ Serving(runtime)

IInv == StepFits /\ Quiet /\ Single /\ Drains /\ Served /\ NoBypass

-----------------------------------------------------------------------------
(* Types *)

Engines == [Generations -> [state : {"starting", "up", "closing", "closed"}, config : Policies]]
Steps   == {"idle", "begin", "stopping", "apply", "launch", "starting"}
Places  == {"launching", "binding", "serving", "stopping", "draining", "closing",
            "stopped", "aborting", "aborted"}

WorkerOK ==
  /\ queue \in Seq(Tasks) /\ task \in Tasks \cup {Nothing} /\ step \in Steps
  /\ held \in Generations \cup {None} /\ drain \in Nat

StoreOK == policy \in Policies /\ storeFailed \in BOOLEAN /\ masked \in BOOLEAN

OtherOK ==
  /\ failed \in BOOLEAN /\ timer \in BOOLEAN /\ unserved \in BOOLEAN /\ sending \subseteq Keys
  /\ main \in Places /\ engine \in Engines
  /\ runtime \in Generations \cup {None} /\ last \in Generations \cup {None}

LEMMA TypesAre == TypeOK <=> StoreOK /\ WorkerOK /\ OtherOK
BY DEF TypeOK, StoreOK, WorkerOK, OtherOK, Engines, Steps, Places

LEMMA SoundNext ==
  ASSUME StoreOK', WorkerOK', OtherOK', Begun'
  PROVE  Sound'
BY DEF Sound, TypeOK, StoreOK, WorkerOK, OtherOK, Engines, Steps, Places

LEMMA FinishOK ==
  ASSUME WorkerOK, Finish
  PROVE  WorkerOK' /\ held' = None
BY DEF WorkerOK, Finish, Steps

LEMMA GoToOK ==
  ASSUME WorkerOK, NEW s \in Steps, NEW g \in Generations \cup {None}, GoTo(s, g)
  PROVE  WorkerOK' /\ held' = g
BY DEF WorkerOK, GoTo

LEMMA EnqueueOK ==
  ASSUME WorkerOK, NEW t \in Tasks, Enqueue(t)
  PROVE  WorkerOK' /\ held' = held
BY DEF WorkerOK, Enqueue

LEMMA WorkerStays ==
  ASSUME WorkerOK, UNCHANGED worker
  PROVE  WorkerOK' /\ held' = held
BY DEF WorkerOK, worker

LEMMA StoreStays ==
  ASSUME StoreOK, UNCHANGED store
  PROVE  StoreOK' /\ policy' = policy
BY DEF StoreOK, store

\* What an operation leaves in the store is the policy there was or the one to be saved.
LEMMA StoreIsOK ==
  ASSUME StoreOK, NEW n \in Policies, NEW o \in Outcomes(n), Store(o)
  PROVE  StoreOK' /\ policy' \in {policy, n}
<1>1. o.policy \in {policy, n} /\ o.storeFailed \in BOOLEAN
  <2>1. CASE storeFailed
    <3>1. o = [policy |-> policy, storeFailed |-> TRUE, error |-> "storage"]
      BY <2>1 DEF Outcomes
    <3> QED BY <3>1
  <2>2. CASE ~storeFailed
    <3>1. \/ o = [policy |-> n, storeFailed |-> FALSE, error |-> "none"]
          \/ o = [policy |-> n, storeFailed |-> FALSE, error |-> "unclean"]
          \/ o \in [policy : {policy, n}, storeFailed : {TRUE}, error : {"storage", "unclean"}]
      BY <2>2 DEF Outcomes
    <3>2. CASE o \in [policy : {policy, n}, storeFailed : {TRUE}, error : {"storage", "unclean"}]
      BY <3>2
    <3>3. CASE o = [policy |-> n, storeFailed |-> FALSE, error |-> "none"]
      BY <3>3
    <3>4. CASE o = [policy |-> n, storeFailed |-> FALSE, error |-> "unclean"]
      BY <3>4
    <3> QED BY <3>1, <3>2, <3>3, <3>4
  <2> QED BY <2>1, <2>2
<1> QED BY <1>1 DEF StoreOK, Store

\* An engine closes, or its name is free again; the others stay as they are.
LEMMA ClosingIsOK ==
  ASSUME NEW e \in Engines, NEW g \in Generations, NEW f, f = Closing(e, g)
  PROVE  /\ f \in Engines
         /\ \A h \in Generations : h # g => f[h] = e[h]
         /\ f[g].config = e[g].config
         /\ f[g].state = IF Alive(g) THEN "closing" ELSE e[g].state
BY DEF Closing, Engines

LEMMA UnusedFits == Unused \in [state : {"starting", "up", "closing", "closed"}, config : Policies]
BY DEF Unused, Nobody, Policies

LEMMA UnusedIsOK ==
  ASSUME NEW e \in Engines, NEW g, NEW f, f = [e EXCEPT ![g] = Unused]
  PROVE  /\ f \in Engines
         /\ \A h \in Generations : f[h] = IF h = g THEN Unused ELSE e[h]
BY UnusedFits DEF Engines

\* What becomes of start-up's generation in a step that does not end start-up.
LEMMA StaysBegun ==
  ASSUME Begun, main' = main,
         \A g \in Generations :
           engine[g].state = "starting" /\ held # g /\ runtime # g =>
             engine'[g].state = "starting" /\ held' # g /\ runtime' # g
  PROVE  Begun'
BY DEF Begun

\* Tasks are what they are.
LEMMA TaskFields ==
  ASSUME WorkerOK
  PROVE  /\ task # Nothing =>
              /\ task.kind \in {"enroll", "invite", "list", "grant", "revoke", "reload"}
              /\ task.kind \in {"enroll", "grant", "revoke"} => task.key \in Keys
              /\ task.kind = "enroll" => task.by \in Generations
              /\ task.kind = "grant" => task.grant \in Grants
         /\ task = Nothing => task.kind = "none"
BY DEF WorkerOK, Tasks, Enrollments, Commands, Reload, Nothing

LEMMA TakeIsSound ==
  ASSUME Sound, Take
  PROVE  Sound'
<1>1. StoreOK /\ WorkerOK /\ OtherOK
  BY TypesAre DEF Sound
<1>2. /\ queue # <<>> /\ task' = Head(queue) /\ queue' = Tail(queue) /\ step' = "begin"
      /\ UNCHANGED <<policy, storeFailed, masked, main, failed, runtime, engine, held, sending, timer,
                     drain, last, unserved>>
  BY DEF Take, store
<1>3. WorkerOK'
  BY <1>1, <1>2 DEF WorkerOK, Steps
<1>4. StoreOK' /\ OtherOK'
  BY <1>1, <1>2 DEF StoreOK, OtherOK
<1>5. Begun'
  BY <1>2, StaysBegun DEF Sound
<1> QED BY <1>3, <1>4, <1>5, SoundNext

\* Steps that add a task or none, and change neither engine nor generation.
LEMMA WaitingIsSound ==
  ASSUME Sound, UNCHANGED worker \/ \E t \in Tasks : Enqueue(t),
         UNCHANGED <<store, runtime, engine, last, unserved>>,
         main' = main \/ (main' \in Places /\ main' # "launching"),
         failed' \in BOOLEAN, timer' \in BOOLEAN, sending' \subseteq Keys
  PROVE  Sound'
<1>1. StoreOK /\ WorkerOK /\ OtherOK
  BY TypesAre DEF Sound
<1>2. WorkerOK' /\ held' = held
  BY <1>1, EnqueueOK, WorkerStays
<1>3. StoreOK' /\ OtherOK'
  BY <1>1, StoreStays DEF OtherOK
<1>4. Begun'
  BY <1>2 DEF Begun, Sound
<1> QED BY <1>2, <1>3, <1>4, SoundNext

LEMMA OutsideIsSound ==
  ASSUME Sound,
         \/ \E c \in Commands : Command(c)
         \/ \E g \in Generations, k \in Keys : Contact(g, k)
         \/ \E k \in Keys : Changed(k)
         \/ TimerFires \/ Bound \/ Break \/ Stop \/ Ended \/ UNCHANGED vars
  PROVE  Sound'
<1>1. failed \in BOOLEAN /\ timer \in BOOLEAN /\ sending \subseteq Keys
  BY DEF Sound, TypeOK
<1>2. ASSUME NEW c \in Commands, Command(c) PROVE Sound'
  BY <1>1, <1>2, WaitingIsSound DEF Command, Tasks
<1>3. ASSUME NEW g \in Generations, NEW k \in Keys, Contact(g, k) PROVE Sound'
  <2>1. [kind |-> "enroll", key |-> k, by |-> g] \in Tasks
    BY DEF Tasks, Enrollments
  <2> QED BY <1>1, <1>3, <2>1, WaitingIsSound DEF Contact
<1>4. ASSUME NEW k \in Keys, Changed(k) PROVE Sound'
  BY <1>1, <1>4, WaitingIsSound DEF Changed
<1>5. CASE TimerFires
  BY <1>1, <1>5, WaitingIsSound DEF TimerFires, Tasks
<1>6. CASE Bound \/ Break \/ Stop
  BY <1>1, <1>6, WaitingIsSound DEF Bound, Break, Stop, Places
<1>7. CASE Ended \/ UNCHANGED vars
  <2>1. UNCHANGED vars
    BY <1>7 DEF Ended
  <2> QED BY <1>1, <2>1, WaitingIsSound DEF vars, store, worker
<1> QED BY <1>2, <1>3, <1>4, <1>5, <1>6, <1>7

\* A task ends, or goes on, with what the store has made of it.
LEMMA TaskIsSound ==
  ASSUME Sound, WorkerOK', held' \in {held, None}, StoreOK',
         UNCHANGED <<main, runtime, engine, timer, last>>,
         failed' \in BOOLEAN, unserved' \in BOOLEAN, sending' \subseteq Keys
  PROVE  Sound'
<1>1. OtherOK
  BY TypesAre DEF Sound
<1>2. OtherOK'
  BY <1>1 DEF OtherOK
<1>3. Begun'
  <2>1. \A g \in Generations : held # g => held' # g
    BY GenerationAssumption
  <2> QED BY <2>1, StaysBegun DEF Sound
<1> QED BY <1>2, <1>3, SoundNext

LEMMA StoreTasksAreSound ==
  ASSUME Sound, RefuseEnrollment \/ Enroll \/ Inquire \/ TurnDown \/ Apply
  PROVE  Sound'
<1>1. StoreOK /\ WorkerOK /\ OtherOK
  BY TypesAre DEF Sound
<1>2. failed \in BOOLEAN /\ unserved \in BOOLEAN /\ sending \subseteq Keys /\ policy \in Policies
  BY <1>1 DEF OtherOK, StoreOK
<1>3. CASE RefuseEnrollment \/ TurnDown
  <2>1. /\ Finish /\ failed' \in BOOLEAN
        /\ UNCHANGED <<store, main, runtime, engine, sending, timer, last, unserved>>
    BY <1>2, <1>3 DEF RefuseEnrollment, TurnDown
  <2>2. WorkerOK' /\ held' = None /\ StoreOK'
    BY <1>1, <2>1, FinishOK, StoreStays
  <2> QED BY <1>2, <2>1, <2>2, TaskIsSound
<1>4. CASE Enroll
  <2> DEFINE n == Admitted(task.key)
  <2>1. PICK o \in Outcomes(n) :
          /\ Store(o) /\ failed' = (failed \/ o.error = "storage")
          /\ sending' = IF o.error = "none" THEN sending \cup {task.key} ELSE sending
    BY <1>4 DEF Enroll
  <2>2. task.kind = "enroll" /\ Finish /\ UNCHANGED <<main, runtime, engine, timer, last, unserved>>
    BY <1>4 DEF Enroll
  <2>3. task.key \in Keys
    BY <1>1, <2>2, TaskFields
  <2>4. n \in Policies
    BY <1>2, GrantAssumption DEF Admitted, Policies
  <2> HIDE DEF n
  <2>5. StoreOK'
    BY <1>1, <2>1, <2>4, StoreIsOK
  <2>6. WorkerOK' /\ held' = None
    BY <1>1, <2>2, FinishOK
  <2>7. failed' \in BOOLEAN /\ sending' \subseteq Keys
    BY <1>2, <2>1, <2>3
  <2> QED BY <1>2, <2>2, <2>5, <2>6, <2>7, TaskIsSound
<1>5. CASE Inquire
  <2>1. Finish /\ UNCHANGED <<main, runtime, engine, sending, timer, last, unserved>>
    BY <1>5 DEF Inquire
  <2>2. WorkerOK' /\ held' = None
    BY <1>1, <2>1, FinishOK
  <2>3. StoreOK' /\ failed' \in BOOLEAN
    <3>1. CASE task.kind = "invite"
      <4>1. PICK o \in Outcomes(policy) : Store(o) /\ failed' = (failed \/ o.error = "storage")
        BY <1>5, <3>1 DEF Inquire
      <4> QED BY <1>1, <1>2, <4>1, StoreIsOK
    <3>2. CASE task.kind # "invite"
      <4>1. failed' = (failed \/ storeFailed) /\ UNCHANGED store
        BY <1>5, <3>2 DEF Inquire
      <4> QED BY <1>1, <1>2, <4>1, StoreStays
    <3> QED BY <3>1, <3>2
  <2> QED BY <1>2, <2>1, <2>2, <2>3, TaskIsSound
<1>6. CASE Apply
  <2> DEFINE n == [policy EXCEPT ![task.key] = IF task.kind = "grant" THEN task.grant ELSE None]
  <2>1. PICK o \in Outcomes(n) :
          /\ Store(o) /\ failed' = (failed \/ o.error # "none")
          /\ IF o.error = "none" THEN GoTo("launch", None) ELSE Finish
    BY <1>6 DEF Apply
  <2>2. UNCHANGED <<main, runtime, engine, sending, timer, last, unserved>>
    BY <1>6 DEF Apply
  <2>3. task.kind = "grant" => task.grant \in Grants
    BY <1>1, TaskFields DEF Nothing
  <2>4. n \in Policies
    BY <1>2, <2>3 DEF Policies
  <2> HIDE DEF n
  <2>5. StoreOK'
    BY <1>1, <2>1, <2>4, StoreIsOK
  <2>6. WorkerOK' /\ held' = None
    BY <1>1, <2>1, FinishOK, GoToOK DEF Steps
  <2>7. failed' \in BOOLEAN
    BY <1>2, <2>1
  <2> QED BY <1>2, <2>2, <2>5, <2>6, <2>7, TaskIsSound
<1> QED BY <1>3, <1>4, <1>5, <1>6

\* A task stops or launches a generation.
LEMMA EngineTaskIsSound ==
  ASSUME Sound, WorkerOK', UNCHANGED <<store, main, sending, timer, last>>,
         failed' \in BOOLEAN, unserved' \in BOOLEAN,
         engine' \in Engines, runtime' \in Generations \cup {None},
         \A g \in Generations :
           engine[g].state = "starting" /\ held # g /\ runtime # g =>
             engine'[g].state = "starting" /\ held' # g /\ runtime' # g
  PROVE  Sound'
<1>1. StoreOK /\ OtherOK
  BY TypesAre DEF Sound
<1>2. StoreOK' /\ OtherOK'
  BY <1>1, StoreStays DEF OtherOK
<1>3. Begun'
  BY StaysBegun DEF Sound
<1> QED BY <1>2, <1>3, SoundNext

LEMMA StopsAreSound ==
  ASSUME Sound, StopOld \/ OldStopped \/ OldStopRejects
  PROVE  Sound'
<1>1. StoreOK /\ WorkerOK /\ OtherOK
  BY TypesAre DEF Sound
<1>2. /\ failed \in BOOLEAN /\ unserved \in BOOLEAN /\ engine \in Engines
      /\ runtime \in Generations \cup {None} /\ held \in Generations \cup {None}
      /\ AfterStop \in Steps
  BY <1>1 DEF OtherOK, WorkerOK, AfterStop, Steps
<1>3. CASE StopOld
  <2>1. /\ runtime' = None
        /\ UNCHANGED <<store, main, failed, sending, timer, last, unserved>>
    BY <1>3 DEF StopOld
  <2>2. CASE runtime = None
    <3>1. GoTo(AfterStop, None) /\ UNCHANGED engine
      BY <1>3, <2>2 DEF StopOld
    <3>2. WorkerOK' /\ held' = None
      BY <1>1, <1>2, <3>1, GoToOK
    <3> QED BY <1>2, <2>1, <3>1, <3>2, EngineTaskIsSound, GenerationAssumption
  <2>3. CASE runtime # None
    <3>1. engine' = Closing(engine, runtime) /\ GoTo("stopping", runtime) /\ runtime \in Generations
      BY <1>2, <1>3, <2>3 DEF StopOld
    <3>2. WorkerOK' /\ held' = runtime
      BY <1>1, <1>2, <3>1, GoToOK DEF Steps
    <3>3. engine' \in Engines /\ \A h \in Generations : h # runtime => engine'[h] = engine[h]
      <4>1. engine' = Closing(engine, runtime) /\ runtime \in Generations /\ engine \in Engines
        BY <1>2, <3>1
      <4> QED BY <4>1, ClosingIsOK
    <3> QED BY <1>2, <2>1, <3>2, <3>3, EngineTaskIsSound, GenerationAssumption
  <2> QED BY <2>2, <2>3
<1>4. CASE OldStopped \/ OldStopRejects
  <2>1. /\ engine' = [engine EXCEPT ![held] = Unused]
        /\ failed' \in BOOLEAN /\ unserved' \in BOOLEAN
        /\ GoTo(AfterStop, None) \/ Finish
        /\ UNCHANGED <<store, main, runtime, sending, timer, last>>
    BY <1>2, <1>4 DEF OldStopped, OldStopRejects
  <2>2. WorkerOK' /\ held' = None
    BY <1>1, <1>2, <2>1, GoToOK, FinishOK
  <2>3. engine' \in Engines /\ \A h \in Generations : h # held => engine'[h] = engine[h]
    BY <1>2, <2>1, UnusedFits DEF Engines
  <2> QED BY <1>2, <2>1, <2>2, <2>3, EngineTaskIsSound, GenerationAssumption
<1> QED BY <1>3, <1>4

LEMMA LaunchesAreSound ==
  ASSUME Sound, Launch \/ Started \/ StartFails
  PROVE  Sound'
<1>1. StoreOK /\ WorkerOK /\ OtherOK
  BY TypesAre DEF Sound
<1>2. /\ failed \in BOOLEAN /\ unserved \in BOOLEAN /\ engine \in Engines /\ policy \in Policies
      /\ runtime \in Generations \cup {None} /\ held \in Generations \cup {None}
  BY <1>1 DEF OtherOK, WorkerOK, StoreOK
<1>3. CASE Launch /\ storeFailed
  <2>1. failed' = TRUE /\ Finish /\ UNCHANGED <<store, main, runtime, engine, sending, timer, last, unserved>>
    BY <1>3 DEF Launch
  <2>2. WorkerOK' /\ held' = None
    BY <1>1, <2>1, FinishOK
  <2> QED BY <1>2, <2>1, <2>2, EngineTaskIsSound, GenerationAssumption
<1>4. CASE Launch /\ ~storeFailed
  <2>1. PICK g \in Generations :
          /\ Free(g) /\ engine' = [engine EXCEPT ![g] = [state |-> "starting", config |-> policy]]
          /\ GoTo("starting", g) /\ UNCHANGED failed
    BY <1>4 DEF Launch
  <2>2. UNCHANGED <<store, main, runtime, sending, timer, last, unserved>>
    BY <1>4 DEF Launch
  <2>3. WorkerOK' /\ held' = g
    BY <1>1, <2>1, GoToOK DEF Steps
  <2>4. engine' \in Engines /\ \A h \in Generations : h # g => engine'[h] = engine[h]
    BY <1>2, <2>1 DEF Engines
  <2>5. engine[g].state # "starting"
    BY <2>1 DEF Free, Alive
  <2> QED BY <1>2, <2>1, <2>2, <2>3, <2>4, <2>5, EngineTaskIsSound
<1>5. CASE Started
  <2>1. /\ engine' = [engine EXCEPT ![held].state = "up"] /\ runtime' = held /\ Finish
        /\ UNCHANGED <<store, main, failed, sending, timer, last, unserved>>
    BY <1>5 DEF Started
  <2>2. WorkerOK' /\ held' = None
    BY <1>1, <2>1, FinishOK
  <2>3. engine' \in Engines /\ \A h \in Generations : h # held => engine'[h] = engine[h]
    BY <1>2, <2>1 DEF Engines
  <2> QED BY <1>2, <2>1, <2>2, <2>3, EngineTaskIsSound, GenerationAssumption
<1>6. CASE StartFails
  <2>1. /\ engine' = [engine EXCEPT ![held] = Unused] /\ failed' = TRUE /\ Finish
        /\ UNCHANGED <<store, main, runtime, sending, timer, last, unserved>>
    BY <1>6 DEF StartFails
  <2>2. WorkerOK' /\ held' = None
    BY <1>1, <2>1, FinishOK
  <2>3. engine' \in Engines /\ \A h \in Generations : h # held => engine'[h] = engine[h]
    BY <1>2, <2>1, UnusedFits DEF Engines
  <2> QED BY <1>2, <2>1, <2>2, <2>3, EngineTaskIsSound, GenerationAssumption
<1> QED BY <1>3, <1>4, <1>5, <1>6

\* stop() of the last generation is called.
LEMMA StopLastIsSound ==
  ASSUME Sound, NEW e \in Engines, StopLast(e),
         main' \in Places \ {"launching"},
         UNCHANGED <<store, failed, runtime, worker, sending, timer, unserved>>
  PROVE  Sound'
<1>1. StoreOK /\ WorkerOK /\ OtherOK
  BY TypesAre DEF Sound
<1>2. WorkerOK' /\ StoreOK'
  BY <1>1, WorkerStays, StoreStays
<1>3. engine' \in Engines /\ last' = runtime
  <2>1. CASE runtime = None
    BY <2>1 DEF StopLast
  <2>2. CASE runtime # None
    <3>1. runtime \in Generations
      BY <1>1, <2>2 DEF OtherOK
    <3> QED BY <2>2, <3>1, ClosingIsOK DEF StopLast
  <2> QED BY <2>1, <2>2
<1>4. OtherOK'
  BY <1>1, <1>3 DEF OtherOK
<1>5. Begun'
  BY DEF Begun
<1> QED BY <1>2, <1>4, <1>5, SoundNext

\* The generation that start-up launches is not another one's.
LEMMA InitialIs ==
  ASSUME Sound, main = "launching"
  PROVE  Initial \in Generations /\ engine[Initial].state = "starting" /\ held # Initial
BY DEF Sound, Begun, Initial

LEMMA MainIsSound ==
  ASSUME Sound, StartupLaunched \/ StartupFails \/ ServerClosed \/ Drained \/ Closed
  PROVE  Sound'
<1>1. StoreOK /\ WorkerOK /\ OtherOK
  BY TypesAre DEF Sound
<1>2. engine \in Engines
  BY <1>1 DEF OtherOK
<1>3. CASE StartupLaunched
  <2>1. /\ main = "launching" /\ engine' = [engine EXCEPT ![Initial].state = "up"]
        /\ runtime' = Initial /\ main' = "binding"
        /\ UNCHANGED <<store, failed, worker, sending, timer, last, unserved>>
    BY <1>3 DEF StartupLaunched
  <2>2. Initial \in Generations
    BY <2>1, InitialIs
  <2>3. WorkerOK' /\ StoreOK'
    BY <1>1, <2>1, WorkerStays, StoreStays
  <2>4. engine' \in Engines
    <3> HIDE DEF Initial
    <3> QED BY <1>2, <2>1 DEF Engines
  <2>5. OtherOK'
    BY <1>1, <2>1, <2>2, <2>4 DEF OtherOK, Places
  <2>6. Begun'
    BY <2>1 DEF Begun
  <2> QED BY <2>3, <2>5, <2>6, SoundNext
<1>4. CASE StartupFails
  <2>1. PICK e \in {engine, [engine EXCEPT ![Initial] = Unused]} : Abort(e)
    BY <1>4 DEF StartupFails
  <2>2. e \in Engines
    BY <1>2, <2>1, UnusedIsOK
  <2> QED BY <2>1, <2>2, StopLastIsSound DEF Abort, Places
<1>5. CASE ServerClosed
  <2>1. Waiting \in Nat
    BY <1>1 DEF Waiting, WorkerOK
  <2>2. WorkerOK' /\ held' = held
    BY <1>1, <1>5, <2>1 DEF ServerClosed, WorkerOK
  <2>3. StoreOK' /\ OtherOK'
    BY <1>1, <1>5, StoreStays DEF ServerClosed, OtherOK, Places
  <2>4. Begun'
    BY <1>5 DEF ServerClosed, Begun
  <2> QED BY <2>2, <2>3, <2>4, SoundNext
<1>6. CASE Drained
  BY <1>2, <1>6, StopLastIsSound DEF Drained, Places
<1>7. CASE Closed
  <2>1. WorkerOK' /\ StoreOK'
    BY <1>1, <1>7, WorkerStays, StoreStays DEF Closed
  <2>2. engine' \in Engines
    BY <1>2, <1>7, UnusedIsOK DEF Closed
  <2>3. OtherOK'
    BY <1>1, <1>7, <2>2 DEF Closed, OtherOK, Places
  <2>4. Begun'
    BY <1>7 DEF Closed, Begun
  <2> QED BY <2>1, <2>3, <2>4, SoundNext
<1> QED BY <1>3, <1>4, <1>5, <1>6, <1>7

LEMMA InitIsSound == Init => Sound
<1> SUFFICES ASSUME Init PROVE Sound
  OBVIOUS
<1>1. PICK g \in Generations :
        engine = [h \in Generations |->
                    IF h = g THEN [state |-> "starting", config |-> policy] ELSE Unused]
  BY DEF Init
<1>2. policy \in Policies /\ Nobody \in Policies
  BY DEF Init, Nobody, Policies
<1>3. engine \in Engines /\ engine[g].state = "starting"
  BY <1>1, <1>2 DEF Engines, Unused
<1>4. OtherOK /\ StoreOK
  BY <1>3 DEF Init, OtherOK, StoreOK, Places
<1>6. WorkerOK
  <2>1. queue = <<>> /\ task = Nothing /\ step = "idle" /\ held = None /\ drain = 0
    BY DEF Init
  <2> QED BY <2>1 DEF WorkerOK, Steps
<1>5. Begun
  BY <1>3, GenerationAssumption DEF Init, Begun
<1> QED BY <1>4, <1>5, <1>6, TypesAre DEF Sound

LEMMA StepIsSound == Sound /\ [Next]_vars => Sound'
BY TakeIsSound, OutsideIsSound, StoreTasksAreSound, StopsAreSound, LaunchesAreSound, MainIsSound
   DEF Next, TaskStep

LEMMA Soundness == Spec => []Sound
BY InitIsSound, StepIsSound, PTL DEF Spec

\* Type correctness, for any devices, grants, generations and queue.
THEOREM TypeCorrect == Spec => []TypeOK
<1>1. Sound => TypeOK
  BY DEF Sound
<1> QED BY <1>1, Soundness, PTL

-----------------------------------------------------------------------------
(* No peer reaches the engine that start-up launches before startVpn returns *)

ContactAfterStart == "startup" \notin EarlyContact

\* Who serves is the current generation, and no task is replacing it.
LEMMA WhoServes ==
  ASSUME Sound, IInv, NEW g \in Generations, Serving(g)
  PROVE  main # "launching" /\ g = runtime /\ step \notin Replacing
<1>1. main # "launching"
  BY DEF IInv, Quiet, Serving, Alive
<1>2. g = Current
  BY <1>1 DEF IInv, Single, Serving, Alive
<1>3. step \notin {"stopping", "starting"}
  BY <1>2 DEF IInv, StepFits, Current, Serving
<1>4. g = runtime /\ runtime # None
  BY <1>2, <1>3, GenerationAssumption DEF Current
<1> QED BY <1>1, <1>4 DEF IInv, StepFits

\* While a task changes the policy or launches, nobody is there.
LEMMA NobodyThere ==
  ASSUME Sound, IInv, step \in {"apply", "launch"}, NEW g \in Generations
  PROVE  main # "launching" /\ ~Alive(g)
<1>1. runtime = None /\ Current = None /\ task # Nothing
  BY DEF IInv, StepFits, Current, Replacing
<1>2. main # "launching"
  BY <1>1 DEF IInv, Quiet
<1> QED BY <1>1, <1>2, GenerationAssumption DEF IInv, Single

\* Between tasks, and when one begins, no engine is being launched.
LEMMA NoneStarts ==
  ASSUME Sound, IInv, main # "launching", step # "starting", NEW g \in Generations
  PROVE  engine[g].state # "starting" /\ (Alive(g) => g = Current)
BY DEF IInv, Single

\* Tasks that have begun are not in the queue of a process that has not.
LEMMA TaskMeansBegun ==
  ASSUME IInv, task # Nothing \/ step # "idle" \/ queue # <<>> \/ sending # {} \/ timer
  PROVE  main # "launching"
BY DEF IInv, Quiet, StepFits

-----------------------------------------------------------------------------
(* What stop() waits for *)

LEMMA DrainsFinish ==
  ASSUME Sound, IInv, Finish, task # Nothing, main' = main
  PROVE  Drains'
<1> SUFFICES ASSUME main \in {"draining", "closing", "stopped"} PROVE Drains'
  BY DEF Drains
<1>1. drain \in Nat /\ queue' = queue /\ task' = Nothing /\ step' = "idle"
      /\ drain' = IF drain = 0 THEN 0 ELSE drain - 1
  BY DEF Sound, TypeOK, Finish
<1>2. /\ \A i \in 1 .. Len(queue) : i + 1 > drain => Late(queue[i])
      /\ main # "draining" => drain = 0
  BY DEF IInv, Drains
<1>3. Len(queue) \in Nat
  BY DEF Sound, TypeOK
<1>4. \A i \in 1 .. Len(queue) : i > drain' => Late(queue[i])
  <2>1. \A i \in 1 .. Len(queue) : i > drain' => i + 1 > drain
    BY <1>1, <1>3
  <2> QED BY <1>2, <2>1
<1>5. \A i \in 1 .. Len(queue') :
        (IF task' = Nothing THEN i ELSE i + 1) > drain' => Late(queue'[i])
  BY <1>1, <1>4
<1> QED BY <1>1, <1>2, <1>5 DEF Drains, Replacing, Late

LEMMA DrainsGoTo ==
  ASSUME Sound, IInv, NEW s \in Replacing, NEW g, GoTo(s, g), main' = main,
         main \in {"draining", "closing", "stopped"} => drain # 0
  PROVE  Drains'
BY DEF IInv, Drains, GoTo, Late

\* A task that goes on while it replaces a generation is one that is waited for.
LEMMA ReplacingIsWaitedFor ==
  ASSUME IInv, step \in Replacing, main \in {"draining", "closing", "stopped"}
  PROVE  drain # 0
BY DEF IInv, Drains

LEMMA DrainsTake ==
  ASSUME Sound, IInv, Take
  PROVE  Drains'
<1> SUFFICES ASSUME main \in {"draining", "closing", "stopped"} PROVE Drains'
  BY DEF Drains, Take
<1>1. /\ task = Nothing /\ queue # <<>> /\ queue \in Seq(Tasks) /\ drain \in Nat
      /\ task' = Head(queue) /\ queue' = Tail(queue) /\ step' = "begin"
      /\ drain' = drain /\ main' = main
  BY DEF Sound, TypeOK, Take
<1>2. /\ \A i \in 1 .. Len(queue) : i > drain => Late(queue[i])
      /\ main # "draining" => drain = 0
  BY <1>1 DEF IInv, Drains
<1>3. /\ Len(queue) \in Nat /\ Len(queue) # 0 /\ task' = queue[1] /\ task' # Nothing
      /\ Len(queue') = Len(queue) - 1
      /\ \A i \in 1 .. Len(queue) - 1 : queue'[i] = queue[i + 1]
  BY <1>1 DEF Tasks, Enrollments, Commands, Reload, Nothing
<1>4. \A i \in 1 .. Len(queue') : i + 1 > drain => Late(queue'[i])
  <2> SUFFICES ASSUME NEW i \in 1 .. Len(queue'), i + 1 > drain PROVE Late(queue'[i])
    OBVIOUS
  <2>1. i + 1 \in 1 .. Len(queue)
    BY <1>3
  <2>2. Late(queue[i + 1])
    BY <1>2, <2>1
  <2> QED BY <1>3, <2>2
<1>5. drain = 0 => Late(task')
  <2>1. 1 \in 1 .. Len(queue)
    BY <1>3
  <2> QED BY <1>2, <1>3, <2>1
<1>6. \A i \in 1 .. Len(queue') :
        (IF task' = Nothing THEN i ELSE i + 1) > drain' => Late(queue'[i])
  BY <1>1, <1>3, <1>4
<1> QED BY <1>1, <1>2, <1>5, <1>6 DEF Drains, Replacing, Late

LEMMA DrainsEnqueue ==
  ASSUME Sound, IInv, NEW t \in Tasks, Enqueue(t), main' = main,
         main \in {"draining", "closing", "stopped"} => Late(t)
  PROVE  Drains'
<1> SUFFICES ASSUME main \in {"draining", "closing", "stopped"} PROVE Drains'
  BY DEF Drains
<1>1. /\ queue \in Seq(Tasks) /\ drain \in Nat /\ queue' = Append(queue, t)
      /\ UNCHANGED <<task, step, held, drain, main>>
  BY DEF Sound, TypeOK, Enqueue
<1>2. /\ Len(queue) \in Nat /\ Len(queue') = Len(queue) + 1
      /\ \A i \in 1 .. Len(queue) : queue'[i] = queue[i]
      /\ queue'[Len(queue) + 1] = t
  BY <1>1
<1>3. \A i \in 1 .. Len(queue) : (IF task = Nothing THEN i ELSE i + 1) > drain => Late(queue[i])
  BY DEF IInv, Drains
<1>4. \A i \in 1 .. Len(queue') :
        (IF task' = Nothing THEN i ELSE i + 1) > drain' => Late(queue'[i])
  <2> SUFFICES ASSUME NEW i \in 1 .. Len(queue'), (IF task = Nothing THEN i ELSE i + 1) > drain
               PROVE  Late(queue'[i])
    BY <1>1
  <2>1. CASE i = Len(queue) + 1
    BY <1>2, <2>1
  <2>2. CASE i \in 1 .. Len(queue)
    <3>1. Late(queue[i])
      BY <1>3, <2>2
    <3> QED BY <1>2, <2>2, <3>1
  <2> QED BY <1>2, <2>1, <2>2
<1>5. /\ drain' = 0 => step' \notin Replacing /\ (task' # Nothing => Late(task'))
      /\ main' # "draining" => drain' = 0
  BY <1>1 DEF IInv, Drains, Late
<1> QED BY <1>4, <1>5 DEF Drains, Late

\* Every task there is when stop() begins to wait is waited for.
LEMMA DrainsFromHere ==
  ASSUME Sound, IInv, ServerClosed
  PROVE  Drains'
<1>1. /\ queue \in Seq(Tasks) /\ drain' = Waiting /\ main' = "draining"
      /\ UNCHANGED <<queue, task, step>>
  BY DEF Sound, TypeOK, ServerClosed
<1>2. Len(queue) \in Nat
  BY <1>1
<1>3. \A i \in 1 .. Len(queue') :
        (IF task' = Nothing THEN i ELSE i + 1) > drain' => Late(queue'[i])
  BY <1>1, <1>2 DEF Waiting
<1>4. drain' = 0 => task' = Nothing /\ step' = "idle"
  BY <1>1, <1>2 DEF Waiting, IInv, StepFits
<1> QED BY <1>1, <1>3, <1>4 DEF Drains, Replacing

-----------------------------------------------------------------------------
(* The tasks *)

LEMMA TakeKeeps ==
  ASSUME Sound, IInv, Take
  PROVE  IInv'
<1>1. /\ task = Nothing /\ step = "idle" /\ held = None /\ task' \in Tasks /\ step' = "begin"
      /\ UNCHANGED <<policy, main, failed, runtime, engine, held, last, unserved>>
  BY DEF Take, Sound, TypeOK, IInv, StepFits, store
<1>2. task' # Nothing
  BY <1>1 DEF Tasks, Enrollments, Commands, Reload, Nothing
<1>3. main # "launching"
  BY TaskMeansBegun DEF Take
<1>4. StepFits'
  BY <1>1, <1>2 DEF StepFits, Replacing
<1>5. Quiet' /\ Served'
  BY <1>1, <1>3 DEF IInv, Quiet, Served, Serving, Replacing
<1>6. Single'
  BY <1>1, <1>3 DEF IInv, Single, Current, Alive
<1>7. NoBypass'
  BY <1>1 DEF IInv, NoBypass, Serving
<1> QED BY <1>4, <1>5, <1>6, <1>7, DrainsTake DEF IInv

\* A task that ends without having to do with an engine.
LEMMA EndsHere ==
  ASSUME Sound, IInv, Finish, step \in {"begin", "apply", "launch"},
         UNCHANGED <<main, runtime, engine, last, unserved>>,
         failed \in BOOLEAN, failed => failed', step # "begin" => failed',
         step = "begin" => \A k \in Keys : policy[k] # None => policy'[k] = policy[k]
  PROVE  IInv'
<1>1. task # Nothing /\ held = None
  BY DEF IInv, StepFits
<1>2. task' = Nothing /\ step' = "idle" /\ held' = None
  BY DEF Finish
<1>3. main # "launching"
  BY <1>1, TaskMeansBegun
<1>4. StepFits'
  BY <1>2 DEF StepFits, Replacing
<1>5. Quiet'
  BY <1>3 DEF Quiet
<1>6. Single'
  BY <1>2, <1>3 DEF IInv, Single, Current, Alive
<1>7. Served'
  BY <1>2 DEF IInv, Served, Serving, Replacing
<1>8. NoBypass'
  <2> SUFFICES ASSUME NEW g \in Generations, NEW k \in Keys, Serving(g)', engine'[g].config[k] # None
               PROVE  policy'[k] = engine'[g].config[k]
    BY DEF NoBypass
  <2>1. Serving(g)
    BY DEF Serving
  <2>2. step = "begin"
    BY <2>1, WhoServes DEF Replacing
  <2>3. policy[k] = engine[g].config[k]
    BY <2>1 DEF IInv, NoBypass
  <2> QED BY <2>2, <2>3
<1> QED BY <1>1, <1>4, <1>5, <1>6, <1>7, <1>8, DrainsFinish DEF IInv

LEMMA StoreTasksKeep ==
  ASSUME Sound, IInv, RefuseEnrollment \/ Enroll \/ Inquire \/ TurnDown
  PROVE  IInv'
<1>1. StoreOK /\ WorkerOK /\ failed \in BOOLEAN /\ policy \in Policies
  BY TypesAre DEF Sound, OtherOK, StoreOK
<1>2. CASE RefuseEnrollment \/ TurnDown
  BY <1>1, <1>2, EndsHere DEF RefuseEnrollment, TurnDown, store
<1>3. CASE Enroll
  <2> DEFINE n == Admitted(task.key)
  <2>1. PICK o \in Outcomes(n) : Store(o) /\ failed' = (failed \/ o.error = "storage")
    BY <1>3 DEF Enroll
  <2>2. /\ step = "begin" /\ task.kind = "enroll" /\ Finish
        /\ UNCHANGED <<main, runtime, engine, timer, last, unserved>>
    BY <1>3 DEF Enroll
  <2>3. n \in Policies /\ \A k \in Keys : policy[k] # None => n[k] = policy[k]
    BY <1>1, GrantAssumption DEF Admitted, Policies
  <2> HIDE DEF n
  <2>4. policy' \in {policy, n}
    BY <1>1, <2>1, <2>3, StoreIsOK
  <2> QED BY <1>1, <2>1, <2>2, <2>3, <2>4, EndsHere
<1>4. CASE Inquire
  <2>1. step = "begin" /\ Finish /\ UNCHANGED <<main, runtime, engine, sending, timer, last, unserved>>
    BY <1>4 DEF Inquire
  <2>2. policy' = policy /\ (failed => failed')
    <3>1. CASE task.kind = "invite"
      <4>1. PICK o \in Outcomes(policy) : Store(o) /\ failed' = (failed \/ o.error = "storage")
        BY <1>4, <3>1 DEF Inquire
      <4> QED BY <1>1, <4>1, StoreIsOK
    <3>2. CASE task.kind # "invite"
      BY <1>4, <3>2 DEF Inquire, store
    <3> QED BY <3>1, <3>2
  <2> QED BY <1>1, <2>1, <2>2, EndsHere
<1> QED BY <1>2, <1>3, <1>4

\* The current generation is left, and if there is one its stop() is called.
LEMMA StopOldKeeps ==
  ASSUME Sound, IInv, StopOld
  PROVE  IInv'
<1>1. /\ step = "begin" /\ Replaces /\ ~TurnedDown /\ runtime' = None
      /\ UNCHANGED <<store, main, failed, last, unserved>>
  BY DEF StopOld
<1>2. /\ task # Nothing /\ main # "launching"
  BY <1>1, TaskMeansBegun DEF IInv, StepFits
<1>3. main \in {"draining", "closing", "stopped"} => drain # 0
  BY <1>1, <1>2 DEF IInv, Drains, Late, Replaces, TurnedDown, stopping
<1>4. /\ engine \in Engines /\ runtime \in Generations \cup {None}
      /\ AfterStop \in {"launch", "apply"} /\ (AfterStop = "apply" => task.kind # "reload")
  BY DEF Sound, TypeOK, Engines, AfterStop
<1>5. \A g \in Generations : engine[g].state # "starting" /\ (Alive(g) => g = runtime)
  BY <1>1, <1>2, NoneStarts DEF Current
<1>6. CASE runtime = None
  <2>1. GoTo(AfterStop, None) /\ engine' = engine
    BY <1>6 DEF StopOld
  <2>2. step' = AfterStop /\ held' = None /\ task' = task
    BY <2>1 DEF GoTo
  <2>3. \A g \in Generations : ~Alive(g)
    BY <1>5, <1>6, GenerationAssumption
  <2>4. StepFits'
    BY <1>1, <1>2, <1>4, <2>2 DEF StepFits, Replacing, Replaces
  <2>5. Quiet' /\ Served'
    BY <1>1, <1>2, <1>4, <2>2 DEF Quiet, Served, Replacing
  <2>6. Single' /\ NoBypass'
    BY <2>1, <2>3 DEF Single, NoBypass, Serving, Alive
  <2>7. Drains'
    BY <1>1, <1>3, <1>4, <2>1, DrainsGoTo DEF Replacing
  <2> QED BY <2>4, <2>5, <2>6, <2>7 DEF IInv
<1>7. CASE runtime # None
  <2>1. engine' = Closing(engine, runtime) /\ GoTo("stopping", runtime) /\ runtime \in Generations
    BY <1>4, <1>7 DEF StopOld
  <2>2. step' = "stopping" /\ held' = runtime /\ task' = task
    BY <2>1 DEF GoTo
  <2>3. /\ \A h \in Generations : h # runtime => engine'[h] = engine[h]
        /\ engine'[runtime].state = IF Alive(runtime) THEN "closing" ELSE engine[runtime].state
    BY <1>4, <2>1, ClosingIsOK
  <2>4. \A g \in Generations : engine'[g].state \notin {"starting", "up"} /\ (Alive(g)' => g = runtime)
    BY <1>5, <2>3 DEF Alive
  <2>5. StepFits'
    BY <1>1, <1>2, <2>1, <2>2, <2>4 DEF StepFits, Replacing, Replaces
  <2>6. Quiet' /\ Served'
    BY <1>1, <1>2, <2>2 DEF Quiet, Served, Replacing
  <2>7. Single' /\ NoBypass'
    BY <2>2, <2>4 DEF Single, Current, NoBypass, Serving
  <2>8. Drains'
    BY <1>1, <1>3, <2>1, DrainsGoTo DEF Replacing
  <2> QED BY <2>5, <2>6, <2>7, <2>8 DEF IInv
<1> QED BY <1>6, <1>7

\* Once the generation that a task stops or launches is gone, nobody is there.
LEMMA HeldIsGone ==
  ASSUME Sound, IInv, step \in {"stopping", "starting"}, engine' = [engine EXCEPT ![held] = Unused]
  PROVE  /\ main # "launching" /\ task # Nothing /\ runtime = None
         /\ \A g \in Generations : ~Alive(g)'
<1>1. task # Nothing /\ runtime = None /\ main # "launching"
  BY TaskMeansBegun DEF IInv, StepFits, Replacing
<1>2. engine \in Engines
  BY DEF Sound, TypeOK, Engines
<1>3. \A g \in Generations : engine'[g] = IF g = held THEN Unused ELSE engine[g]
  BY <1>2 DEF Engines
<1>4. \A g \in Generations : Alive(g) => g = held
  BY <1>1 DEF IInv, Single, Current
<1>5. \A g \in Generations : ~Alive(g)'
  BY <1>3, <1>4 DEF Alive, Unused
<1> QED BY <1>1, <1>5

LEMMA OldStoppedKeeps ==
  ASSUME Sound, IInv, OldStopped
  PROVE  IInv'
<1>1. /\ step = "stopping" /\ engine' = [engine EXCEPT ![held] = Unused] /\ GoTo(AfterStop, None)
      /\ UNCHANGED <<main, runtime, last>>
  BY DEF OldStopped
<1>2. /\ main # "launching" /\ task # Nothing /\ runtime = None /\ Replaces
      /\ \A g \in Generations : ~Alive(g)'
  BY <1>1, HeldIsGone DEF IInv, StepFits, Replacing
<1>3. /\ step' = AfterStop /\ held' = None /\ task' = task
      /\ AfterStop \in {"launch", "apply"} /\ (AfterStop = "apply" => task.kind # "reload")
  BY <1>1 DEF GoTo, AfterStop
<1>4. StepFits'
  BY <1>1, <1>2, <1>3 DEF StepFits, Replacing, Replaces
<1>5. Quiet' /\ Served'
  BY <1>1, <1>2, <1>3 DEF Quiet, Served, Replacing
<1>6. Single' /\ NoBypass'
  BY <1>2 DEF Single, NoBypass, Serving, Alive
<1>7. Drains'
  <2>1. AfterStop \in Replacing
    BY <1>3 DEF Replacing
  <2> QED BY <1>1, <2>1, ReplacingIsWaitedFor, DrainsGoTo DEF Replacing
<1> QED BY <1>4, <1>5, <1>6, <1>7 DEF IInv

\* The old generation's stop() rejects, or the new one's start does.
LEMMA FailureKeeps ==
  ASSUME Sound, IInv, OldStopRejects \/ StartFails
  PROVE  IInv'
<1>1. /\ step \in {"stopping", "starting"} /\ engine' = [engine EXCEPT ![held] = Unused]
      /\ (failed' \/ unserved') /\ Finish /\ UNCHANGED <<main, runtime, last>>
  BY DEF OldStopRejects, StartFails
<1>2. /\ main # "launching" /\ task # Nothing /\ runtime = None
      /\ \A g \in Generations : ~Alive(g)'
  BY <1>1, HeldIsGone
<1>3. step' = "idle" /\ held' = None /\ task' = Nothing
  BY <1>1 DEF Finish
<1>4. StepFits'
  BY <1>3 DEF StepFits, Replacing
<1>5. Quiet' /\ Served'
  BY <1>1, <1>2 DEF Quiet, Served
<1>6. Single' /\ NoBypass'
  BY <1>2 DEF Single, NoBypass, Serving, Alive
<1> QED BY <1>1, <1>2, <1>4, <1>5, <1>6, DrainsFinish DEF IInv

LEMMA ApplyKeeps ==
  ASSUME Sound, IInv, Apply
  PROVE  IInv'
<1>1. PICK o \in Outcomes([policy EXCEPT ![task.key] =
                             IF task.kind = "grant" THEN task.grant ELSE None]) :
        /\ failed' = (failed \/ o.error # "none")
        /\ IF o.error = "none" THEN GoTo("launch", None) ELSE Finish
  BY DEF Apply
<1>2. step = "apply" /\ UNCHANGED <<main, runtime, engine, sending, timer, last, unserved>>
  BY DEF Apply
<1>3. failed \in BOOLEAN
  BY DEF Sound, TypeOK
<1>4. CASE o.error # "none"
  BY <1>1, <1>2, <1>3, <1>4, EndsHere
<1>5. CASE o.error = "none"
  <2>1. GoTo("launch", None)
    BY <1>1, <1>5
  <2>2. step' = "launch" /\ held' = None /\ task' = task
    BY <2>1 DEF GoTo
  <2>3. task # Nothing /\ Replaces /\ runtime = None /\ main # "launching"
    BY <1>2, TaskMeansBegun DEF IInv, StepFits, Replacing
  <2>4. \A g \in Generations : ~Alive(g)'
    BY <1>2, NobodyThere DEF Alive
  <2>5. StepFits'
    BY <1>2, <2>2, <2>3 DEF StepFits, Replacing, Replaces
  <2>6. Quiet' /\ Served'
    BY <1>2, <2>2, <2>3 DEF Quiet, Served, Replacing
  <2>7. Single' /\ NoBypass'
    BY <2>4 DEF Single, NoBypass, Serving, Alive
  <2>8. Drains'
    BY <1>2, <2>1, ReplacingIsWaitedFor, DrainsGoTo DEF Replacing
  <2> QED BY <2>5, <2>6, <2>7, <2>8 DEF IInv
<1> QED BY <1>4, <1>5

\* The next generation is launched when nobody is there, with the policy there is.
LEMMA LaunchKeeps ==
  ASSUME Sound, IInv, Launch
  PROVE  IInv'
<1>1. step = "launch" /\ UNCHANGED <<policy, main, runtime, sending, timer, last, unserved>>
  BY DEF Launch, store
<1>2. failed \in BOOLEAN /\ engine \in Engines /\ policy \in Policies
  BY DEF Sound, TypeOK, Engines
<1>3. CASE storeFailed
  BY <1>1, <1>2, <1>3, EndsHere DEF Launch
<1>4. CASE ~storeFailed
  <2>1. PICK g \in Generations :
          /\ Free(g) /\ engine' = [engine EXCEPT ![g] = [state |-> "starting", config |-> policy]]
          /\ GoTo("starting", g) /\ UNCHANGED failed
    BY <1>4 DEF Launch
  <2>2. step' = "starting" /\ held' = g /\ task' = task
    BY <2>1 DEF GoTo
  <2>3. task # Nothing /\ Replaces /\ runtime = None /\ main # "launching"
    BY <1>1, TaskMeansBegun DEF IInv, StepFits, Replacing
  <2>4. /\ engine'[g] = [state |-> "starting", config |-> policy]
        /\ \A h \in Generations : h # g => engine'[h] = engine[h]
    BY <1>2, <2>1 DEF Engines
  <2>5. \A h \in Generations : h # g => ~Alive(h)'
    BY <1>1, <2>4, NobodyThere DEF Alive
  <2>6. StepFits'
    BY <1>1, <2>1, <2>2, <2>3, <2>4 DEF StepFits, Replacing, Replaces, Free
  <2>7. Quiet' /\ Served'
    BY <1>1, <2>2, <2>3 DEF Quiet, Served, Replacing
  <2>8. Single'
    BY <2>2, <2>5 DEF Single, Current, Alive
  <2>9. NoBypass'
    BY <2>4, <2>5 DEF NoBypass, Serving, Alive
  <2>10. Drains'
    BY <1>1, <2>1, ReplacingIsWaitedFor, DrainsGoTo DEF Replacing
  <2> QED BY <2>6, <2>7, <2>8, <2>9, <2>10 DEF IInv
<1> QED BY <1>3, <1>4

LEMMA StartedKeeps ==
  ASSUME Sound, IInv, Started
  PROVE  IInv'
<1>1. /\ step = "starting" /\ engine' = [engine EXCEPT ![held].state = "up"] /\ runtime' = held
      /\ Finish /\ UNCHANGED <<policy, main, failed, last, unserved>>
  BY DEF Started, store
<1>2. /\ held \in Generations /\ task # Nothing /\ main # "launching"
      /\ engine[held].config = policy
  BY <1>1, TaskMeansBegun DEF IInv, StepFits
<1>3. engine \in Engines
  BY DEF Sound, TypeOK, Engines
<1>4. /\ engine'[held].state = "up" /\ engine'[held].config = policy
      /\ \A h \in Generations : h # held => engine'[h] = engine[h]
  BY <1>1, <1>2, <1>3 DEF Engines
<1>5. \A h \in Generations : h # held => ~Alive(h)'
  BY <1>1, <1>2, <1>4 DEF IInv, Single, Current, Alive
<1>6. step' = "idle" /\ held' = None /\ task' = Nothing
  BY <1>1 DEF Finish
<1>7. StepFits'
  BY <1>6 DEF StepFits, Replacing
<1>8. Quiet' /\ Served'
  BY <1>1, <1>2, <1>4, GenerationAssumption DEF Quiet, Served, Serving
<1>9. Single'
  BY <1>1, <1>4, <1>5, <1>6 DEF Single, Current, Alive
<1>10. NoBypass'
  BY <1>1, <1>4, <1>5 DEF NoBypass, Serving, Alive
<1> QED BY <1>1, <1>2, <1>7, <1>8, <1>9, <1>10, DrainsFinish DEF IInv

-----------------------------------------------------------------------------
(* What goes on beside the tasks *)

\* A task is added, or none, and the rest of what matters stays.
LEMMA WaitingKeeps ==
  ASSUME Sound, IInv, main # "launching",
         \/ UNCHANGED worker
         \/ \E t \in Tasks : Enqueue(t) /\ (main \in {"draining", "closing", "stopped"} => Late(t)),
         UNCHANGED <<store, runtime, engine, last, unserved>>,
         main' = main \/ (main = "binding" /\ main' = "serving") \/ main' = "stopping",
         failed \in BOOLEAN, failed => failed'
  PROVE  IInv'
<1>1. UNCHANGED <<task, step, held, policy, runtime, engine, last, unserved>>
  BY DEF worker, store, Enqueue
<1>2. StepFits'
  BY <1>1 DEF IInv, StepFits, Replaces
<1>3. Quiet'
  BY DEF Quiet
<1>4. Single'
  BY <1>1 DEF IInv, Single, Current, Alive
<1>5. Served'
  BY <1>1 DEF IInv, Served, Serving
<1>6. NoBypass'
  BY <1>1 DEF IInv, NoBypass, Serving
<1>7. Drains'
  <2>1. CASE main' # main
    BY <2>1 DEF Drains
  <2>2. CASE main' = main /\ UNCHANGED worker
    BY <2>2 DEF IInv, Drains, worker, Late
  <2>3. CASE main' = main /\ ~UNCHANGED worker
    BY <2>3, DrainsEnqueue
  <2> QED BY <2>1, <2>2, <2>3
<1> QED BY <1>2, <1>3, <1>4, <1>5, <1>6, <1>7 DEF IInv

LEMMA OutsideKeeps ==
  ASSUME Sound, IInv, ContactAfterStart,
         \/ \E c \in Commands : Command(c)
         \/ \E g \in Generations, k \in Keys : Contact(g, k)
         \/ \E k \in Keys : Changed(k)
         \/ TimerFires \/ Bound \/ Break \/ Stop
  PROVE  IInv'
<1>1. failed \in BOOLEAN
  BY DEF Sound, TypeOK
<1>2. ASSUME NEW c \in Commands, Command(c) PROVE IInv'
  BY <1>1, <1>2, WaitingKeeps DEF Command, Tasks
<1>3. ASSUME NEW g \in Generations, NEW k \in Keys, Contact(g, k) PROVE IInv'
  <2> DEFINE t == [kind |-> "enroll", key |-> k, by |-> g]
  <2>1. t \in Tasks /\ Late(t)
    BY DEF Tasks, Enrollments, Late
  <2>2. main # "launching"
    <3>1. CASE Serving(g)
      BY <3>1, WhoServes
    <3>2. CASE engine[g].state = "starting" /\ held = g
      BY <3>2, GenerationAssumption, TaskMeansBegun DEF IInv, StepFits
    <3> QED BY <1>3, <3>1, <3>2 DEF Contact, Reachable, ContactAfterStart
  <2>3. Enqueue(t) /\ UNCHANGED <<store, main, failed, runtime, engine, sending, timer, last, unserved>>
    BY <1>3 DEF Contact
  <2> HIDE DEF t
  <2> QED BY <1>1, <2>1, <2>2, <2>3, WaitingKeeps
<1>4. ASSUME NEW k \in Keys, Changed(k) PROVE IInv'
  BY <1>1, <1>4, TaskMeansBegun, WaitingKeeps DEF Changed
<1>5. CASE TimerFires
  <2>1. Reload \in Tasks /\ Late(Reload)
    BY DEF Tasks, Reload, Late
  <2> QED BY <1>1, <1>5, <2>1, TaskMeansBegun, WaitingKeeps DEF TimerFires
<1>6. CASE Bound \/ Stop
  BY <1>1, <1>6, WaitingKeeps DEF Bound, Stop
<1>7. CASE Break
  <2>1. main # "launching"
    BY <1>7 DEF Break, IInv, Quiet
  <2> QED BY <1>1, <1>7, <2>1, WaitingKeeps DEF Break
<1> QED BY <1>2, <1>3, <1>4, <1>5, <1>6, <1>7

\* stop() has seen the control socket close.
LEMMA ServerClosedKeeps ==
  ASSUME Sound, IInv, ServerClosed
  PROVE  IInv'
<1>1. /\ main = "stopping" /\ main' = "draining"
      /\ UNCHANGED <<policy, failed, runtime, engine, task, step, held, last, unserved>>
  BY DEF ServerClosed, store
<1>2. StepFits'
  BY <1>1 DEF IInv, StepFits, Replaces
<1>3. Quiet' /\ Served'
  BY <1>1 DEF Quiet, Served
<1>4. Single'
  BY <1>1 DEF IInv, Single, Current, Alive
<1>5. NoBypass'
  BY <1>1 DEF IInv, NoBypass, Serving
<1> QED BY <1>2, <1>3, <1>4, <1>5, DrainsFromHere DEF IInv

\* Start-up's generation is the only one there is, and has the policy there is.
LEMMA InitialIsAlone ==
  ASSUME Sound, IInv, main = "launching"
  PROVE  /\ Initial \in Generations /\ engine[Initial].config = policy
         /\ \A g \in Generations : Alive(g) => g = Initial
<1>1. PICK g \in Generations :
        /\ engine[g].config = policy
        /\ \A h \in Generations : Alive(h) => h = g
  BY DEF IInv, Quiet
<1>2. Initial \in Generations /\ Alive(Initial)
  BY InitialIs DEF Alive
<1>3. Initial = g
  BY <1>1, <1>2
<1> QED BY <1>1, <1>2, <1>3

LEMMA StartupLaunchedKeeps ==
  ASSUME Sound, IInv, StartupLaunched
  PROVE  IInv'
<1>1. /\ main = "launching" /\ engine' = [engine EXCEPT ![Initial].state = "up"]
      /\ runtime' = Initial /\ main' = "binding"
      /\ UNCHANGED <<policy, queue, task, step, held, drain>>
  BY DEF StartupLaunched, store, worker
<1>2. /\ Initial \in Generations /\ engine[Initial].config = policy
      /\ \A g \in Generations : Alive(g) => g = Initial
  BY <1>1, InitialIsAlone
<1>3. task = Nothing /\ step = "idle" /\ held = None
  BY <1>1 DEF IInv, Quiet, StepFits
<1>4. engine \in Engines
  BY DEF Sound, TypeOK, Engines
<1> HIDE DEF Initial
<1>5. /\ engine'[Initial].state = "up" /\ engine'[Initial].config = policy
      /\ \A h \in Generations : h # Initial => engine'[h] = engine[h]
  BY <1>1, <1>2, <1>4 DEF Engines
<1>6. \A h \in Generations : h # Initial => ~Alive(h)'
  BY <1>2, <1>5 DEF Alive
<1>7. StepFits' /\ Quiet' /\ Drains'
  BY <1>1, <1>3 DEF StepFits, Quiet, Drains, Replacing
<1>8. Single'
  BY <1>1, <1>3, <1>5, <1>6 DEF Single, Current, Alive
<1>9. Served' /\ NoBypass'
  BY <1>1, <1>2, <1>5, <1>6, GenerationAssumption DEF Served, NoBypass, Serving, Alive
<1> QED BY <1>7, <1>8, <1>9 DEF IInv

\* stop() of the last generation is called.
LEMMA StopLastKeeps ==
  ASSUME Sound, IInv, NEW e \in Engines, StopLast(e), UNCHANGED <<store, runtime, worker>>,
         \/ main = "launching" /\ \A g \in Generations : e[g].state = "closed"
         \/ main # "launching" /\ e = engine,
         \/ main' = "aborting"
         \/ main = "draining" /\ main' = "closing" /\ drain = 0
  PROVE  IInv'
<1>1. /\ runtime \in Generations \cup {None} /\ last' = runtime
      /\ UNCHANGED <<policy, runtime, queue, task, step, held, drain>>
  BY DEF Sound, TypeOK, StopLast, store, worker
<1>2. runtime = None => engine' = e
  BY DEF StopLast
<1>3. runtime # None =>
        /\ \A h \in Generations : h # runtime => engine'[h] = e[h]
        /\ engine'[runtime].config = e[runtime].config
        /\ engine'[runtime].state = IF Alive(runtime) THEN "closing" ELSE e[runtime].state
  BY <1>1, ClosingIsOK DEF StopLast
<1>4. CASE main = "launching"
  <2>1. task = Nothing /\ step = "idle" /\ held = None /\ runtime = None
    BY <1>4 DEF IInv, Quiet, StepFits
  <2>2. \A g \in Generations : ~Alive(g)'
    BY <1>2, <1>4, <2>1 DEF Alive
  <2>3. StepFits' /\ Quiet' /\ Drains' /\ Served'
    BY <1>1, <1>4, <2>1 DEF StepFits, Quiet, Drains, Served, Replacing
  <2>4. Single' /\ NoBypass'
    BY <2>2 DEF Single, NoBypass, Serving, Alive
  <2> QED BY <2>3, <2>4 DEF IInv
<1>5. CASE main # "launching"
  <2>1. \A g \in Generations :
          /\ Alive(g)' => Alive(g)
          /\ engine'[g].state \in {"starting", "up"} => engine'[g] = engine[g]
    <3> SUFFICES ASSUME NEW g \in Generations
                 PROVE  /\ Alive(g)' => Alive(g)
                        /\ engine'[g].state \in {"starting", "up"} => engine'[g] = engine[g]
      OBVIOUS
    <3>1. CASE runtime = None
      BY <1>2, <1>5, <3>1 DEF Alive
    <3>2. CASE runtime # None /\ g # runtime
      BY <1>3, <1>5, <3>2 DEF Alive
    <3>3. CASE runtime # None /\ g = runtime
      BY <1>3, <1>5, <3>3 DEF Alive
    <3> QED BY <3>1, <3>2, <3>3
  <2>2. StepFits'
    <3>1. step \in Replacing => runtime = None /\ engine' = engine
      BY <1>2, <1>5 DEF IInv, StepFits
    <3> QED BY <1>1, <3>1, GenerationAssumption DEF IInv, StepFits, Replaces, Replacing
  <2>3. Quiet' /\ Served'
    BY DEF Quiet, Served
  <2>4. Single'
    BY <1>1, <1>5, <2>1 DEF IInv, Single, Current
  <2>5. NoBypass'
    BY <1>1, <2>1 DEF IInv, NoBypass, Serving
  <2>6. Drains'
    BY <1>1 DEF IInv, Drains, Late
  <2> QED BY <2>2, <2>3, <2>4, <2>5, <2>6 DEF IInv
<1> QED BY <1>4, <1>5

LEMMA StopsKeep ==
  ASSUME Sound, IInv, StartupFails \/ Drained
  PROVE  IInv'
<1>1. engine \in Engines
  BY DEF Sound, TypeOK, Engines
<1>2. CASE StartupFails /\ main = "launching"
  <2> DEFINE e == [engine EXCEPT ![Initial] = Unused]
  <2>1. StopLast(e) /\ main' = "aborting" /\ UNCHANGED <<store, runtime, worker>>
    BY <1>2 DEF StartupFails, Abort
  <2>2. e \in Engines /\ \A g \in Generations : e[g] = IF g = Initial THEN Unused ELSE engine[g]
    <3> HIDE DEF Initial
    <3> QED BY <1>1, UnusedFits DEF Engines
  <2>3. \A g \in Generations : e[g].state = "closed"
    <3> HIDE DEF e
    <3>1. \A g \in Generations : g # Initial => engine[g].state = "closed"
      BY <1>1, <1>2, InitialIsAlone DEF Alive, Engines
    <3> QED BY <2>2, <3>1 DEF Unused
  <2> HIDE DEF e
  <2> QED BY <1>2, <2>1, <2>2, <2>3, StopLastKeeps
<1>3. CASE StartupFails /\ main = "binding"
  BY <1>1, <1>3, StopLastKeeps DEF StartupFails, Abort
<1>4. CASE Drained
  BY <1>1, <1>4, StopLastKeeps DEF Drained
<1> QED BY <1>2, <1>3, <1>4 DEF StartupFails

\* The last generation is gone; no task launches one that it may be mistaken for.
LEMMA ClosedKeeps ==
  ASSUME Sound, IInv, Closed
  PROVE  IInv'
<1>1. /\ main \in {"closing", "aborting"} /\ main' = (IF main = "closing" THEN "stopped" ELSE "aborted")
      /\ engine' = (IF last = None THEN engine ELSE [engine EXCEPT ![last] = Unused])
      /\ UNCHANGED <<policy, runtime, queue, task, step, held, drain>>
  BY DEF Closed, store, worker
<1>2. engine \in Engines
  BY DEF Sound, TypeOK, Engines
<1>3. \A g \in Generations : engine'[g] = IF last # None /\ g = last THEN Unused ELSE engine[g]
  BY <1>1, <1>2 DEF Engines
<1>4. StepFits'
  <2>1. step = "stopping" => engine'[held].state \notin {"starting", "up"}
    BY <1>3 DEF IInv, StepFits, Unused
  <2>2. step = "starting" => engine'[held] = engine[held]
    BY <1>1, <1>3 DEF IInv, StepFits
  <2> QED BY <1>1, <2>1, <2>2 DEF IInv, StepFits, Replaces
<1>5. Quiet' /\ Served'
  BY <1>1 DEF Quiet, Served
<1>6. Single'
  BY <1>1, <1>3 DEF IInv, Single, Current, Alive, Unused
<1>7. NoBypass'
  BY <1>1, <1>3 DEF IInv, NoBypass, Serving, Unused
<1>8. Drains'
  BY <1>1 DEF IInv, Drains, Late
<1> QED BY <1>4, <1>5, <1>6, <1>7, <1>8 DEF IInv

LEMMA StandsStill ==
  ASSUME IInv, UNCHANGED vars
  PROVE  IInv'
<1>1. UNCHANGED <<policy, main, failed, runtime, engine, queue, task, step, held, sending, timer,
                  drain, last, unserved>>
  BY DEF vars
<1>2. StepFits' /\ Served'
  BY <1>1 DEF IInv, StepFits, Replaces, Served, Serving
<1>3. Quiet' /\ Single' /\ NoBypass'
  BY <1>1 DEF IInv, Quiet, Single, Current, Alive, NoBypass, Serving
<1>4. Drains'
  BY <1>1 DEF IInv, Drains, Late
<1> QED BY <1>2, <1>3, <1>4 DEF IInv

-----------------------------------------------------------------------------
(* The theorems *)

LEMMA InitKeeps == Init => IInv
<1> SUFFICES ASSUME Init PROVE IInv
  OBVIOUS
<1>1. PICK g \in Generations :
        engine = [h \in Generations |->
                    IF h = g THEN [state |-> "starting", config |-> policy] ELSE Unused]
  BY DEF Init
<1>2. /\ main = "launching" /\ runtime = None /\ queue = <<>> /\ task = Nothing /\ step = "idle"
      /\ held = None /\ sending = {} /\ timer = FALSE
  BY DEF Init
<1>3. /\ engine[g].state = "starting" /\ engine[g].config = policy
      /\ \A h \in Generations : h # g => engine[h].state = "closed"
  BY <1>1 DEF Unused
<1>4. StepFits /\ Single /\ Drains /\ Served
  BY <1>2 DEF StepFits, Single, Drains, Served, Replacing
<1>5. Quiet /\ NoBypass
  BY <1>2, <1>3 DEF Quiet, NoBypass, Serving, Alive
<1> QED BY <1>4, <1>5 DEF IInv

LEMMA StepKeeps == ContactAfterStart /\ Sound /\ IInv /\ [Next]_vars => IInv'
<1> SUFFICES ASSUME ContactAfterStart, Sound, IInv, [Next]_vars PROVE IInv'
  OBVIOUS
<1>1. CASE TaskStep
  BY <1>1, TakeKeeps, StoreTasksKeep, StopOldKeeps, OldStoppedKeeps, FailureKeeps, ApplyKeeps,
     LaunchKeeps, StartedKeeps DEF TaskStep
<1>2. CASE Ended \/ UNCHANGED vars
  BY <1>2, StandsStill DEF Ended
<1>3. CASE StartupLaunched \/ StartupFails \/ ServerClosed \/ Drained \/ Closed
  BY <1>3, StartupLaunchedKeeps, StopsKeep, ServerClosedKeeps, ClosedKeeps
<1> QED BY <1>1, <1>2, <1>3, OutsideKeeps DEF Next

LEMMA Keeping == ContactAfterStart /\ Spec => [](Sound /\ IInv)
<1> SUFFICES ASSUME ContactAfterStart PROVE Spec => [](Sound /\ IInv)
  OBVIOUS
<1>1. Init => Sound /\ IInv
  BY InitIsSound, InitKeeps
<1>2. Sound /\ IInv /\ [Next]_vars => Sound' /\ IInv'
  BY StepIsSound, StepKeeps
<1> QED BY <1>1, <1>2, PTL DEF Spec

\* An engine that serves never lets a device do more than the policy that is committed
\* then, however commands, enrollments, reloads, failures and shutdown mix, if peers do not
\* reach the engine of start-up before startVpn has returned.
THEOREM NoFlowOutlivesItsGrant == ContactAfterStart /\ Spec => []NoBypass
<1>1. IInv => NoBypass
  BY DEF IInv
<1> QED BY <1>1, Keeping, PTL

\* No two generations overlap, and a receiver at rest has one that serves, if peers do not
\* reach the engine of start-up before startVpn has returned.
THEOREM OneAtATime == ContactAfterStart /\ Spec => []OneGeneration
<1>1. Sound /\ IInv => OneGeneration
  <2> SUFFICES ASSUME Sound, IInv PROVE OneGeneration
    OBVIOUS
  <2>1. \A g, h \in Generations : Alive(g) /\ Alive(h) => g = h
    BY DEF IInv, Quiet, Single
  <2>2. main = "serving" /\ ~failed /\ ~unserved /\ task = Nothing =>
          runtime # None /\ Serving(runtime)
    BY DEF IInv, Served, StepFits, Replacing
  <2> QED BY <2>1, <2>2 DEF OneGeneration
<1> QED BY <1>1, Keeping, PTL

=============================================================================
