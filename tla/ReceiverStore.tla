--------------------------- MODULE ReceiverStore ---------------------------
(***************************************************************************)
(* The durable store of a receiver: class ReceiverState of                 *)
(* src/vpn/receiver-state.ts.  It owns one file, receiver.json, which      *)
(* holds the authorised devices and the outstanding invitations.  Every    *)
(* operation works on the copy in memory and saves a whole new state by    *)
(* writing a temporary file, renaming it over receiver.json and syncing    *)
(* the directory; only then does the new state become the copy in memory   *)
(* and the caller gets its answer.                                         *)
(*                                                                         *)
(* Operations are serialised (`serial`), so at most one save is under way. *)
(* Each await inside `save` is a point where the process may be killed,    *)
(* the machine may lose power, or the operation may fail.  The file as the *)
(* running kernel shows it (file) and as it is on stable storage (platter) *)
(* are therefore two variables: a rename changes the first, a directory    *)
(* sync carries it to the second.                                          *)
(***************************************************************************)
EXTENDS Integers, FiniteSets

CONSTANTS
  Keys,            \* public keys that may call enroll, the receiver's own among them
  ReceiverKey,     \* identity.receiverKey
  Secrets,         \* secrets of invitations (their digests identify them)
  Grants,          \* values checkedPorts accepts for allowTcp
  AllPorts,        \* the grant "all", given to a new device
  GrantInputs,     \* values a caller may pass as a grant
  First, Last,     \* poolRange(pool)
  ReceiverAddress, \* identity.receiverAddress
  MaxDevices,      \* MAX_DEVICES
  MaxInvitations,  \* MAX_INVITATIONS
  TTL,             \* life of an invitation
  MaxTime          \* bound of the model: the clock shows 0 .. MaxTime

ASSUME KeysAssumption   == ReceiverKey \in Keys
ASSUME GrantsAssumption == AllPorts \in Grants /\ Grants \subseteq GrantInputs
ASSUME RangeAssumption  == /\ {First, Last, ReceiverAddress} \subseteq Nat
                           /\ First <= Last
ASSUME LimitsAssumption == {MaxDevices, MaxInvitations, TTL, MaxTime} \subseteq Nat

VARIABLES
  directory,  \* the state directory exists
  file,       \* content of receiver.json, or Missing
  platter,    \* what a power loss leaves of it
  phase,      \* "closed", "idle", a stage of save, or "failed"
  opened,     \* `open` has returned a store to its caller
  state,      \* this.state
  next,       \* the argument of the save under way
  answer,     \* how the last operation ended, for its caller
  now,        \* this.now(): the wall clock
  issued,     \* history: secrets outstanding when some caller was told "done"
  spending,   \* the secret the enroll under way uses: {} or one
  spent       \* history: secrets whose use was answered "done"

vars == <<directory, file, platter, phase, opened, state, next, answer, now, issued, spending, spent>>
disk == <<directory, file, platter>>
history == <<issued, spent>>

Pool       == First .. Last
Exclusions == {{}} \cup {{a} : a \in Pool}      \* excludeAddress: absent, or one address
Devices    == [key : Keys, address : Nat, grant : Grants]
Pending    == [secret : Secrets, issuedAt : Nat, exclude : Exclusions]
States     == [version : {1}, devices : SUBSET Devices, invitations : SUBSET Pending]

Missing == [version |-> 0, devices |-> {}, invitations |-> {}]
Fresh   == [version |-> 1, devices |-> {}, invitations |-> {}]

Saving == {"staging", "renamed", "synced"}

-----------------------------------------------------------------------------
(* Readings of a state *)

SecretsOf(s)   == {i.secret : i \in s.invitations}
AddressesOf(s) == {d.address : d \in s.devices}
DeviceOf(s, k) == {d \in s.devices : d.key = k}

Live(i, t) == i.issuedAt <= t /\ t < i.issuedAt + TTL

\* validExclusion: the excluded address is one the pool could give out.
ValidExclusion(x) == \A a \in x : a \in Pool \ {ReceiverAddress}

\* validate: what `open` demands of receiver.json.
ValidDevices(D) ==
  /\ D \subseteq Devices
  /\ IsFiniteSet(D) /\ Cardinality(D) <= MaxDevices
  /\ \A d \in D : /\ d.key # ReceiverKey
                 /\ d.address \in Pool \ {ReceiverAddress}
  /\ \A d, e \in D : d.key = e.key \/ d.address = e.address => d = e

ValidInvitations(I) ==
  /\ I \subseteq Pending
  /\ IsFiniteSet(I) /\ Cardinality(I) <= MaxInvitations
  /\ \A i \in I : ValidExclusion(i.exclude)
  /\ \A i, j \in I : i.secret = j.secret => i = j

Valid(s) == s.version = 1 /\ ValidDevices(s.devices) /\ ValidInvitations(s.invitations)

-----------------------------------------------------------------------------
(* The save of a new state, stage by stage *)

\* An operation calls save(s) and waits for it; enroll does so to use a secret.
BeginSave(s, used) ==
  /\ phase' = "staging"
  /\ next' = s
  /\ spending' = used
  /\ answer' = "none"

\* The operation throws before it saves anything.
Refuse ==
  /\ phase = "idle"
  /\ answer' = "refused"
  /\ UNCHANGED <<disk, phase, opened, state, next, now, spending, history>>

\* The temporary file is written and synced; rename replaces receiver.json.
Rename ==
  /\ phase = "staging"
  /\ phase' = "renamed"
  /\ file' = next
  /\ UNCHANGED <<directory, platter, opened, state, next, answer, now, spending, history>>

\* Fault: the new state becomes the memory's, and is answered, without a sync.
SyncSkipped ==
  /\ phase = "renamed"
  /\ phase' = "synced"
  /\ UNCHANGED <<disk, opened, state, next, answer, now, spending, history>>

SyncDirectory ==
  /\ phase = "renamed"
  /\ phase' = "synced"
  /\ platter' = file
  /\ UNCHANGED <<directory, file, opened, state, next, answer, now, spending, history>>

\* this.state = next, the temporary name is gone already, the caller resumes.
Complete ==
  /\ phase = "synced"
  /\ phase' = "idle"
  /\ opened' = TRUE
  /\ state' = next
  /\ answer' = "done"
  /\ issued' = issued \cup SecretsOf(next)
  /\ spent' = spent \cup spending
  /\ spending' = {}
  /\ UNCHANGED <<disk, next, now>>

\* unlink(temp) fails after this.state = next: the caller sees an error, the
\* store goes on with the new state.  `open` fails and its process ends.
CompleteUnclean ==
  /\ phase = "synced"
  /\ IF opened THEN phase' = "idle" /\ state' = next /\ UNCHANGED next
               ELSE phase' = "closed" /\ state' = Fresh /\ next' = Fresh
  /\ answer' = "unclean"
  /\ spending' = {}
  /\ UNCHANGED <<disk, opened, now, history>>

\* Any step of save throws: failed = TRUE, whether or not the rename happened.
\* Clean-up can throw an error of its own in place of ReceiverStorageError.
SaveFails ==
  /\ phase \in Saving
  /\ phase' = IF opened THEN "failed" ELSE "closed"
  /\ answer' \in {"storage", "unclean"}
  /\ spending' = {}
  /\ UNCHANGED <<disk, opened, state, next, now, history>>

\* serial rejects every operation of a failed store.
RejectFailed ==
  /\ phase = "failed"
  /\ answer' = "storage"
  /\ UNCHANGED <<disk, phase, opened, state, next, now, spending, history>>

-----------------------------------------------------------------------------
(* The operations *)

\* open, first run: mkdir, then the empty state is saved.
Create ==
  /\ phase = "closed"
  /\ ~directory
  /\ directory' = TRUE
  /\ state' = Fresh
  /\ BeginSave(Fresh, {})
  /\ UNCHANGED <<file, platter, opened, now, history>>

\* open, later runs: the file is read and validated, or open throws.
Reopen ==
  /\ phase = "closed"
  /\ directory
  /\ Valid(file)
  /\ phase' = "idle"
  /\ opened' = TRUE
  /\ state' = file
  /\ next' = file
  /\ answer' = "none"
  /\ UNCHANGED <<disk, now, spending, history>>

\* Its answer says nothing of a change.
List ==
  /\ phase = "idle"
  /\ answer' = "none"
  /\ UNCHANGED <<disk, phase, opened, state, next, now, spending, history>>

\* randomBytes(32) never repeats a secret that is on disk or that anyone holds.
Undrawn == Secrets \ (issued \cup spent \cup SecretsOf(file) \cup SecretsOf(platter))

\* The invitations createInvitation keeps beside the new one.
Outstanding == {i \in state.invitations : Live(i, now)}

RoomForInvitation == Cardinality(Outstanding) < MaxInvitations

\* Fault: the exclusion is checked against the pool's range and no more.
ExclusionUnchecked(x) == x \subseteq Pool /\ x \cap AddressesOf(state) = {}

AcceptableExclusion(x) == ValidExclusion(x) /\ x \cap AddressesOf(state) = {}

CreateInvitation(s, x) ==
  /\ phase = "idle"
  /\ AcceptableExclusion(x)
  /\ RoomForInvitation
  /\ BeginSave([state EXCEPT !.invitations =
                  Outstanding \cup {[secret |-> s, issuedAt |-> now, exclude |-> x]}], {})
  /\ UNCHANGED <<disk, opened, state, now, history>>

RefuseInvitation(x) ==
  /\ ~(AcceptableExclusion(x) /\ RoomForInvitation)
  /\ Refuse

\* The entry enroll finds for a secret: none, or exactly one.
Usable(s) == {i \in state.invitations : i.secret = s /\ Live(i, now)}

\* Fault: the dialer's exclusion is forgotten when an address is looked for.
FreeIgnoringExclusion(i) == Pool \ ({ReceiverAddress} \cup AddressesOf(state))

Free(i) == Pool \ ({ReceiverAddress} \cup AddressesOf(state) \cup i.exclude)

Lowest(S) == CHOOSE n \in S : \A m \in S : n <= m

\* Fault: the invitation that admitted the device stays outstanding.
KeptUnspent(i) == {j \in state.invitations : Live(j, now)}

\* The invitations that stay after i has admitted a device.
KeptAfter(i) == {j \in state.invitations : j # i /\ Live(j, now)}

\* A key that is enrolled already keeps its address and its grant.
Renew(k, i) ==
  /\ DeviceOf(state, k) # {}
  /\ \A d \in DeviceOf(state, k) : d.address \notin i.exclude
  /\ BeginSave([state EXCEPT !.invitations = KeptAfter(i)], {i.secret})

RoomForDevice == Cardinality(state.devices) < MaxDevices

Admit(k, i) ==
  /\ DeviceOf(state, k) = {}
  /\ RoomForDevice
  /\ Free(i) # {}
  /\ BeginSave([state EXCEPT
       !.devices = @ \cup {[key |-> k, address |-> Lowest(Free(i)), grant |-> AllPorts]},
       !.invitations = KeptAfter(i)], {i.secret})

\* Fault: a key that enrolls again is given a new place and the default grant.
AdmitAfresh(k, i) ==
  /\ RoomForDevice \/ DeviceOf(state, k) # {}
  /\ Free(i) # {}
  /\ BeginSave([state EXCEPT
       !.devices = (@ \ DeviceOf(state, k)) \cup
                   {[key |-> k, address |-> Lowest(Free(i)), grant |-> AllPorts]},
       !.invitations = KeptAfter(i)], {i.secret})

Accept(k, i) == Renew(k, i) \/ Admit(k, i)

Enroll(k, s) ==
  /\ phase = "idle"
  /\ k # ReceiverKey
  /\ \E i \in Usable(s) : Accept(k, i)
  /\ UNCHANGED <<disk, opened, state, now, history>>

\* unusable, excluded, capacity, pool: thrown before anything is saved.
RefuseEnrollment(k, s) ==
  /\ \/ k = ReceiverKey
     \/ Usable(s) = {}
     \/ \E i \in Usable(s) :
          \/ \E d \in DeviceOf(state, k) : d.address \in i.exclude
          \/ DeviceOf(state, k) = {} /\ (~RoomForDevice \/ Free(i) = {})
  /\ Refuse

\* Fault: the grant is taken as the caller passed it.
GrantUnchecked(k, g) ==
  /\ phase = "idle"
  /\ \E d \in DeviceOf(state, k) :
       BeginSave([state EXCEPT !.devices = (@ \ {d}) \cup {[d EXCEPT !.grant = g]}], {})
  /\ UNCHANGED <<disk, opened, state, now, history>>

Grant(k, g) ==
  /\ phase = "idle"
  /\ g \in Grants
  /\ \E d \in DeviceOf(state, k) :
       BeginSave([state EXCEPT !.devices = (@ \ {d}) \cup {[d EXCEPT !.grant = g]}], {})
  /\ UNCHANGED <<disk, opened, state, now, history>>

Revoke(k) ==
  /\ phase = "idle"
  /\ DeviceOf(state, k) # {}
  /\ BeginSave([state EXCEPT !.devices = @ \ DeviceOf(state, k)], {})
  /\ UNCHANGED <<disk, opened, state, now, history>>

RefusePolicy(k, g) ==
  /\ g \notin Grants \/ DeviceOf(state, k) = {}
  /\ Refuse

-----------------------------------------------------------------------------
(* The world around the store *)

\* The wall clock is set, forward or back, or runs on.
Tick(t) ==
  /\ now' = t
  /\ UNCHANGED <<disk, phase, opened, state, next, answer, spending, history>>

Halted ==
  /\ phase' = "closed"
  /\ opened' = FALSE
  /\ state' = Fresh
  /\ next' = Fresh
  /\ answer' = "none"
  /\ spending' = {}
  /\ UNCHANGED <<now, history>>

\* The process exits or is killed, at any stage of a save.
Exit ==
  /\ phase # "closed"
  /\ Halted
  /\ UNCHANGED disk

\* Power is lost: an entry not yet synced may or may not have reached the disk,
\* and so may the directory until its first sync. That sync is taken to settle the directory
\* as well, though nothing ever syncs its parent.
PowerLoss ==
  /\ Halted
  /\ file' \in {file, platter}
  /\ platter' = file'
  /\ directory' \in (IF file' = Missing THEN {directory, FALSE} ELSE {directory})

Init ==
  /\ directory = FALSE
  /\ file = Missing /\ platter = Missing
  /\ phase = "closed" /\ opened = FALSE
  /\ state = Fresh /\ next = Fresh
  /\ answer = "none"
  /\ now = 0
  /\ issued = {} /\ spending = {} /\ spent = {}

Operation ==
  \/ List
  \/ \E x \in {{}} \cup {{a} : a \in First - 1 .. Last} :
       \/ RefuseInvitation(x)
       \/ \E s \in Undrawn : CreateInvitation(s, x)
  \/ \E k \in Keys, s \in Secrets : Enroll(k, s) \/ RefuseEnrollment(k, s)
  \/ \E k \in Keys, g \in GrantInputs : Grant(k, g) \/ RefusePolicy(k, g)
  \/ \E k \in Keys : Revoke(k)

Next ==
  \/ Create \/ Reopen
  \/ Operation
  \/ Rename \/ SyncDirectory \/ Complete \/ CompleteUnclean
  \/ SaveFails \/ RejectFailed
  \/ \E t \in 0 .. MaxTime : Tick(t)
  \/ Exit \/ PowerLoss

Spec == Init /\ [][Next]_vars

-----------------------------------------------------------------------------
(* Properties *)

TypeOK ==
  /\ directory \in BOOLEAN /\ opened \in BOOLEAN
  /\ file \in States \cup {Missing}
  /\ platter \in States \cup {Missing}
  /\ phase \in {"closed", "idle", "failed"} \cup Saving
  /\ state \in States
  /\ next \in States
  /\ answer \in {"none", "done", "refused", "storage", "unclean"}
  /\ now \in 0 .. MaxTime
  /\ issued \subseteq Secrets
  /\ spending \subseteq Secrets
  /\ spent \subseteq Secrets

\* Whatever the store has written, at any instant and after any crash, is a
\* file that `open` accepts: no sequence of operations, failures and crashes
\* makes the receiver lock itself out with a state its own validate refuses.
\* The directory without a file, which open refuses for good, arises only
\* before the store has ever answered a caller.
ReopenAccepts ==
  /\ \A f \in {file, platter} : f # Missing => Valid(f)
  /\ issued # {} => file # Missing /\ platter # Missing

\* A caller that was told "done" can rely on it: what it was told is what memory, the
\* visible file and stable storage all hold.  And decisions are taken from what a restart
\* would read: as long as the store serves operations, its memory is receiver.json's.
DoneIsDurable ==
  /\ answer = "done" => state = file /\ file = platter
  /\ phase = "idle" => state = file

\* An invitation whose use was answered never comes back, neither in the
\* visible file nor through a power loss, so it cannot admit a second device.
SpentStaysSpent ==
  spent \cap (SecretsOf(file) \cup SecretsOf(platter) \cup SecretsOf(state)) = {}

SamePlaces(f, g) ==
  \A d \in f.devices, e \in g.devices : d.key = e.key =>
    /\ d.address = e.address
    /\ d.grant = e.grant \/ f.invitations = g.invitations

\* Across every step but a power loss a device keeps the address it was given,
\* and its grant changes only by a save that touches no invitation: enrolling
\* again never moves a device nor widens what it may reach.
DevicesKeepTheirPlace == [][PowerLoss \/ SamePlaces(file, file')]_vars

\* The store keeps the promise of AdmissionLedger: the rename is the moment the
\* ledger changes, the directory sync the moment it settles, and an error other
\* than a refusal leaves the outcome open.
Ledger(f) == [f EXCEPT !.invitations = {[secret |-> i.secret, exclude |-> i.exclude] : i \in @}]

Outcome == IF answer \in {"storage", "unclean"} THEN "unknown" ELSE answer

Promise == INSTANCE AdmissionLedger WITH
             Pool    <- Pool \ {ReceiverAddress},
             ledger  <- Ledger(file),
             settled <- Ledger(platter),
             changed <- phase \in {"renamed", "synced"},
             answer  <- Outcome

KeepsPromise == Promise!Spec

=============================================================================
