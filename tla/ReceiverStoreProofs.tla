------------------------ MODULE ReceiverStoreProofs ------------------------
(***************************************************************************)
(* Proofs about ReceiverStore for any keys, secrets, pool, limits and      *)
(* clock: its type correctness, the properties MCReceiverStore checks on a *)
(* small instance, and that it implements AdmissionLedger.                 *)
(***************************************************************************)
EXTENDS ReceiverStore, FiniteSetTheorems, WellFoundedInduction, TLAPS

-----------------------------------------------------------------------------
(* Facts about the operators *)

\* A nonempty set of natural numbers has a least element.
LEMMA LeastExists ==
  ASSUME NEW S \in SUBSET Nat, S # {}
  PROVE  \E x \in S : \A y \in S : x <= y
<1> DEFINE R == OpToRel(<, Nat)
<1>1. IsWellFoundedOn(R, Nat)
  BY NatLessThanWellFounded
<1>2. \A x, y \in Nat : y < x => <<y, x>> \in R
  BY DEF OpToRel
<1> HIDE DEF R
<1>3. PICK x \in S : \A y \in S : <<y, x>> \notin R
  BY <1>1, WFMin
<1>4. x \in Nat /\ \A y \in S : y \in Nat /\ ~(y < x)
  BY <1>2, <1>3
<1>5. \A y \in S : x <= y
  BY <1>4
<1> QED BY <1>5

\* The loop over the pool ends at an address whenever one is free, and enroll picks it.
LEMMA LowestIsFree ==
  ASSUME NEW i, Free(i) # {}
  PROVE  Lowest(Free(i)) \in Free(i)
<1>1. Free(i) \in SUBSET Nat
  BY RangeAssumption DEF Free, Pool
<1>2. \E n \in Free(i) : \A m \in Free(i) : n <= m
  BY <1>1, LeastExists
<1> QED BY <1>2 DEF Lowest

\* Devices go and the rest stays valid; so do invitations.
LEMMA FewerDevices ==
  ASSUME NEW D, ValidDevices(D), NEW E \in SUBSET D
  PROVE  ValidDevices(E)
<1>1. IsFiniteSet(E) /\ Cardinality(E) <= Cardinality(D)
  BY FS_Subset DEF ValidDevices
<1>2. Cardinality(E) <= MaxDevices
  BY <1>1, FS_CardinalityType, LimitsAssumption DEF ValidDevices
<1> QED BY <1>1, <1>2 DEF ValidDevices

\* Invitations go, by use or expiry, and the rest stays valid.
LEMMA FewerInvitations ==
  ASSUME NEW I, ValidInvitations(I), NEW J \in SUBSET I
  PROVE  ValidInvitations(J)
<1>1. IsFiniteSet(J) /\ Cardinality(J) <= Cardinality(I)
  BY FS_Subset DEF ValidInvitations
<1>2. Cardinality(J) <= MaxInvitations
  BY <1>1, FS_CardinalityType, LimitsAssumption DEF ValidInvitations
<1> QED BY <1>1, <1>2 DEF ValidInvitations

\* A device with a key and an address of its own fits if there is room.
LEMMA OneMoreDevice ==
  ASSUME NEW D, ValidDevices(D), Cardinality(D) < MaxDevices,
         NEW d \in Devices,
         d.key # ReceiverKey, d.address \in Pool \ {ReceiverAddress},
         \A e \in D : e.key # d.key /\ e.address # d.address
  PROVE  ValidDevices(D \cup {d})
<1>1. IsFiniteSet(D) /\ Cardinality(D) \in Nat
  BY FS_CardinalityType DEF ValidDevices
<1>2. /\ IsFiniteSet(D \cup {d})
      /\ Cardinality(D \cup {d}) = IF d \in D THEN Cardinality(D) ELSE Cardinality(D) + 1
  BY <1>1, FS_AddElement, Zenon
<1>3. Cardinality(D \cup {d}) <= MaxDevices
  BY <1>1, <1>2, LimitsAssumption
<1> QED BY <1>2, <1>3 DEF ValidDevices

\* A device may be replaced by one with its key and address.
LEMMA DeviceReplaced ==
  ASSUME NEW D, ValidDevices(D), NEW d \in D, NEW e \in Devices,
         e.key = d.key, e.address = d.address
  PROVE  ValidDevices((D \ {d}) \cup {e})
<1>1. IsFiniteSet(D) /\ Cardinality(D) \in Nat
  BY FS_CardinalityType DEF ValidDevices
<1>2. IsFiniteSet(D \ {d}) /\ Cardinality(D \ {d}) = Cardinality(D) - 1
  BY <1>1, FS_RemoveElement
<1>3. ValidDevices(D \ {d})
  BY FewerDevices
<1>4. Cardinality(D \ {d}) < MaxDevices
  BY <1>1, <1>2, LimitsAssumption DEF ValidDevices
<1>5. \A f \in D \ {d} : f.key # e.key /\ f.address # e.address
  BY DEF ValidDevices
<1>6. e.key # ReceiverKey /\ e.address \in Pool \ {ReceiverAddress}
  BY DEF ValidDevices
<1> QED BY <1>3, <1>4, <1>5, <1>6, OneMoreDevice

\* An invitation with a secret of its own fits if there is room.
LEMMA OneMoreInvitation ==
  ASSUME NEW I, ValidInvitations(I), Cardinality(I) < MaxInvitations,
         NEW i \in Pending, ValidExclusion(i.exclude),
         \A j \in I : j.secret # i.secret
  PROVE  ValidInvitations(I \cup {i})
<1>1. IsFiniteSet(I) /\ Cardinality(I) \in Nat
  BY FS_CardinalityType DEF ValidInvitations
<1>2. /\ IsFiniteSet(I \cup {i})
      /\ Cardinality(I \cup {i}) = IF i \in I THEN Cardinality(I) ELSE Cardinality(I) + 1
  BY <1>1, FS_AddElement, Zenon
<1>3. Cardinality(I \cup {i}) <= MaxInvitations
  BY <1>1, <1>2, LimitsAssumption
<1> QED BY <1>2, <1>3 DEF ValidInvitations

\* A store with nothing in it is valid (the first save of open).
LEMMA NothingIsValid ==
  ValidDevices({}) /\ ValidInvitations({})
BY FS_EmptySet, LimitsAssumption DEF ValidDevices, ValidInvitations

-----------------------------------------------------------------------------
(* The inductive invariant *)

\* Every state in memory or on disk is one that validate accepts.
Files ==
  /\ file # Missing => Valid(file)
  /\ platter # Missing => Valid(platter)
  /\ Valid(state) /\ Valid(next)

\* How far the save under way has carried the new state.
Stages ==
  /\ phase \in {"idle", "failed"} => opened
  /\ phase = "closed" => ~opened
  /\ phase = "idle" \/ (phase = "staging" /\ opened) => state = file
  /\ phase = "staging" => SamePlaces(file, next)
  /\ phase \in {"renamed", "synced"} => file = next
  /\ phase = "synced" => platter = next
  /\ answer = "done" => phase = "idle" /\ file = platter
  /\ ~directory => file = Missing /\ phase = "closed"
  /\ file = Missing => platter = Missing
  /\ issued # {} => platter # Missing

\* A secret in use is on its way out; one that was used is nowhere.
Uses ==
  /\ spending # {} => phase \in Saving
  /\ spending \cap SecretsOf(next) = {}
  /\ \A s \in {file, platter, state, next} : spent \cap SecretsOf(s) = {}

IInv == TypeOK /\ Files /\ Stages /\ Uses

-----------------------------------------------------------------------------
(* The states the operations save *)

\* The state open saves first is one it accepts later.
LEMMA FreshIsValid == Fresh \in States /\ Valid(Fresh) /\ SecretsOf(Fresh) = {}
BY NothingIsValid DEF Fresh, States, Valid, SecretsOf

\* No file is not a state, and holds no secret.
LEMMA MissingHasNoSecrets == SecretsOf(Missing) = {} /\ Missing \notin States
BY DEF Missing, States, SecretsOf

\* What an operation must show of the state it saves to keep the invariant.
Savable(n, u) ==
  /\ n \in States /\ Valid(n)
  /\ SamePlaces(state, n)
  /\ SecretsOf(n) \cap (spent \cup u) = {}

\* An operation that begins to save a savable state keeps the invariant.
LEMMA SavingKeepsIInv ==
  ASSUME IInv, phase = "idle", NEW n, NEW u \in SUBSET Secrets, Savable(n, u),
         BeginSave(n, u), UNCHANGED <<disk, opened, state, now, history>>
  PROVE  IInv'
<1>1. /\ phase' = "staging" /\ next' = n /\ spending' = u /\ answer' = "none"
      /\ directory' = directory /\ file' = file /\ platter' = platter
      /\ opened' = opened /\ state' = state /\ now' = now
      /\ issued' = issued /\ spent' = spent
  BY DEF BeginSave, disk, history
<1>2. TypeOK'
  BY <1>1 DEF IInv, TypeOK, Savable, Saving
<1>3. Files'
  BY <1>1 DEF IInv, Files, Savable, Valid
<1>4. Stages'
  BY <1>1 DEF IInv, Stages, Savable, SamePlaces
<1>5. Uses'
  BY <1>1 DEF IInv, Uses, Savable, SecretsOf, Saving
<1> QED BY <1>2, <1>3, <1>4, <1>5 DEF IInv

\* createInvitation saves a savable state.
LEMMA InvitationIsSavable ==
  ASSUME IInv, phase = "idle", NEW s \in Undrawn, NEW x,
         ValidExclusion(x), x \in {{}} \cup {{a} : a \in First - 1 .. Last},
         RoomForInvitation
  PROVE  Savable([state EXCEPT !.invitations =
                    Outstanding \cup {[secret |-> s, issuedAt |-> now, exclude |-> x]}], {})
<1> DEFINE i == [secret |-> s, issuedAt |-> now, exclude |-> x]
           n == [state EXCEPT !.invitations = Outstanding \cup {i}]
<1>1. state = file /\ state \in States /\ Valid(state) /\ now \in Nat
  BY LimitsAssumption DEF IInv, TypeOK, Files, Stages
<1>2. x \in Exclusions
  BY DEF Exclusions, ValidExclusion, Pool
<1>3. i \in Pending
  BY <1>1, <1>2 DEF Pending, Undrawn
<1>4. Outstanding \subseteq state.invitations
  BY DEF Outstanding
<1>5. ValidInvitations(Outstanding)
  BY <1>1, <1>4, FewerInvitations DEF Valid
<1>6. \A j \in Outstanding : j.secret # i.secret
  BY <1>1, <1>4 DEF Undrawn, SecretsOf
<1>7. ValidInvitations(Outstanding \cup {i})
  <2>1. Cardinality(Outstanding) < MaxInvitations
    BY DEF RoomForInvitation
  <2>2. ValidExclusion(i.exclude)
    OBVIOUS
  <2> QED BY <1>3, <1>5, <1>6, <2>1, <2>2, OneMoreInvitation
<1>8. n.version = 1 /\ n.devices = state.devices /\ n.invitations = Outstanding \cup {i}
  BY <1>1 DEF States
<1>9. Valid(n)
  BY <1>1, <1>7, <1>8 DEF Valid
<1>10. n \in States
  BY <1>1, <1>7, <1>8 DEF States, ValidInvitations
<1>11. SamePlaces(state, n)
  BY <1>1, <1>8 DEF SamePlaces, Valid, ValidDevices
<1>12. SecretsOf(n) \cap (spent \cup {}) = {}
  <2>1. \A j \in Outstanding : j.secret \notin spent
    BY <1>1, <1>4 DEF IInv, Uses, SecretsOf
  <2>2. i.secret \notin spent
    BY DEF Undrawn
  <2> QED BY <1>8, <2>1, <2>2 DEF SecretsOf
<1> QED BY <1>9, <1>10, <1>11, <1>12 DEF Savable

\* The invitation that admits a device leaves no entry with its secret behind.
LEMMA UseIsFinal ==
  ASSUME IInv, NEW i \in state.invitations
  PROVE  /\ ValidInvitations(KeptAfter(i))
         /\ \A j \in KeptAfter(i) : j.secret \notin spent \cup {i.secret}
<1>1. KeptAfter(i) \subseteq state.invitations /\ ValidInvitations(state.invitations)
  BY DEF KeptAfter, IInv, Files, Valid
<1>2. ValidInvitations(KeptAfter(i))
  BY <1>1, FewerInvitations
<1>3. \A j \in KeptAfter(i) : j.secret \notin spent
  BY <1>1 DEF IInv, Uses, SecretsOf
<1>4. \A j \in KeptAfter(i) : j.secret # i.secret
  BY <1>1 DEF KeptAfter, ValidInvitations
<1> QED BY <1>2, <1>3, <1>4

\* enroll keeps the invariant, for a known key and for a new one.
LEMMA EnrollKeepsIInv ==
  ASSUME IInv, NEW k \in Keys, NEW s \in Secrets, Enroll(k, s)
  PROVE  IInv'
<1>1. PICK i \in Usable(s) : Accept(k, i)
  BY DEF Enroll
<1>2. /\ phase = "idle" /\ k # ReceiverKey
      /\ UNCHANGED <<disk, opened, state, now, history>>
  BY DEF Enroll
<1>3. state = file /\ state \in States /\ Valid(state)
  BY <1>2 DEF IInv, TypeOK, Files, Stages
<1>4. i \in state.invitations /\ {i.secret} \in SUBSET Secrets
  BY <1>3 DEF Usable, States, Pending
<1>5. /\ ValidInvitations(KeptAfter(i)) /\ KeptAfter(i) \subseteq Pending
      /\ \A j \in KeptAfter(i) : j.secret \notin spent \cup {i.secret}
  BY <1>4, UseIsFinal DEF ValidInvitations
<1>6. CASE Renew(k, i)
  <2> DEFINE n == [state EXCEPT !.invitations = KeptAfter(i)]
  <2>1. n.version = 1 /\ n.devices = state.devices /\ n.invitations = KeptAfter(i)
    BY <1>3 DEF States
  <2>2. n \in States /\ Valid(n)
    BY <1>3, <1>5, <2>1 DEF States, Valid
  <2>3. SamePlaces(state, n)
    BY <1>3, <2>1 DEF SamePlaces, Valid, ValidDevices
  <2>4. SecretsOf(n) \cap (spent \cup {i.secret}) = {}
    BY <1>5, <2>1 DEF SecretsOf
  <2>5. Savable(n, {i.secret})
    BY <2>2, <2>3, <2>4 DEF Savable
  <2>6. BeginSave(n, {i.secret})
    BY <1>6 DEF Renew
  <2> QED BY <1>2, <1>4, <2>5, <2>6, SavingKeepsIInv
<1>7. CASE Admit(k, i)
  <2> DEFINE a == Lowest(Free(i))
             d == [key |-> k, address |-> a, grant |-> AllPorts]
             n == [state EXCEPT !.devices = @ \cup {d}, !.invitations = KeptAfter(i)]
  <2>1. a \in Free(i)
    BY <1>7, LowestIsFree DEF Admit
  <2>2. a \in Pool \ {ReceiverAddress} /\ a \in Nat /\ a \notin AddressesOf(state)
    BY <2>1, RangeAssumption DEF Free, Pool
  <2> HIDE DEF a
  <2>3. d \in Devices
    BY <2>2, GrantsAssumption DEF Devices
  <2>4. \A e \in state.devices : e.key # d.key /\ e.address # d.address
    BY <1>7, <2>2 DEF Admit, DeviceOf, AddressesOf
  <2>5. ValidDevices(state.devices \cup {d})
    <3>1. Cardinality(state.devices) < MaxDevices
      BY <1>7 DEF Admit, RoomForDevice
    <3>2. d.key # ReceiverKey /\ d.address \in Pool \ {ReceiverAddress}
      BY <1>2, <2>2
    <3>3. ValidDevices(state.devices)
      BY <1>3 DEF Valid
    <3> QED BY <2>3, <2>4, <3>1, <3>2, <3>3, OneMoreDevice
  <2> HIDE DEF d
  <2>6. /\ n.version = 1 /\ n.devices = state.devices \cup {d}
        /\ n.invitations = KeptAfter(i)
    BY <1>3 DEF States
  <2>7. n \in States /\ Valid(n)
    BY <1>3, <1>5, <2>5, <2>6 DEF States, Valid, ValidDevices
  <2>8. SamePlaces(state, n)
    BY <1>3, <2>4, <2>6 DEF SamePlaces, Valid, ValidDevices
  <2>9. SecretsOf(n) \cap (spent \cup {i.secret}) = {}
    BY <1>5, <2>6 DEF SecretsOf
  <2>10. Savable(n, {i.secret})
    BY <2>7, <2>8, <2>9 DEF Savable
  <2>11. BeginSave(n, {i.secret})
    BY <1>7 DEF Admit, d, a
  <2> QED BY <1>2, <1>4, <2>10, <2>11, SavingKeepsIInv
<1> QED BY <1>1, <1>6, <1>7 DEF Accept

\* grant and revoke keep the invariant.
LEMMA PolicyKeepsIInv ==
  ASSUME IInv, NEW k \in Keys, NEW g \in GrantInputs, Grant(k, g) \/ Revoke(k)
  PROVE  IInv'
<1>1. phase = "idle" /\ UNCHANGED <<disk, opened, state, now, history>>
  BY DEF Grant, Revoke
<1>2. state = file /\ state \in States /\ Valid(state)
  BY <1>1 DEF IInv, TypeOK, Files, Stages
<1>3. SecretsOf(state) \cap spent = {}
  BY DEF IInv, Uses
<1>4. CASE Grant(k, g)
  <2>1. PICK d \in DeviceOf(state, k) :
          BeginSave([state EXCEPT !.devices = (@ \ {d}) \cup {[d EXCEPT !.grant = g]}], {})
    BY <1>4 DEF Grant
  <2> DEFINE e == [d EXCEPT !.grant = g]
             n == [state EXCEPT !.devices = (@ \ {d}) \cup {e}]
  <2>2. d \in state.devices /\ d \in Devices /\ g \in Grants
    BY <1>2, <1>4 DEF DeviceOf, States, Grant
  <2>3. e \in Devices /\ e.key = d.key /\ e.address = d.address
    BY <2>2 DEF Devices
  <2> HIDE DEF e
  <2>4. ValidDevices((state.devices \ {d}) \cup {e})
    BY <1>2, <2>2, <2>3, DeviceReplaced DEF Valid
  <2>5. /\ n.version = 1 /\ n.devices = (state.devices \ {d}) \cup {e}
        /\ n.invitations = state.invitations
    BY <1>2 DEF States
  <2>6. n \in States /\ Valid(n)
    BY <1>2, <2>4, <2>5 DEF States, Valid, ValidDevices
  <2>7. SamePlaces(state, n)
    BY <1>2, <2>2, <2>3, <2>5 DEF SamePlaces, Valid, ValidDevices
  <2>8. Savable(n, {})
    BY <1>3, <2>5, <2>6, <2>7 DEF Savable, SecretsOf
  <2>9. BeginSave(n, {})
    BY <2>1 DEF e
  <2> QED BY <1>1, <2>8, <2>9, SavingKeepsIInv
<1>5. CASE Revoke(k)
  <2> DEFINE D == state.devices \ DeviceOf(state, k)
             n == [state EXCEPT !.devices = D]
  <2>1. ValidDevices(D)
    BY <1>2, FewerDevices DEF Valid
  <2>2. n.version = 1 /\ n.devices = D /\ n.invitations = state.invitations
    BY <1>2 DEF States
  <2>3. n \in States /\ Valid(n)
    BY <1>2, <2>1, <2>2 DEF States, Valid, ValidDevices
  <2>4. SamePlaces(state, n)
    BY <1>2, <2>2 DEF SamePlaces, Valid, ValidDevices
  <2>5. Savable(n, {})
    BY <1>3, <2>2, <2>3, <2>4 DEF Savable, SecretsOf
  <2>6. BeginSave(n, {})
    BY <1>5 DEF Revoke
  <2> QED BY <1>1, <2>5, <2>6, SavingKeepsIInv
<1> QED BY <1>4, <1>5

-----------------------------------------------------------------------------
(* The invariant *)

\* Before the first open the invariant holds.
LEMMA InitEstablishesIInv == Init => IInv
<1> SUFFICES ASSUME Init PROVE IInv
  OBVIOUS
<1> USE FreshIsValid, MissingHasNoSecrets DEF Init
<1>1. TypeOK
  <2>1. now \in 0 .. MaxTime
    BY LimitsAssumption
  <2> QED BY <2>1 DEF TypeOK
<1>2. Files
  BY DEF Files
<1>3. Stages
  BY DEF Stages, SamePlaces, Fresh, Missing
<1>4. Uses
  BY DEF Uses
<1> QED BY <1>1, <1>2, <1>3, <1>4 DEF IInv

\* A step that leaves the store as it is, its answer apart.
LEMMA AnswerKeepsIInv ==
  ASSUME IInv, answer' \in {"none", "refused", "storage"},
         UNCHANGED <<disk, phase, opened, state, next, now, spending, history>>
  PROVE  IInv'
<1> USE DEF disk, history
<1>1. TypeOK'
  BY DEF IInv, TypeOK, Saving
<1>2. Files' /\ Uses'
  BY DEF IInv, Files, Uses, Valid, SecretsOf, Saving
<1>3. Stages'
  BY DEF IInv, Stages, SamePlaces
<1> QED BY <1>1, <1>2, <1>3 DEF IInv

\* The end of the process and the loss of power keep the invariant.
LEMMA HaltKeepsIInv ==
  ASSUME IInv, Exit \/ PowerLoss
  PROVE  IInv'
<1>1. /\ phase' = "closed" /\ opened' = FALSE /\ state' = Fresh /\ next' = Fresh
      /\ answer' = "none" /\ spending' = {} /\ now' = now
      /\ issued' = issued /\ spent' = spent
  BY DEF Exit, PowerLoss, Halted, history
<1>2. /\ file' \in {file, platter} /\ platter' \in {file, platter}
      /\ directory' \in BOOLEAN
      /\ ~directory' => file' = Missing
      /\ file' = Missing => platter' = Missing
      /\ platter' = Missing => platter = Missing
  BY DEF Exit, PowerLoss, disk, IInv, TypeOK, Stages
<1>3. TypeOK'
  BY <1>1, <1>2, FreshIsValid DEF IInv, TypeOK
<1>4. Files'
  BY <1>1, <1>2, FreshIsValid DEF IInv, Files, Valid
<1>5. Stages'
  BY <1>1, <1>2 DEF IInv, Stages
<1>6. Uses'
  BY <1>1, <1>2, FreshIsValid DEF IInv, Uses, SecretsOf, Saving
<1> QED BY <1>3, <1>4, <1>5, <1>6 DEF IInv

\* The stages of save, from the rename to its end or its failure.
LEMMA SaveKeepsIInv ==
  ASSUME IInv,
         Rename \/ SyncDirectory \/ Complete \/ CompleteUnclean \/ SaveFails
  PROVE  IInv'
<1>1. next \in States /\ next # Missing /\ Valid(next) /\ state \in States
  BY MissingHasNoSecrets DEF IInv, TypeOK, Files
<1>2. CASE Rename
  <2> USE <1>2 DEF Rename, history
  <2>1. TypeOK'
    BY <1>1 DEF IInv, TypeOK, Saving
  <2>2. Files' /\ Uses'
    BY <1>1 DEF IInv, Files, Uses, Valid, SecretsOf, Saving
  <2>3. Stages'
    BY <1>1, MissingHasNoSecrets DEF IInv, Stages, TypeOK, States, Missing
  <2> QED BY <2>1, <2>2, <2>3 DEF IInv
<1>3. CASE SyncDirectory
  <2> USE <1>3 DEF SyncDirectory, history
  <2>1. TypeOK'
    BY <1>1 DEF IInv, TypeOK, Saving
  <2>2. Files' /\ Uses'
    BY <1>1 DEF IInv, Files, Uses, Valid, SecretsOf, Saving
  <2>3. Stages'
    BY <1>1 DEF IInv, Stages
  <2> QED BY <2>1, <2>2, <2>3 DEF IInv
<1>4. CASE Complete
  <2> USE <1>4 DEF Complete, disk
  <2>1. file = next /\ platter = next
    BY DEF IInv, Stages
  <2>2. TypeOK'
    <3>1. SecretsOf(next) \subseteq Secrets
      BY <1>1 DEF SecretsOf, States, Pending
    <3> QED BY <1>1, <3>1 DEF IInv, TypeOK
  <2>3. Files'
    BY <1>1 DEF IInv, Files, Valid
  <2>4. Stages'
    BY <1>1, <2>1 DEF IInv, Stages
  <2>5. Uses'
    BY <2>1 DEF IInv, Uses, SecretsOf
  <2> QED BY <2>2, <2>3, <2>4, <2>5 DEF IInv
<1>5. CASE CompleteUnclean
  <2> USE <1>5 DEF CompleteUnclean, disk, history
  <2>1. file = next /\ platter = next
    BY DEF IInv, Stages
  <2>2. TypeOK'
    BY <1>1, FreshIsValid DEF IInv, TypeOK
  <2>3. Files'
    BY <1>1, FreshIsValid DEF IInv, Files, Valid
  <2>4. Stages'
    BY <1>1, <2>1 DEF IInv, Stages, TypeOK
  <2>5. Uses'
    BY <2>1, FreshIsValid DEF IInv, Uses, SecretsOf, Saving
  <2> QED BY <2>2, <2>3, <2>4, <2>5 DEF IInv
<1>6. CASE SaveFails
  <2> USE <1>6 DEF SaveFails, disk, history, Saving
  <2>1. TypeOK'
    BY DEF IInv, TypeOK
  <2>2. Files' /\ Uses'
    BY DEF IInv, Files, Uses, Valid, SecretsOf, Saving
  <2>3. Stages'
    BY DEF IInv, Stages, TypeOK
  <2> QED BY <2>1, <2>2, <2>3 DEF IInv
<1> QED BY <1>2, <1>3, <1>4, <1>5, <1>6

\* open keeps the invariant, on a new directory and on an old file.
LEMMA OpenKeepsIInv ==
  ASSUME IInv, Create \/ Reopen
  PROVE  IInv'
<1>1. CASE Create
  <2> USE <1>1 DEF Create, BeginSave, history
  <2>1. file = Missing
    BY DEF IInv, Stages
  <2>2. TypeOK'
    BY FreshIsValid DEF IInv, TypeOK, Saving
  <2>3. Files'
    BY FreshIsValid DEF IInv, Files, Valid
  <2>4. Stages'
    BY <2>1 DEF IInv, Stages, SamePlaces, Missing
  <2>5. Uses'
    BY FreshIsValid DEF IInv, Uses, SecretsOf, Saving
  <2> QED BY <2>2, <2>3, <2>4, <2>5 DEF IInv
<1>2. CASE Reopen
  <2> USE <1>2 DEF Reopen, disk, history
  <2>1. file \in States
    BY DEF IInv, TypeOK, Missing, Valid
  <2>2. TypeOK'
    BY <2>1 DEF IInv, TypeOK
  <2>3. Files'
    BY DEF IInv, Files, Valid
  <2>4. Stages'
    BY DEF IInv, Stages
  <2>5. Uses'
    BY DEF IInv, Uses, SecretsOf, Saving
  <2> QED BY <2>2, <2>3, <2>4, <2>5 DEF IInv
<1> QED BY <1>1, <1>2

\* The clock may show anything.
LEMMA TickKeepsIInv ==
  ASSUME IInv, NEW t \in 0 .. MaxTime, Tick(t)
  PROVE  IInv'
<1> USE DEF Tick, disk, history
<1>1. TypeOK'
  BY DEF IInv, TypeOK, Saving
<1>2. Files' /\ Uses'
  BY DEF IInv, Files, Uses, Valid, SecretsOf, Saving
<1>3. Stages'
  BY DEF IInv, Stages, SamePlaces
<1> QED BY <1>1, <1>2, <1>3 DEF IInv

\* Every operation keeps the invariant, whether it saves or is refused.
LEMMA OperationKeepsIInv ==
  ASSUME IInv, Operation
  PROVE  IInv'
<1>1. ASSUME List \/ Refuse PROVE IInv'
  BY <1>1, AnswerKeepsIInv DEF List, Refuse
<1>2. ASSUME NEW x \in {{}} \cup {{a} : a \in First - 1 .. Last}, NEW s \in Undrawn,
             CreateInvitation(s, x)
      PROVE  IInv'
  <2> DEFINE n == [state EXCEPT !.invitations =
                     Outstanding \cup {[secret |-> s, issuedAt |-> now, exclude |-> x]}]
  <2>1. /\ phase = "idle" /\ ValidExclusion(x) /\ RoomForInvitation
        /\ BeginSave(n, {}) /\ UNCHANGED <<disk, opened, state, now, history>>
    BY <1>2 DEF CreateInvitation, AcceptableExclusion
  <2>2. Savable(n, {})
    BY <2>1, InvitationIsSavable
  <2> HIDE DEF n
  <2>3. {} \in SUBSET Secrets
    OBVIOUS
  <2> QED BY <2>1, <2>2, <2>3, SavingKeepsIInv
<1>3. ASSUME NEW k \in Keys, NEW s \in Secrets, Enroll(k, s) PROVE IInv'
  BY <1>3, EnrollKeepsIInv
<1>4. ASSUME NEW k \in Keys, NEW g \in GrantInputs, Grant(k, g) PROVE IInv'
  BY <1>4, PolicyKeepsIInv
<1>5. ASSUME NEW k \in Keys, Revoke(k) PROVE IInv'
  <2>1. AllPorts \in GrantInputs
    BY GrantsAssumption
  <2> QED BY <1>5, <2>1, PolicyKeepsIInv
<1> QED
  BY <1>1, <1>2, <1>3, <1>4, <1>5
     DEF Operation, RefuseInvitation, RefuseEnrollment, RefusePolicy

\* Every step keeps the invariant.
LEMMA StepKeepsIInv == IInv /\ [Next]_vars => IInv'
<1> SUFFICES ASSUME IInv, [Next]_vars PROVE IInv'
  OBVIOUS
<1>1. CASE Create \/ Reopen
  BY <1>1, OpenKeepsIInv
<1>2. CASE Operation
  BY <1>2, OperationKeepsIInv
<1>3. CASE Rename \/ SyncDirectory \/ Complete \/ CompleteUnclean \/ SaveFails
  BY <1>3, SaveKeepsIInv
<1>4. CASE RejectFailed
  BY <1>4, AnswerKeepsIInv DEF RejectFailed
<1>5. CASE \E t \in 0 .. MaxTime : Tick(t)
  BY <1>5, TickKeepsIInv
<1>6. CASE Exit \/ PowerLoss
  BY <1>6, HaltKeepsIInv
<1>7. CASE UNCHANGED vars
  BY <1>7 DEF vars, IInv, TypeOK, Files, Stages, Uses, Valid, SecretsOf, SamePlaces, Saving
<1> QED BY <1>1, <1>2, <1>3, <1>4, <1>5, <1>6, <1>7 DEF Next

\* The invariant holds throughout.
LEMMA Invariance == Spec => []IInv
BY InitEstablishesIInv, StepKeepsIInv, PTL DEF Spec

-----------------------------------------------------------------------------
(* The theorems *)

\* Every variable of the store stays within its type (the fields of class
\* ReceiverState, the file it writes and the save under way).
THEOREM TypeCorrect == Spec => []TypeOK
<1>1. IInv => TypeOK
  BY DEF IInv
<1> QED BY <1>1, Invariance, PTL

\* The receiver never writes a receiver.json that its own validate refuses.
THEOREM NeverLockedOut == Spec => []ReopenAccepts
<1>1. IInv => ReopenAccepts
  BY DEF IInv, Files, Stages, ReopenAccepts
<1> QED BY <1>1, Invariance, PTL

\* A caller told "done" is never contradicted by a crash or a power loss, and the store
\* never serves an operation from a memory that is not its file.
THEOREM DoneSurvives == Spec => []DoneIsDurable
<1>1. IInv => DoneIsDurable
  BY DEF IInv, Stages, DoneIsDurable
<1> QED BY <1>1, Invariance, PTL

\* enroll's use of an invitation, once answered, is final.
THEOREM InvitationsAreSingleUse == Spec => []SpentStaysSpent
<1>1. IInv => SpentStaysSpent
  BY DEF IInv, Uses, SpentStaysSpent
<1> QED BY <1>1, Invariance, PTL

\* No step but a power loss moves a device, and enrolling again widens nothing.
THEOREM DevicesStay == Spec => DevicesKeepTheirPlace
<1>1. IInv /\ [Next]_vars => PowerLoss \/ SamePlaces(file, file') \/ UNCHANGED vars
  <2> SUFFICES ASSUME IInv, [Next]_vars, ~PowerLoss, ~UNCHANGED vars
               PROVE  SamePlaces(file, file')
    OBVIOUS
  <2>1. ASSUME file' = file PROVE SamePlaces(file, file')
    BY <2>1 DEF IInv, TypeOK, Files, Valid, ValidDevices, SamePlaces, Missing
  <2>2. CASE Rename
    BY <2>2 DEF Rename, IInv, Stages
  <2>3. CASE ~Rename
    BY <2>1, <2>3 DEF Next, Create, Reopen, Operation, List, RefuseInvitation, Refuse,
       CreateInvitation, Enroll, RefuseEnrollment, Grant, RefusePolicy, Revoke,
       SyncDirectory, Complete, CompleteUnclean, SaveFails, RejectFailed, Tick, Exit, disk
  <2> QED BY <2>2, <2>3
<1> QED BY <1>1, Invariance, PTL DEF Spec, DevicesKeepTheirPlace

-----------------------------------------------------------------------------
(* The refinement of AdmissionLedger: what an operation makes of a ledger *)

\* An invitation as the ledger knows it: it does not say when the invitation lapses.
Mark(i)  == [secret |-> i.secret, exclude |-> i.exclude]
Marks(I) == {Mark(i) : i \in I}

Book(D, I) == [version |-> 1, devices |-> D, invitations |-> I]

\* AdmissionLedger's Invite, Admit, Restrict and Remove, as relations between the ledger
\* before and the one after.
Invited(l, n) ==
  \E s \in Secrets, x \in SUBSET (Pool \ {ReceiverAddress}), m \in Promise!Lapses(l, {}) :
    /\ \A i \in l.invitations : i.secret # s
    /\ x \cap Promise!Taken(l) = {} /\ Cardinality(x) <= 1
    /\ Cardinality(m.invitations) < MaxInvitations
    /\ n = [m EXCEPT !.invitations = @ \cup {[secret |-> s, exclude |-> x]}]

Admitted(l, n) ==
  \E i \in l.invitations, k \in Keys : \E m \in Promise!Lapses(l, {i}) :
    \/ /\ \E d \in l.devices : d.key = k /\ d.address \notin i.exclude
       /\ n = m
    \/ /\ \A d \in l.devices : d.key # k
       /\ Cardinality(l.devices) < MaxDevices
       /\ \E a \in (Pool \ {ReceiverAddress}) \ (Promise!Taken(l) \cup i.exclude) :
            n = [m EXCEPT !.devices = @ \cup {[key |-> k, address |-> a, grant |-> AllPorts]}]

Restricted(l, n) ==
  \E d \in l.devices, g \in Grants :
    n = [l EXCEPT !.devices = (@ \ {d}) \cup {[d EXCEPT !.grant = g]}]

Removed(l, n) == \E d \in l.devices : n = [l EXCEPT !.devices = @ \ {d}]

Operated(l, n) == Invited(l, n) \/ Admitted(l, n) \/ Restricted(l, n) \/ Removed(l, n)

\* While a save is under way nobody has an answer, and what it is about to put in place is
\* one operation away from what is there.
Promises ==
  /\ phase \in Saving => answer = "none"
  /\ phase = "staging" =>
       \/ file = Missing /\ next = Fresh
       \/ Operated(Ledger(file), Ledger(next))

\* The fields of a ledger, and a ledger with another field.
LEMMA BookFields ==
  ASSUME NEW D, NEW I
  PROVE  Book(D, I).devices = D /\ Book(D, I).invitations = I
BY DEF Book

LEMMA BookWith ==
  ASSUME NEW D, NEW I, NEW E
  PROVE  /\ [Book(D, I) EXCEPT !.invitations = E] = Book(D, E)
         /\ [Book(D, I) EXCEPT !.devices = E] = Book(E, I)
BY DEF Book

LEMMA MoreInvitations ==
  ASSUME NEW D, NEW I, NEW e, NEW E, E = I \cup {e}
  PROVE  [Book(D, I) EXCEPT !.invitations = @ \cup {e}] = Book(D, E)
<1> DEFINE F == Book(D, I).invitations \cup {e}
<1>1. F = E
  BY BookFields
<1> HIDE DEF F
<1>2. [Book(D, I) EXCEPT !.invitations = F] = Book(D, E)
  BY <1>1, BookWith
<1> QED BY <1>2 DEF F

LEMMA MoreDevices ==
  ASSUME NEW D, NEW I, NEW e, NEW E, E = D \cup {e}
  PROVE  [Book(D, I) EXCEPT !.devices = @ \cup {e}] = Book(E, I)
<1> DEFINE F == Book(D, I).devices \cup {e}
<1>1. F = E
  BY BookFields
<1> HIDE DEF F
<1>2. [Book(D, I) EXCEPT !.devices = F] = Book(E, I)
  BY <1>1, BookWith
<1> QED BY <1>2 DEF F

\* The ledger a state stands for.
LEMMA LedgerOfBook ==
  ASSUME NEW D, NEW I
  PROVE  Ledger(Book(D, I)) = Book(D, Marks(I))
<1>1. Ledger(Book(D, I)) = [Book(D, I) EXCEPT !.invitations = Marks(Book(D, I).invitations)]
  BY DEF Ledger, Marks, Mark
<1>2. Book(D, I).invitations = I
  BY BookFields
<1> QED BY <1>1, <1>2, BookWith

LEMMA LedgerOfState ==
  ASSUME NEW s \in States
  PROVE  Ledger(s) = Book(s.devices, Marks(s.invitations))
<1>1. PICK D \in SUBSET Devices, I \in SUBSET Pending : s = Book(D, I)
  BY DEF States, Book
<1>2. s.devices = D /\ s.invitations = I
  BY <1>1, BookFields
<1> QED BY <1>1, <1>2, LedgerOfBook

LEMMA OneMoreMark ==
  ASSUME NEW I, NEW i
  PROVE  Marks(I \cup {i}) = Marks(I) \cup {Mark(i)}
BY DEF Marks

LEMMA LedgerOfNothing == Ledger(Missing) = Promise!None /\ Ledger(Fresh) = Promise!Empty
BY DEF Ledger, Missing, Fresh, Promise!None, Promise!Empty

\* Invitations that go are invitations that lapse.
LEMMA Lapsing ==
  ASSUME NEW D, NEW I, NEW gone, NEW J \in SUBSET (I \ gone)
  PROVE  Book(D, J) \in Promise!Lapses(Book(D, I), gone)
BY DEF Book, Promise!Lapses

LEMMA MarksAreFewer ==
  ASSUME NEW I, IsFiniteSet(I)
  PROVE  IsFiniteSet(Marks(I)) /\ Cardinality(Marks(I)) <= Cardinality(I)
<1> DEFINE f == [i \in I |-> Mark(i)]
<1>1. f \in Surjection(I, Marks(I))
  <2>1. f \in [I -> Marks(I)] /\ \A t \in Marks(I) : \E i \in I : f[i] = t
    BY DEF Marks
  <2> QED BY <2>1 DEF Surjection
<1> QED BY <1>1, FS_Surjection

-----------------------------------------------------------------------------
(* Every operation saves what the ledger's operation says *)

\* An invitation joins those that have not lapsed.
LEMMA InvitedBook ==
  ASSUME NEW D, NEW I, NEW J \in SUBSET I, NEW s \in Secrets,
         NEW x \in SUBSET (Pool \ {ReceiverAddress}), Cardinality(x) <= 1,
         \A i \in I : i.secret # s,
         \A d \in D : d.address \notin x,
         Cardinality(J) < MaxInvitations
  PROVE  Invited(Book(D, I), Book(D, J \cup {[secret |-> s, exclude |-> x]}))
<1> DEFINE mark == [secret |-> s, exclude |-> x]
           K    == J \cup {mark}
<1>1. Book(D, J) \in Promise!Lapses(Book(D, I), {})
  BY Lapsing
<1>2. Book(D, I).invitations = I /\ Book(D, I).devices = D /\ Book(D, J).invitations = J
  BY BookFields
<1>3. x \cap Promise!Taken(Book(D, I)) = {}
  BY <1>2 DEF Promise!Taken
<1>4. Book(D, K) = [Book(D, J) EXCEPT !.invitations = @ \cup {mark}]
  <2>1. K = J \cup {mark}
    OBVIOUS
  <2> HIDE DEF mark, K
  <2> QED BY <2>1, MoreInvitations
<1> QED BY <1>1, <1>2, <1>3, <1>4 DEF Invited

LEMMA InvitationIsInvited ==
  ASSUME IInv, phase = "idle", NEW s \in Undrawn, NEW x,
         AcceptableExclusion(x), x \in {{}} \cup {{a} : a \in First - 1 .. Last},
         RoomForInvitation
  PROVE  Invited(Ledger(state), Ledger([state EXCEPT !.invitations =
                   Outstanding \cup {[secret |-> s, issuedAt |-> now, exclude |-> x]}]))
<1> DEFINE i == [secret |-> s, issuedAt |-> now, exclude |-> x]
           n == [state EXCEPT !.invitations = Outstanding \cup {i}]
           mark == [secret |-> s, exclude |-> x]
<1>1. state = file /\ state \in States /\ Valid(state) /\ s \in Secrets
  BY DEF IInv, TypeOK, Files, Stages, Undrawn
<1>2. n \in States /\ n.devices = state.devices /\ n.invitations = Outstanding \cup {i}
  BY <1>1, InvitationIsSavable DEF AcceptableExclusion, Savable, States
<1>3. Mark(i) = mark
  BY DEF Mark
<1> HIDE DEF n, i
<1>4. Ledger(n) = Book(state.devices, Marks(Outstanding) \cup {mark})
  BY <1>2, <1>3, OneMoreMark, LedgerOfState
<1>5. Ledger(state) = Book(state.devices, Marks(state.invitations))
  BY <1>1, LedgerOfState
<1>6. Marks(Outstanding) \in SUBSET Marks(state.invitations)
  BY DEF Outstanding, Marks
<1>7. \A j \in Marks(state.invitations) : j.secret # s
  BY <1>1 DEF Undrawn, SecretsOf, Marks, Mark
<1>8. /\ x \in SUBSET (Pool \ {ReceiverAddress})
      /\ \A d \in state.devices : d.address \notin x
  BY DEF AcceptableExclusion, ValidExclusion, AddressesOf
<1>9. Cardinality(x) <= 1
  <2>1. CASE x = {}
    BY <2>1, FS_EmptySet
  <2>2. CASE x # {}
    <3>1. PICK a : x = {a}
      BY <2>2
    <3>2. Cardinality({a}) = 1
      BY FS_Singleton, Zenon
    <3> QED BY <3>1, <3>2
  <2> QED BY <2>1, <2>2
<1>10. Cardinality(Marks(Outstanding)) < MaxInvitations
  <2>1. IsFiniteSet(Outstanding) /\ Cardinality(Outstanding) \in Nat
    BY <1>1, FS_Subset, FS_CardinalityType DEF Outstanding, Valid, ValidInvitations
  <2>2. /\ IsFiniteSet(Marks(Outstanding))
        /\ Cardinality(Marks(Outstanding)) <= Cardinality(Outstanding)
    BY <2>1, MarksAreFewer
  <2>3. Cardinality(Marks(Outstanding)) \in Nat
    BY <2>2, FS_CardinalityType
  <2>4. MaxInvitations \in Nat
    BY LimitsAssumption
  <2> QED BY <2>1, <2>2, <2>3, <2>4 DEF RoomForInvitation
<1>11. Invited(Book(state.devices, Marks(state.invitations)),
               Book(state.devices, Marks(Outstanding) \cup {mark}))
  BY <1>1, <1>6, <1>7, <1>8, <1>9, <1>10, InvitedBook
<1> QED BY <1>4, <1>5, <1>11 DEF n, i

\* The invitations that stay when one has admitted a device stay in the ledger without it.
LEMMA UseLapses ==
  ASSUME IInv, NEW i \in state.invitations
  PROVE  /\ Mark(i) \in Marks(state.invitations)
         /\ Marks(KeptAfter(i)) \in SUBSET (Marks(state.invitations) \ {Mark(i)})
<1>1. \A j \in KeptAfter(i) : j \in state.invitations /\ j.secret # i.secret
  BY DEF KeptAfter, IInv, Files, Valid, ValidInvitations
<1>2. \A j \in KeptAfter(i) : Mark(j) # Mark(i)
  BY <1>1 DEF Mark
<1> QED BY <1>1, <1>2 DEF Marks

\* A device that is there is renewed.
LEMMA RenewedBook ==
  ASSUME NEW D, NEW I, NEW i \in I, NEW k \in Keys, NEW J \in SUBSET (I \ {i}),
         NEW d \in D, d.key = k, d.address \notin i.exclude
  PROVE  Admitted(Book(D, I), Book(D, J))
<1>1. Book(D, J) \in Promise!Lapses(Book(D, I), {i})
  BY Lapsing
<1>2. Book(D, I).invitations = I /\ Book(D, I).devices = D
  BY BookFields
<1> QED BY <1>1, <1>2 DEF Admitted

\* A device that is not there gets a free address.
LEMMA AdmittedBook ==
  ASSUME NEW D, NEW I, NEW i \in I, NEW k \in Keys, NEW J \in SUBSET (I \ {i}),
         NEW a \in Pool \ {ReceiverAddress}, a \notin i.exclude,
         \A d \in D : d.key # k /\ d.address # a,
         Cardinality(D) < MaxDevices
  PROVE  Admitted(Book(D, I),
                  Book(D \cup {[key |-> k, address |-> a, grant |-> AllPorts]}, J))
<1> DEFINE device == [key |-> k, address |-> a, grant |-> AllPorts]
           E      == D \cup {device}
<1>1. Book(D, J) \in Promise!Lapses(Book(D, I), {i})
  BY Lapsing
<1>2. Book(D, I).invitations = I /\ Book(D, I).devices = D
  BY BookFields
<1>3. a \notin Promise!Taken(Book(D, I))
  BY <1>2 DEF Promise!Taken
<1>4. Book(E, J) = [Book(D, J) EXCEPT !.devices = @ \cup {device}]
  <2>1. E = D \cup {device}
    OBVIOUS
  <2> HIDE DEF E, device
  <2> QED BY <2>1, MoreDevices
<1> QED BY <1>1, <1>2, <1>3, <1>4 DEF Admitted

\* enroll saves what admitting says.
LEMMA EnrollmentIsAdmitted ==
  ASSUME IInv, phase = "idle", NEW k \in Keys, k # ReceiverKey,
         NEW i \in state.invitations, Accept(k, i)
  PROVE  Admitted(Ledger(state), Ledger(next'))
<1>1. state = file /\ state \in States /\ Valid(state)
  BY DEF IInv, TypeOK, Files, Stages
<1>2. Ledger(state) = Book(state.devices, Marks(state.invitations))
  BY <1>1, LedgerOfState
<1>3. /\ Mark(i) \in Marks(state.invitations)
      /\ Marks(KeptAfter(i)) \in SUBSET (Marks(state.invitations) \ {Mark(i)})
      /\ Mark(i).exclude = i.exclude
  BY UseLapses DEF Mark
<1>4. KeptAfter(i) \subseteq Pending
  BY UseIsFinal DEF ValidInvitations
<1>5. CASE Renew(k, i)
  <2>1. PICK d \in state.devices : d.key = k /\ d.address \notin i.exclude
    BY <1>5 DEF Renew, DeviceOf
  <2>2. next' = [state EXCEPT !.invitations = KeptAfter(i)]
    BY <1>5 DEF Renew, BeginSave
  <2>3. next' \in States /\ next'.devices = state.devices /\ next'.invitations = KeptAfter(i)
    BY <1>1, <1>4, <2>2 DEF States
  <2>4. Ledger(next') = Book(state.devices, Marks(KeptAfter(i)))
    BY <2>3, LedgerOfState
  <2> QED BY <1>2, <1>3, <2>1, <2>4, RenewedBook
<1>6. CASE Admit(k, i)
  <2> DEFINE a == Lowest(Free(i))
             d == [key |-> k, address |-> a, grant |-> AllPorts]
  <2>1. a \in Free(i)
    BY <1>6, LowestIsFree DEF Admit
  <2>2. next' = [state EXCEPT !.devices = @ \cup {d}, !.invitations = KeptAfter(i)]
    BY <1>6 DEF Admit, BeginSave
  <2> HIDE DEF a
  <2>3. a \in Pool \ {ReceiverAddress} /\ a \in Nat /\ a \notin i.exclude
    BY <2>1, RangeAssumption DEF Free, Pool
  <2>4. \A e \in state.devices : e.key # k /\ e.address # a
    BY <1>6, <2>1 DEF Admit, DeviceOf, Free, AddressesOf
  <2>5. d \in Devices
    BY <2>3, GrantsAssumption DEF Devices
  <2>6. Cardinality(state.devices) < MaxDevices
    BY <1>6 DEF Admit, RoomForDevice
  <2>7. Admitted(Book(state.devices, Marks(state.invitations)),
                 Book(state.devices \cup {d}, Marks(KeptAfter(i))))
    BY <1>3, <2>3, <2>4, <2>6, AdmittedBook
  <2> HIDE DEF d
  <2>8. /\ next' \in States /\ next'.devices = state.devices \cup {d}
        /\ next'.invitations = KeptAfter(i)
    BY <1>1, <1>4, <2>2, <2>5 DEF States
  <2>9. Ledger(next') = Book(state.devices \cup {d}, Marks(KeptAfter(i)))
    BY <2>8, LedgerOfState
  <2> QED BY <1>2, <2>7, <2>9
<1> QED BY <1>5, <1>6 DEF Accept

\* A device of the ledger gets another grant, or goes.
LEMMA RestrictedBook ==
  ASSUME NEW D, NEW I, NEW d \in D, NEW g \in Grants
  PROVE  Restricted(Book(D, I), Book((D \ {d}) \cup {[d EXCEPT !.grant = g]}, I))
<1> DEFINE E == (D \ {d}) \cup {[d EXCEPT !.grant = g]}
           F == (Book(D, I).devices \ {d}) \cup {[d EXCEPT !.grant = g]}
<1>1. F = E /\ d \in Book(D, I).devices
  BY BookFields
<1> HIDE DEF E, F
<1>2. [Book(D, I) EXCEPT !.devices = F] = Book(E, I)
  BY <1>1, BookWith
<1> QED BY <1>1, <1>2 DEF Restricted, E, F

LEMMA RemovedBook ==
  ASSUME NEW D, NEW I, NEW d \in D
  PROVE  Removed(Book(D, I), Book(D \ {d}, I))
<1> DEFINE E == D \ {d}
           F == Book(D, I).devices \ {d}
<1>1. F = E /\ d \in Book(D, I).devices
  BY BookFields
<1> HIDE DEF E, F
<1>2. [Book(D, I) EXCEPT !.devices = F] = Book(E, I)
  BY <1>1, BookWith
<1> QED BY <1>1, <1>2 DEF Removed, E, F

\* grant and revoke save what restricting and removing say.
LEMMA GrantIsRestricted ==
  ASSUME IInv, NEW k \in Keys, NEW g \in GrantInputs, Grant(k, g)
  PROVE  Restricted(Ledger(state), Ledger(next'))
<1>1. phase = "idle" /\ g \in Grants
  BY DEF Grant
<1>2. state = file /\ state \in States /\ Valid(state)
  BY <1>1 DEF IInv, TypeOK, Files, Stages
<1>3. PICK d \in state.devices :
        next' = [state EXCEPT !.devices = (@ \ {d}) \cup {[d EXCEPT !.grant = g]}]
  BY DEF Grant, BeginSave, DeviceOf
<1> DEFINE e == [d EXCEPT !.grant = g]
<1>4. d \in Devices /\ e \in Devices
  BY <1>1, <1>2 DEF States, Devices
<1>5. Restricted(Book(state.devices, Marks(state.invitations)),
                 Book((state.devices \ {d}) \cup {e}, Marks(state.invitations)))
  BY <1>1, RestrictedBook
<1> HIDE DEF e
<1>6. /\ next' \in States /\ next'.devices = (state.devices \ {d}) \cup {e}
      /\ next'.invitations = state.invitations
  BY <1>2, <1>3, <1>4 DEF States, e
<1>7. /\ Ledger(next') = Book((state.devices \ {d}) \cup {e}, Marks(state.invitations))
      /\ Ledger(state) = Book(state.devices, Marks(state.invitations))
  BY <1>2, <1>6, LedgerOfState
<1> QED BY <1>5, <1>7

LEMMA RevocationIsRemoved ==
  ASSUME IInv, NEW k \in Keys, Revoke(k)
  PROVE  Removed(Ledger(state), Ledger(next'))
<1>1. phase = "idle" /\ DeviceOf(state, k) # {}
      /\ next' = [state EXCEPT !.devices = @ \ DeviceOf(state, k)]
  BY DEF Revoke, BeginSave
<1>2. state = file /\ state \in States /\ Valid(state)
  BY <1>1 DEF IInv, TypeOK, Files, Stages
<1>3. PICK d \in state.devices : DeviceOf(state, k) = {d}
  BY <1>1, <1>2 DEF DeviceOf, Valid, ValidDevices
<1>4. /\ next' \in States /\ next'.devices = state.devices \ {d}
      /\ next'.invitations = state.invitations
  BY <1>1, <1>2, <1>3 DEF States
<1>5. /\ Ledger(next') = Book(state.devices \ {d}, Marks(state.invitations))
      /\ Ledger(state) = Book(state.devices, Marks(state.invitations))
  BY <1>2, <1>4, LedgerOfState
<1> QED BY <1>5, RemovedBook

-----------------------------------------------------------------------------
(* The refinement *)

\* The answers and the save under way before the first open.
LEMMA InitPromises == Init => Promises /\ Promise!Init
BY LedgerOfNothing DEF Init, Promises, Saving, Promise!Init, Outcome

\* What an operation of an idle store does to the save under way.
LEMMA OperationPromises ==
  ASSUME IInv, Promises, Operation
  PROVE  /\ Promises'
         /\ phase = "idle" /\ phase' \in {"idle", "staging"} /\ UNCHANGED disk
         /\ answer' \in {"none", "refused"}
<1>1. ASSUME List \/ Refuse
      PROVE  /\ phase = "idle" /\ phase' = "idle" /\ UNCHANGED disk
             /\ answer' \in {"none", "refused"}
  BY <1>1 DEF List, Refuse
<1>2. phase = "idle" => state = file
  BY DEF IInv, Stages
<1>3. ASSUME NEW x \in {{}} \cup {{a} : a \in First - 1 .. Last}, NEW s \in Undrawn,
             CreateInvitation(s, x)
      PROVE  /\ phase = "idle" /\ phase' = "staging" /\ answer' = "none" /\ UNCHANGED disk
             /\ Invited(Ledger(file), Ledger(next'))
  <2>1. /\ phase = "idle" /\ AcceptableExclusion(x) /\ RoomForInvitation /\ UNCHANGED disk
        /\ phase' = "staging" /\ answer' = "none"
        /\ next' = [state EXCEPT !.invitations =
                   Outstanding \cup {[secret |-> s, issuedAt |-> now, exclude |-> x]}]
    BY <1>3 DEF CreateInvitation, BeginSave
  <2> QED BY <1>2, <2>1, InvitationIsInvited
<1>4. ASSUME NEW k \in Keys, NEW s \in Secrets, Enroll(k, s)
      PROVE  /\ phase = "idle" /\ phase' = "staging" /\ answer' = "none" /\ UNCHANGED disk
             /\ Admitted(Ledger(file), Ledger(next'))
  <2>1. phase = "idle" /\ k # ReceiverKey /\ UNCHANGED disk
    BY <1>4 DEF Enroll
  <2>2. PICK i \in state.invitations : Accept(k, i)
    BY <1>4 DEF Enroll, Usable
  <2>3. phase' = "staging" /\ answer' = "none"
    BY <2>2 DEF Accept, Renew, Admit, BeginSave
  <2> QED BY <1>2, <2>1, <2>2, <2>3, EnrollmentIsAdmitted
<1>5. ASSUME NEW k \in Keys, NEW g \in GrantInputs, Grant(k, g)
      PROVE  /\ phase = "idle" /\ phase' = "staging" /\ answer' = "none" /\ UNCHANGED disk
             /\ Restricted(Ledger(file), Ledger(next'))
  BY <1>2, <1>5, GrantIsRestricted DEF Grant, BeginSave
<1>6. ASSUME NEW k \in Keys, Revoke(k)
      PROVE  /\ phase = "idle" /\ phase' = "staging" /\ answer' = "none" /\ UNCHANGED disk
             /\ Removed(Ledger(file), Ledger(next'))
  BY <1>2, <1>6, RevocationIsRemoved DEF Revoke, BeginSave
<1>7. \/ List \/ Refuse
      \/ /\ phase = "idle" /\ phase' = "staging" /\ answer' = "none" /\ UNCHANGED disk
         /\ Operated(Ledger(file), Ledger(next'))
  BY <1>3, <1>4, <1>5, <1>6
     DEF Operation, RefuseInvitation, RefuseEnrollment, RefusePolicy, Operated
<1>8. CASE List \/ Refuse
  BY <1>1, <1>8 DEF Promises, Saving
<1>9. CASE /\ phase = "idle" /\ phase' = "staging" /\ answer' = "none" /\ UNCHANGED disk
            /\ Operated(Ledger(file), Ledger(next'))
  <2>1. file' = file
    BY <1>9 DEF disk
  <2> QED BY <1>9, <2>1 DEF Promises
<1> QED BY <1>7, <1>8, <1>9

\* Nobody is answered while a save is under way, and it stays one operation away.
LEMMA StepKeepsPromises == IInv /\ Promises /\ [Next]_vars => Promises'
<1> SUFFICES ASSUME IInv, Promises, [Next]_vars PROVE Promises'
  OBVIOUS
<1> USE DEF Promises, Saving
<1>1. CASE Operation
  BY <1>1, OperationPromises
<1>2. CASE Create
  BY <1>2 DEF Create, BeginSave, IInv, Stages
<1>3. CASE Reopen \/ Exit \/ PowerLoss
  BY <1>3 DEF Reopen, Exit, PowerLoss, Halted
<1>4. CASE Rename \/ SyncDirectory \/ Complete \/ CompleteUnclean \/ SaveFails \/ RejectFailed
  BY <1>4 DEF Rename, SyncDirectory, Complete, CompleteUnclean, SaveFails, RejectFailed
<1>5. CASE \E t \in 0 .. MaxTime : Tick(t)
  BY <1>5 DEF Tick, disk
<1>6. CASE UNCHANGED vars
  BY <1>6 DEF vars
<1> QED BY <1>1, <1>2, <1>3, <1>4, <1>5, <1>6 DEF Next

\* The ledger counts as the store does.
LEMMA SameCardinality ==
  ASSUME NEW S
  PROVE  Promise!Cardinality(S) = Cardinality(S)
BY DEF Cardinality, Promise!Cardinality

\* The rename is the step that changes the ledger, by the operation that began the save.
LEMMA RenameChanges == IInv /\ Promises /\ Rename => Promise!Next
<1> SUFFICES ASSUME IInv, Promises, Rename PROVE Promise!Next
  OBVIOUS
<1>1. Promise!Change(Ledger(next))
  BY DEF Rename, Promises, Saving, Promise!Change, Outcome
<1>2. CASE file = Missing /\ next = Fresh
  BY <1>1, <1>2, LedgerOfNothing DEF Promise!Create, Promise!Next
<1>3. CASE Invited(Ledger(file), Ledger(next))
  <2>1. PICK s \in Secrets, x \in SUBSET (Pool \ {ReceiverAddress}),
             m \in Promise!Lapses(Ledger(file), {}) :
          /\ \A i \in Ledger(file).invitations : i.secret # s
          /\ x \cap Promise!Taken(Ledger(file)) = {} /\ Promise!Cardinality(x) <= 1
          /\ Promise!Cardinality(m.invitations) < MaxInvitations
          /\ Ledger(next) = [m EXCEPT !.invitations = @ \cup {[secret |-> s, exclude |-> x]}]
    BY <1>3, SameCardinality DEF Invited
  <2>2. Promise!Invite
    <3>1. x \in SUBSET Pool
      OBVIOUS
    <3>2. Promise!Change([m EXCEPT !.invitations = @ \cup {[secret |-> s, exclude |-> x]}])
      BY <1>1, <2>1
    <3> QED BY <2>1, <3>1, <3>2 DEF Promise!Invite
  <2> QED BY <2>2 DEF Promise!Next
<1>4. CASE Admitted(Ledger(file), Ledger(next))
  <2>1. PICK i \in Ledger(file).invitations, k \in Keys :
          \E m \in Promise!Lapses(Ledger(file), {i}) :
            \/ /\ \E d \in Ledger(file).devices : d.key = k /\ d.address \notin i.exclude
               /\ Ledger(next) = m
            \/ /\ \A d \in Ledger(file).devices : d.key # k
               /\ Promise!Cardinality(Ledger(file).devices) < MaxDevices
               /\ \E a \in (Pool \ {ReceiverAddress}) \
                            (Promise!Taken(Ledger(file)) \cup i.exclude) :
                    Ledger(next) = [m EXCEPT !.devices =
                                      @ \cup {[key |-> k, address |-> a, grant |-> AllPorts]}]
    BY <1>4, SameCardinality DEF Admitted
  <2>2. PICK m \in Promise!Lapses(Ledger(file), {i}) :
          \/ /\ \E d \in Ledger(file).devices : d.key = k /\ d.address \notin i.exclude
             /\ Promise!Change(m)
          \/ /\ \A d \in Ledger(file).devices : d.key # k
             /\ Promise!Cardinality(Ledger(file).devices) < MaxDevices
             /\ \E a \in (Pool \ {ReceiverAddress}) \
                          (Promise!Taken(Ledger(file)) \cup i.exclude) :
                  Promise!Change([m EXCEPT !.devices =
                                    @ \cup {[key |-> k, address |-> a, grant |-> AllPorts]}])
    <3> DEFINE device(a) == [key |-> k, address |-> a, grant |-> AllPorts]
               with(m, a) == [m EXCEPT !.devices = @ \cup {device(a)}]
    <3>1. PICK m \in Promise!Lapses(Ledger(file), {i}) :
            \/ /\ \E d \in Ledger(file).devices : d.key = k /\ d.address \notin i.exclude
               /\ Ledger(next) = m
            \/ /\ \A d \in Ledger(file).devices : d.key # k
               /\ Promise!Cardinality(Ledger(file).devices) < MaxDevices
               /\ \E a \in (Pool \ {ReceiverAddress}) \
                            (Promise!Taken(Ledger(file)) \cup i.exclude) :
                    Ledger(next) = with(m, a)
      BY <2>1
    <3> HIDE DEF with
    <3>2. Promise!Change(Ledger(next))
      BY <1>1
    <3> QED BY <3>1, <3>2 DEF with
  <2>3. Promise!Admit
    BY <2>2 DEF Promise!Admit
  <2> QED BY <2>3 DEF Promise!Next
<1>5. CASE Restricted(Ledger(file), Ledger(next))
  BY <1>1, <1>5 DEF Restricted, Promise!Restrict, Promise!Next
<1>6. CASE Removed(Ledger(file), Ledger(next))
  BY <1>1, <1>6 DEF Removed, Promise!Remove, Promise!Next
<1> QED BY <1>2, <1>3, <1>4, <1>5, <1>6 DEF Promises, Operated, Rename

\* Every step is one of the ledger's or leaves what the ledger shows as it is.
LEMMA StepKeepsPromise ==
  IInv /\ Promises /\ [Next]_vars => [Promise!Next]_Promise!vars
<1> SUFFICES ASSUME IInv, Promises, [Next]_vars
             PROVE  Promise!Next \/ UNCHANGED Promise!vars
  OBVIOUS
<1> USE DEF Outcome
<1>1. CASE Operation
  BY <1>1, OperationPromises DEF disk, Promise!Decline, Promise!Next
<1>2. CASE Create
  BY <1>2 DEF Create, BeginSave, Promise!Decline, Promise!Next
<1>3. CASE Reopen
  BY <1>3 DEF Reopen, disk, Promise!Decline, Promise!Next
<1>4. CASE Rename
  BY <1>4, RenameChanges
<1>5. CASE SyncDirectory
  BY <1>5 DEF SyncDirectory, Promise!Settle, Promise!Next
<1>6. CASE Complete
  BY <1>6 DEF Complete, disk, IInv, Stages, Promise!Confirm, Promise!Next
<1>7. CASE CompleteUnclean \/ SaveFails \/ RejectFailed
  BY <1>7 DEF CompleteUnclean, SaveFails, RejectFailed, disk, Promise!LeaveOpen, Promise!Next
<1>8. CASE Exit
  BY <1>8 DEF Exit, Halted, disk, Promise!LeaveOpen, Promise!Next
<1>9. CASE PowerLoss
  <2>1. /\ file' \in {file, platter} /\ platter' = file'
        /\ phase' = "closed" /\ answer' = "none"
    BY <1>9 DEF PowerLoss, Halted
  <2>2. Ledger(file') \in {Ledger(file), Ledger(platter)} /\ Ledger(platter') = Ledger(file')
    BY <2>1
  <2> QED BY <2>1, <2>2 DEF Promise!Fall, Promise!Next
<1>10. CASE \E t \in 0 .. MaxTime : Tick(t)
  BY <1>10 DEF Tick, disk, Promise!vars
<1>11. CASE UNCHANGED vars
  BY <1>11 DEF vars, Promise!vars
<1> QED BY <1>1, <1>2, <1>3, <1>4, <1>5, <1>6, <1>7, <1>8, <1>9, <1>10, <1>11 DEF Next

\* ReceiverState keeps the promise of AdmissionLedger, whatever crashes, power losses and
\* failing calls come between the steps of save: every operation is one change of the
\* ledger, made at the rename and answered with success only once it has settled.
THEOREM LedgerIsKept == Spec => KeepsPromise
<1>1. Init => Promises /\ Promise!Init
  BY InitPromises
<1>2. IInv /\ Promises /\ [Next]_vars => Promises'
  BY StepKeepsPromises
<1>3. IInv /\ Promises /\ [Next]_vars => [Promise!Next]_Promise!vars
  BY StepKeepsPromise
<1> QED BY <1>1, <1>2, <1>3, Invariance, PTL DEF Spec, KeepsPromise, Promise!Spec

=============================================================================
