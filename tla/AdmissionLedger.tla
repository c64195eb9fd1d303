-------------------------- MODULE AdmissionLedger --------------------------
(***************************************************************************)
(* What a receiver promises about admission, whatever its store does with  *)
(* files: a ledger of devices and invitations changes one operation at a   *)
(* time, an answer of success is given only for a change that no power     *)
(* loss can undo, and a refusal only when nothing was changed.  Between    *)
(* the two lies the unknown outcome: the change may or may not be there.   *)
(*                                                                         *)
(* The ledger leaves open which free address a device gets, and when an    *)
(* invitation lapses: any set of invitations may go with any change.       *)
(***************************************************************************)
EXTENDS Naturals, FiniteSets

CONSTANTS Keys, Secrets, Grants, AllPorts, Pool, MaxDevices, MaxInvitations

VARIABLES
  ledger,   \* the devices and invitations a restart would find
  settled,  \* those a power loss would leave
  changed,  \* the operation under way has changed the ledger
  answer    \* "none", "done", "refused" or "unknown"

vars == <<ledger, settled, changed, answer>>

None  == [version |-> 0, devices |-> {}, invitations |-> {}]
Empty == [version |-> 1, devices |-> {}, invitations |-> {}]

Taken(l) == {d.address : d \in l.devices}

\* Some invitations lapse; those in gone certainly do.
Lapses(l, gone) == {[l EXCEPT !.invitations = I] : I \in SUBSET (l.invitations \ gone)}

Change(l) ==
  /\ ~changed
  /\ ledger' = l
  /\ changed' = TRUE
  /\ answer' = "none"
  /\ UNCHANGED settled

Create == ledger = None /\ Change(Empty)

Invite ==
  \E s \in Secrets, x \in SUBSET Pool, l \in Lapses(ledger, {}) :
    /\ \A i \in ledger.invitations : i.secret # s
    /\ x \cap Taken(ledger) = {} /\ Cardinality(x) <= 1
    /\ Cardinality(l.invitations) < MaxInvitations
    /\ Change([l EXCEPT !.invitations = @ \cup {[secret |-> s, exclude |-> x]}])

\* One invitation admits one device, to an address no other has and the
\* invitation does not exclude, or renews a device that stays as it is.
Admit ==
  \E i \in ledger.invitations, k \in Keys : \E l \in Lapses(ledger, {i}) :
    \/ /\ \E d \in ledger.devices : d.key = k /\ d.address \notin i.exclude
       /\ Change(l)
    \/ /\ \A d \in ledger.devices : d.key # k
       /\ Cardinality(ledger.devices) < MaxDevices
       /\ \E a \in Pool \ (Taken(ledger) \cup i.exclude) :
            Change([l EXCEPT !.devices = @ \cup {[key |-> k, address |-> a, grant |-> AllPorts]}])

Restrict ==
  \E d \in ledger.devices, g \in Grants :
    Change([ledger EXCEPT !.devices = (@ \ {d}) \cup {[d EXCEPT !.grant = g]}])

Remove ==
  \E d \in ledger.devices : Change([ledger EXCEPT !.devices = @ \ {d}])

Settle == settled' = ledger /\ UNCHANGED <<ledger, changed, answer>>

Confirm ==
  /\ changed /\ ledger = settled
  /\ changed' = FALSE /\ answer' = "done"
  /\ UNCHANGED <<ledger, settled>>

Decline ==
  /\ ~changed
  /\ answer' \in {"none", "refused"}
  /\ UNCHANGED <<ledger, settled, changed>>

LeaveOpen ==
  /\ changed' = FALSE /\ answer' \in {"none", "unknown"}
  /\ UNCHANGED <<ledger, settled>>

\* A power loss drops what had not settled, or settles it.
Fall ==
  /\ ledger' \in {ledger, settled} /\ settled' = ledger'
  /\ changed' = FALSE /\ answer' = "none"

Init == ledger = None /\ settled = None /\ changed = FALSE /\ answer = "none"

Next == Decline \/ Settle \/ Confirm \/ LeaveOpen \/ Fall
        \/ Create \/ Remove \/ Restrict \/ Admit \/ Invite

Spec == Init /\ [][Next]_vars

=============================================================================
