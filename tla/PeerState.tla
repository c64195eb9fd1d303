------------------------------ MODULE PeerState -----------------------------
(***************************************************************************)
(* The files of a peer, its identity directory and its config, under the   *)
(* commands that write them: `setup peer`, `peer join` and `peer pair` of  *)
(* src/cli/main.ts on top of src/state/peer.ts, src/state/files.ts,        *)
(* src/app-config.ts, src/config.ts and src/config-toml.ts.                *)
(*                                                                         *)
(* setup and join hold the runtime lock of the identity; pair and the      *)
(* owner's editor do not.  Both files are put in place by one rename.  A   *)
(* command that fails or is killed leaves temporary files, which nobody    *)
(* reads.  The config is the parsed one: what the owner may write, right   *)
(* or wrong, is Edits, and what makes it wrong is decided by Valid.        *)
(***************************************************************************)
EXTENDS Naturals, Sequences, Functions

CONSTANTS
  Processes,    \* commands that run at a time
  Labels,       \* non-empty bounded labels
  Keys,         \* strings of 64 lowercase hexadecimal digits
  Addresses,    \* unicast IPv4 addresses
  Grants,       \* "all" and sequences of ports without duplicates
  MaxVpnPeers,  \* 16
  Receiver,     \* the peer a receiver becomes: [label, publicKey, connection]
  JoinedVpn,    \* the vpn settings a receiver gives
  Approvals,    \* the peers that are approved with `peer pair`
  Edits,        \* configs that the owner writes by hand
  Absent,       \* no state directory
  Damaged,      \* one that is not a sound identity
  None,         \* nothing: no config, no setting, no process, no seed
  MaxEdits,     \* bound of the model: edits by hand
  MaxSeeds      \* bound of the model: seeds drawn

ASSUME PeerStateBounds == {MaxVpnPeers, MaxEdits, MaxSeeds} \subseteq Nat
ASSUME PeerStateNone   == /\ None \notin Processes \cup Labels \cup Keys \cup Nat
                          /\ Absent # Damaged /\ {Absent, Damaged} \cap (Nat \cup {None}) = {}

VARIABLES
  identity,  \* the state directory: a seed, Absent or Damaged
  config,    \* the config file, or None
  holder,    \* the process that has the runtime lock, or None
  proc,      \* each process: its command, the await it is at, what it knows
  drawn,     \* how many seeds have been drawn
  edits,     \* how often the config was edited by hand
  known,     \* history: the seed whose public key others know, or None
  lost       \* history: the identity was lost, or the config is older than it

vars    == <<identity, config, holder, proc, drawn, edits, known, lost>>
history == <<known, lost>>

-----------------------------------------------------------------------------
(* The config *)

\* Whatever commands and owner write.
Entries == Approvals \cup {Receiver} \cup UNION {Range(c.peers) : c \in Edits}
Configs == [network : {None} \cup {c.network : c \in Edits},
            vpn     : {None, JoinedVpn} \cup {c.vpn : c \in Edits},
            peers   : Seq(Entries)]

ASSUME PeerStateEdits == Edits \subseteq Configs /\ None \notin Configs

Empty == [network |-> None, vpn |-> None, peers |-> <<>>]

\* parsePeerDefinition
IsPeer(p) == p.label \in Labels /\ p.publicKey \in Keys /\ p.connection \in {"dial", "accept"}

Column(s, field) == [i \in DOMAIN s |-> s[i][field]]

\* Where a reference leads: a string that looks like a key is a public key and nothing else.
Resolved(ref, peers) ==
  {peers[i].publicKey : i \in {i \in DOMAIN peers :
     IF ref \in Keys THEN peers[i].publicKey = ref ELSE peers[i].label = ref}}

\* parsePeerVpn
IsVpn(v, peers) ==
  LET key == [i \in DOMAIN v.peers |-> Resolved(v.peers[i].peer, peers)] IN
  /\ Len(v.peers) <= MaxVpnPeers
  /\ \A i \in DOMAIN v.peers : key[i] # {} /\ v.peers[i].allowTcp \in Grants
  /\ IsInjective(key)
  /\ LET all == <<v.address>> \o Column(v.peers, "address") IN
       IsInjective(all) /\ Range(all) \subseteq Addresses

\* parsePeerConfig
Valid(c) ==
  /\ \A i \in DOMAIN c.peers : IsPeer(c.peers[i])
  /\ IsInjective(Column(c.peers, "label")) /\ IsInjective(Column(c.peers, "publicKey"))
  /\ c.vpn # None => IsVpn(c.vpn, c.peers)

\* loadKeposConfig: parseKeposConfig accepts what the file says.
Loads == config # None /\ Valid(config)

\* It says that somebody may reach this peer, or that this peer reaches somebody.
Configured(c) == c # None /\ (c.peers # <<>> \/ c.vpn # None)

-----------------------------------------------------------------------------
(* Commands *)

Seeds == 1 .. MaxSeeds
Idle  == [command |-> "none", at |-> "idle", found |-> None, next |-> None, key |-> None]

At(p, command, at) == proc[p].command = command /\ proc[p].at = at

\* Fault: a command that ends keeps its lock.
FinishLocked(p) ==
  /\ proc' = [proc EXCEPT ![p] = Idle]
  /\ UNCHANGED holder

\* The command ends; finally lock.release().
Finish(p) ==
  /\ proc' = [proc EXCEPT ![p] = Idle]
  /\ holder' = IF holder = p THEN None ELSE holder

\* An await throws, a check does not hold, or the process is killed.
Stops(p) ==
  /\ proc[p] # Idle
  /\ Finish(p)
  /\ UNCHANGED <<identity, config, drawn, edits, history>>

\* setup and join begin with the lock of the identity.
Starts(p, command) ==
  /\ proc[p] = Idle /\ holder = None
  /\ holder' = p
  /\ proc' = [proc EXCEPT ![p] = [Idle EXCEPT !.command = command, !.at = "loading"]]
  /\ UNCHANGED <<identity, config, drawn, edits, history>>

\* The config is read; a file that is not there is none.  setup of a configured peer
\* needs the identity it has, join wants nothing configured.
Reads(p) ==
  /\ proc[p].command \in {"setup", "join"} /\ proc[p].at = "loading"
  /\ config = None \/ Loads
  /\ Configured(config) => proc[p].command = "setup" /\ identity \in Seeds
  /\ proc' = [proc EXCEPT ![p].at = "identity", ![p].found = config]
  /\ UNCHANGED <<identity, config, holder, drawn, edits, history>>

\* What follows when the identity is there: setup writes the template if there is no config.
Proceeds(p, seed) ==
  IF proc[p].command = "join"
  THEN /\ proc' = [proc EXCEPT ![p].at = "pairing", ![p].key = seed]
       /\ UNCHANGED <<holder, known>>
  ELSE IF proc[p].found = None
  THEN /\ proc' = [proc EXCEPT ![p].at = "saving", ![p].key = seed, ![p].next = Empty]
       /\ UNCHANGED <<holder, known>>
  ELSE Finish(p) /\ known' = seed

\* setupPeer of an identity that exists and is sound: it is used.
Reuses(p) ==
  /\ proc[p].at = "identity" /\ identity \in Seeds
  /\ Proceeds(p, identity)
  /\ UNCHANGED <<identity, config, drawn, edits, lost>>

\* Fault: an identity that cannot be loaded counts as none.
NotThere(state) == state \notin Seeds

\* pathExists
Missing(state) == state = Absent

\* setupPeer when there is none: a seed, written beside and renamed.
Creates(p) ==
  /\ proc[p].at = "identity" /\ Missing(identity)
  /\ drawn < MaxSeeds
  /\ drawn' = drawn + 1
  /\ identity' = drawn'
  /\ Proceeds(p, drawn')
  /\ UNCHANGED <<config, edits, lost>>

\* What join saves: the network settings it found, the receiver and what that gave.
Joined(c) ==
  [network |-> IF c = None THEN None ELSE c.network, vpn |-> JoinedVpn, peers |-> <<Receiver>>]

\* The receiver admits the identity, and the answer comes or is lost.
Admitted(p) ==
  /\ At(p, "join", "pairing")
  /\ known' = proc[p].key
  /\ \/ /\ proc' = [proc EXCEPT ![p].at = "checking", ![p].next = Joined(proc[p].found)]
        /\ UNCHANGED holder
     \/ Finish(p)
  /\ UNCHANGED <<identity, config, drawn, edits, lost>>

\* Fault: the config that is read again is not compared.
ChecksNothing(p) ==
  /\ At(p, "join", "checking")
  /\ config = None \/ Loads
  /\ proc' = [proc EXCEPT ![p].at = "saving", ![p].found = config]
  /\ UNCHANGED <<identity, config, holder, drawn, edits, history>>

\* The addresses are free, and the config reads as it did.
Checks(p) ==
  /\ At(p, "join", "checking")
  /\ config = None \/ Loads
  /\ config = proc[p].found
  /\ proc' = [proc EXCEPT ![p].at = "saving", ![p].found = config]
  /\ UNCHANGED <<identity, config, holder, drawn, edits, history>>

StartsPair(p) ==
  /\ proc[p] = Idle
  /\ proc' = [proc EXCEPT ![p] = [Idle EXCEPT !.command = "pair", !.at = "loading"]]
  /\ UNCHANGED <<identity, config, holder, drawn, edits, history>>

Same(q, new) == q.label = new.label /\ q.publicKey = new.publicKey
Alike(q, new) == q.label = new.label \/ q.publicKey = new.publicKey

\* A different peer has the label or the key.
Conflict(c, new) == \E q \in Range(c.peers) : Alike(q, new) /\ ~Same(q, new)

\* The peers but the one at i.
Without(s, i) == SubSeq(s, 1, i - 1) \o SubSeq(s, i + 1, Len(s))

\* The peer is approved, or approved again: where labels and keys are unique and nothing
\* conflicts, one peer at most is taken out.
WithPeer(c, new) ==
  LET others == IF \E q \in Range(c.peers) : Alike(q, new)
                THEN Without(c.peers, CHOOSE i \in DOMAIN c.peers : Alike(c.peers[i], new))
                ELSE c.peers IN
  [c EXCEPT !.peers = Append(others, new)]

\* pair reads the config, which must exist, and composes the next one.
Approves(p, new) ==
  /\ At(p, "pair", "loading")
  /\ Loads
  /\ ~Conflict(config, new) /\ Valid(WithPeer(config, new))
  /\ proc' = [proc EXCEPT ![p].at = "saving", ![p].found = config, ![p].next = WithPeer(config, new)]
  /\ UNCHANGED <<identity, config, holder, drawn, edits, history>>

\* saveKeposConfig: the new file takes the old one's place, whatever that is by now.
Saves(p) ==
  /\ proc[p].at = "saving"
  /\ Valid(proc[p].next)
  /\ config' = proc[p].next
  /\ known' = IF proc[p].command = "setup" THEN proc[p].key ELSE known
  /\ Finish(p)
  /\ UNCHANGED <<identity, drawn, edits, lost>>

-----------------------------------------------------------------------------
(* The owner and the disk *)

\* Who has no identity and empties the config starts over.
Forgotten(state, c) == state = Absent /\ ~Configured(c)

\* The config is edited, or removed.
Edit ==
  /\ edits < MaxEdits /\ edits' = edits + 1
  /\ config' \in Edits \cup {None}
  /\ known' = IF Forgotten(identity, config') THEN None ELSE known
  /\ lost' = (lost \/ identity \notin Seeds)
  /\ UNCHANGED <<identity, holder, proc, drawn>>

\* The identity is lost or damaged, or a copy is put back, while no command runs.
Accident ==
  /\ \A p \in Processes : proc[p] = Idle
  /\ \/ identity \in Seeds /\ identity' \in {Absent, Damaged}
     \/ known # None /\ identity' = known
  /\ known' = IF Forgotten(identity', config) THEN None ELSE known
  /\ lost' = TRUE
  /\ UNCHANGED <<config, holder, proc, drawn, edits>>

-----------------------------------------------------------------------------
Init ==
  /\ identity = Absent /\ config = None /\ holder = None
  /\ proc = [p \in Processes |-> Idle]
  /\ drawn = 0 /\ edits = 0 /\ known = None /\ lost = FALSE

Command(p) ==
  \/ \E command \in {"setup", "join"} : Starts(p, command)
  \/ Reads(p) \/ Reuses(p) \/ Creates(p)
  \/ Admitted(p) \/ Checks(p)
  \/ StartsPair(p) \/ \E new \in Approvals : Approves(p, new)
  \/ Saves(p) \/ Stops(p)

Next == (\E p \in Processes : Command(p)) \/ Edit \/ Accident

Spec == Init /\ [][Next]_vars

-----------------------------------------------------------------------------
(* Properties *)

TypeOK ==
  /\ identity \in Seeds \cup {Absent, Damaged}
  /\ holder \in Processes \cup {None}
  /\ drawn \in 0 .. MaxSeeds /\ edits \in 0 .. MaxEdits
  /\ known \in Seeds \cup {None} /\ lost \in BOOLEAN
  /\ config \in Configs \cup {None}
  /\ proc \in [Processes ->
       [command : {"none", "setup", "join", "pair"},
        at      : {"idle", "loading", "identity", "pairing", "checking", "saving"},
        found   : Configs \cup {None}, next : Configs \cup {None}, key : Seeds \cup {None}]]
  /\ \A p \in Processes : holder = p <=> proc[p].command \in {"setup", "join"}

\* "It does not replace a damaged identity or create one for an existing configured peer"
\* (docs/peer-vpn.md): a peer whose key was printed, or admitted by a receiver, has that key
\* or none, wherever its commands were killed; and the commands alone never leave a config
\* without the identity, which setup and join would refuse from then on.
IdentityIsKept ==
  /\ known # None => \/ identity \in {known, Damaged}
                     \/ identity = Absent /\ Configured(config)
  /\ ~lost /\ config # None => identity \in Seeds

Pairs(c) == {<<q.label, q.publicKey>> : q \in Range(c.peers)}

\* All that c says is said by d: its peers under their names, its settings, and each
\* grant goes to the key it went to.
Keeps(c, d) ==
  /\ Pairs(c) \subseteq Pairs(d)
  /\ c.network \in {None, d.network}
  /\ c.vpn # None => /\ d.vpn = c.vpn
                     /\ \A e \in Range(c.vpn.peers) :
                          Resolved(e.peer, c.peers) = Resolved(e.peer, d.peers)

\* A command that saves over a config which is as it last read it loses nothing of it; so
\* what can be lost is only what was written in between ("Config changed during pairing;
\* preserve the current file", src/cli/main.ts).
NothingIsLost ==
  [][\A p \in Processes :
       Saves(p) /\ config # None /\ config = proc[p].found => Keeps(config, config')]_vars

=============================================================================
