----------------------------- MODULE PeerProofs -----------------------------
(***************************************************************************)
(* Proofs about the commands of the peer. First PeerState, for any         *)
(* commands at a time, any peers and any configs that an owner writes: the *)
(* identity is kept, and so is a config. Then Pairing, for any dialers and *)
(* attempts: the outcome that `peer join` reports is the receiver's own.   *)
(***************************************************************************)
EXTENDS PeerState, Pairing, SequenceTheorems, TLAPS

-----------------------------------------------------------------------------
(* The inductive invariant *)

HasIdentity(p) ==
  proc[p].command \in {"setup", "join"} /\ proc[p].at \in {"pairing", "checking", "saving"}

\* What a command knows at each of its awaits.
KnowsOf(p) ==
  /\ proc[p].command = "none" <=> proc[p].at = "idle"
  /\ proc[p].at = "identity" =>
       proc[p].command \in {"setup", "join"} /\ (identity = Absent => known = None)
  /\ proc[p].at \in {"pairing", "checking"} => proc[p].command = "join"
  /\ HasIdentity(p) => proc[p].key \in Seeds /\ identity = proc[p].key
  /\ proc[p].command = "pair" /\ proc[p].at = "saving" =>
       /\ Configured(proc[p].next)
       /\ lost \/ identity \in Seeds

Knows == \A p \in Processes : KnowsOf(p)

IInv == TypeOK /\ IdentityIsKept /\ Knows

\* A seed is neither of the two other states of the directory, nor nothing.
LEMMA SeedsAreSeeds == \A n \in Seeds : n \in Nat /\ n \notin {Absent, Damaged, None}
BY PeerStateBounds, PeerStateNone DEF Seeds

-----------------------------------------------------------------------------
(* Configs *)

\* Taking one peer out of a list leaves a list.
LEMMA WithoutIsTyped ==
  ASSUME NEW S, NEW s \in Seq(S), NEW i \in DOMAIN s
  PROVE  Without(s, i) \in Seq(S)
<1>1. i \in 1 .. Len(s) /\ Len(s) \in Nat
  OBVIOUS
<1>2. SubSeq(s, 1, i - 1) \in Seq(S)
  BY <1>1, SubSeqProperties
<1>3. SubSeq(s, i + 1, Len(s)) \in Seq(S)
  BY <1>1, SubSeqProperties
<1> QED BY <1>2, <1>3, ConcatProperties DEF Without

\* Approving a peer gives a config with peers.
LEMMA ApprovedIsConfigured ==
  ASSUME NEW c \in Configs, NEW new \in Approvals
  PROVE  WithPeer(c, new) \in Configs /\ Configured(WithPeer(c, new))
<1> DEFINE alike == {i \in DOMAIN c.peers : Alike(c.peers[i], new)}
           others == IF \E q \in Range(c.peers) : Alike(q, new)
                     THEN Without(c.peers, CHOOSE i \in DOMAIN c.peers : Alike(c.peers[i], new))
                     ELSE c.peers
<1>1. c.peers \in Seq(Entries) /\ new \in Entries
  BY DEF Configs, Entries
<1>2. others \in Seq(Entries)
  <2>1. CASE \E q \in Range(c.peers) : Alike(q, new)
    <3>1. \E i \in DOMAIN c.peers : Alike(c.peers[i], new)
      BY <2>1 DEF Range
    <3>2. (CHOOSE i \in DOMAIN c.peers : Alike(c.peers[i], new)) \in DOMAIN c.peers
      BY <3>1
    <3>3. Without(c.peers, CHOOSE i \in DOMAIN c.peers : Alike(c.peers[i], new)) \in Seq(Entries)
      BY <1>1, <3>2, WithoutIsTyped
    <3> QED BY <2>1, <3>3
  <2>2. CASE ~(\E q \in Range(c.peers) : Alike(q, new))
    BY <1>1, <2>2
  <2> QED BY <2>1, <2>2
<1> HIDE DEF others
<1>3. Append(others, new) \in Seq(Entries) /\ Len(Append(others, new)) = Len(others) + 1 /\ Len(others) \in Nat
  BY <1>1, <1>2, AppendProperties, LenProperties
<1>4. Append(others, new) # <<>>
  BY <1>3, EmptySeq
<1>5. WithPeer(c, new) = [c EXCEPT !.peers = Append(others, new)]
  BY DEF WithPeer, others
<1>6. /\ [c EXCEPT !.peers = Append(others, new)] \in Configs
      /\ [c EXCEPT !.peers = Append(others, new)].peers = Append(others, new)
  BY <1>3 DEF Configs
<1>7. [c EXCEPT !.peers = Append(others, new)] # None
  BY <1>6, PeerStateEdits
<1> QED BY <1>4, <1>5, <1>6, <1>7 DEF Configured

\* The rest of the list is what was there, but for the one taken out.
LEMMA WithoutIsTheRest ==
  ASSUME NEW S, NEW s \in Seq(S), NEW i \in 1 .. Len(s)
  PROVE  /\ \A j \in 1 .. Len(s) : j # i => \E h \in 1 .. Len(Without(s, i)) : Without(s, i)[h] = s[j]
         /\ \A h \in 1 .. Len(Without(s, i)) : \E j \in 1 .. Len(s) : Without(s, i)[h] = s[j]
<1> DEFINE a == SubSeq(s, 1, i - 1)
           b == SubSeq(s, i + 1, Len(s))
           w == a \o b
<1>1. Len(s) \in Nat /\ i \in Nat /\ 1 <= i /\ i <= Len(s)
  BY LenProperties
<1>2. \A j \in 1 .. Len(s) : s[j] \in S
  BY ElementOfSeq
<1>3. /\ a \in Seq(S) /\ Len(a) = i - 1
      /\ \A h \in 1 .. i - 1 : a[h] = s[h]
  <2>1. /\ a \in Seq(S) /\ Len(a) = IF 1 <= i - 1 THEN i - 1 - 1 + 1 ELSE 0
        /\ \A h \in 1 .. i - 1 - 1 + 1 : a[h] = s[1 + h - 1]
    BY <1>1, <1>2, SubSeqProperties
  <2> HIDE DEF a
  <2> QED BY <1>1, <2>1
<1>4. /\ b \in Seq(S) /\ Len(b) = Len(s) - i
      /\ \A h \in 1 .. Len(s) - i : b[h] = s[i + h]
  <2>1. /\ b \in Seq(S) /\ Len(b) = IF i + 1 <= Len(s) THEN Len(s) - (i + 1) + 1 ELSE 0
        /\ \A h \in 1 .. Len(s) - (i + 1) + 1 : b[h] = s[i + 1 + h - 1]
    BY <1>1, <1>2, SubSeqProperties
  <2> HIDE DEF b
  <2> QED BY <1>1, <2>1
<1> HIDE DEF a, b
<1>5. /\ Len(w) = Len(s) - 1
      /\ \A h \in 1 .. Len(s) - 1 : w[h] = IF h <= i - 1 THEN a[h] ELSE b[h - (i - 1)]
  <2>1. /\ Len(w) = Len(a) + Len(b)
        /\ \A h \in 1 .. Len(a) + Len(b) : w[h] = IF h <= Len(a) THEN a[h] ELSE b[h - Len(a)]
    BY <1>3, <1>4, ConcatProperties
  <2>2. Len(a) + Len(b) = Len(s) - 1 /\ Len(a) = i - 1
    BY <1>1, <1>3, <1>4
  <2> HIDE DEF w
  <2> QED BY <2>1, <2>2
<1>6. Without(s, i) = w
  BY DEF Without, a, b
<1> HIDE DEF w
<1>7. \A h \in 1 .. Len(s) - 1 : w[h] = IF h < i THEN s[h] ELSE s[h + 1]
  BY <1>1, <1>3, <1>4, <1>5
<1>8. ASSUME NEW j \in 1 .. Len(s), j # i PROVE \E h \in 1 .. Len(w) : w[h] = s[j]
  <2>1. CASE j < i
    <3>1. j \in 1 .. Len(s) - 1 /\ w[j] = s[j]
      BY <1>1, <1>7, <2>1
    <3> QED BY <1>5, <3>1
  <2>2. CASE j > i
    <3>1. j - 1 \in 1 .. Len(s) - 1 /\ ~(j - 1 < i) /\ (j - 1) + 1 = j
      BY <1>1, <2>2
    <3>2. w[j - 1] = s[j]
      BY <1>7, <3>1
    <3> QED BY <1>5, <3>1, <3>2
  <2> QED BY <1>1, <1>8, <2>1, <2>2
<1>9. ASSUME NEW h \in 1 .. Len(w) PROVE \E j \in 1 .. Len(s) : w[h] = s[j]
  <2>1. h \in 1 .. Len(s) - 1 /\ h \in 1 .. Len(s) /\ h + 1 \in 1 .. Len(s)
    BY <1>1, <1>5
  <2> QED BY <1>7, <2>1
<1> QED BY <1>6, <1>8, <1>9

\* The peers of a list under the names they have.
Listed(s) == {<<s[i].label, s[i].publicKey>> : i \in 1 .. Len(s)}

\* Where nothing conflicts, approving a peer only adds its name.
LEMMA ApprovalAdds ==
  ASSUME NEW c \in Configs, NEW new \in Approvals, ~Conflict(c, new)
  PROVE  /\ Listed(WithPeer(c, new).peers) = Listed(c.peers) \cup {<<new.label, new.publicKey>>}
         /\ WithPeer(c, new).network = c.network /\ WithPeer(c, new).vpn = c.vpn
<1> DEFINE s  == c.peers
           it == CHOOSE i \in DOMAIN s : Alike(s[i], new)
           others == IF \E q \in Range(s) : Alike(q, new) THEN Without(s, it) ELSE s
           name   == <<new.label, new.publicKey>>
<1>1. s \in Seq(Entries) /\ new \in Entries /\ Len(s) \in Nat /\ DOMAIN s = 1 .. Len(s)
  BY LenProperties DEF Configs, Entries
<1>2. others \in Seq(Entries) /\ Listed(others) \cup {name} = Listed(s) \cup {name}
  <2>1. CASE \E q \in Range(s) : Alike(q, new)
    <3>1. it \in 1 .. Len(s) /\ Alike(s[it], new)
      <4>1. \E i \in DOMAIN s : Alike(s[i], new)
        BY <2>1 DEF Range
      <4> QED BY <1>1, <4>1
    <3>2. <<s[it].label, s[it].publicKey>> = name
      BY <1>1, <3>1 DEF Conflict, Same, Range
    <3> HIDE DEF it, s
    <3>3. others = Without(s, it)
      BY <2>1
    <3>4. Without(s, it) \in Seq(Entries)
      BY <1>1, <3>1, WithoutIsTyped
    <3>5. /\ \A j \in 1 .. Len(s) : j # it => \E h \in 1 .. Len(Without(s, it)) : Without(s, it)[h] = s[j]
          /\ \A h \in 1 .. Len(Without(s, it)) : \E j \in 1 .. Len(s) : Without(s, it)[h] = s[j]
      BY <1>1, <3>1, WithoutIsTheRest
    <3> DEFINE w == Without(s, it)
    <3> HIDE DEF w, name
    <3>6. Listed(w) \subseteq Listed(s)
      BY <3>5 DEF Listed, w
    <3>7. Listed(s) \subseteq Listed(w) \cup {name}
      <4>1. ASSUME NEW j \in 1 .. Len(s), j # it
            PROVE  <<s[j].label, s[j].publicKey>> \in Listed(w)
        BY <3>5, <4>1 DEF Listed, w
      <4> QED BY <3>2, <4>1 DEF Listed
    <3> QED BY <3>3, <3>4, <3>6, <3>7 DEF w
  <2>2. CASE ~ \E q \in Range(s) : Alike(q, new)
    BY <1>1, <2>2
  <2> QED BY <2>1, <2>2
<1>3. WithPeer(c, new) = [c EXCEPT !.peers = Append(others, new)]
  BY DEF WithPeer
<1> HIDE DEF others, name
<1>4. /\ WithPeer(c, new).peers = Append(others, new)
      /\ WithPeer(c, new).network = c.network /\ WithPeer(c, new).vpn = c.vpn
  BY <1>3 DEF Configs
<1>5. Listed(Append(others, new)) = Listed(others) \cup {name}
  <2> DEFINE t == Append(others, new)
  <2>1. /\ Len(others) \in Nat /\ Len(t) = Len(others) + 1 /\ t[Len(others) + 1] = new
        /\ \A i \in 1 .. Len(others) : t[i] = others[i]
    BY <1>1, <1>2, AppendProperties, LenProperties
  <2> HIDE DEF t
  <2>2. \A i \in 1 .. Len(t) : i \in 1 .. Len(others) \/ i = Len(others) + 1
    BY <2>1
  <2>3. Len(others) + 1 \in 1 .. Len(t) /\ \A i \in 1 .. Len(others) : i \in 1 .. Len(t)
    BY <2>1
  <2>4. Listed(t) \subseteq Listed(others) \cup {name}
    BY <2>1, <2>2 DEF Listed, name
  <2>5. Listed(others) \cup {name} \subseteq Listed(t)
    BY <2>1, <2>3 DEF Listed, name
  <2> QED BY <2>4, <2>5 DEF t
<1> QED BY <1>2, <1>4, <1>5 DEF name

\* Where a reference leads is decided by the names in the list.
LEMMA NamesResolve ==
  ASSUME NEW ref, NEW s \in Seq(Entries), NEW k
  PROVE  k \in Resolved(ref, s) <=>
           \E n \in Listed(s) : n[2] = k /\ (IF ref \in Keys THEN n[2] = ref ELSE n[1] = ref)
<1> DEFINE Fits(label, key) == IF ref \in Keys THEN key = ref ELSE label = ref
<1>1. DOMAIN s = 1 .. Len(s)
  BY LenProperties
<1>2. k \in Resolved(ref, s) <=>
        \E i \in 1 .. Len(s) : s[i].publicKey = k /\ Fits(s[i].label, s[i].publicKey)
  BY <1>1 DEF Resolved
<1>3. ASSUME NEW n \in Listed(s), n[2] = k, IF ref \in Keys THEN n[2] = ref ELSE n[1] = ref
      PROVE  \E i \in 1 .. Len(s) : s[i].publicKey = k /\ Fits(s[i].label, s[i].publicKey)
  <2>1. PICK i \in 1 .. Len(s) : n = <<s[i].label, s[i].publicKey>>
    BY DEF Listed
  <2> QED BY <1>3, <2>1
<1>4. ASSUME NEW i \in 1 .. Len(s), s[i].publicKey = k, Fits(s[i].label, s[i].publicKey)
      PROVE  \E n \in Listed(s) : n[2] = k /\ (IF ref \in Keys THEN n[2] = ref ELSE n[1] = ref)
  <2> DEFINE n == <<s[i].label, s[i].publicKey>>
  <2>1. n \in Listed(s) /\ n[1] = s[i].label /\ n[2] = s[i].publicKey
    BY DEF Listed
  <2> QED BY <1>4, <2>1
<1> QED BY <1>2, <1>3, <1>4

\* What a command has read is kept in what it composes: pair adds a peer to it, and no
\* reference of a config that is valid leads anywhere else then.
LEMMA ApprovalKeeps ==
  ASSUME NEW c \in Configs, Valid(c), NEW new \in Approvals, ~Conflict(c, new)
  PROVE  Keeps(c, WithPeer(c, new))
<1> DEFINE d == WithPeer(c, new)
           name == <<new.label, new.publicKey>>
<1>1. d \in Configs /\ c.peers \in Seq(Entries) /\ d.peers \in Seq(Entries)
  BY ApprovedIsConfigured DEF Configs
<1>2. Listed(d.peers) = Listed(c.peers) \cup {name} /\ d.network = c.network /\ d.vpn = c.vpn
  BY ApprovalAdds
<1> HIDE DEF d
<1>3. Pairs(c) = Listed(c.peers) /\ Pairs(d) = Listed(d.peers)
  <2>1. DOMAIN c.peers = 1 .. Len(c.peers) /\ DOMAIN d.peers = 1 .. Len(d.peers)
    BY <1>1, LenProperties
  <2> QED BY <2>1 DEF Pairs, Listed, Range
<1>4. ASSUME c.vpn # None, NEW e \in Range(c.vpn.peers)
      PROVE  Resolved(e.peer, c.peers) = Resolved(e.peer, d.peers)
  <2> DEFINE ref == e.peer
             Fits(n) == IF ref \in Keys THEN n[2] = ref ELSE n[1] = ref
  <2>1. Resolved(ref, c.peers) # {}
    BY <1>4 DEF Valid, IsVpn, Range
  <2>2. \E n \in Listed(c.peers) : Fits(n)
    BY <1>1, <2>1, NamesResolve
  <2>3. Fits(name) => name \in Listed(c.peers)
    <3> SUFFICES ASSUME Fits(name) PROVE name \in Listed(c.peers)
      OBVIOUS
    <3>1. PICK n \in Listed(c.peers) : Fits(n)
      BY <2>2
    <3>2. PICK i \in 1 .. Len(c.peers) : n = <<c.peers[i].label, c.peers[i].publicKey>>
      BY <3>1 DEF Listed
    <3>3. Alike(c.peers[i], new)
      BY <3>1, <3>2 DEF Alike
    <3>4. Same(c.peers[i], new)
      BY <1>1, <3>2, <3>3, LenProperties DEF Conflict, Range
    <3> QED BY <3>2, <3>4 DEF Listed, Same
  <2> HIDE DEF ref, name
  <2>4. \A k : k \in Resolved(ref, c.peers) <=> k \in Resolved(ref, d.peers)
    <3>1. \A k : k \in Resolved(ref, c.peers) <=> \E n \in Listed(c.peers) : n[2] = k /\ Fits(n)
      BY <1>1, NamesResolve
    <3>2. \A k : k \in Resolved(ref, d.peers) <=> \E n \in Listed(d.peers) : n[2] = k /\ Fits(n)
      BY <1>1, NamesResolve
    <3> HIDE DEF Fits
    <3> QED BY <1>2, <2>3, <3>1, <3>2
  <2> QED BY <2>4 DEF ref
<1> QED BY <1>2, <1>3, <1>4 DEF Keeps, d

\* join composes it from a config that says of nobody.
LEMMA JoinKeeps ==
  ASSUME NEW c \in Configs, ~Configured(c)
  PROVE  Keeps(c, Joined(c))
<1>1. c.peers = <<>> /\ c.vpn = None /\ Joined(c).network = c.network
  BY PeerStateEdits DEF Configured, Joined
<1> QED BY <1>1 DEF Keeps, Pairs, Range

-----------------------------------------------------------------------------
(* The steps of one command *)

Procs == [command : {"none", "setup", "join", "pair"},
          at      : {"idle", "loading", "identity", "pairing", "checking", "saving"},
          found   : Configs \cup {None}, next : Configs \cup {None}, key : Seeds \cup {None}]

\* The command at the lock is the one that took it.
Locked == \A p \in Processes : holder = p <=> proc[p].command \in {"setup", "join"}

ProcsOK == holder \in Processes \cup {None} /\ proc \in [Processes -> Procs] /\ Locked

LEMMA IdleIsTyped == Idle \in Procs /\ Idle.command = "none" /\ Idle.at = "idle" /\ Idle.key = None
BY DEF Idle, Procs

\* Two commands are not both at the identity.
LEMMA OneIsAtIdentity ==
  ASSUME Locked, NEW p \in Processes, NEW q \in Processes,
         proc[p].command \in {"setup", "join"}, proc[q].command \in {"setup", "join"}
  PROVE  p = q
BY DEF Locked

\* A command that ends leaves the others as they are.
LEMMA FinishKeeps ==
  ASSUME ProcsOK, NEW p \in Processes, Finish(p)
  PROVE  /\ ProcsOK'
         /\ proc'[p] = Idle
         /\ \A q \in Processes \ {p} : proc'[q] = proc[q]
<1>1. /\ proc' \in [Processes -> Procs]
      /\ proc'[p] = Idle
      /\ \A q \in Processes \ {p} : proc'[q] = proc[q]
  BY IdleIsTyped DEF ProcsOK, Finish
<1>2. holder' \in Processes \cup {None}
  BY DEF ProcsOK, Finish
<1>3. Locked'
  BY <1>1, IdleIsTyped, PeerStateNone DEF ProcsOK, Locked, Finish
<1> QED BY <1>1, <1>2, <1>3 DEF ProcsOK

\* A command that goes on, with or without the lock, leaves the others as they are.
LEMMA GoingOnKeeps ==
  ASSUME ProcsOK, NEW p \in Processes, NEW r \in Procs,
         proc' = [proc EXCEPT ![p] = r], holder' = holder,
         r.command \in {"setup", "join"} <=> proc[p].command \in {"setup", "join"}
  PROVE  /\ ProcsOK'
         /\ proc'[p] = r
         /\ \A q \in Processes \ {p} : proc'[q] = proc[q]
<1>1. /\ proc' \in [Processes -> Procs]
      /\ proc'[p] = r
      /\ \A q \in Processes \ {p} : proc'[q] = proc[q]
  BY DEF ProcsOK
<1> QED BY <1>1 DEF ProcsOK, Locked

Others(p) == \A q \in Processes \ {p} : proc'[q] = proc[q]

\* What the others know stays true while the identity stays, and nobody learns of a key
\* but that of an identity that is there.
LEMMA OthersKnow ==
  ASSUME Knows, NEW p \in Processes, Others(p), identity' = identity, lost' = lost,
         known' = known \/ identity \in Seeds
  PROVE  \A q \in Processes \ {p} : KnowsOf(q)'
BY SeedsAreSeeds DEF Knows, KnowsOf, HasIdentity, Others

\* So, too, when a command creates an identity: no other command is at it.
LEMMA OthersKnowOfCreation ==
  ASSUME Knows, Locked, NEW p \in Processes, Others(p), proc[p].command \in {"setup", "join"},
         identity' \in Seeds, lost' = lost
  PROVE  \A q \in Processes \ {p} : KnowsOf(q)'
<1> SUFFICES ASSUME NEW q \in Processes \ {p} PROVE KnowsOf(q)'
  OBVIOUS
<1>1. proc[q].command \notin {"setup", "join"} /\ proc'[q] = proc[q]
  BY OneIsAtIdentity DEF Others
<1>2. identity' # Absent
  BY SeedsAreSeeds
<1> QED BY <1>1, <1>2 DEF Knows, KnowsOf, HasIdentity

-----------------------------------------------------------------------------
(* Every step preserves the invariant *)

\* The rest of the state is typed.
RestOK ==
  /\ identity \in Seeds \cup {Absent, Damaged}
  /\ drawn \in 0 .. MaxSeeds /\ edits \in 0 .. MaxEdits
  /\ known \in Seeds \cup {None} /\ lost \in BOOLEAN
  /\ config \in Configs \cup {None}

LEMMA TypeSplits ==
  /\ TypeOK <=> ProcsOK /\ RestOK
  /\ TypeOK' <=> ProcsOK' /\ RestOK'
BY DEF TypeOK, ProcsOK, Procs, Locked, RestOK

\* A command that ends, for whatever reason, having changed nothing.
LEMMA StopsKeeps == ASSUME IInv, NEW p \in Processes, Stops(p) PROVE IInv'
<1> USE TypeSplits DEF IInv
<1>1. /\ Finish(p)
      /\ UNCHANGED <<identity, config, drawn, edits, history>>
  BY DEF Stops
<1>2. ProcsOK' /\ proc'[p] = Idle /\ Others(p)
  BY <1>1, FinishKeeps DEF Others
<1>3. RestOK' /\ IdentityIsKept'
  BY <1>1 DEF RestOK, IdentityIsKept, history
<1>4. KnowsOf(p)'
  BY <1>2, IdleIsTyped DEF KnowsOf, HasIdentity
<1>5. Knows'
  BY <1>1, <1>2, <1>4, OthersKnow DEF Knows, history
<1> QED BY <1>2, <1>3, <1>5

\* setup and join take the lock.
LEMMA StartsKeeps ==
  ASSUME IInv, NEW p \in Processes, NEW command \in {"setup", "join"}, Starts(p, command)
  PROVE  IInv'
<1> USE TypeSplits DEF IInv
<1> DEFINE r == [Idle EXCEPT !.command = command, !.at = "loading"]
<1>1. /\ holder = None /\ holder' = p /\ proc[p] = Idle
      /\ proc' = [proc EXCEPT ![p] = r]
      /\ UNCHANGED <<identity, config, drawn, edits, history>>
  BY DEF Starts
<1>2. r \in Procs /\ r.command = command /\ r.at = "loading"
  BY DEF Idle, Procs
<1> HIDE DEF r
<1>3. proc' \in [Processes -> Procs] /\ proc'[p] = r /\ Others(p)
  BY <1>1, <1>2 DEF ProcsOK, Others
<1>4. Locked'
  BY <1>1, <1>2, <1>3, PeerStateNone DEF ProcsOK, Locked, Others
<1>5. ProcsOK'
  BY <1>1, <1>3, <1>4 DEF ProcsOK
<1>6. RestOK' /\ IdentityIsKept'
  BY <1>1 DEF RestOK, IdentityIsKept, history
<1>7. KnowsOf(p)'
  BY <1>2, <1>3 DEF KnowsOf, HasIdentity
<1>8. Knows'
  BY <1>1, <1>3, <1>7, OthersKnow DEF Knows, history
<1> QED BY <1>5, <1>6, <1>8

\* The config is read, with the identity it needs.
LEMMA ReadsKeeps == ASSUME IInv, NEW p \in Processes, Reads(p) PROVE IInv'
<1> USE TypeSplits DEF IInv
<1> DEFINE r == [proc[p] EXCEPT !.at = "identity", !.found = config]
<1>1. /\ proc[p].command \in {"setup", "join"}
      /\ Configured(config) => identity \in Seeds
      /\ proc' = [proc EXCEPT ![p] = r]
      /\ UNCHANGED <<identity, config, holder, drawn, edits, history>>
  BY DEF Reads, ProcsOK
<1>2. r \in Procs /\ r.command = proc[p].command /\ r.at = "identity"
  BY DEF ProcsOK, RestOK, Procs
<1> HIDE DEF r
<1>3. ProcsOK' /\ proc'[p] = r /\ Others(p)
  BY <1>1, <1>2, GoingOnKeeps DEF Others
<1>4. RestOK' /\ IdentityIsKept'
  BY <1>1 DEF RestOK, IdentityIsKept, history
<1>5. identity = Absent => known = None
  BY <1>1, SeedsAreSeeds, PeerStateNone DEF IdentityIsKept, RestOK
<1>6. KnowsOf(p)'
  BY <1>1, <1>2, <1>3, <1>5 DEF KnowsOf, HasIdentity, history
<1>7. Knows'
  BY <1>1, <1>3, <1>6, OthersKnow DEF Knows, history
<1> QED BY <1>3, <1>4, <1>7

\* What follows when the identity is there: the command goes on with its key, or it ends
\* and the key is printed.
LEMMA ProceedsKeeps ==
  ASSUME ProcsOK, NEW p \in Processes, NEW seed \in Seeds, Proceeds(p, seed),
         proc[p].command \in {"setup", "join"}
  PROVE  /\ ProcsOK' /\ Others(p)
         /\ known' \in {known, seed}
         /\ identity' = seed => KnowsOf(p)'
<1> DEFINE pairs  == [proc[p] EXCEPT !.at = "pairing", !.key = seed]
           writes == [proc[p] EXCEPT !.at = "saving", !.key = seed, !.next = Empty]
<1>0. Empty \in Configs
  BY EmptySeq DEF Empty, Configs
<1>1. /\ pairs \in Procs /\ pairs.command = proc[p].command
      /\ pairs.at = "pairing" /\ pairs.key = seed
  BY DEF ProcsOK, Procs
<1>2. /\ writes \in Procs /\ writes.command = proc[p].command
      /\ writes.at = "saving" /\ writes.key = seed
  BY <1>0 DEF ProcsOK, Procs
<1>3. CASE proc[p].command = "join"
  <2>1. proc' = [proc EXCEPT ![p] = pairs] /\ UNCHANGED <<holder, known>>
    BY <1>3 DEF Proceeds, ProcsOK
  <2> HIDE DEF pairs
  <2>2. ProcsOK' /\ proc'[p] = pairs /\ Others(p)
    BY <1>1, <2>1, GoingOnKeeps DEF Others
  <2> QED BY <1>1, <1>3, <2>1, <2>2 DEF KnowsOf, HasIdentity
<1>4. CASE proc[p].command # "join" /\ proc[p].found = None
  <2>1. proc' = [proc EXCEPT ![p] = writes] /\ UNCHANGED <<holder, known>>
    BY <1>4 DEF Proceeds, ProcsOK
  <2> HIDE DEF writes
  <2>2. ProcsOK' /\ proc'[p] = writes /\ Others(p)
    BY <1>2, <2>1, GoingOnKeeps DEF Others
  <2> QED BY <1>2, <1>4, <2>1, <2>2 DEF KnowsOf, HasIdentity
<1>5. CASE proc[p].command # "join" /\ proc[p].found # None
  <2>1. Finish(p) /\ known' = seed
    BY <1>5 DEF Proceeds
  <2>2. ProcsOK' /\ proc'[p] = Idle /\ Others(p)
    BY <2>1, FinishKeeps DEF Others
  <2> QED BY <2>1, <2>2, IdleIsTyped DEF KnowsOf, HasIdentity
<1> QED BY <1>3, <1>4, <1>5

\* An identity that is there is used.
LEMMA ReusesKeeps == ASSUME IInv, NEW p \in Processes, Reuses(p) PROVE IInv'
<1> USE TypeSplits DEF IInv
<1>1. /\ proc[p].at = "identity" /\ identity \in Seeds
      /\ Proceeds(p, identity)
      /\ UNCHANGED <<identity, config, drawn, edits, lost>>
  BY DEF Reuses
<1>2. proc[p].command \in {"setup", "join"} /\ known \in {None, identity}
  BY <1>1, SeedsAreSeeds DEF Knows, KnowsOf, IdentityIsKept
<1>3. ProcsOK' /\ Others(p) /\ known' \in {known, identity} /\ KnowsOf(p)'
  BY <1>1, <1>2, ProceedsKeeps
<1>4. RestOK' /\ IdentityIsKept'
  BY <1>1, <1>2, <1>3 DEF RestOK, IdentityIsKept
<1>5. Knows'
  BY <1>1, <1>3, OthersKnow DEF Knows
<1> QED BY <1>3, <1>4, <1>5

\* An identity is created only where nobody knows of an earlier one.
LEMMA CreatesKeeps == ASSUME IInv, NEW p \in Processes, Creates(p) PROVE IInv'
<1> USE TypeSplits DEF IInv
<1>1. /\ proc[p].at = "identity" /\ identity = Absent
      /\ drawn < MaxSeeds /\ drawn' = drawn + 1 /\ identity' = drawn'
      /\ Proceeds(p, drawn')
      /\ UNCHANGED <<config, edits, lost>>
  BY DEF Creates, Missing
<1>2. proc[p].command \in {"setup", "join"} /\ known = None
  BY <1>1 DEF Knows, KnowsOf
<1>3. drawn' \in Seeds /\ drawn' \in 0 .. MaxSeeds
  BY <1>1, PeerStateBounds DEF RestOK, Seeds
<1>4. ProcsOK' /\ Others(p) /\ known' \in {known, drawn'} /\ KnowsOf(p)'
  BY <1>1, <1>2, <1>3, ProceedsKeeps
<1>5. RestOK' /\ IdentityIsKept'
  BY <1>1, <1>2, <1>3, <1>4 DEF RestOK, IdentityIsKept
<1>6. Knows'
  BY <1>1, <1>2, <1>3, <1>4, OthersKnowOfCreation DEF Knows, ProcsOK
<1> QED BY <1>4, <1>5, <1>6

\* A command that goes on at the same identity, from where it knew enough.
LEMMA GoingOnIsKnown ==
  ASSUME IInv, NEW p \in Processes, NEW r \in Procs,
         proc' = [proc EXCEPT ![p] = r], r.command = proc[p].command,
         holder' = holder, UNCHANGED <<identity, config, drawn, edits, lost>>,
         known' = known \/ (known' = identity /\ identity \in Seeds),
         proc'[p] = r => KnowsOf(p)'
  PROVE  IInv'
<1> USE TypeSplits DEF IInv
<1>1. ProcsOK' /\ proc'[p] = r /\ Others(p)
  BY GoingOnKeeps DEF Others
<1>2. RestOK' /\ IdentityIsKept'
  BY DEF RestOK, IdentityIsKept
<1>3. Knows'
  BY <1>1, OthersKnow DEF Knows
<1> QED BY <1>1, <1>2, <1>3

\* The receiver admits the identity that is there.
LEMMA AdmittedKeeps == ASSUME IInv, NEW p \in Processes, Admitted(p) PROVE IInv'
<1> USE TypeSplits DEF IInv
<1> DEFINE r == [proc[p] EXCEPT !.at = "checking", !.next = Joined(proc[p].found)]
<1>1. /\ proc[p].command = "join" /\ proc[p].at = "pairing"
      /\ known' = proc[p].key
      /\ UNCHANGED <<identity, config, drawn, edits, lost>>
  BY DEF Admitted, At
<1>2. proc[p].key = identity /\ identity \in Seeds
  BY <1>1 DEF Knows, KnowsOf, HasIdentity
<1>3. CASE proc' = [proc EXCEPT ![p] = r] /\ UNCHANGED holder
  <2>1. Joined(proc[p].found) \in Configs
    <3>1. proc[p].found \in Configs \cup {None}
      BY DEF ProcsOK, Procs
    <3>2. <<Receiver>> \in Seq(Entries)
      BY DEF Entries
    <3> QED BY <3>1, <3>2 DEF Joined, Configs
  <2>2. r \in Procs /\ r.command = "join" /\ r.at = "checking" /\ r.key = identity
    BY <1>1, <1>2, <2>1 DEF ProcsOK, Procs
  <2> HIDE DEF r
  <2>3. proc'[p] = r => KnowsOf(p)'
    BY <1>1, <1>2, <2>2 DEF KnowsOf, HasIdentity
  <2> QED BY <1>1, <1>2, <1>3, <2>2, <2>3, GoingOnIsKnown
<1>4. CASE Finish(p)
  <2>1. ProcsOK' /\ proc'[p] = Idle /\ Others(p)
    BY <1>4, FinishKeeps DEF Others
  <2>2. RestOK' /\ IdentityIsKept'
    BY <1>1, <1>2 DEF RestOK, IdentityIsKept
  <2>3. KnowsOf(p)'
    BY <2>1, IdleIsTyped DEF KnowsOf, HasIdentity
  <2>4. Knows'
    BY <1>1, <1>2, <2>1, <2>3, OthersKnow DEF Knows
  <2> QED BY <2>1, <2>2, <2>4
<1> QED BY <1>3, <1>4 DEF Admitted

\* The config reads as it did.
LEMMA ChecksKeeps == ASSUME IInv, NEW p \in Processes, Checks(p) PROVE IInv'
<1> USE TypeSplits DEF IInv
<1> DEFINE r == [proc[p] EXCEPT !.at = "saving", !.found = config]
<1>1. /\ proc[p].command = "join" /\ proc[p].at = "checking"
      /\ proc' = [proc EXCEPT ![p] = r]
      /\ holder' = holder /\ UNCHANGED <<identity, config, drawn, edits, lost>>
      /\ known' = known
  BY DEF Checks, At, ProcsOK, history
<1>2. proc[p].key = identity /\ identity \in Seeds
  BY <1>1 DEF Knows, KnowsOf, HasIdentity
<1>3. r \in Procs /\ r.command = proc[p].command /\ r.at = "saving" /\ r.key = identity
  <2>1. proc[p] \in Procs /\ config \in Configs \cup {None}
    BY DEF ProcsOK, RestOK
  <2> QED BY <1>2, <2>1 DEF Procs
<1> HIDE DEF r
<1>4. proc'[p] = r => KnowsOf(p)'
  BY <1>1, <1>2, <1>3 DEF KnowsOf, HasIdentity
<1> QED BY <1>1, <1>3, <1>4, GoingOnIsKnown

\* pair begins without the lock.
LEMMA StartsPairKeeps == ASSUME IInv, NEW p \in Processes, StartsPair(p) PROVE IInv'
<1> USE TypeSplits DEF IInv
<1> DEFINE r == [Idle EXCEPT !.command = "pair", !.at = "loading"]
<1>1. /\ proc[p] = Idle /\ proc' = [proc EXCEPT ![p] = r]
      /\ UNCHANGED <<identity, config, holder, drawn, edits, known, lost>>
  BY DEF StartsPair, history
<1>2. r \in Procs /\ r.command = "pair" /\ r.at = "loading"
  BY DEF Idle, Procs
<1> HIDE DEF r
<1>3. ProcsOK' /\ proc'[p] = r /\ Others(p)
  BY <1>1, <1>2, IdleIsTyped, GoingOnKeeps DEF Others
<1>4. RestOK' /\ IdentityIsKept'
  BY <1>1 DEF RestOK, IdentityIsKept
<1>5. KnowsOf(p)'
  BY <1>2, <1>3 DEF KnowsOf, HasIdentity
<1>6. Knows'
  BY <1>1, <1>3, <1>5, OthersKnow DEF Knows
<1> QED BY <1>3, <1>4, <1>6

\* pair reads a config, which without accidents says that there is an identity.
LEMMA ApprovesKeeps ==
  ASSUME IInv, NEW p \in Processes, NEW new \in Approvals, Approves(p, new)
  PROVE  IInv'
<1> USE TypeSplits DEF IInv
<1> DEFINE next == WithPeer(config, new)
           r    == [proc[p] EXCEPT !.at = "saving", !.found = config, !.next = next]
<1>1. /\ proc[p].command = "pair" /\ config # None
      /\ proc' = [proc EXCEPT ![p] = r]
      /\ holder' = holder /\ UNCHANGED <<identity, config, drawn, edits, lost>>
      /\ known' = known
  BY DEF Approves, At, Loads, ProcsOK, history
<1>2. next \in Configs /\ Configured(next)
  BY <1>1, ApprovedIsConfigured DEF RestOK
<1> HIDE DEF next
<1>3. /\ r \in Procs /\ r.command = proc[p].command /\ r.at = "saving"
      /\ r.next = next
  <2>1. proc[p] \in Procs /\ config \in Configs
    BY <1>1 DEF ProcsOK, RestOK
  <2> QED BY <1>2, <2>1 DEF Procs
<1> HIDE DEF r
<1>4. lost \/ identity \in Seeds
  BY <1>1 DEF IdentityIsKept
<1>5. proc'[p] = r => KnowsOf(p)'
  BY <1>1, <1>2, <1>3, <1>4 DEF KnowsOf, HasIdentity
<1> QED BY <1>1, <1>3, <1>5, GoingOnIsKnown

\* A config is put in place: by setup and join with the identity they hold, by pair one
\* that says there is an identity.
LEMMA SavesKeeps == ASSUME IInv, NEW p \in Processes, Saves(p) PROVE IInv'
<1> USE TypeSplits DEF IInv
<1>1. /\ proc[p].at = "saving" /\ config' = proc[p].next
      /\ known' = IF proc[p].command = "setup" THEN proc[p].key ELSE known
      /\ Finish(p)
      /\ UNCHANGED <<identity, drawn, edits, lost>>
  BY DEF Saves
<1>2. ProcsOK' /\ proc'[p] = Idle /\ Others(p)
  BY <1>1, FinishKeeps DEF Others
<1>3. proc[p].command \in {"setup", "join", "pair"} /\ proc[p].next \in Configs \cup {None}
  BY <1>1 DEF ProcsOK, Procs, Knows, KnowsOf
<1>4. CASE proc[p].command \in {"setup", "join"}
  <2>1. proc[p].key = identity /\ identity \in Seeds
    BY <1>1, <1>4 DEF Knows, KnowsOf, HasIdentity
  <2>2. known' = known \/ known' = identity
    BY <1>1, <2>1
  <2>3. RestOK' /\ IdentityIsKept'
    BY <1>1, <1>3, <2>1, <2>2, SeedsAreSeeds DEF RestOK, IdentityIsKept
  <2>4. KnowsOf(p)'
    BY <1>2, IdleIsTyped DEF KnowsOf, HasIdentity
  <2>5. Knows'
    BY <1>1, <1>2, <2>1, <2>4, OthersKnow DEF Knows
  <2> QED BY <1>2, <2>3, <2>5
<1>5. CASE proc[p].command = "pair"
  <2>1. known' = known
    BY <1>1, <1>5
  <2>2. Configured(config') /\ (lost \/ identity \in Seeds)
    BY <1>1, <1>5 DEF Knows, KnowsOf
  <2>3. RestOK' /\ IdentityIsKept'
    BY <1>1, <1>3, <2>1, <2>2 DEF RestOK, IdentityIsKept
  <2>4. KnowsOf(p)'
    BY <1>2, IdleIsTyped DEF KnowsOf, HasIdentity
  <2>5. Knows'
    BY <1>1, <1>2, <2>1, <2>4, OthersKnow DEF Knows
  <2> QED BY <1>2, <2>3, <2>5
<1> QED BY <1>3, <1>4, <1>5

\* The owner edits the config; who removes it without an identity starts over.
LEMMA EditKeeps == ASSUME IInv, Edit PROVE IInv'
<1> USE TypeSplits DEF IInv
<1>1. /\ edits < MaxEdits /\ edits' = edits + 1
      /\ config' \in Edits \cup {None}
      /\ known' = IF Forgotten(identity, config') THEN None ELSE known
      /\ lost' = (lost \/ identity \notin Seeds)
      /\ UNCHANGED <<identity, holder, proc, drawn>>
  BY DEF Edit
<1>2. ProcsOK'
  BY <1>1 DEF ProcsOK, Locked
<1>3. RestOK'
  BY <1>1, PeerStateEdits, PeerStateBounds DEF RestOK
<1>4. IdentityIsKept'
  BY <1>1, SeedsAreSeeds DEF IdentityIsKept, Forgotten, RestOK
<1>5. Knows'
  BY <1>1 DEF Knows, KnowsOf, HasIdentity, RestOK
<1> QED BY <1>2, <1>3, <1>4, <1>5

\* The identity is lost, damaged or put back, while no command runs.
LEMMA AccidentKeeps == ASSUME IInv, Accident PROVE IInv'
<1> USE TypeSplits DEF IInv
<1>1. /\ \A p \in Processes : proc[p] = Idle
      /\ \/ identity \in Seeds /\ identity' \in {Absent, Damaged}
         \/ known # None /\ identity' = known
      /\ known' = IF Forgotten(identity', config) THEN None ELSE known
      /\ lost' = TRUE
      /\ UNCHANGED <<config, holder, proc, drawn, edits>>
  BY DEF Accident
<1>2. ProcsOK'
  BY <1>1 DEF ProcsOK, Locked
<1>3. RestOK'
  BY <1>1 DEF RestOK
<1>4. IdentityIsKept'
  BY <1>1, SeedsAreSeeds DEF IdentityIsKept, Forgotten, RestOK
<1>5. Knows'
  BY <1>1, IdleIsTyped DEF Knows, KnowsOf, HasIdentity
<1> QED BY <1>2, <1>3, <1>4, <1>5

-----------------------------------------------------------------------------
(* What a command composes *)

\* What a command has composed, while it waits to save it, says all that it read.
ComposesOf(p) ==
  /\ proc[p].command = "join" /\ proc[p].at \in {"identity", "pairing", "checking", "saving"} =>
       ~Configured(proc[p].found)
  /\ proc[p].command = "join" /\ proc[p].at \in {"checking", "saving"} =>
       proc[p].next = Joined(proc[p].found)
  /\ proc[p].command = "setup" /\ proc[p].at = "saving" => proc[p].found = None
  /\ proc[p].command = "pair" /\ proc[p].at = "saving" =>
       proc[p].found # None /\ Keeps(proc[p].found, proc[p].next)

Composes == \A p \in Processes : ComposesOf(p)

\* A command at no await, or at its first, has composed nothing.
LEMMA NothingYet ==
  ASSUME NEW p \in Processes, proc'[p].at \in {"idle", "loading"}
  PROVE  ComposesOf(p)'
BY DEF ComposesOf

\* A step of one command composes nothing for another.
LEMMA OthersCompose ==
  ASSUME Composes, NEW p \in Processes, proc \in [Processes -> Procs], NEW r,
         proc' = [proc EXCEPT ![p] = r], proc'[p] = r => ComposesOf(p)'
  PROVE  Composes'
<1>1. proc'[p] = r /\ \A q \in Processes \ {p} : proc'[q] = proc[q]
  OBVIOUS
<1>2. ASSUME NEW q \in Processes \ {p} PROVE ComposesOf(q)'
  <2>1. ComposesOf(q) /\ proc'[q] = proc[q]
    BY <1>1 DEF Composes
  <2> QED BY <2>1 DEF ComposesOf
<1> QED BY <1>1, <1>2 DEF Composes

LEMMA FinishComposes ==
  ASSUME Composes, proc \in [Processes -> Procs], NEW p \in Processes, Finish(p)
  PROVE  Composes'
<1>1. proc' = [proc EXCEPT ![p] = Idle]
  BY DEF Finish
<1>2. proc'[p] = Idle => ComposesOf(p)'
  BY IdleIsTyped, NothingYet
<1> QED BY <1>1, <1>2, OthersCompose

\* With the identity, setup goes on to save only where it found no config.
LEMMA ProceedsComposes ==
  ASSUME Composes, proc \in [Processes -> Procs], NEW p \in Processes, NEW seed \in Seeds,
         proc[p].command \in {"setup", "join"}, proc[p].at = "identity", Proceeds(p, seed)
  PROVE  Composes'
<1>0. proc[p] \in Procs /\ ComposesOf(p)
  BY DEF Composes
<1> DEFINE pairs  == [proc[p] EXCEPT !.at = "pairing", !.key = seed]
           writes == [proc[p] EXCEPT !.at = "saving", !.key = seed, !.next = Empty]
<1>1. /\ pairs.command = proc[p].command /\ pairs.at = "pairing" /\ pairs.found = proc[p].found
      /\ writes.command = proc[p].command /\ writes.at = "saving" /\ writes.found = proc[p].found
  BY <1>0 DEF Procs
<1>2. CASE proc[p].command = "join"
  <2>1. proc' = [proc EXCEPT ![p] = pairs]
    BY <1>2 DEF Proceeds
  <2> HIDE DEF pairs
  <2>2. proc'[p] = pairs => ComposesOf(p)'
    BY <1>0, <1>1, <1>2 DEF ComposesOf
  <2> QED BY <2>1, <2>2, OthersCompose
<1>3. CASE proc[p].command = "setup" /\ proc[p].found = None
  <2>1. proc' = [proc EXCEPT ![p] = writes]
    BY <1>3 DEF Proceeds
  <2> HIDE DEF writes
  <2>2. proc'[p] = writes => ComposesOf(p)'
    BY <1>1, <1>3 DEF ComposesOf
  <2> QED BY <2>1, <2>2, OthersCompose
<1>4. CASE proc[p].command = "setup" /\ proc[p].found # None
  BY <1>4, FinishComposes DEF Proceeds
<1> QED BY <1>2, <1>3, <1>4

LEMMA CommandComposes ==
  ASSUME IInv, Composes, NEW p \in Processes, Command(p)
  PROVE  Composes'
<1>0. proc \in [Processes -> Procs] /\ proc[p] \in Procs /\ ComposesOf(p)
  BY TypeSplits DEF IInv, ProcsOK, Composes
<1>1. ASSUME NEW command \in {"setup", "join"}, Starts(p, command) PROVE Composes'
  <2> DEFINE r == [Idle EXCEPT !.command = command, !.at = "loading"]
  <2>1. proc' = [proc EXCEPT ![p] = r] /\ r.at = "loading"
    BY <1>1 DEF Starts, Idle
  <2> HIDE DEF r
  <2> QED BY <1>0, <2>1, NothingYet, OthersCompose
<1>2. CASE Reads(p)
  <2> DEFINE r == [proc[p] EXCEPT !.at = "identity", !.found = config]
  <2>1. /\ proc' = [proc EXCEPT ![p] = r]
        /\ r.command = proc[p].command /\ r.at = "identity" /\ r.found = config
        /\ Configured(config) => proc[p].command = "setup"
    BY <1>0, <1>2 DEF Reads, Procs
  <2> HIDE DEF r
  <2>2. proc'[p] = r => ComposesOf(p)'
    BY <2>1 DEF ComposesOf
  <2> QED BY <1>0, <2>1, <2>2, OthersCompose
<1>3. CASE Reuses(p)
  <2>1. proc[p].command \in {"setup", "join"}
    BY <1>3 DEF Reuses, IInv, Knows, KnowsOf
  <2> QED BY <1>0, <1>3, <2>1, ProceedsComposes DEF Reuses
<1>4. CASE Creates(p)
  <2>1. proc[p].command \in {"setup", "join"}
    BY <1>4 DEF Creates, IInv, Knows, KnowsOf
  <2>2. drawn' \in Seeds
    <3>1. drawn < MaxSeeds /\ drawn' = drawn + 1 /\ drawn \in 0 .. MaxSeeds
      BY <1>4 DEF Creates, IInv, TypeOK
    <3> QED BY <3>1, PeerStateBounds DEF Seeds
  <2> QED BY <1>0, <1>4, <2>1, <2>2, ProceedsComposes DEF Creates
<1>5. CASE Admitted(p)
  <2> DEFINE r == [proc[p] EXCEPT !.at = "checking", !.next = Joined(proc[p].found)]
  <2>1. proc[p].command = "join" /\ proc[p].at = "pairing"
    BY <1>5 DEF Admitted, At
  <2>2. CASE proc' = [proc EXCEPT ![p] = r]
    <3>1. /\ r.command = "join" /\ r.at = "checking" /\ r.found = proc[p].found
          /\ r.next = Joined(proc[p].found)
      BY <1>0, <2>1 DEF Procs
    <3> HIDE DEF r
    <3>2. proc'[p] = r => ComposesOf(p)'
      BY <1>0, <2>1, <3>1 DEF ComposesOf
    <3> QED BY <1>0, <2>2, <3>2, OthersCompose
  <2> QED BY <1>0, <1>5, <2>2, FinishComposes DEF Admitted
<1>6. CASE Checks(p)
  <2> DEFINE r == [proc[p] EXCEPT !.at = "saving", !.found = config]
  <2>1. /\ proc[p].command = "join" /\ proc[p].at = "checking" /\ config = proc[p].found
        /\ proc' = [proc EXCEPT ![p] = r]
        /\ r.command = "join" /\ r.at = "saving" /\ r.found = proc[p].found
        /\ r.next = proc[p].next
    BY <1>0, <1>6 DEF Checks, At, Procs
  <2> HIDE DEF r
  <2>2. proc'[p] = r => ComposesOf(p)'
    BY <1>0, <2>1 DEF ComposesOf
  <2> QED BY <1>0, <2>1, <2>2, OthersCompose
<1>7. CASE StartsPair(p)
  <2> DEFINE r == [Idle EXCEPT !.command = "pair", !.at = "loading"]
  <2>1. proc' = [proc EXCEPT ![p] = r] /\ r.at = "loading"
    BY <1>7 DEF StartsPair, Idle
  <2> HIDE DEF r
  <2> QED BY <1>0, <2>1, NothingYet, OthersCompose
<1>8. ASSUME NEW new \in Approvals, Approves(p, new) PROVE Composes'
  <2> DEFINE next == WithPeer(config, new)
             r    == [proc[p] EXCEPT !.at = "saving", !.found = config, !.next = next]
  <2>1. /\ proc[p].command = "pair" /\ config \in Configs /\ config # None
        /\ Valid(config) /\ ~Conflict(config, new)
        /\ proc' = [proc EXCEPT ![p] = r]
    BY <1>8 DEF Approves, At, Loads, IInv, TypeOK
  <2>2. Keeps(config, next)
    BY <2>1, ApprovalKeeps
  <2> HIDE DEF next
  <2>3. r.command = "pair" /\ r.at = "saving" /\ r.found = config /\ r.next = next
    BY <1>0, <2>1 DEF Procs
  <2> HIDE DEF r
  <2>4. proc'[p] = r => ComposesOf(p)'
    BY <2>1, <2>2, <2>3 DEF ComposesOf
  <2> QED BY <1>0, <2>1, <2>4, OthersCompose
<1>9. CASE Saves(p)
  BY <1>0, <1>9, FinishComposes DEF Saves
<1>10. CASE Stops(p)
  BY <1>0, <1>10, FinishComposes DEF Stops
<1> QED BY <1>1, <1>2, <1>3, <1>4, <1>5, <1>6, <1>7, <1>8, <1>9, <1>10 DEF Command

LEMMA NextComposes == IInv /\ Composes /\ [Next]_vars => Composes'
<1> SUFFICES ASSUME IInv, Composes, [Next]_vars PROVE Composes'
  OBVIOUS
<1>1. ASSUME NEW p \in Processes, Command(p) PROVE Composes'
  BY <1>1, CommandComposes
<1>2. ASSUME UNCHANGED proc PROVE Composes'
  BY <1>2 DEF Composes, ComposesOf
<1> QED BY <1>1, <1>2 DEF Next, Edit, Accident, vars

\* What is saved over what was read says all of it.
LEMMA SavesAll ==
  ASSUME IInv, Composes, NEW p \in Processes, Saves(p), config # None, config = proc[p].found
  PROVE  Keeps(config, config')
<1>1. /\ proc[p].at = "saving" /\ config' = proc[p].next /\ config \in Configs
      /\ proc[p].command \in {"setup", "join", "pair"} /\ ComposesOf(p)
  BY TypeSplits DEF Saves, IInv, TypeOK, Knows, KnowsOf, Composes
<1>2. CASE proc[p].command = "setup"
  BY <1>1, <1>2 DEF ComposesOf
<1>3. CASE proc[p].command = "join"
  <2>1. ~Configured(config) /\ config' = Joined(config)
    BY <1>1, <1>3 DEF ComposesOf
  <2> QED BY <1>1, <2>1, JoinKeeps
<1>4. CASE proc[p].command = "pair"
  BY <1>1, <1>4 DEF ComposesOf
<1> QED BY <1>1, <1>2, <1>3, <1>4

-----------------------------------------------------------------------------
(* Theorems *)

LEMMA InitEstablishes == Init => IInv
<1> SUFFICES ASSUME Init PROVE IInv
  OBVIOUS
<1>1. ProcsOK
  BY IdleIsTyped, PeerStateNone DEF Init, ProcsOK, Locked
<1>2. RestOK
  <2>1. MaxSeeds \in Nat /\ MaxEdits \in Nat
    BY PeerStateBounds
  <2>2. drawn \in 0 .. MaxSeeds /\ edits \in 0 .. MaxEdits
    BY <2>1 DEF Init
  <2> QED BY <2>2 DEF Init, RestOK
<1>3. IdentityIsKept
  BY DEF Init, IdentityIsKept
<1>4. Knows
  BY IdleIsTyped DEF Init, Knows, KnowsOf, HasIdentity
<1> QED BY <1>1, <1>2, <1>3, <1>4, TypeSplits DEF IInv

LEMMA NextKeeps == IInv /\ [Next]_vars => IInv'
<1> SUFFICES ASSUME IInv, [Next]_vars PROVE IInv'
  OBVIOUS
<1>1. ASSUME NEW p \in Processes, Command(p) PROVE IInv'
  BY <1>1, StartsKeeps, ReadsKeeps, ReusesKeeps, CreatesKeeps, AdmittedKeeps, ChecksKeeps,
     StartsPairKeeps, ApprovesKeeps, SavesKeeps, StopsKeeps DEF Command
<1>2. CASE Edit
  BY <1>2, EditKeeps
<1>3. CASE Accident
  BY <1>3, AccidentKeeps
<1>4. CASE UNCHANGED vars
  <2>1. UNCHANGED <<identity, config, holder, proc, drawn, edits, known, lost>>
    BY <1>4 DEF vars
  <2>2. TypeOK'
    BY <2>1 DEF IInv, TypeOK
  <2>3. IdentityIsKept'
    BY <2>1 DEF IInv, IdentityIsKept
  <2>4. Knows'
    BY <2>1 DEF IInv, Knows, KnowsOf, HasIdentity
  <2> QED BY <2>2, <2>3, <2>4 DEF IInv
<1> QED BY <1>1, <1>2, <1>3, <1>4 DEF Next

\* The invariant that the two theorems below rest on.
THEOREM Inductive == Spec => []IInv
BY InitEstablishes, NextKeeps, PTL DEF Spec

\* The state has its type, and the lock is held by the one setup or join that runs: two
\* of them are never at the identity at a time.
THEOREM TypeCorrect == Spec => []TypeOK
<1>1. IInv => TypeOK
  BY DEF IInv
<1> QED BY <1>1, Inductive, PTL

\* setupPeer of src/state/peer.ts with the checks of src/cli/main.ts: a key that others
\* know is never replaced, for any number of commands and any config an owner writes.
THEOREM IdentityStays == Spec => []IdentityIsKept
<1>1. IInv => IdentityIsKept
  BY DEF IInv
<1> QED BY <1>1, Inductive, PTL

\* The checks of peer join and peer pair in src/cli/main.ts: whatever is saved over a config
\* that is as it was read says all of it, and grants what it granted to the same keys; for
\* any number of commands, configs and peers.
THEOREM NothingGoesLost == Spec => NothingIsLost
<1>1. Init => Composes
  BY IdleIsTyped DEF Init, Composes, ComposesOf
<1>2. IInv /\ Composes /\ [Next]_vars =>
        [\A p \in Processes :
           Saves(p) /\ config # None /\ config = proc[p].found => Keeps(config, config')]_vars
  BY SavesAll
<1> QED BY <1>1, <1>2, Inductive, NextComposes, PTL DEF Spec, NothingIsLost

-----------------------------------------------------------------------------
(***************************************************************************)
(* The way into the config: `peer join` with the receiver that admits the  *)
(* peer, the module Pairing, for any dialers, secrets and attempts.        *)
(***************************************************************************)

\* How far an attempt, its handler and its answer have come, and what that says of the
\* receiver's store: only a handler that has read the request commits, an answer is sent
\* once, by a handler that is through, and a dialer that gave up early was never heard.
Honest(a) ==
  /\ attempt[a].phase \in {"idle", "connecting"} => handler[a] = "none"
  /\ attempt[a].phase \in {"accepted", "saving"} => attempt[a].outcome = "accepted"
  /\ handler[a] \in {"none", "waiting", "enrolling", "unusable", "rejected"} => a \notin committed
  /\ handler[a] = "accepted" => a \in committed
  /\ reply[a] # Nothing => handler[a] = "ended"
  /\ reply[a] \in Failures => a \notin committed
  /\ reply[a] = "accepted" => a \in committed
  /\ attempt[a].outcome \in Failures =>
       attempt[a].phase = "done" /\ handler[a] \in {"none", "ended"} /\ a \notin committed
  /\ attempt[a].outcome = "accepted" => a \in committed

JoinInv ==
  /\ JoinTypeOK
  /\ \A a \in Attempts : Honest(a)
  /\ \A d \in Dialers : configs[d] = "paired" => d \in devices \cup revoked

-----------------------------------------------------------------------------
(* The dialer's steps *)

\* What a step of one attempt does to it, and to no other.
LEMMA OneAttempt ==
  ASSUME JoinTypeOK, NEW a \in Attempts, NEW r \in Runs,
         attempt' = [attempt EXCEPT ![a] = r],
         a \in committed => r.dialer = attempt[a].dialer,
         UNCHANGED committed
  PROVE  /\ attempt' \in [Attempts -> Runs \cup {Unstarted}] /\ attempt'[a] = r
         /\ \A b \in Attempts \ {a} : attempt'[b] = attempt[b]
         /\ {attempt'[b].dialer : b \in committed'} = {attempt[b].dialer : b \in committed}
<1>1. attempt \in [Attempts -> Runs \cup {Unstarted}] /\ committed \subseteq Attempts
  BY DEF JoinTypeOK
<1>2. attempt' \in [Attempts -> Runs \cup {Unstarted}] /\ attempt'[a] = r
  BY <1>1
<1>3. \A b \in Attempts \ {a} : attempt'[b] = attempt[b]
  BY <1>1
<1>4. \A b \in committed : attempt'[b].dialer = attempt[b].dialer
  BY <1>1, <1>2, <1>3
<1> QED BY <1>2, <1>3, <1>4

\* An attempt that goes on, or ends, and what it does to the store: nothing.
LEMMA AttemptKeepsJoin ==
  ASSUME JoinInv, NEW a \in Attempts, NEW r \in Runs,
         attempt' = [attempt EXCEPT ![a] = r],
         a \in committed => r.dialer = attempt[a].dialer,
         r.phase \in {"idle", "connecting"} => handler[a] = "none",
         r.phase \in {"accepted", "saving"} => r.outcome = "accepted",
         r.outcome \in Failures =>
           r.phase = "done" /\ handler[a] \in {"none", "ended"} /\ a \notin committed,
         r.outcome = "accepted" => a \in committed,
         UNCHANGED <<wire, handler, open, ledger>>,
         configs' \in [Dialers -> {"empty", "paired", "edited"}],
         \A d \in Dialers : configs'[d] = "paired" => configs[d] = "paired" \/ d \in devices \cup revoked
  PROVE  JoinInv'
<1> USE DEF wire, ledger
<1>1. /\ attempt' \in [Attempts -> Runs \cup {Unstarted}] /\ attempt'[a] = r
      /\ \A b \in Attempts \ {a} : attempt'[b] = attempt[b]
      /\ {attempt'[b].dialer : b \in committed'} = {attempt[b].dialer : b \in committed}
  BY OneAttempt DEF JoinInv
<1>2. JoinTypeOK'
  BY <1>1 DEF JoinInv, JoinTypeOK
<1>3. \A b \in Attempts : Honest(b)'
  <2> SUFFICES ASSUME NEW b \in Attempts PROVE Honest(b)'
    OBVIOUS
  <2>1. CASE b = a
    BY <1>1, <2>1 DEF JoinInv, Honest
  <2>2. CASE b # a
    BY <1>1, <2>2 DEF JoinInv, Honest
  <2> QED BY <2>1, <2>2
<1>4. \A d \in Dialers : configs'[d] = "paired" => d \in devices' \cup revoked'
  BY DEF JoinInv
<1> QED BY <1>2, <1>3, <1>4 DEF JoinInv

\* peer join begins, or is over with an invitation nobody can parse.
LEMMA JoinKeepsJoin ==
  ASSUME JoinInv, NEW a \in Attempts, NEW d \in Dialers, Join(a, d)
  PROVE  JoinInv'
<1> USE NothingAssumption
<1>1. attempt[a] = Unstarted /\ Unstarted.phase = "idle"
  BY DEF Join, Unstarted
<1>2. handler[a] = "none" /\ a \notin committed
  BY <1>1 DEF JoinInv, Honest
<1>3. UNCHANGED <<wire, handler, open, ledger>> /\ configs' = configs
  BY DEF Join
<1>4. PICK r \in Runs : /\ attempt' = [attempt EXCEPT ![a] = r]
                        /\ \/ r.phase = "connecting" /\ r.outcome = Nothing
                           \/ r.phase = "done" /\ r.outcome = "unusable"
  <2>1. CASE \E s \in Secrets :
               attempt' = [attempt EXCEPT ![a] =
                            [Unstarted EXCEPT !.dialer = d, !.secret = s, !.phase = "connecting"]]
    <3>1. PICK s \in Secrets :
               attempt' = [attempt EXCEPT ![a] =
                            [Unstarted EXCEPT !.dialer = d, !.secret = s, !.phase = "connecting"]]
      BY <2>1
    <3> DEFINE r == [Unstarted EXCEPT !.dialer = d, !.secret = s, !.phase = "connecting"]
    <3>2. r \in Runs /\ r.phase = "connecting" /\ r.outcome = Nothing
      BY DEF Runs, Unstarted
    <3> QED BY <3>1, <3>2
  <2>2. CASE attempt' = [attempt EXCEPT ![a] =
                          [Unstarted EXCEPT !.dialer = d, !.phase = "done", !.outcome = "unusable"]]
    <3> DEFINE r == [Unstarted EXCEPT !.dialer = d, !.phase = "done", !.outcome = "unusable"]
    <3>1. r \in Runs /\ r.phase = "done" /\ r.outcome = "unusable"
      BY DEF Runs, Unstarted, Failures
    <3> QED BY <2>2, <3>1
  <2> QED BY <2>1, <2>2 DEF Join
<1>5. Nothing \notin Failures /\ Nothing # "accepted"
  BY NothingAssumption DEF Answers
<1>6. configs' \in [Dialers -> {"empty", "paired", "edited"}]
  BY <1>3 DEF JoinInv, JoinTypeOK
<1> QED BY <1>2, <1>3, <1>4, <1>5, <1>6, AttemptKeepsJoin

\* An attempt that goes from one phase to the next.
LEMMA PhaseKeepsJoin ==
  ASSUME JoinInv, NEW a \in Attempts, NEW ph \in {"accepted", "saving", "done"}, Running(a),
         Becomes(a, ph),
         ph # "done" => attempt[a].outcome = "accepted",
         UNCHANGED <<wire, handler, open, ledger>>,
         configs' \in [Dialers -> {"empty", "paired", "edited"}],
         \A d \in Dialers : configs'[d] = "paired" => configs[d] = "paired" \/ d \in devices \cup revoked
  PROVE  JoinInv'
<1> DEFINE r == [attempt[a] EXCEPT !.phase = ph]
<1>1. attempt[a] \in Runs
  BY DEF JoinInv, JoinTypeOK, Running, Unstarted
<1>2. r \in Runs /\ r.phase = ph /\ r.outcome = attempt[a].outcome /\ r.dialer = attempt[a].dialer
  BY <1>1 DEF Runs
<1>3. attempt' = [attempt EXCEPT ![a] = r]
  BY DEF Becomes
<1>4. Honest(a) /\ attempt[a].phase # "done"
  BY DEF JoinInv, Running
<1> HIDE DEF r
<1>5. r.outcome \in Failures => FALSE
  BY <1>2, <1>4 DEF Honest
<1>6. r.outcome = "accepted" => a \in committed
  BY <1>2, <1>4 DEF Honest
<1> QED BY <1>2, <1>3, <1>5, <1>6, AttemptKeepsJoin

\* A dialer that is told, or tells itself, how the attempt ended.
LEMMA FinishKeepsJoin ==
  ASSUME JoinInv, NEW a \in Attempts, Running(a),
         NEW o \in {"accepted", "unknown"} \cup Failures, Concludes(a, o),
         o \in Failures => handler[a] \in {"none", "ended"} /\ a \notin committed,
         o = "accepted" => a \in committed,
         UNCHANGED <<wire, handler, open, ledger, configs>>
  PROVE  JoinInv'
<1> DEFINE ph == IF o = "accepted" THEN "accepted" ELSE "done"
           r  == [attempt[a] EXCEPT !.phase = ph, !.outcome = o]
<1>1. attempt[a] \in Runs
  BY DEF JoinInv, JoinTypeOK, Running, Unstarted
<1>2. r \in Runs /\ r.phase = ph /\ r.outcome = o /\ r.dialer = attempt[a].dialer
  BY <1>1 DEF Runs
<1>3. attempt' = [attempt EXCEPT ![a] = r]
  BY DEF Concludes
<1>4. configs' \in [Dialers -> {"empty", "paired", "edited"}]
  BY DEF JoinInv, JoinTypeOK
<1> HIDE DEF r
<1>5. o \in Failures => ph = "done"
  BY DEF Failures
<1> QED BY <1>2, <1>3, <1>4, <1>5, AttemptKeepsJoin

\* The other steps of a dialer that leave the receiver alone.
LEMMA DialerKeepsJoin ==
  ASSUME JoinInv, NEW a \in Attempts,
         Hear(a) \/ ConfigUnchanged(a) \/ Killed(a) \/ GoesOn(a)
  PROVE  JoinInv'
<1>1. JoinTypeOK /\ Honest(a)
  BY DEF JoinInv
<1>2. ASSUME UNCHANGED configs
      PROVE  /\ configs' \in [Dialers -> {"empty", "paired", "edited"}]
             /\ \A d \in Dialers : configs'[d] = "paired" => configs[d] = "paired"
  BY <1>1, <1>2 DEF JoinTypeOK
<1>3. CASE Hear(a)
  <2>1. /\ attempt[a].phase = "submitted" /\ reply[a] # Nothing /\ Concludes(a, reply[a])
        /\ UNCHANGED <<wire, handler, open, ledger, configs>>
    BY <1>3 DEF Hear, InPhase
  <2>2. reply[a] \in Answers /\ handler[a] = "ended"
    BY <1>1, <2>1 DEF JoinTypeOK, Honest
  <2>3. reply[a] \in {"accepted", "unknown"} \cup Failures
    BY <2>2 DEF Answers, Failures
  <2>4. /\ reply[a] \in Failures => a \notin committed
        /\ reply[a] = "accepted" => a \in committed
    BY <1>1 DEF Honest
  <2>5. Running(a)
    BY <2>1 DEF Running
  <2> QED BY <2>1, <2>2, <2>3, <2>4, <2>5, FinishKeepsJoin
<1>4. CASE ConfigUnchanged(a)
  <2>1. attempt[a].phase = "accepted" /\ Becomes(a, "saving")
        /\ UNCHANGED <<wire, handler, open, ledger, configs>>
    BY <1>4 DEF ConfigUnchanged, InPhase
  <2>2. Running(a) /\ attempt[a].outcome = "accepted"
    BY <1>1, <2>1 DEF Running, Honest
  <2> QED BY <1>2, <2>1, <2>2, PhaseKeepsJoin
<1>5. CASE Killed(a)
  BY <1>2, <1>5, PhaseKeepsJoin DEF Killed
<1>6. CASE SaveRefused(a)
  BY <1>2, <1>6, PhaseKeepsJoin DEF SaveRefused, InPhase, Running
<1>7. CASE SaveConfig(a)
  <2>1. /\ attempt[a].phase = "saving" /\ Becomes(a, "done")
        /\ configs' \in {configs, [configs EXCEPT ![attempt[a].dialer] = "paired"]}
        /\ UNCHANGED <<wire, handler, open, ledger>>
    BY <1>7 DEF SaveConfig, InPhase
  <2>2. Running(a) /\ a \in committed
    BY <1>1, <2>1 DEF Running, Honest
  <2>3. attempt[a].dialer \in devices \cup revoked
    BY <1>1, <2>2 DEF JoinTypeOK
  <2>4. /\ configs' \in [Dialers -> {"empty", "paired", "edited"}]
        /\ \A d \in Dialers : configs'[d] = "paired" => configs[d] = "paired" \/ d \in devices \cup revoked
    BY <1>1, <2>1, <2>3 DEF JoinTypeOK
  <2> QED BY <2>1, <2>2, <2>4, PhaseKeepsJoin
<1>8. CASE GiveUp(a)
  <2>1. Running(a) /\ UNCHANGED <<wire, handler, open, ledger, configs>>
    BY <1>8 DEF GiveUp, InPhase, Running
  <2>2. CASE attempt[a].phase = "connecting" /\ Concludes(a, "unavailable")
    <3>1. handler[a] = "none" /\ a \notin committed
      BY <1>1, <2>2 DEF Honest
    <3> QED BY <2>1, <2>2, <3>1, FinishKeepsJoin DEF Failures
  <2>3. CASE attempt[a].phase = "submitted" /\ Concludes(a, "unknown")
    BY <2>1, <2>3, FinishKeepsJoin DEF Failures
  <2> QED BY <1>8, <2>2, <2>3 DEF GiveUp, InPhase
<1> QED BY <1>3, <1>4, <1>5, <1>6, <1>7, <1>8 DEF GoesOn

\* The dialer has reached the receiver, which takes or refuses its connection.
LEMMA SubmitKeepsJoin ==
  ASSUME JoinInv, NEW a \in Attempts, Submit(a)
  PROVE  JoinInv'
<1> USE NothingAssumption
<1> DEFINE r == [attempt[a] EXCEPT !.phase = "submitted"]
<1>1. JoinTypeOK /\ Honest(a) /\ attempt[a].phase = "connecting"
  BY DEF JoinInv, Submit, InPhase
<1>2. attempt[a] \in Runs /\ handler[a] = "none" /\ a \notin committed
  BY <1>1 DEF JoinTypeOK, Honest, Unstarted
<1>3. r \in Runs /\ r.phase = "submitted" /\ r.outcome = attempt[a].outcome
  BY <1>2 DEF Runs
<1>4. /\ attempt' = [attempt EXCEPT ![a] = r]
      /\ request' = request \cup {a} /\ open' \in {open, open \cup {a}}
      /\ \/ handler' = [handler EXCEPT ![a] = "waiting"]
         \/ handler' = [handler EXCEPT ![a] = "ended"]
      /\ UNCHANGED <<reply, ledger, configs>>
  BY DEF Submit, Contacts, Becomes
<1> HIDE DEF r
<1>5. UNCHANGED committed /\ (a \in committed => r.dialer = attempt[a].dialer)
  BY <1>2, <1>4 DEF ledger
<1>6. /\ attempt' \in [Attempts -> Runs \cup {Unstarted}] /\ attempt'[a] = r
      /\ \A b \in Attempts \ {a} : attempt'[b] = attempt[b]
      /\ {attempt'[b].dialer : b \in committed'} = {attempt[b].dialer : b \in committed}
  BY <1>1, <1>3, <1>4, <1>5, OneAttempt
<1>7. JoinTypeOK'
  BY <1>1, <1>4, <1>6 DEF JoinTypeOK, ledger
<1>8. handler'[a] \in {"waiting", "ended"} /\ \A b \in Attempts \ {a} : handler'[b] = handler[b]
  BY <1>1, <1>4 DEF JoinTypeOK
<1>9. \A b \in Attempts : Honest(b)'
  <2> SUFFICES ASSUME NEW b \in Attempts PROVE Honest(b)'
    OBVIOUS
  <2>1. CASE b = a
    <3>1. reply[a] = Nothing
      BY <1>1, <1>2 DEF Honest
    <3>2. attempt[a].outcome \notin Failures /\ attempt[a].outcome # "accepted"
      BY <1>1, <1>2 DEF Honest
    <3> QED BY <1>2, <1>3, <1>4, <1>6, <1>8, <2>1, <3>1, <3>2, NothingAssumption
            DEF Honest, ledger, Answers
  <2>2. CASE b # a
    BY <1>4, <1>6, <1>8, <2>2 DEF JoinInv, Honest, ledger
  <2> QED BY <2>1, <2>2
<1>10. \A d \in Dialers : configs'[d] = "paired" => d \in devices' \cup revoked'
  BY <1>4 DEF JoinInv, ledger
<1> QED BY <1>7, <1>9, <1>10 DEF JoinInv

-----------------------------------------------------------------------------
(* The receiver's steps *)

\* A step of the receiver that is about one attempt, and after which no device is unheard of.
LEMMA OneHandler ==
  ASSUME JoinInv, NEW a \in Attempts, UNCHANGED dialer, JoinTypeOK', Honest(a)',
         \A b \in Attempts \ {a} : /\ handler'[b] = handler[b] /\ reply'[b] = reply[b]
                                   /\ b \in committed' <=> b \in committed,
         devices \cup revoked \subseteq devices' \cup revoked'
  PROVE  JoinInv'
<1>1. attempt' = attempt /\ configs' = configs
  BY DEF dialer
<1>2. \A b \in Attempts \ {a} : Honest(b)'
  BY <1>1 DEF JoinInv, Honest
<1> QED BY <1>1, <1>2 DEF JoinInv

\* The connection ends, or the request is read.
LEMMA ConnectionKeepsJoin ==
  ASSUME JoinInv, NEW a \in Attempts, Drop(a) \/ Read(a)
  PROVE  JoinInv'
<1> USE DEF dialer, ledger, wire, Drop, Read
<1>1. JoinTypeOK /\ Honest(a)
  BY DEF JoinInv
<1>2. JoinTypeOK'
  BY <1>1 DEF JoinTypeOK
<1>3. \A b \in Attempts \ {a} : handler'[b] = handler[b]
  BY <1>1 DEF JoinTypeOK
<1>4. \/ handler'[a] = handler[a]
      \/ handler[a] = "waiting" /\ handler'[a] \in {"ended", "enrolling"}
  BY <1>1 DEF JoinTypeOK
<1>5. Honest(a)'
  BY <1>1, <1>4 DEF Honest
<1> QED BY <1>2, <1>3, <1>5, OneHandler

\* enroll settles: with the device committed, with an error, or in the dark.
LEMMA EnrollKeepsJoin ==
  ASSUME JoinInv, NEW a \in Attempts,
         Enrolls(a) \/ Rejects(a) \/ Unusable(a) \/ EnrollEnds(a) \/ StorageFails(a)
  PROVE  JoinInv'
<1> USE NothingAssumption
<1>1. JoinTypeOK /\ Honest(a)
  BY DEF JoinInv
<1>2. PICK r \in Answers :
        /\ Answer(a, r)
        /\ \/ Commits(a) /\ r \in {"accepted", "unknown"} /\ failed' \in {failed, TRUE}
           \/ UNCHANGED <<devices, revoked, usable, committed>> /\ r # "accepted" /\ failed' \in {failed, TRUE}
  BY DEF Enrolls, Rejects, Unusable, EnrollEnds, StorageFails, Answers, ledger
<1>3. handler[a] = "enrolling" /\ handler' = [handler EXCEPT ![a] = r]
      /\ UNCHANGED <<dialer, wire, open>>
  BY <1>2 DEF Answer
<1>4. attempt' = attempt /\ configs' = configs /\ reply' = reply /\ request' = request
  BY <1>3 DEF dialer, wire
<1>5. handler'[a] = r /\ \A b \in Attempts \ {a} : handler'[b] = handler[b]
  BY <1>1, <1>3 DEF JoinTypeOK
<1>6. /\ committed' \in {committed, committed \cup {a}} /\ usable' \subseteq Secrets
      /\ devices' \cup revoked' = {attempt[b].dialer : b \in committed'}
      /\ devices' \cap revoked' = {} /\ devices \cup revoked \subseteq devices' \cup revoked'
      /\ r \in {"rejected", "unusable"} => a \notin committed'
      /\ r = "accepted" => a \in committed'
  <2>1. CASE Commits(a) /\ r \in {"accepted", "unknown"}
    BY <1>1, <2>1 DEF Commits, JoinTypeOK
  <2>2. CASE UNCHANGED <<devices, revoked, usable, committed>> /\ r # "accepted"
    <3>1. a \notin committed
      BY <1>1, <1>3 DEF Honest
    <3> QED BY <1>1, <2>2, <3>1 DEF JoinTypeOK
  <2> QED BY <1>2, <2>1, <2>2
<1>7. JoinTypeOK'
  <2>1. handler' \in [Attempts -> {"none", "waiting", "enrolling", "ended"} \cup Answers]
    BY <1>1, <1>3 DEF JoinTypeOK
  <2>2. failed' \in BOOLEAN
    BY <1>1, <1>2 DEF JoinTypeOK
  <2> QED BY <1>1, <1>3, <1>4, <1>6, <2>1, <2>2 DEF JoinTypeOK
<1>8. Honest(a)'
  <2>1. reply[a] = Nothing /\ attempt[a].outcome \notin Failures
        /\ attempt[a].phase \notin {"idle", "connecting"}
    BY <1>1, <1>3 DEF Honest
  <2> QED BY <1>1, <1>2, <1>4, <1>5, <1>6, <2>1, NothingAssumption DEF Honest, Answers
<1> QED BY <1>3, <1>4, <1>5, <1>6, <1>7, <1>8, OneHandler

\* The answer goes out, if there is anybody to hear it.
LEMMA SendKeepsJoin ==
  ASSUME JoinInv, NEW a \in Attempts, Send(a)
  PROVE  JoinInv'
<1>1. JoinTypeOK /\ Honest(a) /\ handler[a] \in Answers
  BY DEF JoinInv, Send
<1>2. /\ handler' = [handler EXCEPT ![a] = "ended"]
      /\ reply' \in {reply, [reply EXCEPT ![a] = handler[a]]}
      /\ UNCHANGED <<dialer, request, open, ledger>>
  BY DEF Send
<1>3. attempt' = attempt /\ configs' = configs /\ committed' = committed /\ devices' = devices /\ revoked' = revoked
  BY <1>2 DEF dialer, ledger
<1>4. JoinTypeOK'
  BY <1>1, <1>2, <1>3 DEF JoinTypeOK, ledger
<1>5. /\ handler'[a] = "ended" /\ reply'[a] \in {reply[a], handler[a]}
      /\ \A b \in Attempts \ {a} : handler'[b] = handler[b] /\ reply'[b] = reply[b]
  BY <1>1, <1>2 DEF JoinTypeOK
<1>6. Honest(a)'
  <2>1. handler[a] \in Failures => a \notin committed
    BY <1>1 DEF Honest, Answers, Failures
  <2>2. attempt[a].phase \notin {"idle", "connecting"} /\ attempt[a].outcome \notin Failures
    BY <1>1 DEF Honest, Answers
  <2> QED BY <1>1, <1>3, <1>5, <2>1, <2>2 DEF Honest
<1> QED BY <1>2, <1>3, <1>4, <1>5, <1>6, OneHandler

\* The owner revokes a device, in a save that may fail: whoever was committed is in the file
\* or was taken out of it.
LEMMA RevokeKeepsJoin ==
  ASSUME JoinInv, NEW d \in Dialers, Revokes(d)
  PROVE  JoinInv'
<1>1. /\ JoinTypeOK /\ d \in devices
      /\ attempt' = attempt /\ configs' = configs /\ request' = request /\ reply' = reply
      /\ usable' = usable /\ committed' = committed
  BY DEF JoinInv, Revokes, dialer, wire
<1>2. /\ open' = {} /\ failed' \in BOOLEAN
      /\ handler' = [a \in Attempts |-> IF handler[a] = "waiting" THEN "ended" ELSE handler[a]]
  BY DEF Revokes, GenerationStops
<1>3. /\ devices' \cup revoked' = devices \cup revoked
      /\ devices' \cap revoked' = {}
  <2>1. devices \cap revoked = {}
    BY <1>1 DEF JoinTypeOK
  <2>2. CASE Forgets(d)
    BY <1>1, <2>1, <2>2 DEF Forgets
  <2>3. CASE UNCHANGED <<devices, revoked>>
    BY <2>1, <2>3
  <2> QED BY <2>2, <2>3 DEF Revokes
<1>4. handler' \in [Attempts -> {"none", "waiting", "enrolling", "ended"} \cup Answers]
  BY <1>1, <1>2 DEF JoinTypeOK
<1>5. JoinTypeOK'
  BY <1>1, <1>2, <1>3, <1>4 DEF JoinTypeOK
<1>6. \A b \in Attempts : Honest(b)'
  BY <1>1, <1>2 DEF JoinInv, Honest
<1> QED BY <1>1, <1>3, <1>5, <1>6 DEF JoinInv

\* The receiver dies and starts again.
LEMMA RestartKeepsJoin ==
  ASSUME JoinInv, Restart
  PROVE  JoinInv'
<1> USE DEF dialer, wire, Restart
<1>1. JoinTypeOK'
  BY DEF JoinInv, JoinTypeOK
<1>2. \A b \in Attempts : handler'[b] = IF handler[b] = "none" THEN "none" ELSE "ended"
  OBVIOUS
<1>3. \A b \in Attempts : Honest(b)'
  BY <1>2 DEF JoinInv, Honest
<1> QED BY <1>1, <1>3 DEF JoinInv

-----------------------------------------------------------------------------
(* The invariant *)

\* Before anybody joins the invariant holds.
LEMMA JoinInitEstablishes == JoinInit => JoinInv
<1> SUFFICES ASSUME JoinInit PROVE JoinInv
  OBVIOUS
<1> USE NothingAssumption DEF JoinInit, Unstarted, Failures, Answers
<1>1. JoinTypeOK
  BY DEF JoinTypeOK
<1>2. \A a \in Attempts : Honest(a)
  BY DEF Honest
<1>3. \A d \in Dialers : configs[d] # "paired"
  OBVIOUS
<1> QED BY <1>1, <1>2, <1>3 DEF JoinInv

\* Every step keeps the invariant.
LEMMA JoinStepKeeps == JoinInv /\ [JoinNext]_joinVars => JoinInv'
<1> SUFFICES ASSUME JoinInv, [JoinNext]_joinVars PROVE JoinInv'
  OBVIOUS
<1>1. ASSUME NEW a \in Attempts, Dialing(a) PROVE JoinInv'
  BY <1>1, JoinKeepsJoin, SubmitKeepsJoin, DialerKeepsJoin DEF Dialing
<1>2. ASSUME NEW a \in Attempts, Handling(a) PROVE JoinInv'
  BY <1>2, ConnectionKeepsJoin, SendKeepsJoin, EnrollKeepsJoin DEF Handling
<1>3. CASE \E d \in Dialers : EditConfig(d)
  <2>1. UNCHANGED <<attempt, wire, handler, open, ledger>>
    BY <1>3 DEF EditConfig
  <2>2. /\ configs' \in [Dialers -> {"empty", "paired", "edited"}]
        /\ \A d \in Dialers : configs'[d] = "paired" => configs[d] = "paired"
    BY <1>3 DEF EditConfig, JoinInv, JoinTypeOK
  <2> QED BY <2>1, <2>2 DEF JoinInv, JoinTypeOK, Honest, wire, ledger
<1>4. CASE \E d \in Dialers : Revokes(d)
  BY <1>4, RevokeKeepsJoin
<1>5. CASE \E s \in Secrets : Expire(s)
  BY <1>5 DEF Expire, JoinInv, JoinTypeOK, Honest, dialer, wire
<1>6. CASE UNCHANGED joinVars
  BY <1>6 DEF joinVars, JoinInv, JoinTypeOK, Honest
<1> QED BY <1>1, <1>2, <1>3, <1>4, <1>5, <1>6, RestartKeepsJoin DEF JoinNext

\* The invariant holds throughout.
LEMMA JoinInductive == JoinSpec => []JoinInv
BY JoinInitEstablishes, JoinStepKeeps, PTL DEF JoinSpec

-----------------------------------------------------------------------------
(* The theorems *)

\* The states of pairWithReceiver and of the receiver's enrollment stay within their types,
\* and the store's devices are exactly those whose enrollment it has committed and whom its
\* owner has not revoked since.
THEOREM JoinTypeCorrect == JoinSpec => []JoinTypeOK
<1>1. JoinInv => JoinTypeOK
  BY DEF JoinInv
<1> QED BY <1>1, JoinInductive, PTL

\* peer join never reports a definite failure of an enrollment that was or will be
\* committed, nor a success of one that was not, whatever is lost or dies on the way.
THEOREM OutcomesAreTrue == JoinSpec => []OutcomeIsTrue
<1>1. JoinInv => OutcomeIsTrue
  BY DEF JoinInv, Honest, OutcomeIsTrue
<1> QED BY <1>1, JoinInductive, PTL

=============================================================================
