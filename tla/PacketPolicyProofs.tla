------------------------ MODULE PacketPolicyProofs -------------------------
(***************************************************************************)
(* Proofs about PacketPolicy for any ports, grant, sequence space, limits  *)
(* and clock: that the table of flows stays what the packets have left in  *)
(* it, and that it lets nothing through that was not granted.              *)
(***************************************************************************)
EXTENDS PacketPolicy, FiniteSetTheorems, WellFoundedInduction, TLAPS

-----------------------------------------------------------------------------
(* What a recursive function computes, from the least counterexample: a set of numbers,   *)
(* where induction would need an operator.                                                *)

\* A nonempty set of natural numbers has a least element.
LEMMA LeastExists ==
  ASSUME NEW S \in SUBSET Nat, S # {}
  PROVE  \E x \in S : \A y \in S : x <= y
<1> DEFINE R == OpToRel(<, Nat)
<1>1. IsWellFoundedOn(R, Nat)
  BY NatLessThanWellFounded
<1>2. \A x, y \in Nat : y < x => <<y, x>> \in R
  BY DEF OpToRel
<1> HIDE DEF R
<1>3. PICK x \in S : \A y \in S : <<y, x>> \notin R
  BY <1>1, WFMin
<1>4. x \in Nat /\ \A y \in S : y \in Nat /\ ~(y < x)
  BY <1>2, <1>3
<1>5. \A y \in S : x <= y
  BY <1>4
<1> QED BY <1>5

-----------------------------------------------------------------------------
(* What is left of a sequence *)

\* g[i] is what is left of the first i elements of s, for all i up to n.
Sieve(s, K, n, g) ==
  g = [i \in 0 .. n |-> IF i = 0 THEN <<>>
                        ELSE IF s[i] \in K THEN g[i - 1] ELSE Append(g[i - 1], s[i])]

\* The recursion of Sifted has a solution.
LEMMA SieveExists ==
  ASSUME NEW s, NEW K, NEW m \in Nat
  PROVE  \E g : Sieve(s, K, m, g)
<1> DEFINE Bad == {n \in 0 .. m : ~ \E g : Sieve(s, K, n, g)}
<1>1. SUFFICES ASSUME Bad # {} PROVE FALSE
  BY DEF Bad
<1>2. Bad \in SUBSET Nat
  OBVIOUS
<1>3. PICK n \in Bad : \A k \in Bad : n <= k
  <2> HIDE DEF Bad
  <2> QED BY <1>1, <1>2, LeastExists
<1>4. n \in 0 .. m /\ ~ \E g : Sieve(s, K, n, g)
  OBVIOUS
<1>5. CASE n = 0
  <2>1. Sieve(s, K, 0, [i \in 0 .. 0 |-> <<>>])
    BY DEF Sieve
  <2> QED BY <1>4, <1>5, <2>1
<1>6. CASE n # 0
  <2>1. n - 1 \in 0 .. m /\ n - 1 \notin Bad
    BY <1>3, <1>4, <1>6
  <2>2. PICK g : Sieve(s, K, n - 1, g)
    BY <2>1
  <2> DEFINE h == [i \in 0 .. n |-> IF i < n THEN g[i]
                                    ELSE IF s[n] \in K THEN g[n - 1] ELSE Append(g[n - 1], s[n])]
  <2>3. \A i \in 0 .. n - 1 : g[i] = IF i = 0 THEN <<>>
                                     ELSE IF s[i] \in K THEN g[i - 1] ELSE Append(g[i - 1], s[i])
    BY <2>2 DEF Sieve
  <2>4. \A i \in 0 .. n : i < n => h[i] = g[i] /\ (i # 0 => h[i - 1] = g[i - 1])
    BY <1>4, <1>6
  <2>5. h[n - 1] = g[n - 1] /\ h[n] = IF s[n] \in K THEN g[n - 1] ELSE Append(g[n - 1], s[n])
    BY <1>4, <1>6
  <2>6. \A i \in 0 .. n : h[i] = IF i = 0 THEN <<>>
                                 ELSE IF s[i] \in K THEN h[i - 1] ELSE Append(h[i - 1], s[i])
    <3> SUFFICES ASSUME NEW i \in 0 .. n
                 PROVE  h[i] = IF i = 0 THEN <<>>
                               ELSE IF s[i] \in K THEN h[i - 1] ELSE Append(h[i - 1], s[i])
      OBVIOUS
    <3> HIDE DEF h
    <3>1. CASE i = n
      BY <1>6, <2>5, <3>1
    <3>2. CASE i # n
      <4>1. i \in 0 .. n - 1 /\ i < n
        BY <1>4, <3>2
      <4> QED BY <2>3, <2>4, <4>1
    <3> QED BY <3>1, <3>2
  <2>7. h = [i \in 0 .. n |-> h[i]]
    OBVIOUS
  <2> HIDE DEF h
  <2>8. Sieve(s, K, n, h)
    BY <2>6, <2>7 DEF Sieve
  <2> QED BY <1>4, <2>8
<1> QED BY <1>5, <1>6

LEMMA SiftedIsSieved ==
  ASSUME NEW s, NEW K, Len(s) \in Nat
  PROVE  \E g : Sieve(s, K, Len(s), g) /\ Sifted(s, K) = g[Len(s)]
<1> DEFINE g == CHOOSE f : Sieve(s, K, Len(s), f)
<1>1. Sieve(s, K, Len(s), g)
  BY SieveExists
<1>2. Sifted(s, K) = g[Len(s)]
  BY DEF Sifted, Sieve
<1> HIDE DEF g
<1> QED BY <1>1, <1>2

\* What is left has the elements that are not sifted out, and no others, and none of them
\* twice that was not there twice.
LEMMA SiftedIsWhatIsLeft ==
  ASSUME NEW S, NEW s \in Seq(S), NEW K
  PROVE  LET r == Sifted(s, K) IN
         /\ r \in Seq(S) /\ Len(r) <= Len(s)
         /\ \A j \in 1 .. Len(r) : r[j] \notin K /\ \E i \in 1 .. Len(s) : s[i] = r[j]
         /\ \A i \in 1 .. Len(s) : s[i] \notin K => \E j \in 1 .. Len(r) : r[j] = s[i]
         /\ (\A h, i \in 1 .. Len(s) : s[h] = s[i] => h = i)
              => \A h, j \in 1 .. Len(r) : r[h] = r[j] => h = j
<1>1. PICK g : Sieve(s, K, Len(s), g) /\ Sifted(s, K) = g[Len(s)]
  BY SiftedIsSieved
<1>2. /\ g[0] = <<>>
      /\ \A n \in 1 .. Len(s) :
           g[n] = IF s[n] \in K THEN g[n - 1] ELSE Append(g[n - 1], s[n])
  <2>1. \A n \in 0 .. Len(s) : g[n] = IF n = 0 THEN <<>>
                                      ELSE IF s[n] \in K THEN g[n - 1] ELSE Append(g[n - 1], s[n])
    BY <1>1 DEF Sieve
  <2>2. 0 \in 0 .. Len(s) /\ \A n \in 1 .. Len(s) : n \in 0 .. Len(s) /\ n # 0
    OBVIOUS
  <2> QED BY <2>1, <2>2
<1> DEFINE Injective == \A h, i \in 1 .. Len(s) : s[h] = s[i] => h = i
           Left(r, n) ==
             /\ r \in Seq(S) /\ Len(r) <= n
             /\ \A j \in 1 .. Len(r) : r[j] \notin K /\ \E i \in 1 .. n : s[i] = r[j]
             /\ \A i \in 1 .. n : s[i] \notin K => \E j \in 1 .. Len(r) : r[j] = s[i]
             /\ Injective => \A h, j \in 1 .. Len(r) : r[h] = r[j] => h = j
           Bad == {n \in 0 .. Len(s) : ~ Left(g[n], n)}
<1>3. Left(<<>>, 0)
  OBVIOUS
<1>4. ASSUME NEW n \in 1 .. Len(s), NEW r, Left(r, n - 1)
      PROVE  Left(IF s[n] \in K THEN r ELSE Append(r, s[n]), n)
  <2>1. s[n] \in S /\ n - 1 \in Nat /\ Len(r) \in Nat /\ r \in Seq(S)
    BY <1>4
  <2>2. CASE s[n] \in K
    <3>1. Left(r, n)
      BY <1>4, <2>1, <2>2
    <3> QED BY <2>2, <3>1
  <2>3. CASE s[n] \notin K
    <3> DEFINE q == Append(r, s[n])
    <3>1. /\ q \in Seq(S) /\ Len(q) = Len(r) + 1 /\ q[Len(r) + 1] = s[n]
          /\ \A j \in 1 .. Len(r) : q[j] = r[j]
      BY <2>1
    <3> HIDE DEF q
    <3>2. q \in Seq(S) /\ Len(q) <= n
      BY <1>4, <2>1, <3>1
    <3>3. \A j \in 1 .. Len(q) : q[j] \notin K /\ \E i \in 1 .. n : s[i] = q[j]
      BY <1>4, <2>1, <2>3, <3>1
    <3>4. \A i \in 1 .. n : s[i] \notin K => \E j \in 1 .. Len(q) : q[j] = s[i]
      <4> SUFFICES ASSUME NEW i \in 1 .. n, s[i] \notin K
                   PROVE  \E j \in 1 .. Len(q) : q[j] = s[i]
        OBVIOUS
      <4>1. CASE i = n
        <5>1. Len(r) + 1 \in 1 .. Len(q)
          BY <2>1, <3>1
        <5> QED BY <3>1, <4>1, <5>1
      <4>2. CASE i # n
        <5>0. i \in 1 .. n - 1
          BY <4>2
        <5>1. PICK j \in 1 .. Len(r) : r[j] = s[i]
          BY <1>4, <5>0
        <5> QED BY <2>1, <3>1, <5>1
      <4> QED BY <4>1, <4>2
    <3>5. Injective => \A h, j \in 1 .. Len(q) : q[h] = q[j] => h = j
      <4> SUFFICES ASSUME Injective, NEW h \in 1 .. Len(q), NEW j \in 1 .. Len(q), q[h] = q[j]
                   PROVE  h = j
        OBVIOUS
      <4>1. ASSUME NEW i \in 1 .. Len(r) PROVE r[i] # s[n]
        <5>1. PICK k \in 1 .. n - 1 : s[k] = r[i]
          BY <1>4
        <5>2. k \in 1 .. Len(s) /\ n \in 1 .. Len(s) /\ k # n
          BY <5>1
        <5> QED BY <5>1, <5>2
      <4> QED BY <1>4, <2>1, <3>1, <4>1
    <3>6. Left(q, n)
      BY <3>2, <3>3, <3>4, <3>5
    <3> QED BY <2>3, <3>6 DEF q
  <2> QED BY <2>2, <2>3
<1> HIDE DEF Left
<1>5. Bad = {}
  <2> SUFFICES ASSUME Bad # {} PROVE FALSE
    OBVIOUS
  <2>1. PICK n \in Bad : \A k \in Bad : n <= k
    <3>1. Bad \in SUBSET Nat
      OBVIOUS
    <3> HIDE DEF Bad
    <3> QED BY <3>1, LeastExists
  <2>2. n # 0
    BY <1>2, <1>3
  <2>3. n \in 1 .. Len(s) /\ n - 1 \in 0 .. Len(s) /\ n - 1 \notin Bad
    BY <2>1, <2>2
  <2>4. Left(g[n - 1], n - 1)
    BY <2>3
  <2>5. Left(g[n], n)
    BY <1>2, <1>4, <2>3, <2>4
  <2> QED BY <2>5
<1>6. Left(Sifted(s, K), Len(s))
  <2>1. Len(s) \in 0 .. Len(s)
    OBVIOUS
  <2> QED BY <1>1, <1>5, <2>1
<1> QED BY <1>6 DEF Left

-----------------------------------------------------------------------------
(* Tables *)

Tab(F, C) == [flows |-> F, closed |-> C]

\* The flows of a table: each is one that may have been opened on its tuple.
MayHaveOpened(k, f) == IF f.initiator = "in" THEN k[1] \in Grant ELSE MayInitiate

Possible(k, f) ==
  f \in Flow /\ MayHaveOpened(k, f) /\ (f.established => f.replied)

Known(F) ==
  /\ DOMAIN F \subseteq Tuples /\ IsFiniteSet(DOMAIN F)
  /\ \A k \in DOMAIN F : Possible(k, F[k])

\* The order lists the closed flows, all of them and each once.
Ordered(F, C) ==
  /\ C \in Seq(Tuples)
  /\ \A j \in 1 .. Len(C) : C[j] \in DOMAIN F /\ F[C[j]].closedAt # None
  /\ \A k \in DOMAIN F : F[k].closedAt # None => \E j \in 1 .. Len(C) : C[j] = k
  /\ \A h, j \in 1 .. Len(C) : C[h] = C[j] => h = j

Good(F, C) == Known(F) /\ Ordered(F, C) /\ Cardinality(DOMAIN F) <= MaxFlows

Outside(F, K)   == [k \in DOMAIN F \ K |-> F[k]]
Updated(F, k, f) == [j \in DOMAIN F \cup {k} |-> IF j = k THEN f ELSE F[j]]

LEMMA TabFields ==
  ASSUME NEW F, NEW C
  PROVE  Tab(F, C).flows = F /\ Tab(F, C).closed = C
BY DEF Tab

LEMMA RemovedTab ==
  ASSUME NEW F, NEW C, NEW K
  PROVE  Removed(Tab(F, C), K) = Tab(Outside(F, K), Sifted(C, K))
BY DEF Removed, Without, Tab, Outside

LEMMA WithTab ==
  ASSUME NEW F, NEW C, NEW k, NEW f
  PROVE  With(Tab(F, C), k, f) = Tab(Updated(F, k, f), C)
<1> DEFINE U == Updated(F, k, f)
<1>1. U = [j \in DOMAIN Tab(F, C).flows \cup {k} |-> IF j = k THEN f ELSE Tab(F, C).flows[j]]
  BY TabFields DEF Updated
<1>2. [Tab(F, C) EXCEPT !.flows = U] = Tab(U, C)
  <2> HIDE DEF U
  <2> QED BY DEF Tab
<1> QED BY <1>1, <1>2 DEF With

LEMMA CountsAreNumbers ==
  ASSUME NEW F, Known(F)
  PROVE  Cardinality(DOMAIN F) \in Nat /\ MaxFlows \in Nat
BY FS_CardinalityType, PolicyAssumption DEF Known

\* Flows are removed, and from the order with them.
LEMMA RemovalIsGood ==
  ASSUME NEW F, NEW C, NEW K, Good(F, C)
  PROVE  Good(Outside(F, K), Sifted(C, K))
<1> DEFINE G == Outside(F, K)
           D == Sifted(C, K)
<1>1. DOMAIN G = DOMAIN F \ K /\ \A k \in DOMAIN G : G[k] = F[k]
  BY DEF Outside
<1>2. /\ IsFiniteSet(DOMAIN F \ K)
      /\ Cardinality(DOMAIN F \ K) <= Cardinality(DOMAIN F)
      /\ Cardinality(DOMAIN F \ K) \in Nat /\ Cardinality(DOMAIN F) \in Nat
  BY FS_Subset, FS_CardinalityType DEF Good, Known
<1>3. /\ D \in Seq(Tuples)
      /\ \A j \in 1 .. Len(D) : D[j] \notin K /\ \E i \in 1 .. Len(C) : C[i] = D[j]
      /\ \A i \in 1 .. Len(C) : C[i] \notin K => \E j \in 1 .. Len(D) : D[j] = C[i]
      /\ \A h, j \in 1 .. Len(D) : D[h] = D[j] => h = j
  <2>1. C \in Seq(Tuples) /\ \A h, i \in 1 .. Len(C) : C[h] = C[i] => h = i
    BY DEF Good, Ordered
  <2> QED BY <2>1, SiftedIsWhatIsLeft
<1> HIDE DEF G, D
<1>4. Known(G)
  BY <1>1, <1>2 DEF Good, Known
<1>5. Ordered(G, D)
  <2>1. \A j \in 1 .. Len(D) : D[j] \in DOMAIN G /\ G[D[j]].closedAt # None
    BY <1>1, <1>3 DEF Good, Ordered
  <2>2. \A k \in DOMAIN G : G[k].closedAt # None => \E j \in 1 .. Len(D) : D[j] = k
    <3> SUFFICES ASSUME NEW k \in DOMAIN G, G[k].closedAt # None
                 PROVE  \E j \in 1 .. Len(D) : D[j] = k
      OBVIOUS
    <3>1. k \in DOMAIN F /\ F[k].closedAt # None /\ k \notin K
      BY <1>1
    <3>2. PICK i \in 1 .. Len(C) : C[i] = k
      BY <3>1 DEF Good, Ordered
    <3> QED BY <1>3, <3>1, <3>2
  <2> QED BY <1>3, <2>1, <2>2 DEF Ordered
<1>6. Cardinality(DOMAIN G) <= MaxFlows
  BY <1>1, <1>2, PolicyAssumption DEF Good
<1> QED BY <1>4, <1>5, <1>6 DEF Good, G, D

\* A flow is replaced by one that is closed, or open, as it was.
LEMMA UpdateIsGood ==
  ASSUME NEW F, NEW C, Good(F, C), NEW k \in DOMAIN F, NEW f, Possible(k, f),
         f.closedAt = None <=> F[k].closedAt = None
  PROVE  Good(Updated(F, k, f), C)
<1> DEFINE G == Updated(F, k, f)
<1>1. DOMAIN G = DOMAIN F /\ G[k] = f /\ \A j \in DOMAIN F \ {k} : G[j] = F[j]
  BY DEF Updated
<1> HIDE DEF G
<1>2. Known(G)
  BY <1>1 DEF Good, Known
<1>3. Ordered(G, C)
  BY <1>1 DEF Good, Ordered
<1> QED BY <1>1, <1>2, <1>3 DEF Good, G

\* A flow closes.
LEMMA CloseIsGood ==
  ASSUME NEW F, NEW C, Good(F, C), NEW k \in DOMAIN F, NEW f, Possible(k, f),
         F[k].closedAt = None, f.closedAt # None
  PROVE  Good(Updated(F, k, f), Append(C, k))
<1> DEFINE G == Updated(F, k, f)
           D == Append(C, k)
<1>1. DOMAIN G = DOMAIN F /\ G[k] = f /\ \A j \in DOMAIN F \ {k} : G[j] = F[j]
  BY DEF Updated
<1>2. /\ D \in Seq(Tuples) /\ Len(C) \in Nat /\ Len(D) = Len(C) + 1 /\ D[Len(C) + 1] = k
      /\ \A j \in 1 .. Len(C) : D[j] = C[j]
  BY DEF Good, Known, Ordered
<1>3. \A j \in 1 .. Len(C) : C[j] # k
  BY DEF Good, Ordered
<1> HIDE DEF G, D
<1>4. Known(G)
  BY <1>1 DEF Good, Known
<1>5. Ordered(G, D)
  <2>1. \A j \in 1 .. Len(D) : D[j] \in DOMAIN G /\ G[D[j]].closedAt # None
    BY <1>1, <1>2, <1>3 DEF Good, Ordered
  <2>2. \A i \in DOMAIN G : G[i].closedAt # None => \E j \in 1 .. Len(D) : D[j] = i
    <3> SUFFICES ASSUME NEW i \in DOMAIN G, G[i].closedAt # None
                 PROVE  \E j \in 1 .. Len(D) : D[j] = i
      OBVIOUS
    <3>1. CASE i = k
      BY <1>2, <3>1
    <3>2. CASE i # k
      <4>1. PICK j \in 1 .. Len(C) : C[j] = i
        BY <1>1, <3>2 DEF Good, Ordered
      <4> QED BY <1>2, <4>1
    <3> QED BY <3>1, <3>2
  <2>3. \A h, j \in 1 .. Len(D) : D[h] = D[j] => h = j
    BY <1>2, <1>3 DEF Good, Ordered
  <2> QED BY <1>2, <2>1, <2>2, <2>3 DEF Ordered
<1> QED BY <1>1, <1>4, <1>5 DEF Good, G, D

\* A flow opens where there is none, and where there is room.
LEMMA OpenIsGood ==
  ASSUME NEW F, NEW C, Good(F, C), NEW k \in Tuples, k \notin DOMAIN F, NEW f, Possible(k, f),
         f.closedAt = None, Cardinality(DOMAIN F) < MaxFlows
  PROVE  Good(Updated(F, k, f), C)
<1> DEFINE G == Updated(F, k, f)
<1>1. DOMAIN G = DOMAIN F \cup {k} /\ G[k] = f /\ \A j \in DOMAIN F : G[j] = F[j]
  BY DEF Updated
<1>2. IsFiniteSet(DOMAIN F \cup {k}) /\ Cardinality(DOMAIN F \cup {k}) = Cardinality(DOMAIN F) + 1
  BY FS_AddElement DEF Good, Known
<1> HIDE DEF G
<1>3. Known(G)
  BY <1>1, <1>2 DEF Good, Known
<1>4. Ordered(G, C)
  BY <1>1 DEF Good, Ordered
<1>5. Cardinality(DOMAIN G) <= MaxFlows
  BY <1>1, <1>2, CountsAreNumbers DEF Good
<1> QED BY <1>3, <1>4, <1>5 DEF Good, G

-----------------------------------------------------------------------------
(* Flows *)

\* Sequence numbers wrap around, whatever is added to them.
LEMMA PlusIsSeqNo ==
  ASSUME NEW n \in Nat, NEW m \in Nat
  PROVE  Plus(n, m) \in SeqNos
BY PolicyAssumption DEF Plus, SeqNos

\* A flow as a segment leaves it, and what of it stays.
LEMMA FollowedIsPossible ==
  ASSUME now \in Times, NEW k, NEW f, Possible(k, f), f.replied, NEW p \in Segments
  PROVE  /\ Possible(k, Followed(p, f)) /\ Followed(p, f).closedAt = f.closedAt
         /\ Followed(p, f).lastSeen = now /\ Followed(p, f).established
         /\ Possible(k, [Followed(p, f) EXCEPT !.closedAt = now])
         /\ [Followed(p, f) EXCEPT !.closedAt = now].closedAt = now
         /\ [Followed(p, f) EXCEPT !.closedAt = now].lastSeen = now
         /\ [Followed(p, f) EXCEPT !.closedAt = now].established
<1> DEFINE e == [f EXCEPT !.established = TRUE, !.lastSeen = now]
           a == Acked(p, e)
           g == Followed(p, f)
<1>1. /\ p.dir \in Directions /\ p.seq \in SeqNos /\ p.ackNo \in SeqNos /\ p.payload \in Nat
  BY PolicyAssumption DEF Segments
<1>2. /\ e \in Flow /\ e.initiator = f.initiator /\ e.replied /\ e.established
      /\ e.closedAt = f.closedAt /\ e.lastSeen = now
  BY DEF Possible, Flow
<1> HIDE DEF e
<1>3. /\ a \in Flow /\ a.initiator = f.initiator /\ a.replied /\ a.established
      /\ a.closedAt = f.closedAt /\ a.lastSeen = now
  BY <1>1, <1>2 DEF Flow, Acked
<1> HIDE DEF a
<1>4. Plus(p.seq, p.payload + 1) \in SeqNos
  <2>1. p.seq \in Nat /\ p.payload + 1 \in Nat
    BY <1>1 DEF SeqNos
  <2> QED BY <2>1, PlusIsSeqNo
<1>5. Finned(p, a) \in {a, [a EXCEPT !.fin[p.dir] = Plus(p.seq, p.payload + 1)]}
  BY DEF Finned
<1>6. g = Finned(p, a)
  BY DEF Followed, a, e
<1> HIDE DEF g
<1>7. /\ g \in Flow /\ g.initiator = f.initiator /\ g.replied /\ g.established
      /\ g.closedAt = f.closedAt /\ g.lastSeen = now
  BY <1>1, <1>3, <1>4, <1>5, <1>6 DEF Flow
<1> DEFINE c == [g EXCEPT !.closedAt = now]
<1>8. /\ c \in Flow /\ c.initiator = f.initiator /\ c.replied /\ c.established
      /\ c.closedAt = now /\ c.lastSeen = now
  BY <1>7 DEF Flow
<1> HIDE DEF c
<1>9. Possible(k, g) /\ Possible(k, c)
  BY <1>7, <1>8 DEF Possible, MayHaveOpened
<1> QED BY <1>7, <1>8, <1>9 DEF g, c

\* A flow that is seen again.
LEMMA SeenIsPossible ==
  ASSUME now \in Times, NEW k, NEW f, Possible(k, f)
  PROVE  LET e == [f EXCEPT !.lastSeen = now] IN
         Possible(k, e) /\ e.closedAt = f.closedAt /\ e.lastSeen = now /\ e.established = f.established
BY DEF Possible, MayHaveOpened, Flow

\* A flow whose request is answered.
LEMMA RepliedIsPossible ==
  ASSUME now \in Times, NEW k, NEW f, Possible(k, f), NEW n \in SeqNos
  PROVE  LET e == [f EXCEPT !.replied = TRUE, !.responseSequence = n, !.lastSeen = now] IN
         Possible(k, e) /\ e.closedAt = f.closedAt /\ e.lastSeen = now /\ e.established = f.established
BY DEF Possible, MayHaveOpened, Flow

\* A flow that opens is one that may.
LEMMA OpenedIsPossible ==
  ASSUME now \in Times, NEW p \in Segments, MayOpen(p)
  PROVE  /\ Possible(p.tuple, Opened(p)) /\ Opened(p).closedAt = None
         /\ Opened(p).lastSeen = now /\ ~Opened(p).established
<1>1. p.dir \in Directions /\ p.seq \in SeqNos
  BY DEF Segments
<1>2. Opened(p) \in Flow
  BY <1>1 DEF Opened, Flow
<1>3. /\ Opened(p).initiator = p.dir /\ Opened(p).closedAt = None
      /\ Opened(p).lastSeen = now /\ ~Opened(p).established
  BY DEF Opened
<1>4. MayHaveOpened(p.tuple, Opened(p))
  BY <1>1, <1>3 DEF MayHaveOpened, MayOpen, Granted, Directions
<1> QED BY <1>2, <1>3, <1>4 DEF Possible

-----------------------------------------------------------------------------
(* The inductive invariant *)

\* Handshakes are timed: a sweep left none that was out of date at that time.
Timed ==
  steady =>
    /\ nextSweep <= now + SweepInterval
    /\ \A k \in DOMAIN flows :
         ~flows[k].established => nextSweep <= flows[k].lastSeen + HandshakeIdle + SweepInterval

IInv ==
  /\ nextSweep \in 0 .. MaxTime + SweepInterval /\ now \in Times /\ steady \in BOOLEAN
  /\ Good(flows, closed)
  /\ Timed

-----------------------------------------------------------------------------
(* What becomes of a table *)

\* Flows are gone from G that were in F, and nothing else has changed; the flows that are
\* established and not closed are not among them.
Thinned(F, G) ==
  /\ DOMAIN G \subseteq DOMAIN F
  /\ \A k \in DOMAIN G : G[k] = F[k]
  /\ \A k \in DOMAIN F : F[k].established /\ F[k].closedAt = None => k \in DOMAIN G

\* A flow of G is one of F, or was seen now.
SeenOrKept(F, G) ==
  \A k \in DOMAIN G : G[k].lastSeen = now \/ (k \in DOMAIN F /\ G[k] = F[k])

\* Flows that are established and not closed stay established, but for the tuples X.
Stays(F, G, X) ==
  \A k \in DOMAIN F \ X : F[k].established /\ F[k].closedAt = None =>
    k \in DOMAIN G /\ G[k].established

\* What a packet makes of the table it meets, but for the tuples X.
Follows(F, X) ==
  \E G, D : Becomes(Tab(G, D)) /\ Good(G, D) /\ SeenOrKept(F, G) /\ Stays(F, G, X)

\* A sweep: what it removes is stale, what it leaves is not.
IsSweep(F, C) ==
  /\ Swept = Tab(F, C) /\ Good(F, C) /\ Thinned(flows, F)
  /\ now >= nextSweep => \A k \in DOMAIN F : ~Stale(F[k])

LEMMA SweptIsGood ==
  ASSUME IInv
  PROVE  \E F, C : IsSweep(F, C)
<1>1. Table = Tab(flows, closed)
  BY DEF Table, Tab
<1>2. CASE now >= nextSweep
  <2> DEFINE K == {k \in DOMAIN flows : Stale(flows[k])}
             F == Outside(flows, K)
             C == Sifted(closed, K)
  <2>1. Swept = Tab(F, C)
    <3>1. Swept = Removed(Table, K)
      BY <1>2 DEF Swept
    <3> HIDE DEF K
    <3> QED BY <1>1, <3>1, RemovedTab
  <2>2. Good(F, C)
    <3> HIDE DEF K
    <3> QED BY RemovalIsGood DEF IInv
  <2>3. DOMAIN F = DOMAIN flows \ K /\ \A k \in DOMAIN F : F[k] = flows[k]
    BY DEF Outside
  <2> HIDE DEF F, C
  <2>4. \A k \in DOMAIN F : ~Stale(F[k])
    BY <2>3
  <2>5. Thinned(flows, F)
    BY <2>3 DEF Thinned, Stale
  <2> QED BY <2>1, <2>2, <2>4, <2>5 DEF IsSweep
<1>3. CASE ~(now >= nextSweep)
  BY <1>1, <1>3 DEF Swept, IInv, IsSweep, Thinned
<1> QED BY <1>2, <1>3

\* After a packet the invariant holds, if its table is good and no flow was made up.
LEMMA PacketKeepsIInv ==
  ASSUME IInv, NEW F, NEW C, IsSweep(F, C), NEW G, NEW D, Good(G, D), SeenOrKept(F, G),
         flows' = G, closed' = D, SweepPlanned, UNCHANGED <<now, steady>>
  PROVE  IInv'
<1>1. /\ now \in Nat /\ nextSweep \in Nat /\ now <= MaxTime /\ steady \in BOOLEAN
      /\ HandshakeIdle \in Nat /\ SweepInterval \in Nat /\ MaxTime \in Nat
      /\ nextSweep <= MaxTime + SweepInterval
  BY PolicyAssumption DEF IInv, Times
<1>2. nextSweep' = IF now >= nextSweep THEN now + SweepInterval ELSE nextSweep
  BY DEF SweepPlanned
<1>3. nextSweep' \in 0 .. MaxTime + SweepInterval
  BY <1>1, <1>2
<1>4. ASSUME steady PROVE nextSweep' <= now + SweepInterval
  BY <1>1, <1>2, <1>4 DEF IInv, Timed
<1>5. ASSUME steady, NEW k \in DOMAIN G, ~G[k].established
      PROVE  nextSweep' <= G[k].lastSeen + HandshakeIdle + SweepInterval
  <2>1. CASE G[k].lastSeen = now
    <3>1. nextSweep' <= now + SweepInterval /\ nextSweep' \in Nat
      BY <1>1, <1>3, <1>4, <1>5
    <3>2. \A n \in Nat : n <= now + SweepInterval => n <= now + HandshakeIdle + SweepInterval
      BY <1>1
    <3> QED BY <2>1, <3>1, <3>2
  <2>2. CASE k \in DOMAIN F /\ G[k] = F[k]
    <3>1. F[k] = flows[k] /\ k \in DOMAIN flows /\ ~flows[k].established
      BY <1>5, <2>2 DEF IsSweep, Thinned
    <3>2. F[k].lastSeen \in Nat
      BY <2>2 DEF IsSweep, Good, Known, Possible, Flow, Times
    <3>3. CASE now >= nextSweep
      <4>1. ~(now - F[k].lastSeen >= HandshakeIdle)
        BY <1>5, <2>2, <3>3 DEF IsSweep, Stale
      <4> QED BY <1>1, <1>2, <2>2, <3>2, <3>3, <4>1
    <3>4. CASE ~(now >= nextSweep)
      BY <1>2, <1>5, <2>2, <3>1, <3>4 DEF IInv, Timed
    <3> QED BY <3>3, <3>4
  <2> QED BY <1>5, <2>1, <2>2 DEF SeenOrKept
<1>6. Timed'
  BY <1>4, <1>5 DEF Timed
<1> QED BY <1>3, <1>6 DEF IInv

-----------------------------------------------------------------------------
(* Packets *)

\* A request that may open a connection vacates its tuple if that was closed.
LEMMA VacatedIsGood ==
  ASSUME NEW F, NEW C, Good(F, C), NEW p
  PROVE  \E G, D : /\ Vacated(p, Tab(F, C)) = Tab(G, D) /\ Good(G, D) /\ Thinned(F, G)
                   /\ Reuses(p, Tab(F, C)) /\ Granted(p) => p.tuple \notin DOMAIN G
<1>1. CASE Reuses(p, Tab(F, C)) /\ Granted(p)
  <2> DEFINE G == Outside(F, {p.tuple})
             D == Sifted(C, {p.tuple})
  <2>1. Vacated(p, Tab(F, C)) = Tab(G, D)
    BY <1>1, RemovedTab DEF Vacated
  <2>2. Good(G, D)
    BY RemovalIsGood
  <2>3. F[p.tuple].closedAt # None
    BY <1>1, TabFields DEF Reuses
  <2>4. DOMAIN G = DOMAIN F \ {p.tuple} /\ \A k \in DOMAIN G : G[k] = F[k]
    BY DEF Outside
  <2> HIDE DEF G, D
  <2>5. Thinned(F, G)
    BY <2>3, <2>4 DEF Thinned
  <2> QED BY <2>1, <2>2, <2>4, <2>5
<1>2. CASE ~(Reuses(p, Tab(F, C)) /\ Granted(p))
  <2>1. Vacated(p, Tab(F, C)) = Tab(F, C)
    BY <1>2 DEF Vacated
  <2> QED BY <1>2, <2>1 DEF Thinned
<1> QED BY <1>1, <1>2

\* At capacity the connection closed first makes room for one.
LEMMA ReclaimedIsGood ==
  ASSUME NEW F, NEW C, Good(F, C), Full(Tab(F, C)) => C # <<>>
  PROVE  \E G, D : /\ Reclaimed(Tab(F, C)) = Tab(G, D) /\ Good(G, D) /\ Thinned(F, G)
                   /\ Cardinality(DOMAIN G) < MaxFlows
<1>1. CASE Full(Tab(F, C))
  <2> DEFINE h == Head(C)
             G == Outside(F, {h})
             D == Sifted(C, {h})
  <2>1. Reclaimed(Tab(F, C)) = Tab(G, D)
    <3>1. Reclaimed(Tab(F, C)) = Removed(Tab(F, C), {h})
      BY <1>1, TabFields DEF Reclaimed
    <3> HIDE DEF h
    <3> QED BY <3>1, RemovedTab
  <2>2. Good(G, D)
    BY RemovalIsGood
  <2>3. h \in DOMAIN F /\ F[h].closedAt # None
    <3>1. C # <<>> /\ C \in Seq(Tuples) /\ h = C[1] /\ 1 \in 1 .. Len(C)
      BY <1>1 DEF Good, Ordered
    <3> QED BY <3>1 DEF Good, Ordered
  <2>4. DOMAIN G = DOMAIN F \ {h} /\ \A k \in DOMAIN G : G[k] = F[k]
    BY DEF Outside
  <2> HIDE DEF G, D, h
  <2>5. Thinned(F, G)
    BY <2>3, <2>4 DEF Thinned
  <2>6. Cardinality(DOMAIN G) = Cardinality(DOMAIN F) - 1
    BY <2>3, <2>4, FS_RemoveElement DEF Good, Known
  <2>7. Cardinality(DOMAIN G) < MaxFlows
    BY <2>6, CountsAreNumbers DEF Good
  <2> QED BY <2>1, <2>2, <2>5, <2>7
<1>2. CASE ~Full(Tab(F, C))
  <2>1. Reclaimed(Tab(F, C)) = Tab(F, C)
    BY <1>2 DEF Reclaimed
  <2>2. Cardinality(DOMAIN F) < MaxFlows
    BY <1>2, TabFields, CountsAreNumbers DEF Full, Good
  <2> QED BY <2>1, <2>2 DEF Thinned
<1> QED BY <1>1, <1>2

LEMMA OpenFollows ==
  ASSUME now \in Times, NEW F, NEW C, Good(F, C), NEW p \in Segments, Open(p, Tab(F, C))
  PROVE  Follows(F, {})
<1> DEFINE k == p.tuple
<1>1. /\ MayOpen(p) /\ k \in Tuples
      /\ k \notin DOMAIN F \/ Reuses(p, Tab(F, C))
      /\ Full(Vacated(p, Tab(F, C))) => Vacated(p, Tab(F, C)).closed # <<>>
      /\ Becomes(With(Reclaimed(Vacated(p, Tab(F, C))), k, Opened(p)))
  BY TabFields DEF Open, Opens, Segments
<1>2. PICK G1, D1 : /\ Vacated(p, Tab(F, C)) = Tab(G1, D1) /\ Good(G1, D1) /\ Thinned(F, G1)
                    /\ Reuses(p, Tab(F, C)) /\ Granted(p) => k \notin DOMAIN G1
  BY VacatedIsGood
<1>3. PICK G2, D2 : /\ Reclaimed(Tab(G1, D1)) = Tab(G2, D2) /\ Good(G2, D2) /\ Thinned(G1, G2)
                    /\ Cardinality(DOMAIN G2) < MaxFlows
  <2>1. Full(Tab(G1, D1)) => D1 # <<>>
    BY <1>1, <1>2, TabFields
  <2> QED BY <1>2, <2>1, ReclaimedIsGood
<1> DEFINE f == Opened(p)
           G == Updated(G2, k, f)
<1>4. k \notin DOMAIN G2
  BY <1>1, <1>2, <1>3 DEF Thinned, MayOpen
<1>5. Possible(k, f) /\ f.closedAt = None /\ f.lastSeen = now
  BY <1>1, OpenedIsPossible
<1>6. Becomes(Tab(G, D2))
  BY <1>1, <1>2, <1>3, WithTab
<1>7. DOMAIN G = DOMAIN G2 \cup {k} /\ G[k] = f /\ \A j \in DOMAIN G2 : j # k => G[j] = G2[j]
  BY DEF Updated
<1>8. Good(G, D2)
  <2> HIDE DEF k, f
  <2> QED BY <1>1, <1>3, <1>4, <1>5, OpenIsGood
<1> HIDE DEF G, f, k
<1>9. SeenOrKept(F, G)
  BY <1>2, <1>3, <1>5, <1>7 DEF SeenOrKept, Thinned
<1>10. Stays(F, G, {})
  BY <1>2, <1>3, <1>4, <1>7 DEF Stays, Thinned
<1> QED BY <1>6, <1>8, <1>9, <1>10 DEF Follows

\* A flow is replaced by one that is still established if it was.
LEMMA UpdateFollows ==
  ASSUME NEW F, NEW C, Good(F, C), NEW k \in DOMAIN F, NEW f, Possible(k, f), f.lastSeen = now,
         F[k].established => f.established,
         \/ (f.closedAt = None <=> F[k].closedAt = None) /\ Becomes(With(Tab(F, C), k, f))
         \/ /\ F[k].closedAt = None /\ f.closedAt # None
            /\ Becomes([With(Tab(F, C), k, f) EXCEPT !.closed = Append(@, k)])
  PROVE  Follows(F, {})
<1> DEFINE G == Updated(F, k, f)
<1>1. DOMAIN G = DOMAIN F /\ G[k] = f /\ \A j \in DOMAIN F \ {k} : G[j] = F[j]
  BY DEF Updated
<1>2. With(Tab(F, C), k, f) = Tab(G, C)
  BY WithTab
<1>3. \E D : Good(G, D) /\ Becomes(Tab(G, D))
  <2>1. CASE (f.closedAt = None <=> F[k].closedAt = None) /\ Becomes(With(Tab(F, C), k, f))
    <3>1. Good(G, C)
      BY <2>1, UpdateIsGood
    <3> QED BY <1>2, <2>1, <3>1
  <2>2. CASE /\ F[k].closedAt = None /\ f.closedAt # None
             /\ Becomes([With(Tab(F, C), k, f) EXCEPT !.closed = Append(@, k)])
    <3>1. Good(G, Append(C, k))
      BY <2>2, CloseIsGood
    <3>2. [Tab(G, C) EXCEPT !.closed = Append(@, k)] = Tab(G, Append(C, k))
      <4> HIDE DEF G
      <4> QED BY DEF Tab
    <3> QED BY <1>2, <2>2, <3>1, <3>2
  <2> QED BY <2>1, <2>2
<1> HIDE DEF G
<1>4. SeenOrKept(F, G)
  BY <1>1 DEF SeenOrKept
<1>5. Stays(F, G, {})
  BY <1>1 DEF Stays
<1> QED BY <1>3, <1>4, <1>5 DEF Follows

LEMMA TrackFollows ==
  ASSUME now \in Times, NEW F, NEW C, Good(F, C), NEW p \in Segments, Track(p, Tab(F, C))
  PROVE  Follows(F, IF p.rst THEN {p.tuple} ELSE {})
<1> DEFINE k == p.tuple
           f == F[k]
           t == Tab(F, C)
           g == Followed(p, f)
           X == IF p.rst THEN {k} ELSE {}
<1>1. /\ k \in DOMAIN F /\ t.flows = F
      /\ \/ Repeats(p, f) /\ Becomes(With(t, k, [f EXCEPT !.lastSeen = now]))
         \/ RepliesAgain(p, f) /\ Becomes(With(t, k, [f EXCEPT !.lastSeen = now]))
         \/ /\ Replies(p, f)
            /\ Becomes(With(t, k, [f EXCEPT !.replied = TRUE, !.responseSequence = p.seq, !.lastSeen = now]))
         \/ /\ Establishes(p, f) \/ Continues(p, f)
            /\ IF Ends(g)
               THEN Becomes([With(t, k, [g EXCEPT !.closedAt = now]) EXCEPT !.closed = Append(@, k)])
               ELSE Becomes(With(t, k, g))
         \/ Resets(p, f) /\ Becomes(Removed(t, {k}))
  BY TabFields DEF Track, Tracked
<1>2. Possible(k, f) /\ p.seq \in SeqNos
  BY <1>1 DEF Good, Known, Segments
<1>3. ASSUME Follows(F, {}) PROVE Follows(F, X)
  <2>1. \A G : Stays(F, G, {}) => Stays(F, G, X)
    BY DEF Stays
  <2> QED BY <1>3, <2>1 DEF Follows
<1> SUFFICES Follows(F, X)
  OBVIOUS
<1> HIDE DEF k, f, X
<1>4. CASE Becomes(With(t, k, [f EXCEPT !.lastSeen = now]))
  <2> DEFINE e == [f EXCEPT !.lastSeen = now]
  <2>1. Possible(k, e) /\ e.closedAt = f.closedAt /\ e.lastSeen = now /\ e.established = f.established
    BY <1>2, SeenIsPossible
  <2> HIDE DEF e
  <2>2. Becomes(With(Tab(F, C), k, e))
    BY <1>4 DEF e
  <2> QED BY <1>1, <1>3, <2>1, <2>2, UpdateFollows DEF f
<1>5. CASE Becomes(With(t, k, [f EXCEPT !.replied = TRUE, !.responseSequence = p.seq, !.lastSeen = now]))
  <2> DEFINE e == [f EXCEPT !.replied = TRUE, !.responseSequence = p.seq, !.lastSeen = now]
  <2>1. Possible(k, e) /\ e.closedAt = f.closedAt /\ e.lastSeen = now /\ e.established = f.established
    BY <1>2, RepliedIsPossible
  <2> HIDE DEF e
  <2>2. Becomes(With(Tab(F, C), k, e))
    BY <1>5 DEF e
  <2> QED BY <1>1, <1>3, <2>1, <2>2, UpdateFollows DEF f
<1>6. CASE /\ Establishes(p, f) \/ Continues(p, f)
           /\ IF Ends(g)
              THEN Becomes([With(t, k, [g EXCEPT !.closedAt = now]) EXCEPT !.closed = Append(@, k)])
              ELSE Becomes(With(t, k, g))
  <2> DEFINE c == [g EXCEPT !.closedAt = now]
  <2>1. f.replied
    BY <1>2, <1>6 DEF Establishes, Continues, Possible
  <2>2. /\ Possible(k, g) /\ g.closedAt = f.closedAt /\ g.lastSeen = now /\ g.established
        /\ Possible(k, c) /\ c.closedAt = now /\ c.lastSeen = now /\ c.established
    BY <1>2, <2>1, FollowedIsPossible
  <2>3. IF Ends(g) THEN Becomes([With(t, k, c) EXCEPT !.closed = Append(@, k)])
                   ELSE Becomes(With(t, k, g))
    BY <1>6
  <2> HIDE DEF g, c
  <2>4. CASE Ends(g)
    <3>1. now # None
      BY PolicyAssumption DEF Times
    <3>2. f.closedAt = None /\ c.closedAt # None
      BY <2>2, <2>4, <3>1 DEF Ends
    <3> HIDE DEF t
    <3>3. Becomes([With(Tab(F, C), k, c) EXCEPT !.closed = Append(@, k)])
      BY <2>3, <2>4 DEF t
    <3> QED BY <1>1, <1>3, <2>2, <3>2, <3>3, UpdateFollows DEF f
  <2>5. CASE ~Ends(g)
    <3>1. Becomes(With(Tab(F, C), k, g))
      BY <2>3, <2>5
    <3> QED BY <1>1, <1>3, <2>2, <3>1, UpdateFollows DEF f
  <2> QED BY <2>4, <2>5
<1>7. CASE Resets(p, f) /\ Becomes(Removed(t, {k}))
  <2> DEFINE G == Outside(F, {k})
             D == Sifted(C, {k})
  <2>1. Becomes(Tab(G, D)) /\ Good(G, D)
    BY <1>7, RemovedTab, RemovalIsGood
  <2>2. DOMAIN G = DOMAIN F \ {k} /\ \A j \in DOMAIN G : G[j] = F[j]
    BY DEF Outside
  <2> HIDE DEF G, D
  <2>3. SeenOrKept(F, G)
    BY <2>2 DEF SeenOrKept
  <2>4. X = {k}
    BY <1>7 DEF X, Resets
  <2>5. Stays(F, G, X)
    BY <2>2, <2>4 DEF Stays
  <2> QED BY <2>1, <2>3, <2>5 DEF Follows
<1> QED BY <1>1, <1>4, <1>5, <1>6, <1>7

\* An ICMP error.
LEMMA ErrorFollows ==
  ASSUME now \in Times, NEW F, NEW C, Good(F, C), NEW k \in DOMAIN F,
         Becomes(With(Tab(F, C), k, [F[k] EXCEPT !.lastSeen = now]))
  PROVE  Follows(F, {})
<1> DEFINE f == F[k]
           e == [f EXCEPT !.lastSeen = now]
<1>1. Possible(k, f)
  BY DEF Good, Known
<1> HIDE DEF f
<1>2. Possible(k, e) /\ e.closedAt = f.closedAt /\ e.lastSeen = now /\ e.established = f.established
  BY <1>1, SeenIsPossible
<1>3. Becomes(With(Tab(F, C), k, e))
  BY DEF f
<1> HIDE DEF e
<1> QED BY <1>2, <1>3, UpdateFollows DEF f

LEMMA ThinnedFollows ==
  ASSUME NEW F, NEW G, NEW D, Good(G, D), Thinned(F, G), Becomes(Tab(G, D))
  PROVE  Follows(F, {})
BY DEF Thinned, Follows, SeenOrKept, Stays

\* What a packet leaves.
LEMMA FollowsKeepsIInv ==
  ASSUME IInv, NEW F, NEW C, IsSweep(F, C), NEW X, Follows(F, X),
         SweepPlanned, UNCHANGED <<now, steady>>
  PROVE  IInv' /\ Stays(flows, flows', X)
<1>1. PICK G, D : Becomes(Tab(G, D)) /\ Good(G, D) /\ SeenOrKept(F, G) /\ Stays(F, G, X)
  BY DEF Follows
<1>2. flows' = G /\ closed' = D
  BY <1>1, TabFields DEF Becomes
<1>3. IInv'
  BY <1>1, <1>2, PacketKeepsIInv
<1>4. Stays(flows, flows', X)
  BY <1>1, <1>2 DEF IsSweep, Thinned, Stays
<1> QED BY <1>3, <1>4

LEMMA PassKeeps ==
  ASSUME IInv, NEW p \in Segments, Pass(p)
  PROVE  IInv' /\ Stays(flows, flows', IF p.rst THEN {p.tuple} ELSE {})
<1> DEFINE X == IF p.rst THEN {p.tuple} ELSE {}
<1>1. PICK F, C : IsSweep(F, C)
  BY SweptIsGood
<1>2. now \in Times /\ Good(F, C) /\ Swept = Tab(F, C)
  BY <1>1 DEF IsSweep, IInv
<1>3. SweepPlanned /\ UNCHANGED <<now, steady>> /\ (Open(p, Tab(F, C)) \/ Track(p, Tab(F, C)))
  BY <1>2 DEF Pass
<1>4. Follows(F, X)
  <2>1. CASE Open(p, Tab(F, C))
    <3>1. Follows(F, {})
      BY <1>2, <2>1, OpenFollows
    <3>2. \A G : Stays(F, G, {}) => Stays(F, G, X)
      BY DEF Stays
    <3> HIDE DEF X
    <3> QED BY <3>1, <3>2 DEF Follows
  <2>2. CASE Track(p, Tab(F, C))
    BY <1>2, <2>2, TrackFollows
  <2> QED BY <1>3, <2>1, <2>2
<1> HIDE DEF X
<1>5. IInv' /\ Stays(flows, flows', X)
  BY <1>1, <1>3, <1>4, FollowsKeepsIInv
<1> QED BY <1>5 DEF X

LEMMA RefuseKeeps ==
  ASSUME IInv, NEW p \in Segments, Refuse(p)
  PROVE  IInv' /\ Stays(flows, flows', {})
<1>1. PICK F, C : IsSweep(F, C)
  BY SweptIsGood
<1>2. /\ Good(F, C) /\ Becomes(Vacated(p, Tab(F, C)))
      /\ SweepPlanned /\ UNCHANGED <<now, steady>>
  BY <1>1 DEF IsSweep, Refuse
<1>3. PICK G, D : Vacated(p, Tab(F, C)) = Tab(G, D) /\ Good(G, D) /\ Thinned(F, G)
  BY <1>2, VacatedIsGood
<1>4. Follows(F, {})
  BY <1>2, <1>3, ThinnedFollows
<1> QED BY <1>1, <1>2, <1>4, FollowsKeepsIInv

LEMMA ErrorKeeps ==
  ASSUME IInv, NEW k \in Tuples, PassError(k)
  PROVE  IInv' /\ Stays(flows, flows', {})
<1>1. PICK F, C : IsSweep(F, C)
  BY SweptIsGood
<1>2. Swept = Tab(F, C) /\ Good(F, C) /\ now \in Times
  BY <1>1 DEF IsSweep, IInv
<1>3. /\ k \in DOMAIN F /\ Becomes(With(Tab(F, C), k, [F[k] EXCEPT !.lastSeen = now]))
      /\ SweepPlanned /\ UNCHANGED <<now, steady>>
  BY <1>2, TabFields DEF PassError
<1>4. Follows(F, {})
  BY <1>2, <1>3, ErrorFollows
<1> QED BY <1>1, <1>3, <1>4, FollowsKeepsIInv

LEMMA MalformedKeeps ==
  ASSUME IInv, Malformed
  PROVE  IInv' /\ Stays(flows, flows', {})
<1>1. PICK F, C : IsSweep(F, C)
  BY SweptIsGood
<1>2. Becomes(Tab(F, C)) /\ Good(F, C) /\ SweepPlanned /\ UNCHANGED <<now, steady>>
  BY <1>1 DEF IsSweep, Malformed
<1>3. Follows(F, {})
  BY <1>2, ThinnedFollows DEF Thinned
<1> QED BY <1>1, <1>2, <1>3, FollowsKeepsIInv

\* A table without flows.
LEMMA EmptyIsGood ==
  ASSUME NEW F, NEW C, F = [k \in {} |-> None], C = <<>>
  PROVE  Good(F, C) /\ DOMAIN F = {}
<1>1. DOMAIN F = {} /\ IsFiniteSet({}) /\ Cardinality({}) = 0 /\ MaxFlows \in Nat
  BY FS_EmptySet, PolicyAssumption
<1>2. Known(F)
  BY <1>1 DEF Known
<1>3. Ordered(F, C)
  BY <1>1 DEF Ordered
<1> QED BY <1>1, <1>2, <1>3 DEF Good

LEMMA ClearKeeps ==
  ASSUME IInv, Clear
  PROVE  IInv'
<1>1. /\ flows' = [k \in {} |-> None] /\ closed' = <<>>
      /\ UNCHANGED <<nextSweep, now, steady>>
  BY DEF Clear, Becomes
<1>2. Good(flows', closed') /\ DOMAIN flows' = {}
  BY <1>1, EmptyIsGood
<1> QED BY <1>1, <1>2 DEF IInv, Timed

LEMMA TickKeeps ==
  ASSUME IInv, Tick
  PROVE  IInv'
<1>1. /\ now' \in Times /\ steady' \in BOOLEAN /\ (steady' => steady /\ now' >= now)
      /\ UNCHANGED <<flows, closed, nextSweep>>
  BY DEF IInv, Tick
<1>2. /\ now \in Nat /\ now' \in Nat /\ nextSweep \in Nat /\ SweepInterval \in Nat
  BY <1>1, PolicyAssumption DEF IInv, Times
<1>3. steady' => nextSweep <= now' + SweepInterval
  <2>1. steady' => now <= now' /\ nextSweep <= now + SweepInterval
    BY <1>1, <1>2 DEF IInv, Timed
  <2>2. \A a, b, m, n \in Nat : a <= b /\ m <= a + n => m <= b + n
    OBVIOUS
  <2> QED BY <1>2, <2>1, <2>2
<1>4. Timed'
  BY <1>1, <1>3 DEF IInv, Timed
<1> QED BY <1>1, <1>4 DEF IInv

LEMMA InitIInv == Init => IInv
<1> SUFFICES ASSUME Init PROVE IInv
  OBVIOUS
<1>1. Good(flows, closed) /\ DOMAIN flows = {}
  BY EmptyIsGood DEF Init
<1>2. nextSweep = 0 /\ now \in Nat /\ SweepInterval \in Nat /\ MaxTime \in Nat
  BY PolicyAssumption DEF Init, Times
<1>3. Timed
  BY <1>1, <1>2 DEF Timed
<1> QED BY <1>1, <1>2, <1>3 DEF Init, IInv

LEMMA StepKeepsIInv == IInv /\ [Next]_vars => IInv'
<1> SUFFICES ASSUME IInv, [Next]_vars PROVE IInv'
  OBVIOUS
<1>1. ASSUME NEW p \in Segments, Pass(p) PROVE IInv'
  BY <1>1, PassKeeps
<1>2. ASSUME NEW p \in Segments, Refuse(p) PROVE IInv'
  BY <1>2, RefuseKeeps
<1>3. ASSUME NEW k \in Tuples, PassError(k) PROVE IInv'
  BY <1>3, ErrorKeeps
<1>4. CASE Malformed
  BY <1>4, MalformedKeeps
<1>5. CASE Clear
  BY <1>5, ClearKeeps
<1>6. CASE Tick
  BY <1>6, TickKeeps
<1>7. CASE UNCHANGED vars
  BY <1>7 DEF IInv, Timed, vars
<1> QED BY <1>1, <1>2, <1>3, <1>4, <1>5, <1>6, <1>7 DEF Next

\* The inductive invariant holds in every state of every behaviour.
LEMMA Invariance == Spec => []IInv
BY InitIInv, StepKeepsIInv, PTL DEF Spec

-----------------------------------------------------------------------------
(* What it implies *)

\* A request that passes opens a flow, repeats the request of one or goes the way of one.
LEMMA IInvHasOnlyGranted == IInv => OnlyGrantedConnections
<1> SUFFICES ASSUME IInv, NEW p \in Segments, Request(p), Passes(p, Swept)
             PROVE  IF p.dir = "in" THEN p.tuple[1] \in Grant ELSE MayInitiate
  BY DEF OnlyGrantedConnections
<1>1. /\ p.syn /\ ~p.ack /\ ~p.rst /\ p.dir \in Directions
  BY DEF Segments, Request
<1>2. PICK F, C : IsSweep(F, C)
  BY SweptIsGood
<1>3. CASE Opens(p, Swept)
  BY <1>1, <1>3 DEF Opens, MayOpen, Granted, Directions
<1>4. CASE Tracked(p, Swept) /\ ~Opens(p, Swept)
  <2> DEFINE k == p.tuple
             f == F[k]
  <2>1. k \in DOMAIN F /\ Swept.flows = F
    BY <1>2, <1>4, TabFields DEF IsSweep, Tracked
  <2>2. MayHaveOpened(k, f)
    BY <1>2, <2>1 DEF IsSweep, Good, Known, Possible
  <2>3. Repeats(p, f) \/ Replies(p, f) \/ RepliesAgain(p, f) \/ Establishes(p, f) \/ Continues(p, f) \/ Resets(p, f)
    BY <1>4, <2>1 DEF Passes
  <2> HIDE DEF f
  <2>4. Forward(p, f)
    BY <1>1, <2>3 DEF Repeats, Replies, RepliesAgain, Establishes, Continues, Resets, AcksRequest, Request
  <2> QED BY <2>2, <2>4 DEF MayHaveOpened, Forward
<1> QED BY <1>3, <1>4 DEF Passes

LEMMA IInvHasTableIsCurrent == IInv => TableIsCurrent
<1> SUFFICES ASSUME IInv PROVE TableIsCurrent
  OBVIOUS
<1>1. closed \in Seq(Tuples) /\ DOMAIN closed = 1 .. Len(closed)
  BY DEF IInv, Good, Ordered
<1>2. Cardinality(DOMAIN flows) <= MaxFlows
  BY DEF IInv, Good
<1>3. ToSet(closed) = {k \in DOMAIN flows : flows[k].closedAt # None}
  BY <1>1 DEF IInv, Good, Ordered, ToSet
<1>4. IsInjective(closed)
  BY <1>1 DEF IInv, Good, Ordered, IsInjective
<1>5. ASSUME steady, NEW k \in DOMAIN Swept.flows, ~flows[k].established
      PROVE  now - flows[k].lastSeen < HandshakeIdle + SweepInterval
  <2>1. PICK F, C : IsSweep(F, C)
    BY SweptIsGood
  <2>2. k \in DOMAIN F /\ F[k] = flows[k] /\ k \in DOMAIN flows
    BY <1>5, <2>1, TabFields DEF IsSweep, Thinned
  <2>3. /\ now \in Nat /\ nextSweep \in Nat /\ flows[k].lastSeen \in Nat
        /\ HandshakeIdle \in Nat /\ SweepInterval \in Nat
    BY <2>2, PolicyAssumption DEF IInv, Good, Known, Possible, Flow, Times
  <2>4. CASE now >= nextSweep
    <3>1. ~Stale(flows[k])
      BY <2>1, <2>2, <2>4 DEF IsSweep
    <3>2. ~(now - flows[k].lastSeen >= HandshakeIdle)
      BY <1>5, <3>1 DEF Stale
    <3> QED BY <2>3, <3>2
  <2>5. CASE ~(now >= nextSweep)
    <3>1. nextSweep <= flows[k].lastSeen + HandshakeIdle + SweepInterval
      BY <1>5, <2>2 DEF IInv, Timed
    <3> QED BY <2>3, <2>5, <3>1
  <2> QED BY <2>4, <2>5
<1> QED BY <1>2, <1>3, <1>4, <1>5 DEF TableIsCurrent

\* Type correctness, for any ports, grant, sequence space, limits and clock.
THEOREM TypeCorrect == Spec => []TypeOK
<1>1. IInv => TypeOK
  BY DEF IInv, Good, Known, Ordered, Possible, TypeOK
<1> QED BY <1>1, Invariance, PTL

\* However many flows there are, however they came about, are closed, reclaimed and reset
\* and whatever their numbers wrap around to: a request for a connection passes only if the
\* grant, or for one that goes out the configuration, allows it.
THEOREM OnlyGranted == Spec => []OnlyGrantedConnections
BY Invariance, IInvHasOnlyGranted, PTL

\* The order by which room is made lists the closed flows and no others, the table keeps
\* its limit, and no handshake outlives its time by more than a sweep.
THEOREM TableStaysCurrent == Spec => []TableIsCurrent
BY Invariance, IInvHasTableIsCurrent, PTL

\* A connection that is established and open is dropped for a reset of its own and at the
\* end of the session: never for its idleness, for room, or for a packet of another one.
THEOREM EstablishedFlowsStay == Spec => EstablishedStays
<1> DEFINE Kept == \A k \in DOMAIN flows :
                     flows[k].established /\ flows[k].closedAt = None =>
                       \/ k \in DOMAIN flows' /\ flows'[k].established
                       \/ Clear
                       \/ \E p \in Segments : p.tuple = k /\ p.rst /\ Pass(p)
<1>1. IInv /\ [Next]_vars => [Kept]_vars
  <2> SUFFICES ASSUME IInv, Next,
                      NEW k \in DOMAIN flows, flows[k].established, flows[k].closedAt = None,
                      ~Clear, ~ \E p \in Segments : p.tuple = k /\ p.rst /\ Pass(p)
               PROVE  k \in DOMAIN flows' /\ flows'[k].established
    BY DEF vars
  <2>1. ASSUME NEW X, Stays(flows, flows', X), k \notin X
        PROVE  k \in DOMAIN flows' /\ flows'[k].established
    BY <2>1 DEF Stays
  <2>2. ASSUME NEW p \in Segments, Pass(p)
        PROVE  k \in DOMAIN flows' /\ flows'[k].established
    <3>1. Stays(flows, flows', IF p.rst THEN {p.tuple} ELSE {})
      BY <2>2, PassKeeps
    <3>2. k \notin IF p.rst THEN {p.tuple} ELSE {}
      BY <2>2
    <3> QED BY <2>1, <3>1, <3>2
  <2>3. ASSUME NEW p \in Segments, Refuse(p)
        PROVE  k \in DOMAIN flows' /\ flows'[k].established
    BY <2>1, <2>3, RefuseKeeps
  <2>4. ASSUME NEW j \in Tuples, PassError(j)
        PROVE  k \in DOMAIN flows' /\ flows'[k].established
    BY <2>1, <2>4, ErrorKeeps
  <2>5. CASE Malformed
    BY <2>1, <2>5, MalformedKeeps
  <2>6. CASE Tick
    BY <2>6 DEF Tick
  <2> QED BY <2>2, <2>3, <2>4, <2>5, <2>6 DEF Next
<1>2. Spec => [][Kept]_vars
  BY <1>1, Invariance, PTL DEF Spec
<1> QED BY <1>2 DEF EstablishedStays

=============================================================================
