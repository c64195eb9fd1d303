--------------------------- MODULE DataPathProofs ---------------------------
(***************************************************************************)
(* Proofs about the way of a packet between the interface and the session: *)
(* TunDevice, for any packets, pipes and calls of ip, where buffers are    *)
(* bounded and packets come out whole, in order and once however the bytes *)
(* are cut; and PolicyTraffic, for any sequence space, initial numbers and *)
(* lengths of the two streams, where the policy takes a connection for     *)
(* closed when it is over and not before.                                  *)
(***************************************************************************)
EXTENDS TunDevice, PolicyTraffic, Integers, SequenceTheorems, WellFoundedInduction, TLAPS

-----------------------------------------------------------------------------
(* Packets on their way through the device: bytes in their order *)

\* The bytes of the first m frames.
BytesTo(m) == UNION {{n} \X (1 .. Sizes[n] + 2) : n \in 1 .. m}

\* The byte behind b, in its frame or at the beginning of the next.
After(b) == IF b[2] < Sizes[b[1]] + 2 THEN <<b[1], b[2] + 1>> ELSE <<b[1] + 1, 1>>

\* What comes when i bytes of frame n are through.
Place(n, i) == IF i = 0 THEN <<n, 1>> ELSE After(<<n, i>>)

\* q has the bytes from a on, up to the one before b.
Run(q, a, b) ==
  IF q = <<>> THEN a = b
  ELSE q[1] = a /\ After(q[Len(q)]) = b /\ \A i \in 1 .. Len(q) - 1 : q[i + 1] = After(q[i])

\* s has the bytes of frame k behind the first g.
Behind(s, k, g) == \A i \in 1 .. Len(s) : s[i] = <<k, i + g>>

-----------------------------------------------------------------------------
(* The inductive invariant *)

Types ==
  /\ host \in {"idle", "waiting", "configuring", "open", "closing", "giving up", "failed", "closed", "dead"}
  /\ helper \in {"none", "starting", "created", "running", "exited"}
  /\ named \in BOOLEAN /\ exited \in BOOLEAN /\ writable \in BOOLEAN /\ sending \in BOOLEAN
  /\ done \in 0 .. Commands
  /\ sent \in 0 .. Len(Sizes) /\ taken \in 0 .. Len(Sizes)

\* The interface is set up call by call, by a helper that runs.
Opened ==
  /\ done > 0 => helper = "running"
  /\ host = "idle" => helper = "none"
  /\ host \in {"idle", "waiting"} => done = 0
  /\ host = "configuring" => done < Commands

\* What the host may send fits.
Room ==
  /\ Len(stdin) < HighWater + LongestFrame
  /\ writable /\ ~sending => Len(stdin) < HighWater

\* On the way to the interface: what the helper has of a packet, and what comes behind it.
Outward ==
  /\ stdin \in Seq(BytesTo(sent)) /\ injected \in Seq(Seq(BytesTo(sent)))
  /\ input \in [have : Seq(BytesTo(sent)), need : Nat]
  /\ Len(injected) <= sent /\ \A i \in 1 .. Len(injected) : injected[i] = Body(i)
  /\ LET k == Len(injected) + 1
         n == Len(input.have) IN
     /\ \A i \in 1 .. n : input.have[i] = <<k, i>>
     /\ n > 0 => k <= sent
     /\ n < 2 => input.need = 2
     /\ n >= 2 => input.need = Sizes[k] + 2 /\ n <= input.need
     /\ Run(stdin, Place(k, n), <<sent + 1, 1>>)

\* What the helper has still to write is the end of the packet it has read last.
Writing ==
  /\ output \in Seq(BytesTo(taken))
  /\ output # <<>> =>
       /\ taken > 0 /\ Len(output) <= Sizes[taken] + 2
       /\ \A i \in 1 .. Len(output) : output[i] = <<taken, (Sizes[taken] + 2) - Len(output) + i>>

\* The byte it writes next.
Written == IF output = <<>> THEN <<taken + 1, 1>> ELSE output[1]

\* What the host has of a packet: it begins with a header, and then has a length.
Reading ==
  LET k == Len(delivered) + 1 IN
  /\ reader \in [at : {"reading", "delivering", "ended", "failed"}, chunk : Seq(BytesTo(taken)),
                 header : Seq(BytesTo(taken)), body : Seq(BytesTo(taken)), length : Nat]
  /\ \A i \in 1 .. Len(reader.header) : reader.header[i] = <<k, i>>
  /\ \A i \in 1 .. Len(reader.body) : reader.body[i] = <<k, i + 2>>
  /\ Len(reader.header) < 2
  /\ reader.header # <<>> => k <= taken /\ reader.length = 0
  /\ reader.length = 0 => reader.body = <<>>
  /\ reader.length > 0 => k <= taken /\ reader.length = Sizes[k] /\ Len(reader.body) <= reader.length
  /\ reader.at = "delivering" => reader.length > 0 /\ Len(reader.body) = reader.length
  /\ reader.at = "reading" /\ reader.length > 0 => Len(reader.body) < reader.length
  /\ reader.at = "ended" =>
       reader.chunk = <<>> /\ reader.header = <<>> /\ reader.length = 0 /\ helper = "exited" /\ stdout = <<>>

\* How much the host has of the frame it reads.
Got == IF reader.length = 0 THEN Len(reader.header) ELSE Len(reader.body) + 2

\* On the way from the interface, as long as the host reads.
Inward ==
  /\ stdout \in Seq(BytesTo(taken)) /\ Len(stdout) <= Pipe
  /\ delivered \in Seq(Seq(BytesTo(taken)))
  /\ Len(delivered) <= taken /\ \A i \in 1 .. Len(delivered) : delivered[i] = Body(i)
  /\ reader.at # "failed" =>
       \E v \in Nat \X Nat : /\ Run(reader.chunk, Place(Len(delivered) + 1, Got), v)
                             /\ Run(stdout, v, Written)

TunInv == Types /\ Opened /\ Room /\ Outward /\ Writing /\ Reading /\ Inward

-----------------------------------------------------------------------------
(* Lemmas about frames *)

LEMMA SizesAre ==
  /\ Len(Sizes) \in Nat /\ Len(Sizes) > 0 /\ Packets = 1 .. Len(Sizes)
  /\ \A n \in 1 .. Len(Sizes) : Sizes[n] \in Nat /\ Sizes[n] > 0
<1>1. Len(Sizes) \in Nat \ {0} /\ Packets = 1 .. Len(Sizes)
  BY TunSizes, EmptySeq, LenProperties DEF Packets
<1>2. \A n \in 1 .. Len(Sizes) : Sizes[n] \in Nat \ {0}
  BY TunSizes, ElementOfSeq
<1> QED BY <1>1, <1>2

LEMMA FrameIs ==
  ASSUME NEW m \in 0 .. Len(Sizes), NEW n \in 1 .. m
  PROVE  /\ Frame(n) \in Seq(BytesTo(m)) /\ Len(Frame(n)) = Sizes[n] + 2 /\ Frame(n) # <<>>
         /\ \A i \in 1 .. Sizes[n] + 2 : Frame(n)[i] = <<n, i>>
<1>1. n \in 1 .. Len(Sizes) /\ Sizes[n] + 2 \in Nat
  BY SizesAre
<1>2. Frame(n) \in [1 .. Sizes[n] + 2 -> BytesTo(m)]
  BY DEF Frame, BytesTo
<1>3. Frame(n) \in Seq(BytesTo(m))
  BY <1>1, <1>2, SeqDef
<1>4. Len(Frame(n)) = Sizes[n] + 2
  <2>1. DOMAIN Frame(n) = 1 .. Sizes[n] + 2
    BY <1>2
  <2> QED BY <1>1, <1>3, <2>1, LenProperties
<1>5. Frame(n) # <<>>
  <2>1. Sizes[n] + 2 # 0
    BY <1>1, SizesAre
  <2> QED BY <1>4, <2>1, EmptySeq
<1> QED BY <1>3, <1>4, <1>5 DEF Frame

LEMMA ByteIs ==
  ASSUME NEW m \in 0 .. Len(Sizes), NEW b \in BytesTo(m)
  PROVE  /\ b = <<b[1], b[2]>> /\ b[1] \in 1 .. m /\ b[2] \in 1 .. Sizes[b[1]] + 2
         /\ b[1] \in Nat /\ b[2] \in Nat /\ b[2] > 0
<1>1. PICK n \in 1 .. m : b \in {n} \X (1 .. Sizes[n] + 2)
  BY DEF BytesTo
<1> QED BY <1>1, SizesAre

\* The first frames are among the first ones and one more.
LEMMA MoreBytes ==
  ASSUME NEW m \in 0 .. Len(Sizes), NEW n \in 0 .. Len(Sizes), m <= n
  PROVE  /\ BytesTo(m) \subseteq BytesTo(n) /\ Seq(BytesTo(m)) \subseteq Seq(BytesTo(n))
         /\ Seq(Seq(BytesTo(m))) \subseteq Seq(Seq(BytesTo(n)))
<1>1. BytesTo(m) \subseteq BytesTo(n)
  BY SizesAre DEF BytesTo
<1>2. Seq(BytesTo(m)) \subseteq Seq(BytesTo(n))
  BY <1>1, SeqMonotonic
<1>3. Seq(Seq(BytesTo(m))) \subseteq Seq(Seq(BytesTo(n)))
  BY <1>2, SeqMonotonic
<1> QED BY <1>1, <1>2, <1>3

\* A nonempty set of natural numbers has a least element.
LEMMA LeastExists ==
  ASSUME NEW S \in SUBSET Nat, S # {}
  PROVE  \E x \in S : \A y \in S : x <= y
<1> DEFINE R == OpToRel(<, Nat)
<1>1. IsWellFoundedOn(R, Nat)
  BY NatLessThanWellFounded
<1>2. \A x, y \in Nat : y < x => <<y, x>> \in R
  BY DEF OpToRel
<1> HIDE DEF R
<1>3. PICK x \in S : \A y \in S : <<y, x>> \notin R
  BY <1>1, WFMin
<1>4. x \in Nat /\ \A y \in S : y \in Nat /\ ~(y < x)
  BY <1>2, <1>3
<1>5. \A y \in S : x <= y
  BY <1>4
<1> QED BY <1>5

\* One of the packets is longest.
LEMMA LongestIs ==
  /\ LongestFrame \in Nat /\ LongestFrame > 2
  /\ \A n \in 1 .. Len(Sizes) : Sizes[n] + 2 <= LongestFrame
<1> DEFINE Tops(n)  == \E j \in 1 .. n : \A i \in 1 .. n : Sizes[i] <= Sizes[j]
           Bad == {n \in 1 .. Len(Sizes) : ~Tops(n)}
<1>0. Tops(1)
  <2>1. 1 \in 1 .. 1 /\ \A i \in 1 .. 1 : i = 1
    OBVIOUS
  <2>2. Sizes[1] \in Nat
    BY SizesAre
  <2>3. Sizes[1] <= Sizes[1]
    BY <2>2
  <2> QED BY <2>1, <2>3
<1>1. Bad = {}
  <2> SUFFICES ASSUME Bad # {} PROVE FALSE
    OBVIOUS
  <2>1. PICK n \in Bad : \A m \in Bad : n <= m
    <3>1. Bad \in SUBSET Nat
      BY SizesAre
    <3> HIDE DEF Bad
    <3> QED BY <3>1, LeastExists
  <2>2. n \in 1 .. Len(Sizes) /\ ~Tops(n) /\ n \in Nat
    BY SizesAre
  <2>3. n # 1
    BY <1>0, <2>2
  <2>4. n - 1 \in 1 .. Len(Sizes) /\ ~(n <= n - 1)
    BY <2>2, <2>3, SizesAre
  <2>5. Tops(n - 1)
    BY <2>1, <2>4
  <2>6. PICK j \in 1 .. n - 1 : \A i \in 1 .. n - 1 : Sizes[i] <= Sizes[j]
    BY <2>5
  <2>7. n - 1 \in Nat /\ j \in 1 .. n - 1 /\ j \in 1 .. n /\ n \in 1 .. n
    BY <2>2, <2>4
  <2>8. /\ Sizes[j] \in Nat /\ Sizes[n] \in Nat
        /\ \A i \in 1 .. n : Sizes[i] \in Nat /\ (i = n \/ i \in 1 .. n - 1)
    <3>1. \A i \in 1 .. n : i \in 1 .. Len(Sizes) /\ (i = n \/ i \in 1 .. n - 1)
      <4>1. n \in Nat /\ n <= Len(Sizes) /\ Len(Sizes) \in Nat
        BY <2>2, SizesAre
      <4> HIDE DEF Bad
      <4> QED BY <4>1
    <3> QED BY <2>7, <3>1, SizesAre
  <2> HIDE DEF Bad
  <2>9. CASE Sizes[j] <= Sizes[n]
    <3>1. ASSUME NEW i \in 1 .. n PROVE Sizes[i] <= Sizes[n]
      <4>1. CASE i = n
        BY <2>8, <4>1
      <4>2. CASE i \in 1 .. n - 1
        BY <2>6, <2>8, <2>9, <4>2
      <4> QED BY <2>8, <4>1, <4>2
    <3> QED BY <2>2, <2>7, <3>1
  <2>10. CASE ~(Sizes[j] <= Sizes[n])
    <3>1. ASSUME NEW i \in 1 .. n PROVE Sizes[i] <= Sizes[j]
      <4>1. CASE i = n
        BY <2>8, <2>10, <4>1
      <4>2. CASE i \in 1 .. n - 1
        BY <2>6, <4>2
      <4> QED BY <2>8, <4>1, <4>2
    <3> QED BY <2>2, <2>7, <3>1
  <2> QED BY <2>9, <2>10
<1>2. Tops(Len(Sizes))
  <2>1. Len(Sizes) \in 1 .. Len(Sizes)
    BY SizesAre
  <2> QED BY <1>1, <2>1
<1>3. PICK j \in 1 .. Len(Sizes) : \A i \in 1 .. Len(Sizes) : Sizes[i] <= Sizes[j]
  BY <1>2
<1> DEFINE L == {Sizes[i] + 2 : i \in Packets}
<1>4. Sizes[j] + 2 \in L /\ \A i \in Packets : Sizes[i] + 2 <= Sizes[j] + 2
  BY <1>3, SizesAre
<1>5. LongestFrame \in L /\ \A i \in Packets : Sizes[i] + 2 <= LongestFrame
  BY <1>4 DEF LongestFrame
<1> QED BY <1>5, SizesAre

-----------------------------------------------------------------------------
(* Lemmas about runs of bytes *)

LEMMA RunHead ==
  ASSUME NEW S, NEW q \in Seq(S), q # <<>>, NEW a, NEW b, Run(q, a, b)
  PROVE  Head(q) = a /\ a \in S /\ Tail(q) \in Seq(S) /\ Run(Tail(q), After(a), b)
<1>1. /\ Len(q) \in Nat \ {0} /\ Tail(q) \in Seq(S) /\ Len(Tail(q)) = Len(q) - 1
      /\ \A i \in 1 .. Len(Tail(q)) : Tail(q)[i] = q[i + 1]
  BY EmptySeq, HeadTailProperties
<1>2. q[1] = a /\ After(q[Len(q)]) = b /\ \A i \in 1 .. Len(q) - 1 : q[i + 1] = After(q[i])
  BY DEF Run
<1>3. Head(q) = a /\ a \in S
  BY <1>1, <1>2, ElementOfSeq
<1>4. CASE Len(q) = 1
  <2>1. Len(Tail(q)) = 0
    BY <1>1, <1>4
  <2>2. Tail(q) = <<>>
    BY <1>1, <2>1, EmptySeq
  <2> QED BY <1>2, <1>4, <2>2 DEF Run
<1>5. CASE Len(q) # 1
  <2>1. Len(Tail(q)) \in Nat \ {0} /\ Tail(q) # <<>>
    BY <1>1, <1>5, EmptySeq
  <2>2. Tail(q)[1] = After(a)
    BY <1>1, <1>2, <2>1
  <2>3. Tail(q)[Len(Tail(q))] = q[Len(q)]
    BY <1>1, <2>1
  <2>4. \A i \in 1 .. Len(Tail(q)) - 1 : Tail(q)[i + 1] = After(Tail(q)[i])
    <3> SUFFICES ASSUME NEW i \in 1 .. Len(Tail(q)) - 1 PROVE Tail(q)[i + 1] = After(Tail(q)[i])
      OBVIOUS
    <3>1. /\ i \in 1 .. Len(Tail(q)) /\ i + 1 \in 1 .. Len(Tail(q)) /\ i + 1 \in 1 .. Len(q) - 1
      BY <1>1, <2>1
    <3> QED BY <1>1, <1>2, <3>1
  <2> QED BY <1>2, <2>1, <2>2, <2>3, <2>4 DEF Run
<1>6. Run(Tail(q), After(a), b)
  BY <1>4, <1>5
<1> QED BY <1>1, <1>3, <1>6

LEMMA RunJoin ==
  ASSUME NEW S, NEW p \in Seq(S), NEW q \in Seq(S), NEW a, NEW b, NEW c, Run(p, a, b), Run(q, b, c)
  PROVE  p \o q \in Seq(S) /\ Run(p \o q, a, c)
<1>1. /\ Len(p) \in Nat /\ Len(q) \in Nat /\ p \o q \in Seq(S) /\ Len(p \o q) = Len(p) + Len(q)
      /\ \A i \in 1 .. Len(p) + Len(q) : (p \o q)[i] = IF i <= Len(p) THEN p[i] ELSE q[i - Len(p)]
  BY ConcatProperties, LenProperties
<1>2. CASE p = <<>>
  BY <1>1, <1>2, ConcatEmptySeq DEF Run
<1>3. CASE q = <<>>
  BY <1>1, <1>3, ConcatEmptySeq DEF Run
<1>4. CASE p # <<>> /\ q # <<>>
  <2>1. Len(p) \in Nat \ {0} /\ Len(q) \in Nat \ {0}
    BY <1>4, EmptySeq
  <2>2. /\ p[1] = a /\ After(p[Len(p)]) = b /\ \A i \in 1 .. Len(p) - 1 : p[i + 1] = After(p[i])
        /\ q[1] = b /\ After(q[Len(q)]) = c /\ \A i \in 1 .. Len(q) - 1 : q[i + 1] = After(q[i])
    BY <1>4 DEF Run
  <2> DEFINE r == p \o q
  <2>3. p \o q # <<>>
    BY <1>1, <2>1, EmptySeq
  <2>4. r[1] = a /\ r[Len(r)] = q[Len(q)]
    BY <1>1, <2>1, <2>2
  <2>5. ASSUME NEW i \in 1 .. Len(r) - 1 PROVE r[i + 1] = After(r[i])
    <3>1. i \in 1 .. Len(p) + Len(q) /\ i + 1 \in 1 .. Len(p) + Len(q)
      BY <1>1
    <3>2. CASE i < Len(p)
      <4>1. i \in 1 .. Len(p) - 1 /\ r[i] = p[i] /\ r[i + 1] = p[i + 1]
        BY <1>1, <3>1, <3>2
      <4> QED BY <2>2, <4>1
    <3>3. CASE i = Len(p)
      <4>1. r[i] = p[Len(p)] /\ r[i + 1] = q[1]
        BY <1>1, <3>1, <3>3
      <4> QED BY <2>2, <4>1
    <3>4. CASE i > Len(p)
      <4>1. /\ i - Len(p) \in 1 .. Len(q) - 1 /\ i + 1 - Len(p) = (i - Len(p)) + 1
            /\ r[i] = q[i - Len(p)] /\ r[i + 1] = q[i + 1 - Len(p)]
        BY <1>1, <3>1, <3>4
      <4> QED BY <2>2, <4>1
    <3> QED BY <1>1, <3>1, <3>2, <3>3, <3>4
  <2> QED BY <1>1, <2>2, <2>3, <2>4, <2>5 DEF Run
<1> QED BY <1>1, <1>2, <1>3, <1>4

\* A run is cut anywhere.
LEMMA RunCut ==
  ASSUME NEW S, NEW q \in Seq(S), NEW a, NEW b, Run(q, a, b), NEW n \in 1 .. Len(q)
  PROVE  LET p == SubSeq(q, 1, n)
             r == SubSeq(q, n + 1, Len(q)) IN
         /\ p \in Seq(S) /\ Len(p) = n /\ p # <<>> /\ \A i \in 1 .. n : p[i] = q[i] /\ q[i] \in S
         /\ r \in Seq(S) /\ Len(r) = Len(q) - n
         /\ Run(p, a, After(q[n])) /\ Run(r, After(q[n]), b)
<1> DEFINE p == SubSeq(q, 1, n)
           r == SubSeq(q, n + 1, Len(q))
<1>1. Len(q) \in Nat /\ n \in Nat /\ 1 <= n /\ n <= Len(q) /\ q # <<>>
  BY LenProperties, EmptySeq
<1>2. \A i \in 1 .. Len(q) : q[i] \in S
  BY ElementOfSeq
<1>3. q[1] = a /\ After(q[Len(q)]) = b /\ \A i \in 1 .. Len(q) - 1 : q[i + 1] = After(q[i])
  BY <1>1 DEF Run
<1>4. p \in Seq(S) /\ Len(p) = n /\ \A i \in 1 .. n : p[i] = q[i]
  <2>1. /\ p \in Seq(S) /\ Len(p) = IF 1 <= n THEN n - 1 + 1 ELSE 0
        /\ \A i \in 1 .. n - 1 + 1 : p[i] = q[1 + i - 1]
    BY <1>1, <1>2, SubSeqProperties
  <2> HIDE DEF p
  <2> QED BY <1>1, <2>1
<1>5. r \in Seq(S) /\ Len(r) = Len(q) - n /\ \A i \in 1 .. Len(q) - n : r[i] = q[n + i]
  <2>1. /\ r \in Seq(S) /\ Len(r) = IF n + 1 <= Len(q) THEN Len(q) - (n + 1) + 1 ELSE 0
        /\ \A i \in 1 .. Len(q) - (n + 1) + 1 : r[i] = q[(n + 1) + i - 1]
    BY <1>1, <1>2, SubSeqProperties
  <2> HIDE DEF r
  <2> QED BY <1>1, <2>1
<1> HIDE DEF p, r
<1>6. p # <<>>
  BY <1>1, <1>4, EmptySeq
<1>7. Run(p, a, After(q[n]))
  <2>1. p[1] = a /\ p[Len(p)] = q[n]
    BY <1>1, <1>3, <1>4
  <2>2. \A i \in 1 .. Len(p) - 1 : p[i + 1] = After(p[i])
    <3> SUFFICES ASSUME NEW i \in 1 .. Len(p) - 1 PROVE p[i + 1] = After(p[i])
      OBVIOUS
    <3>1. i \in 1 .. n /\ i + 1 \in 1 .. n /\ i \in 1 .. Len(q) - 1
      BY <1>1, <1>4
    <3> QED BY <1>3, <1>4, <3>1
  <2> QED BY <1>6, <2>1, <2>2 DEF Run
<1>8. Run(r, After(q[n]), b)
  <2>1. CASE r = <<>>
    BY <1>1, <1>3, <1>5, <2>1, EmptySeq DEF Run
  <2>2. CASE r # <<>>
    <3>1. Len(q) - n \in Nat \ {0}
      BY <1>5, <2>2, EmptySeq
    <3>2. r[1] = After(q[n]) /\ r[Len(r)] = q[Len(q)]
      <4>1. n \in 1 .. Len(q) - 1 /\ 1 \in 1 .. Len(q) - n /\ Len(r) \in 1 .. Len(q) - n
        BY <1>1, <1>5, <3>1
      <4>2. r[1] = q[n + 1]
        BY <1>5, <4>1
      <4>3. r[Len(r)] = q[n + Len(r)]
        BY <1>5, <4>1
      <4>4. n + Len(r) = Len(q)
        BY <1>1, <1>5
      <4> QED BY <1>3, <4>1, <4>2, <4>3, <4>4
    <3>3. \A i \in 1 .. Len(r) - 1 : r[i + 1] = After(r[i])
      <4> SUFFICES ASSUME NEW i \in 1 .. Len(r) - 1 PROVE r[i + 1] = After(r[i])
        OBVIOUS
      <4>1. /\ i \in 1 .. Len(q) - n /\ i + 1 \in 1 .. Len(q) - n /\ n + i \in 1 .. Len(q) - 1
            /\ n + (i + 1) = (n + i) + 1
        BY <1>1, <1>5, <3>1
      <4> QED BY <1>3, <1>5, <4>1
    <3> QED BY <1>3, <2>2, <3>2, <3>3 DEF Run
  <2> QED BY <2>1, <2>2
<1> QED BY <1>2, <1>4, <1>5, <1>6, <1>7, <1>8 DEF p, r

\* A frame is a run up to the next one.
LEMMA FrameRuns ==
  ASSUME NEW m \in 0 .. Len(Sizes), NEW n \in 1 .. m
  PROVE  Run(Frame(n), <<n, 1>>, <<n + 1, 1>>)
<1>1. /\ Len(Frame(n)) = Sizes[n] + 2 /\ Frame(n) # <<>>
      /\ \A i \in 1 .. Sizes[n] + 2 : Frame(n)[i] = <<n, i>>
  BY FrameIs
<1>2. Sizes[n] \in Nat
  BY SizesAre
<1>3. Frame(n)[1] = <<n, 1>> /\ Frame(n)[Len(Frame(n))] = <<n, Sizes[n] + 2>>
  BY <1>1, <1>2
<1>4. After(<<n, Sizes[n] + 2>>) = <<n + 1, 1>>
  BY <1>2 DEF After
<1>5. ASSUME NEW i \in 1 .. Len(Frame(n)) - 1 PROVE Frame(n)[i + 1] = After(Frame(n)[i])
  <2>1. i \in 1 .. Sizes[n] + 2 /\ i + 1 \in 1 .. Sizes[n] + 2 /\ i < Sizes[n] + 2
    BY <1>1, <1>2
  <2>2. Frame(n)[i] = <<n, i>> /\ Frame(n)[i + 1] = <<n, i + 1>>
    BY <1>1, <2>1
  <2>3. After(<<n, i>>) = <<n, i + 1>>
    BY <2>1 DEF After
  <2> QED BY <2>2, <2>3
<1> QED BY <1>1, <1>3, <1>4, <1>5 DEF Run

\* A run goes on with the byte it leads to.
LEMMA RunAppend ==
  ASSUME NEW S, NEW q \in Seq(S), NEW a, NEW b \in S, Run(q, a, b)
  PROVE  Append(q, b) \in Seq(S) /\ Run(Append(q, b), a, After(b))
<1>1. <<b>> \in Seq(S) /\ Run(<<b>>, b, After(b))
  BY DEF Run
<1>2. Append(q, b) = q \o <<b>>
  BY AppendIsConcat
<1> DEFINE one == <<b>>
<1>3. one \in Seq(S) /\ Run(one, b, After(b)) /\ Append(q, b) = q \o one
  BY <1>1, <1>2
<1> HIDE DEF one
<1>4. q \o one \in Seq(S) /\ Run(q \o one, a, After(b))
  BY <1>3, RunJoin
<1> QED BY <1>3, <1>4

\* A byte that is there belongs to a packet that is there.
LEMMA RunStarts ==
  ASSUME NEW m \in 0 .. Len(Sizes), NEW q \in Seq(BytesTo(m)), q # <<>>, NEW k \in Nat, NEW b,
         Run(q, Place(k, 0), b)
  PROVE  k \in 1 .. m
<1>1. Place(k, 0) = <<k, 1>> /\ Place(k, 0) \in BytesTo(m)
  BY RunHead DEF Place
<1> QED BY <1>1, ByteIs

\* A run stays in a frame as far as the frame goes.
LEMMA RunStays ==
  ASSUME NEW m \in 0 .. Len(Sizes), NEW q \in Seq(BytesTo(m)), NEW k \in 1 .. m, NEW g \in Nat,
         NEW b, Run(q, Place(k, g), b),
         NEW n \in 1 .. Len(q), g + n <= Sizes[k] + 2
  PROVE  (\A i \in 1 .. n : q[i] = <<k, g + i>>) /\ After(q[n]) = Place(k, g + n)
<1>1. /\ Sizes[k] \in Nat /\ Len(q) \in Nat /\ n \in Nat /\ n > 0 /\ n <= Len(q) /\ q # <<>>
  BY SizesAre, LenProperties, EmptySeq
<1>2. q[1] = Place(k, g) /\ \A i \in 1 .. Len(q) - 1 : q[i + 1] = After(q[i])
  BY <1>1 DEF Run
<1>3. \A h \in Nat : h < Sizes[k] + 2 => Place(k, h) = <<k, h + 1>> /\ After(<<k, h>>) = <<k, h + 1>>
  BY <1>1 DEF Place, After
<1> DEFINE Bad == {i \in 1 .. n : q[i] # <<k, g + i>>}
<1>4. Bad = {}
  <2> SUFFICES ASSUME Bad # {} PROVE FALSE
    OBVIOUS
  <2>1. PICK i \in Bad : \A j \in Bad : i <= j
    <3>1. Bad \in SUBSET Nat
      OBVIOUS
    <3> HIDE DEF Bad
    <3> QED BY <3>1, LeastExists
  <2>2. i \in 1 .. n /\ q[i] # <<k, g + i>>
    OBVIOUS
  <2>3. i # 1
    <3>1. g \in Nat /\ g < Sizes[k] + 2
      BY <1>1
    <3>2. Place(k, g) = <<k, g + 1>>
      BY <1>3, <3>1
    <3>3. q[1] = <<k, g + 1>>
      BY <1>2, <3>2
    <3> QED BY <2>2, <3>3
  <2>4. i - 1 \in 1 .. n /\ i - 1 \in 1 .. Len(q) - 1 /\ (i - 1) + 1 = i /\ ~(i <= i - 1)
        /\ g + (i - 1) \in Nat /\ g + (i - 1) < Sizes[k] + 2 /\ (g + (i - 1)) + 1 = g + i
    <3> HIDE DEF Bad
    <3> QED BY <1>1, <2>2, <2>3
  <2>5. q[i - 1] = <<k, g + (i - 1)>>
    BY <2>1, <2>4
  <2>6. q[i] = After(q[i - 1])
    BY <1>2, <2>4
  <2>7. q[i] = <<k, g + i>>
    <3> HIDE DEF Bad
    <3> QED BY <1>3, <2>4, <2>5, <2>6
  <2> QED BY <2>2, <2>7
<1>5. \A i \in 1 .. n : q[i] = <<k, g + i>>
  BY <1>4
<1>6. q[n] = <<k, g + n>> /\ g + n # 0
  BY <1>1, <1>5
<1> QED BY <1>5, <1>6 DEF Place

\* Where a frame ends the next one begins.
LEMMA PlaceIs ==
  /\ \A k \in Nat : Place(k, 0) = <<k, 1>>
  /\ \A k \in 1 .. Len(Sizes) : Place(k, Sizes[k] + 2) = <<k + 1, 1>>
<1>1. ASSUME NEW k \in 1 .. Len(Sizes) PROVE Place(k, Sizes[k] + 2) = <<k + 1, 1>>
  <2>1. Sizes[k] \in Nat
    BY SizesAre
  <2> QED BY <2>1 DEF Place, After
<1> QED BY <1>1 DEF Place

\* Two bytes that begin a frame say how long the packet is.
LEMMA LengthIs ==
  ASSUME NEW k \in 1 .. Len(Sizes), NEW h \in Seq(BytesTo(Len(Sizes))), Len(h) = 2,
         \A i \in 1 .. 2 : h[i] = <<k, i>>
  PROVE  PacketLength(h) = Sizes[k]
<1> DEFINE p == SubSeq(Frame(k), 1, 2)
<1>1. /\ Sizes[k] \in Nat /\ Len(Sizes) \in 0 .. Len(Sizes) /\ Packets = 1 .. Len(Sizes)
  BY SizesAre
<1>2. /\ Frame(k) \in Seq(BytesTo(Len(Sizes))) /\ Len(Frame(k)) = Sizes[k] + 2
      /\ \A i \in 1 .. Sizes[k] + 2 : Frame(k)[i] = <<k, i>>
  BY <1>1, FrameIs
<1>3. /\ p \in Seq(BytesTo(Len(Sizes))) /\ Len(p) = 2 /\ \A i \in 1 .. 2 : p[i] = <<k, i>>
  <2>1. \A i \in 1 .. 2 : Frame(k)[i] \in BytesTo(Len(Sizes))
    BY <1>1, <1>2, ElementOfSeq
  <2>2. /\ p \in Seq(BytesTo(Len(Sizes))) /\ Len(p) = IF 1 <= 2 THEN 2 - 1 + 1 ELSE 0
        /\ \A i \in 1 .. 2 - 1 + 1 : p[i] = Frame(k)[1 + i - 1]
    BY <1>2, <2>1, SubSeqProperties
  <2>3. \A i \in 1 .. 2 : i \in 1 .. Sizes[k] + 2 /\ 1 + i - 1 = i /\ i \in 1 .. 2 - 1 + 1
    BY <1>1
  <2> HIDE DEF p
  <2> QED BY <1>2, <2>2, <2>3
<1> HIDE DEF p
<1>4. h = p
  BY <1>3, SeqEqual
<1>5. h[1][1] = k
  OBVIOUS
<1> QED BY <1>1, <1>4, <1>5 DEF PacketLength, p

\* The packet is what comes behind the header.
LEMMA BodyIs ==
  ASSUME NEW m \in 0 .. Len(Sizes), NEW k \in 1 .. m, NEW s \in Seq(BytesTo(m)), Len(s) = Sizes[k],
         \A i \in 1 .. Sizes[k] : s[i] = <<k, i + 2>>
  PROVE  s = Body(k)
<1> DEFINE p == SubSeq(Frame(k), 3, Sizes[k] + 2)
<1>1. Sizes[k] \in Nat /\ Sizes[k] > 0
  BY SizesAre
<1>2. /\ Frame(k) \in Seq(BytesTo(m)) /\ Len(Frame(k)) = Sizes[k] + 2
      /\ \A i \in 1 .. Sizes[k] + 2 : Frame(k)[i] = <<k, i>>
  BY FrameIs
<1>3. /\ p \in Seq(BytesTo(m)) /\ Len(p) = Sizes[k] /\ \A i \in 1 .. Sizes[k] : p[i] = <<k, i + 2>>
  <2>1. \A i \in 3 .. Sizes[k] + 2 : Frame(k)[i] \in BytesTo(m)
    BY <1>1, <1>2, ElementOfSeq
  <2>2. /\ p \in Seq(BytesTo(m))
        /\ Len(p) = IF 3 <= Sizes[k] + 2 THEN Sizes[k] + 2 - 3 + 1 ELSE 0
        /\ \A i \in 1 .. Sizes[k] + 2 - 3 + 1 : p[i] = Frame(k)[3 + i - 1]
    BY <1>1, <1>2, <2>1, SubSeqProperties
  <2>3. \A i \in 1 .. Sizes[k] : i + 2 \in 1 .. Sizes[k] + 2 /\ 3 + i - 1 = i + 2
                                 /\ i \in 1 .. Sizes[k] + 2 - 3 + 1
    BY <1>1
  <2>4. 3 <= Sizes[k] + 2 /\ Sizes[k] + 2 - 3 + 1 = Sizes[k]
    BY <1>1
  <2> HIDE DEF p
  <2> QED BY <1>2, <2>2, <2>3, <2>4
<1> HIDE DEF p
<1>4. s = p
  BY <1>1, <1>3, SeqEqual
<1> QED BY <1>4 DEF Body, p

-----------------------------------------------------------------------------
(* Opening and closing *)

\* A step that leaves all bytes where they are.
LEMMA ControlKeepsTunInv ==
  ASSUME TunInv, Types', Opened', UNCHANGED <<stdin, stdout, sent, buffers, receipt>>,
         writable' /\ ~sending' => Len(stdin) < HighWater,
         helper = "exited" => helper' = "exited"
  PROVE  TunInv'
<1>1. /\ stdin' = stdin /\ stdout' = stdout /\ sent' = sent /\ input' = input /\ output' = output
      /\ taken' = taken /\ injected' = injected /\ reader' = reader /\ delivered' = delivered
  BY DEF buffers, receipt
<1>2. Room'
  BY <1>1 DEF TunInv, Room
<1>3. Outward'
  BY <1>1 DEF TunInv, Outward
<1>4. Writing'
  BY <1>1 DEF TunInv, Writing
<1>5. Reading'
  BY <1>1 DEF TunInv, Reading
<1>6. Inward'
  <2>1. Got' = Got /\ Written' = Written
    BY <1>1 DEF Got, Written
  <2> QED BY <1>1, <2>1 DEF TunInv, Inward
<1> QED BY <1>2, <1>3, <1>4, <1>5, <1>6 DEF TunInv

\* The steps of the host and of the helper between spawn and exit.
LEMMA OpeningKeepsTunInv ==
  ASSUME TunInv, Open \/ Ready \/ Configures \/ Fails \/ Close \/ Closed \/ CreatesTun \/ Reports
  PROVE  TunInv'
<1> USE DEF opening, sender, buffers
<1>1. Types /\ Opened /\ Room /\ Commands \in Nat /\ Commands >= 2
  BY TunBounds DEF TunInv
<1>2. UNCHANGED <<stdin, stdout, sent, buffers, receipt>> /\ sending' = sending
  BY DEF Open, Ready, Configures, Fails, Close, Closed, CreatesTun, Reports, buffers
<1>3. /\ writable' \in BOOLEAN /\ (writable' => writable)
      /\ helper = "exited" => helper' = "exited"
  <2>1. \/ ~writable' /\ writable' \in BOOLEAN
        \/ writable' = writable
    BY DEF Open, Ready, Configures, Fails, Close, Closed, CreatesTun, Reports
  <2>2. helper' = helper \/ host = "idle" \/ helper \in {"starting", "created"}
    BY DEF Open, Ready, Configures, Fails, Close, Closed, CreatesTun, Reports
  <2>3. writable \in BOOLEAN /\ (host = "idle" => helper = "none")
    BY <1>1 DEF Types, Opened
  <2>4. writable' \in BOOLEAN /\ (writable' => writable)
    BY <2>1, <2>3
  <2>5. helper = "exited" => helper' = "exited"
    BY <2>2, <2>3
  <2> QED BY <2>4, <2>5
<1>4. Types' /\ Opened'
  <2>1. CASE Open
    BY <1>1, <2>1 DEF Open, Types, Opened
  <2>2. CASE Ready
    BY <1>1, <2>2 DEF Ready, Types, Opened
  <2>3. CASE Configures
    BY <1>1, <2>3 DEF Configures, Types, Opened
  <2>4. CASE Fails
    BY <1>1, <1>3, <2>4 DEF Fails, Types, Opened
  <2>5. CASE Close
    BY <1>1, <1>3, <2>5 DEF Close, Types, Opened
  <2>6. CASE Closed
    BY <1>1, <2>6 DEF Closed, Types, Opened
  <2>7. CASE CreatesTun
    BY <1>1, <2>7 DEF CreatesTun, Types, Opened
  <2>8. CASE Reports
    BY <1>1, <2>8 DEF Reports, Types, Opened
  <2> QED BY <2>1, <2>2, <2>3, <2>4, <2>5, <2>6, <2>7, <2>8
<1>5. writable' /\ ~sending' => Len(stdin) < HighWater
  BY <1>1, <1>2, <1>3 DEF Room
<1> QED BY <1>2, <1>3, <1>4, <1>5, ControlKeepsTunInv

\* The helper's end, what the host hears of it, and a send that has waited.
LEMMA EndingKeepsTunInv ==
  ASSUME TunInv, Exits \/ ExitEvent \/ SendSettles
  PROVE  TunInv'
<1> USE DEF opening, sender, buffers
<1>1. Types /\ Opened /\ Room /\ Commands \in Nat /\ Commands >= 2 /\ Pipe \in Nat /\ HighWater \in Nat /\ HighWater > Pipe
  BY TunBounds DEF TunInv
<1>2. UNCHANGED <<stdin, stdout, sent, buffers, receipt>>
  BY DEF Exits, ExitEvent, SendSettles
<1>3. CASE Exits
  <2>0. /\ host' = host /\ named' = named /\ exited' = exited /\ writable' = writable
        /\ sending' = sending /\ sent' = sent /\ taken' = taken /\ helper' = "exited" /\ done' = 0
        /\ helper # "none"
    BY <1>3 DEF Exits, Alive
  <2>4. Types'
    <3>1. done' \in 0 .. Commands
      BY <1>1, <2>0
    <3>2. helper' \in {"none", "starting", "created", "running", "exited"}
      BY <2>0
    <3> QED BY <1>1, <2>0, <3>1, <3>2 DEF Types
  <2>5. Opened'
    <3>1. ~(done' > 0) /\ done' < Commands /\ host # "idle"
      BY <1>1, <2>0 DEF Opened
    <3> QED BY <2>0, <3>1 DEF Opened
  <2>1. Types' /\ Opened'
    BY <2>4, <2>5
  <2>2. helper' = "exited" /\ writable' = writable /\ sending' = sending
    BY <1>3 DEF Exits
  <2>3. writable' /\ ~sending' => Len(stdin) < HighWater
    BY <1>1, <2>2 DEF Room
  <2> QED BY <1>2, <2>1, <2>2, <2>3, ControlKeepsTunInv
<1>4. CASE ExitEvent
  <2>1. ~writable' /\ writable' \in BOOLEAN /\ helper' = helper
    BY <1>4 DEF ExitEvent
  <2>2. Types' /\ Opened'
    BY <1>1, <1>4, <2>1 DEF ExitEvent, Types, Opened
  <2> QED BY <1>2, <2>1, <2>2, ControlKeepsTunInv
<1>5. CASE SendSettles
  <2>1. /\ sending' \in BOOLEAN /\ writable' = writable /\ helper' = helper
        /\ Len(stdin) <= Pipe \/ ~writable
    BY <1>5 DEF SendSettles
  <2>2. Types' /\ Opened'
    BY <1>1, <1>5, <2>1 DEF SendSettles, Types, Opened
  <2>3. Len(stdin) \in Nat
    BY LenProperties DEF TunInv, Outward
  <2>4. writable' /\ ~sending' => Len(stdin) < HighWater
    BY <1>1, <2>1, <2>3
  <2> QED BY <1>2, <2>1, <2>2, <2>4, ControlKeepsTunInv
<1> QED BY <1>3, <1>4, <1>5

\* The host reads no more: the reader failed, or its process is gone.
LEMMA DestroyKeepsTunInv ==
  ASSUME TunInv, Types', Opened', ~writable', stdout' = <<>>,
         reader' = [reader EXCEPT !.at = "failed", !.chunk = <<>>],
         UNCHANGED <<stdin, sent, buffers, delivered>>
  PROVE  TunInv'
<1>1. /\ stdin' = stdin /\ sent' = sent /\ input' = input /\ output' = output
      /\ taken' = taken /\ injected' = injected /\ delivered' = delivered
  BY DEF buffers
<1>2. Room'
  BY <1>1 DEF TunInv, Room
<1>3. Outward'
  BY <1>1 DEF TunInv, Outward
<1>4. Writing'
  BY <1>1 DEF TunInv, Writing
<1>5. /\ reader' \in [at : {"reading", "delivering", "ended", "failed"}, chunk : Seq(BytesTo(taken)),
                      header : Seq(BytesTo(taken)), body : Seq(BytesTo(taken)), length : Nat]
      /\ reader'.at = "failed" /\ reader'.header = reader.header /\ reader'.body = reader.body
      /\ reader'.length = reader.length
  <2>1. <<>> \in Seq(BytesTo(taken))
    BY EmptySeq
  <2> QED BY <2>1 DEF TunInv, Reading
<1>6. Reading'
  BY <1>1, <1>5 DEF TunInv, Reading
<1>7. Inward'
  <2>1. stdout' \in Seq(BytesTo(taken)) /\ Len(stdout') <= Pipe
    BY EmptySeq, TunBounds
  <2> QED BY <1>1, <1>5, <2>1 DEF TunInv, Inward
<1> QED BY <1>2, <1>3, <1>4, <1>6, <1>7 DEF TunInv

LEMMA HostDiesKeepsTunInv ==
  ASSUME TunInv, HostDies
  PROVE  TunInv'
<1> USE DEF HostDies, opening
<1>1. ~writable' /\ writable' \in BOOLEAN /\ sending' \in BOOLEAN
  OBVIOUS
<1>2. Types' /\ Opened'
  BY <1>1 DEF TunInv, Types, Opened, buffers
<1> QED BY <1>1, <1>2, DestroyKeepsTunInv

LEMMA DeliveryFailsKeepsTunInv ==
  ASSUME TunInv, DeliveryFails
  PROVE  TunInv'
<1> USE DEF DeliveryFails, Destroys, opening, sender
<1>1. ~writable' /\ writable' \in BOOLEAN
  OBVIOUS
<1>2. Types' /\ Opened'
  BY <1>1 DEF TunInv, Types, Opened, buffers
<1> QED BY <1>1, <1>2, DestroyKeepsTunInv

-----------------------------------------------------------------------------
(* On the way to the interface *)

\* What goes to the interface leaves alone what comes from it.
LEMMA InwardStays ==
  ASSUME TunInv, UNCHANGED <<stdout, output, taken, receipt>>, helper = "exited" => helper' = "exited"
  PROVE  Writing' /\ Reading' /\ Inward'
<1>1. stdout' = stdout /\ output' = output /\ taken' = taken /\ reader' = reader /\ delivered' = delivered
  BY DEF receipt
<1>2. Writing'
  BY <1>1 DEF TunInv, Writing
<1>3. Reading'
  BY <1>1 DEF TunInv, Reading
<1>4. Got' = Got /\ Written' = Written
  BY <1>1 DEF Got, Written
<1>5. Inward'
  BY <1>1, <1>4 DEF TunInv, Inward
<1> QED BY <1>2, <1>3, <1>5

LEMMA SendKeepsTunInv ==
  ASSUME TunInv, Send
  PROVE  TunInv'
<1> DEFINE f == Frame(sent + 1)
           k == Len(injected) + 1
           n == Len(input.have)
<1>1. /\ host = "open" /\ writable /\ ~sending /\ sent < Len(Sizes)
      /\ sent' = sent + 1 /\ stdin' = stdin \o f
      /\ sending' = (Len(stdin') >= HighWater)
  BY DEF Send
<1>2. /\ host' = host /\ named' = named /\ done' = done /\ exited' = exited /\ writable' = writable
      /\ stdout' = stdout /\ helper' = helper /\ input' = input /\ output' = output /\ taken' = taken
      /\ injected' = injected /\ reader' = reader /\ delivered' = delivered
  BY DEF Send, opening, buffers, receipt
<1>3. /\ Types /\ Opened /\ Room /\ Outward /\ Len(Sizes) \in Nat /\ sent \in 0 .. Len(Sizes)
      /\ sent + 1 \in 0 .. Len(Sizes) /\ sent + 1 \in 1 .. sent + 1 /\ sent <= sent + 1
      /\ sent + 1 \in 1 .. Len(Sizes) /\ HighWater \in Nat
  BY <1>1, SizesAre, TunBounds DEF TunInv, Types
<1>4. /\ f \in Seq(BytesTo(sent + 1)) /\ Len(f) = Sizes[sent + 1] + 2
      /\ Run(f, <<sent + 1, 1>>, <<(sent + 1) + 1, 1>>)
  BY <1>3, FrameIs, FrameRuns
<1>5. /\ BytesTo(sent) \subseteq BytesTo(sent + 1) /\ Seq(BytesTo(sent)) \subseteq Seq(BytesTo(sent + 1))
      /\ Seq(Seq(BytesTo(sent))) \subseteq Seq(Seq(BytesTo(sent + 1)))
  BY <1>3, MoreBytes
<1>6. stdin \in Seq(BytesTo(sent)) /\ stdin \in Seq(BytesTo(sent + 1)) /\ Run(stdin, Place(k, n), <<sent + 1, 1>>)
  BY <1>3, <1>5 DEF Outward
<1> HIDE DEF f
<1>7. /\ stdin \o f \in Seq(BytesTo(sent + 1)) /\ Run(stdin \o f, Place(k, n), <<(sent + 1) + 1, 1>>)
      /\ Len(stdin \o f) = Len(stdin) + Len(f) /\ Len(stdin) \in Nat /\ Len(f) \in Nat
  BY <1>4, <1>6, RunJoin, ConcatProperties, LenProperties
<1>8. Sizes[sent + 1] + 2 <= LongestFrame /\ LongestFrame \in Nat
  BY <1>3, LongestIs
<1>9. sending' \in BOOLEAN
  BY <1>1
<1>10. Types'
  BY <1>1, <1>2, <1>3, <1>9 DEF Types
<1>11. Opened'
  BY <1>2, <1>3 DEF Opened
<1>12. Room'
  <2>1. Len(stdin) < HighWater
    BY <1>1, <1>3 DEF Room
  <2>2. Len(stdin') = Len(stdin) + Len(f) /\ Len(stdin') \in Nat
    BY <1>1, <1>7
  <2>3. Len(stdin') < HighWater + LongestFrame
    <3>1. Len(f) <= LongestFrame /\ Len(f) \in Nat /\ Len(stdin) \in Nat
      BY <1>4, <1>7, <1>8
    <3>2. HighWater \in Nat /\ LongestFrame \in Nat
      BY <1>3, <1>8
    <3> QED BY <2>1, <2>2, <3>1, <3>2
  <2>4. ~sending' => Len(stdin') < HighWater
    <3>1. ~sending' => ~(Len(stdin') >= HighWater)
      BY <1>1
    <3>2. ~(Len(stdin') >= HighWater) => Len(stdin') < HighWater
      BY <1>3, <2>2
    <3> QED BY <3>1, <3>2
  <2>5. LongestFrame' = LongestFrame
    OBVIOUS
  <2> QED BY <2>3, <2>4, <2>5 DEF Room
<1>13. Outward'
  <2>1. /\ injected \in Seq(Seq(BytesTo(sent))) /\ Len(injected) <= sent /\ Len(injected) \in Nat
        /\ \A i \in 1 .. Len(injected) : injected[i] = Body(i)
    BY <1>3, LenProperties DEF Outward
  <2>2. input \in [have : Seq(BytesTo(sent + 1)), need : Nat] /\ injected \in Seq(Seq(BytesTo(sent + 1)))
    BY <1>3, <1>5, <2>1 DEF Outward
  <2>3. /\ \A i \in 1 .. n : input.have[i] = <<k, i>>
        /\ n > 0 => k <= sent
        /\ n < 2 => input.need = 2
        /\ n >= 2 => input.need = Sizes[k] + 2 /\ n <= input.need
    BY <1>3 DEF Outward
  <2>4. (n > 0 => k <= sent + 1) /\ Len(injected) <= sent + 1
    BY <1>3, <2>1, <2>3
  <2> QED BY <1>1, <1>2, <1>7, <2>1, <2>2, <2>3, <2>4 DEF Outward
<1>14. Writing' /\ Reading' /\ Inward'
  <2>1. UNCHANGED <<stdout, output, taken, receipt>> /\ helper' = helper
    BY <1>2 DEF receipt
  <2> QED BY <2>1, InwardStays
<1> QED BY <1>10, <1>11, <1>12, <1>13, <1>14 DEF TunInv

\* The next byte of stdin is the one the helper waits for.
LEMMA NextByte ==
  ASSUME TunInv, stdin # <<>>, Len(input.have) < input.need
  PROVE  LET k == Len(injected) + 1
             n == Len(input.have) IN
         /\ k \in 1 .. sent /\ k \in 1 .. Len(Sizes) /\ n \in Nat /\ n + 1 <= Sizes[k] + 2
         /\ Sizes[k] \in Nat /\ Sizes[k] > 0
         /\ Head(stdin) = <<k, n + 1>> /\ Head(stdin) \in BytesTo(sent)
         /\ Tail(stdin) \in Seq(BytesTo(sent)) /\ Len(Tail(stdin)) = Len(stdin) - 1
         /\ Run(Tail(stdin), Place(k, n + 1), <<sent + 1, 1>>)
<1> DEFINE k == Len(injected) + 1
           n == Len(input.have)
<1>1. /\ stdin \in Seq(BytesTo(sent)) /\ injected \in Seq(Seq(BytesTo(sent)))
      /\ input.have \in Seq(BytesTo(sent)) /\ sent \in 0 .. Len(Sizes) /\ Len(Sizes) \in Nat
      /\ n > 0 => k <= sent
      /\ n < 2 => input.need = 2
      /\ n >= 2 => input.need = Sizes[k] + 2 /\ n <= input.need
      /\ Run(stdin, Place(k, n), <<sent + 1, 1>>)
  BY SizesAre DEF TunInv, Types, Outward
<1>2. k \in Nat /\ k > 0 /\ n \in Nat /\ Len(stdin) \in Nat /\ 1 \in 1 .. Len(stdin)
  <2>1. Len(stdin) # 0
    BY <1>1, EmptySeq
  <2> QED BY <1>1, <2>1, LenProperties
<1>3. k \in 1 .. sent
  <2>1. CASE n = 0
    BY <1>1, <1>2, <2>1, RunStarts
  <2>2. CASE n # 0
    BY <1>1, <1>2, <2>2
  <2> QED BY <2>1, <2>2
<1>4. k \in 1 .. Len(Sizes) /\ Sizes[k] \in Nat /\ Sizes[k] > 0
  BY <1>1, <1>3, SizesAre
<1>5. n + 1 <= Sizes[k] + 2
  <2>1. CASE n < 2
    BY <1>2, <1>4, <2>1
  <2>2. CASE n >= 2
    <3>1. input.need = Sizes[k] + 2
      BY <1>1, <2>2
    <3> QED BY <1>2, <1>4, <3>1
  <2> QED BY <1>2, <2>1, <2>2
<1> HIDE DEF k, n
<1>6. stdin[1] = <<k, n + 1>> /\ After(stdin[1]) = Place(k, n + 1)
  <2>1. (\A i \in 1 .. 1 : stdin[i] = <<k, n + i>>) /\ After(stdin[1]) = Place(k, n + 1)
    BY <1>1, <1>2, <1>3, <1>5, RunStays
  <2>2. 1 \in 1 .. 1
    OBVIOUS
  <2> QED BY <2>1, <2>2
<1>7. /\ Head(stdin) = Place(k, n) /\ Head(stdin) \in BytesTo(sent) /\ Tail(stdin) \in Seq(BytesTo(sent))
      /\ Run(Tail(stdin), After(Place(k, n)), <<sent + 1, 1>>)
  BY <1>1, RunHead
<1>8. Head(stdin) = stdin[1] /\ Len(Tail(stdin)) = Len(stdin) - 1
  BY <1>1, HeadTailProperties
<1> QED BY <1>2, <1>3, <1>4, <1>5, <1>6, <1>7, <1>8 DEF k, n

LEMMA ReadsByteKeepsTunInv ==
  ASSUME TunInv, ReadsByte
  PROVE  TunInv'
<1> DEFINE k == Len(injected) + 1
           n == Len(input.have)
           b == Head(stdin)
           have == Append(input.have, b)
           need == IF n = 1 THEN Sizes[k] + 2 ELSE input.need
<1>1. /\ helper = "running" /\ stdin # <<>> /\ n < input.need /\ stdin' = Tail(stdin)
      /\ host' = host /\ named' = named /\ exited' = exited /\ writable' = writable
      /\ stdout' = stdout /\ sent' = sent /\ sending' = sending /\ output' = output
      /\ taken' = taken /\ injected' = injected /\ reader' = reader /\ delivered' = delivered
  BY DEF ReadsByte, sender, receipt
<1>2. /\ k \in 1 .. sent /\ k \in 1 .. Len(Sizes) /\ n \in Nat /\ n + 1 <= Sizes[k] + 2
      /\ Sizes[k] \in Nat /\ Sizes[k] > 0
      /\ b = <<k, n + 1>> /\ b \in BytesTo(sent)
      /\ Tail(stdin) \in Seq(BytesTo(sent)) /\ Len(Tail(stdin)) = Len(stdin) - 1
      /\ Run(Tail(stdin), Place(k, n + 1), <<sent + 1, 1>>)
  BY <1>1, NextByte
<1>3. /\ Types /\ Opened /\ Room /\ Outward /\ sent \in 0 .. Len(Sizes) /\ Len(Sizes) \in Nat
      /\ Len(stdin) \in Nat /\ Len(injected) \in Nat
  BY SizesAre, LenProperties DEF TunInv, Types, Outward
<1>4. /\ input.have \in Seq(BytesTo(sent)) /\ input.need \in Nat
      /\ input = [have |-> input.have, need |-> input.need]
      /\ \A i \in 1 .. n : input.have[i] = <<k, i>>
      /\ n < 2 => input.need = 2
      /\ n >= 2 => input.need = Sizes[k] + 2
  BY <1>3 DEF Outward
<1> HIDE DEF b
<1>5. /\ have \in Seq(BytesTo(sent)) /\ Len(have) = n + 1
      /\ \A i \in 1 .. n + 1 : have[i] = <<k, i>>
  <2>1. /\ have \in Seq(BytesTo(sent)) /\ Len(have) = n + 1 /\ have[n + 1] = b
        /\ \A i \in 1 .. n : have[i] = input.have[i]
    <3>1. PICK q \in Seq(BytesTo(sent)) : q = input.have
      BY <1>4
    <3>2. /\ Append(q, b) \in Seq(BytesTo(sent)) /\ Len(Append(q, b)) = Len(q) + 1
          /\ Append(q, b)[Len(q) + 1] = b /\ \A i \in 1 .. Len(q) : Append(q, b)[i] = q[i]
      <4>1. b \in BytesTo(sent)
        BY <1>2
      <4> HIDE DEF k, n, have, need
      <4> QED BY <4>1, AppendProperties
    <3> QED BY <3>1, <3>2
  <2>2. \A i \in 1 .. n + 1 : i = n + 1 \/ i \in 1 .. n
    <3>1. n \in Nat
      BY <1>2
    <3> HIDE DEF n
    <3> QED BY <3>1
  <2> HIDE DEF have
  <2> QED BY <1>2, <1>4, <2>1, <2>2
<1> HIDE DEF have
<1>6. n = 1 => PacketLength(have) = Sizes[k]
  <2>1. BytesTo(sent) \subseteq BytesTo(Len(Sizes)) /\ Seq(BytesTo(sent)) \subseteq Seq(BytesTo(Len(Sizes)))
    BY <1>3, MoreBytes
  <2>2. have \in Seq(BytesTo(Len(Sizes))) /\ k \in 1 .. Len(Sizes)
    BY <1>2, <1>5, <2>1
  <2>3. ASSUME n = 1 PROVE Len(have) = 2 /\ \A i \in 1 .. 2 : have[i] = <<k, i>>
    BY <1>5, <2>3
  <2> HIDE DEF k, n
  <2> QED BY <2>2, <2>3, LengthIs
<1>7. /\ input' = [have |-> have, need |-> need] /\ helper' = helper /\ done' = done
  <2>1. IF Len(have) = 2 /\ input.need = 2
        THEN IF PacketLength(have) = 0
             THEN helper' = "exited" /\ done' = 0 /\ UNCHANGED input
             ELSE input' = [have |-> have, need |-> PacketLength(have) + 2] /\ UNCHANGED <<helper, done>>
        ELSE input' = [input EXCEPT !.have = have] /\ UNCHANGED <<helper, done>>
    BY DEF ReadsByte, have, b
  <2>2. CASE n = 1
    <3>1. Len(have) = 2 /\ input.need = 2 /\ PacketLength(have) = Sizes[k] /\ Sizes[k] # 0
      BY <1>2, <1>4, <1>5, <1>6, <2>2
    <3> QED BY <2>1, <2>2, <3>1
  <2>3. CASE n # 1
    <3>0. n \in Nat /\ Len(have) = n + 1
      BY <1>2, <1>5
    <3>1. Len(have) # 2
      <4> HIDE DEF n
      <4> QED BY <2>3, <3>0
    <3>2. [input EXCEPT !.have = have] = [have |-> have, need |-> input.need]
      BY <1>4
    <3> QED BY <2>1, <2>3, <3>1, <3>2
  <2> QED BY <2>2, <2>3
<1>8. input'.have = have /\ input'.need = need /\ need \in Nat
  BY <1>2, <1>4, <1>7
<1>9. /\ n + 1 < 2 => need = 2
      /\ n + 1 >= 2 => need = Sizes[k] + 2 /\ n + 1 <= need
  <2>1. /\ n \in Nat /\ n + 1 <= Sizes[k] + 2
        /\ n < 2 => input.need = 2
        /\ n >= 2 => input.need = Sizes[k] + 2
    BY <1>2, <1>4
  <2> HIDE DEF n, k
  <2>2. ASSUME n + 1 < 2 PROVE n # 1 /\ n < 2
    BY <2>1, <2>2
  <2>3. ASSUME n + 1 >= 2 PROVE n = 1 \/ (n # 1 /\ n >= 2)
    BY <2>1, <2>3
  <2> QED BY <2>1, <2>2, <2>3
<1>10. Types' /\ Opened'
  BY <1>1, <1>3, <1>7 DEF Types, Opened
<1>11. Room'
  <2>1. Len(stdin) < HighWater + LongestFrame /\ HighWater \in Nat /\ LongestFrame \in Nat
    BY <1>3, LongestIs, TunBounds DEF Room
  <2>2. Len(stdin') = Len(stdin) - 1
    BY <1>1, <1>2
  <2>3. Len(stdin') < HighWater + LongestFrame
    BY <1>3, <2>1, <2>2
  <2>4. writable' /\ ~sending' => Len(stdin) < HighWater
    BY <1>1, <1>3 DEF Room
  <2>5. Len(stdin) < HighWater => Len(stdin') < HighWater
    BY <1>3, <2>1, <2>2
  <2> QED BY <2>3, <2>4, <2>5 DEF Room
<1>12. Outward'
  <2>1. input' \in [have : Seq(BytesTo(sent)), need : Nat]
    BY <1>5, <1>7, <1>8
  <2>2. k <= sent
    BY <1>2
  <2>3. /\ injected \in Seq(Seq(BytesTo(sent))) /\ Len(injected) <= sent
        /\ \A i \in 1 .. Len(injected) : injected[i] = Body(i)
    BY <1>3 DEF Outward
  <2> HIDE DEF need
  <2> QED BY <1>1, <1>2, <1>5, <1>8, <1>9, <2>1, <2>2, <2>3 DEF Outward
<1>13. Writing' /\ Reading' /\ Inward'
  <2>1. UNCHANGED <<stdout, output, taken, receipt>>
    BY <1>1 DEF receipt
  <2> QED BY <1>7, <2>1, InwardStays
<1> QED BY <1>10, <1>11, <1>12, <1>13 DEF TunInv

LEMMA InjectsKeepsTunInv ==
  ASSUME TunInv, Injects
  PROVE  TunInv'
<1> DEFINE k == Len(injected) + 1
           n == Len(input.have)
           s == SubSeq(input.have, 3, input.need)
<1>1. /\ helper = "running" /\ input.need > 2 /\ n = input.need
      /\ injected' = Append(injected, s) /\ input' = [have |-> <<>>, need |-> 2]
      /\ host' = host /\ named' = named /\ exited' = exited /\ writable' = writable /\ done' = done
      /\ stdin' = stdin /\ stdout' = stdout /\ sent' = sent /\ sending' = sending /\ output' = output
      /\ taken' = taken /\ helper' = helper /\ reader' = reader /\ delivered' = delivered
  BY DEF Injects, sender, receipt, opening
<1>2. /\ Types /\ Opened /\ Room /\ Outward /\ sent \in 0 .. Len(Sizes) /\ Len(Sizes) \in Nat
      /\ Len(injected) \in Nat /\ n \in Nat
  BY SizesAre, LenProperties DEF TunInv, Types, Outward
<1>3. /\ input.have \in Seq(BytesTo(sent)) /\ input.need \in Nat
      /\ injected \in Seq(Seq(BytesTo(sent))) /\ \A i \in 1 .. Len(injected) : injected[i] = Body(i)
      /\ \A i \in 1 .. n : input.have[i] = <<k, i>>
      /\ n > 0 => k <= sent
      /\ n < 2 => input.need = 2
      /\ n >= 2 => input.need = Sizes[k] + 2
      /\ Run(stdin, Place(k, n), <<sent + 1, 1>>)
  BY <1>2 DEF Outward
<1>4. n = Sizes[k] + 2 /\ k \in 1 .. sent /\ k \in 1 .. Len(Sizes)
  BY <1>1, <1>2, <1>3
<1>5. Sizes[k] \in Nat /\ Sizes[k] > 0
  BY <1>4, SizesAre
<1>6. s \in Seq(BytesTo(sent)) /\ Len(s) = Sizes[k] /\ \A i \in 1 .. Sizes[k] : s[i] = <<k, i + 2>>
  <2>1. \A i \in 3 .. n : input.have[i] \in BytesTo(sent)
    BY <1>2, <1>3, ElementOfSeq
  <2>2. /\ s \in Seq(BytesTo(sent)) /\ Len(s) = IF 3 <= n THEN n - 3 + 1 ELSE 0
        /\ \A i \in 1 .. n - 3 + 1 : s[i] = input.have[3 + i - 1]
    BY <1>1, <1>2, <1>3, <2>1, SubSeqProperties
  <2>3. \A i \in 1 .. Sizes[k] : i + 2 \in 1 .. n /\ 3 + i - 1 = i + 2 /\ i \in 1 .. n - 3 + 1
    BY <1>4, <1>5
  <2>4. 3 <= n /\ n - 3 + 1 = Sizes[k]
    BY <1>4, <1>5
  <2> HIDE DEF s
  <2> QED BY <1>3, <2>2, <2>3, <2>4
<1> HIDE DEF s
<1>7. s = Body(k)
  BY <1>2, <1>4, <1>6, BodyIs
<1>8. /\ injected' \in Seq(Seq(BytesTo(sent))) /\ Len(injected') = k
      /\ \A i \in 1 .. k : injected'[i] = Body(i)
  <2>1. /\ injected' \in Seq(Seq(BytesTo(sent))) /\ Len(injected') = Len(injected) + 1
        /\ injected'[Len(injected) + 1] = s
        /\ \A i \in 1 .. Len(injected) : injected'[i] = injected[i]
    BY <1>1, <1>3, <1>6, AppendProperties
  <2>2. \A i \in 1 .. k : i = k \/ i \in 1 .. Len(injected)
    BY <1>2
  <2> QED BY <1>3, <1>7, <2>1, <2>2
<1>9. Place(k, n) = Place(k + 1, 0)
  BY <1>2, <1>4, PlaceIs
<1>10. Types' /\ Opened'
  BY <1>1, <1>2 DEF Types, Opened
<1>11. Room'
  BY <1>1, <1>2 DEF Room
<1>12. Outward'
  <2>1. <<>> \in Seq(BytesTo(sent)) /\ Len(<<>>) = 0
    BY EmptySeq
  <2>2. input'.have = <<>> /\ input'.need = 2 /\ input' \in [have : Seq(BytesTo(sent)), need : Nat]
    BY <1>1, <2>1
  <2>3. k <= sent /\ stdin \in Seq(BytesTo(sent))
    BY <1>2, <1>4 DEF Outward
  <2>4. Run(stdin, Place(k + 1, 0), <<sent + 1, 1>>)
    BY <1>3, <1>9
  <2> HIDE DEF k
  <2>5. Len(injected') + 1 = k + 1 /\ Len(input'.have) = 0
    BY <1>8, <2>1, <2>2
  <2> QED BY <1>1, <1>8, <2>2, <2>3, <2>4, <2>5 DEF Outward
<1>13. Writing' /\ Reading' /\ Inward'
  <2>1. UNCHANGED <<stdout, output, taken, receipt>> /\ helper' = helper
    BY <1>1 DEF receipt
  <2> QED BY <2>1, InwardStays
<1> QED BY <1>10, <1>11, <1>12, <1>13 DEF TunInv

-----------------------------------------------------------------------------
(* On the way from the interface *)

\* What comes from the interface leaves alone what goes to it.
LEMMA OutwardStays ==
  ASSUME TunInv, UNCHANGED <<host, named, done, exited, writable, sending, helper, stdin, sent,
                           input, injected>>,
         taken' \in 0 .. Len(Sizes)
  PROVE  Types' /\ Opened' /\ Room' /\ Outward'
<1>1. Types' /\ Opened'
  BY DEF TunInv, Types, Opened
<1>2. Room' /\ Outward'
  BY DEF TunInv, Room, Outward
<1> QED BY <1>1, <1>2

\* The parts of the invariant that speak of what comes from the interface.
LEMMA OnTheWay ==
  ASSUME TunInv
  PROVE  /\ taken \in 0 .. Len(Sizes) /\ Len(Sizes) \in Nat
         /\ stdout \in Seq(BytesTo(taken)) /\ Len(stdout) \in Nat /\ output \in Seq(BytesTo(taken))
         /\ reader = [at |-> reader.at, chunk |-> reader.chunk, header |-> reader.header,
                      body |-> reader.body, length |-> reader.length]
         /\ reader.at \in {"reading", "delivering", "ended", "failed"} /\ reader.length \in Nat
         /\ reader.chunk \in Seq(BytesTo(taken)) /\ reader.header \in Seq(BytesTo(taken))
         /\ reader.body \in Seq(BytesTo(taken))
         /\ Len(reader.chunk) \in Nat /\ Len(reader.header) \in Nat /\ Len(reader.body) \in Nat
         /\ delivered \in Seq(Seq(BytesTo(taken))) /\ Len(delivered) \in Nat
         /\ Len(delivered) + 1 \in Nat /\ Len(delivered) + 1 > 0
<1>1. /\ taken \in 0 .. Len(Sizes) /\ Len(Sizes) \in Nat
      /\ stdout \in Seq(BytesTo(taken)) /\ output \in Seq(BytesTo(taken)) /\ delivered \in Seq(Seq(BytesTo(taken)))
      /\ reader \in [at : {"reading", "delivering", "ended", "failed"}, chunk : Seq(BytesTo(taken)),
                     header : Seq(BytesTo(taken)), body : Seq(BytesTo(taken)), length : Nat]
  BY SizesAre DEF TunInv, Types, Writing, Reading, Inward
<1>2. /\ reader.chunk \in Seq(BytesTo(taken)) /\ reader.header \in Seq(BytesTo(taken))
      /\ reader.body \in Seq(BytesTo(taken)) /\ reader.length \in Nat
      /\ reader.at \in {"reading", "delivering", "ended", "failed"}
      /\ reader = [at |-> reader.at, chunk |-> reader.chunk, header |-> reader.header,
                   body |-> reader.body, length |-> reader.length]
  BY <1>1
<1>3. /\ Len(stdout) \in Nat /\ Len(reader.chunk) \in Nat /\ Len(reader.header) \in Nat
      /\ Len(reader.body) \in Nat /\ Len(delivered) \in Nat
  BY <1>1, <1>2, LenProperties
<1>4. Len(delivered) + 1 \in Nat /\ Len(delivered) + 1 > 0
  BY <1>3
<1> QED BY <1>1, <1>2, <1>3, <1>4

LEMMA ReadsPacketKeepsTunInv ==
  ASSUME TunInv, ReadsPacket
  PROVE  TunInv'
<1> DEFINE f == Frame(taken + 1)
<1>1. /\ helper = "running" /\ output = <<>> /\ taken < Len(Sizes)
      /\ taken' = taken + 1 /\ output' = f
      /\ UNCHANGED <<host, named, done, exited, writable, sending, helper, stdin, sent, input, injected>>
      /\ stdout' = stdout /\ reader' = reader /\ delivered' = delivered
  BY DEF ReadsPacket, sender, receipt, opening
<1>2. /\ taken \in 0 .. Len(Sizes) /\ Len(Sizes) \in Nat /\ taken + 1 \in 0 .. Len(Sizes)
      /\ taken + 1 \in 1 .. taken + 1 /\ taken <= taken + 1 /\ taken + 1 > 0
      /\ taken + 1 \in 1 .. Len(Sizes)
  BY <1>1, OnTheWay
<1>3. /\ f \in Seq(BytesTo(taken + 1)) /\ Len(f) = Sizes[taken + 1] + 2 /\ f # <<>>
      /\ \A i \in 1 .. Sizes[taken + 1] + 2 : f[i] = <<taken + 1, i>>
      /\ Sizes[taken + 1] \in Nat
  BY <1>2, FrameIs, SizesAre
<1>4. /\ BytesTo(taken) \subseteq BytesTo(taken + 1) /\ Seq(BytesTo(taken)) \subseteq Seq(BytesTo(taken + 1))
      /\ Seq(Seq(BytesTo(taken))) \subseteq Seq(Seq(BytesTo(taken + 1)))
  BY <1>2, MoreBytes
<1> HIDE DEF f
<1>5. Types' /\ Opened' /\ Room' /\ Outward'
  BY <1>1, <1>2, OutwardStays
<1>6. Writing'
  <2>1. ASSUME NEW i \in 1 .. Len(f) PROVE f[i] = <<taken + 1, (Sizes[taken + 1] + 2) - Len(f) + i>>
    <3>1. i \in 1 .. Sizes[taken + 1] + 2
      BY <1>3
    <3>2. (Sizes[taken + 1] + 2) - Len(f) + i = i
      BY <1>3, <3>1
    <3> QED BY <1>3, <3>1, <3>2
  <2>2. Len(f) <= Sizes[taken + 1] + 2
    BY <1>3
  <2> QED BY <1>1, <1>2, <1>3, <2>1, <2>2 DEF Writing
<1>7. Reading'
  <2>1. reader \in [at : {"reading", "delivering", "ended", "failed"}, chunk : Seq(BytesTo(taken + 1)),
                    header : Seq(BytesTo(taken + 1)), body : Seq(BytesTo(taken + 1)), length : Nat]
    <3>1. /\ reader.chunk \in Seq(BytesTo(taken + 1)) /\ reader.header \in Seq(BytesTo(taken + 1))
          /\ reader.body \in Seq(BytesTo(taken + 1))
      BY <1>4, OnTheWay
    <3> QED BY <3>1, OnTheWay
  <2>2. \A k \in Nat : k <= taken => k <= taken + 1
    BY <1>2
  <2>3. Len(delivered) + 1 \in Nat
    BY OnTheWay
  <2> QED BY <1>1, <2>1, <2>2, <2>3 DEF TunInv, Reading
<1>8. Inward'
  <2>1. f[1] = <<taken + 1, 1>>
    BY <1>3
  <2>2. Got' = Got /\ Written' = Written
    BY <1>1, <1>3, <2>1 DEF Got, Written
  <2>3. Len(delivered) <= taken + 1
    BY <1>2, OnTheWay DEF TunInv, Inward
  <2> QED BY <1>1, <1>4, <2>2, <2>3 DEF TunInv, Inward
<1> QED BY <1>5, <1>6, <1>7, <1>8 DEF TunInv

LEMMA WritesByteKeepsTunInv ==
  ASSUME TunInv, WritesByte
  PROVE  TunInv'
<1> DEFINE b == output[1]
           o == Tail(output)
           top == Sizes[taken] + 2
<1>1. /\ helper = "running" /\ output # <<>> /\ Len(stdout) < Pipe /\ reader.at # "failed"
      /\ stdout' = Append(stdout, Head(output)) /\ output' = o
      /\ UNCHANGED <<host, named, done, exited, writable, sending, helper, stdin, sent, input, injected>>
      /\ taken' = taken /\ reader' = reader /\ delivered' = delivered
  BY DEF WritesByte, sender, receipt, opening
<1>2. /\ taken \in 0 .. Len(Sizes) /\ output \in Seq(BytesTo(taken)) /\ stdout \in Seq(BytesTo(taken))
      /\ Len(stdout) \in Nat
  BY OnTheWay
<1>3. /\ taken > 0 /\ Len(output) <= top /\ \A i \in 1 .. Len(output) : output[i] = <<taken, top - Len(output) + i>>
  <2>1. Writing
    BY DEF TunInv
  <2>2. taken > 0 /\ Len(output) <= Sizes[taken] + 2
    BY <1>1, <2>1 DEF Writing
  <2>3. ASSUME NEW i \in 1 .. Len(output)
        PROVE  output[i] = <<taken, (Sizes[taken] + 2) - Len(output) + i>>
    BY <1>1, <2>1 DEF Writing
  <2> QED BY <2>2, <2>3
<1>4. /\ Len(output) \in Nat /\ Len(output) > 0 /\ Head(output) = b /\ o \in Seq(BytesTo(taken))
      /\ Len(o) = Len(output) - 1 /\ \A i \in 1 .. Len(output) - 1 : o[i] = output[i + 1]
  <2>1. Len(output) # 0
    BY <1>1, <1>2, EmptySeq
  <2> QED BY <1>1, <1>2, <2>1, HeadTailProperties, LenProperties
<1>5. top \in Nat /\ taken \in Nat
  BY <1>2, <1>3, SizesAre
<1>6. b = <<taken, top - Len(output) + 1>> /\ b \in BytesTo(taken)
  BY <1>2, <1>3, <1>4, ElementOfSeq
<1> HIDE DEF o
<1>7. Types' /\ Opened' /\ Room' /\ Outward'
  BY <1>1, <1>2, OutwardStays
<1>8. ASSUME NEW i \in 1 .. Len(o) PROVE o[i] = <<taken, top - Len(o) + i>>
  <2>1. i \in 1 .. Len(output) - 1 /\ i + 1 \in 1 .. Len(output)
    BY <1>4
  <2>2. top - Len(output) + (i + 1) = top - Len(o) + i
    <3>1. Len(o) = Len(output) - 1 /\ Len(output) \in Nat /\ top \in Nat /\ i \in Nat
      BY <1>4, <1>5
    <3> HIDE DEF top
    <3> QED BY <3>1
  <2> QED BY <1>3, <1>4, <2>1, <2>2
<1>9. Writing'
  <2>1. Len(o) <= top
    <3>1. Len(o) = Len(output) - 1 /\ Len(output) \in Nat /\ top \in Nat /\ Len(output) <= top
      BY <1>3, <1>4, <1>5
    <3> HIDE DEF top
    <3> QED BY <3>1
  <2>2. \A i \in 1 .. Len(o) : o[i] = <<taken, (Sizes[taken] + 2) - Len(o) + i>>
    BY <1>8
  <2>3. taken > 0 /\ Len(o) <= Sizes[taken] + 2
    BY <1>3, <2>1
  <2> HIDE DEF top
  <2> QED BY <1>1, <1>4, <2>2, <2>3 DEF Writing
<1>10. Reading'
  BY <1>1 DEF TunInv, Reading
<1>11. Written' = After(b)
  <2>1. CASE Len(output) = 1
    <3>1. o = <<>>
      <4>1. Len(o) = 0
        BY <1>4, <2>1
      <4> QED BY <1>4, <4>1, EmptySeq
    <3>2. After(b) = <<taken + 1, 1>>
      <4>1. b = <<taken, top>>
        BY <1>5, <1>6, <2>1
      <4> QED BY <1>5, <4>1 DEF After
    <3> QED BY <1>1, <3>1, <3>2 DEF Written
  <2>2. CASE Len(output) # 1
    <3>1. 1 \in 1 .. Len(o) /\ o # <<>>
      BY <1>4, <2>2, EmptySeq
    <3>2. o[1] = <<taken, top - Len(o) + 1>>
      BY <1>8, <3>1
    <3>3. top - Len(output) + 1 < top /\ (top - Len(output) + 1) + 1 = top - Len(o) + 1
      BY <1>3, <1>4, <1>5, <2>2
    <3>4. After(b) = <<taken, (top - Len(output) + 1) + 1>>
      BY <1>6, <3>3 DEF After
    <3> QED BY <1>1, <3>1, <3>2, <3>3, <3>4 DEF Written
  <2> QED BY <2>1, <2>2
<1>12. Inward'
  <2>1. Written = b
    BY <1>1 DEF Written
  <2>2. PICK v \in Nat \X Nat : /\ Run(reader.chunk, Place(Len(delivered) + 1, Got), v)
                                /\ Run(stdout, v, b)
    BY <1>1, <2>1 DEF TunInv, Inward
  <2>3. /\ Append(stdout, b) \in Seq(BytesTo(taken)) /\ Run(Append(stdout, b), v, After(b))
        /\ Len(Append(stdout, b)) = Len(stdout) + 1
    BY <1>2, <1>6, <2>2, RunAppend, AppendProperties
  <2>4. Len(stdout) + 1 <= Pipe
    BY <1>1, <1>2, TunBounds
  <2>5. Got' = Got /\ stdout' = Append(stdout, b)
    BY <1>1, <1>4 DEF Got
  <2> QED BY <1>1, <1>11, <2>2, <2>3, <2>4, <2>5 DEF TunInv, Inward
<1> QED BY <1>7, <1>9, <1>10, <1>12 DEF TunInv

-----------------------------------------------------------------------------
(* The host receives *)

\* A step of the reader alone.
LEMMA ReaderStays ==
  ASSUME TunInv, UNCHANGED <<host, opening, exited, writable, stdin, sender, helper, buffers>>
  PROVE  /\ Types' /\ Opened' /\ Room' /\ Outward' /\ Writing'
         /\ taken' = taken /\ helper' = helper
<1>1. UNCHANGED <<host, named, done, exited, writable, sending, helper, stdin, sent, input, injected>>
  BY DEF opening, sender, buffers
<1>2. taken' = taken /\ output' = output
  BY DEF buffers
<1>3. Types' /\ Opened' /\ Room' /\ Outward'
  BY <1>1, <1>2, OutwardStays, OnTheWay
<1>4. Writing'
  BY <1>2 DEF TunInv, Writing
<1> QED BY <1>1, <1>2, <1>3, <1>4

\* A byte has a place.
LEMMA AfterIs ==
  ASSUME NEW m \in 0 .. Len(Sizes), NEW b \in BytesTo(m)
  PROVE  After(b) \in Nat \X Nat
<1>1. b[1] \in Nat /\ b[2] \in Nat /\ b[1] + 1 \in Nat /\ b[2] + 1 \in Nat
  BY ByteIs
<1> QED BY <1>1 DEF After

LEMMA ChunkKeepsTunInv ==
  ASSUME TunInv, Chunk
  PROVE  TunInv'
<1> DEFINE k == Len(delivered) + 1
<1>1. PICK n \in 1 .. Len(stdout) :
        /\ reader' = [reader EXCEPT !.chunk = SubSeq(stdout, 1, n)]
        /\ stdout' = SubSeq(stdout, n + 1, Len(stdout))
  BY DEF Chunk
<1> DEFINE p == SubSeq(stdout, 1, n)
           r == SubSeq(stdout, n + 1, Len(stdout))
<1>2. /\ reader.at = "reading" /\ reader.chunk = <<>> /\ delivered' = delivered
      /\ UNCHANGED <<host, opening, exited, writable, stdin, sender, helper, buffers>>
  BY DEF Chunk
<1>3. /\ taken \in 0 .. Len(Sizes) /\ stdout \in Seq(BytesTo(taken)) /\ n \in Nat /\ n > 0
      /\ Len(stdout) \in Nat
      /\ reader = [at |-> reader.at, chunk |-> reader.chunk, header |-> reader.header,
                   body |-> reader.body, length |-> reader.length]
      /\ reader.header \in Seq(BytesTo(taken)) /\ reader.body \in Seq(BytesTo(taken)) /\ reader.length \in Nat
  BY OnTheWay
<1>4. PICK v \in Nat \X Nat : /\ Run(reader.chunk, Place(k, Got), v)
                              /\ Run(stdout, v, Written)
  BY <1>2 DEF TunInv, Inward
<1>5. v = Place(k, Got)
  BY <1>2, <1>4 DEF Run
<1>6. /\ p \in Seq(BytesTo(taken)) /\ \A i \in 1 .. n : stdout[i] \in BytesTo(taken)
      /\ r \in Seq(BytesTo(taken)) /\ Len(r) = Len(stdout) - n
      /\ Run(p, v, After(stdout[n])) /\ Run(r, After(stdout[n]), Written)
  <2> DEFINE S == BytesTo(taken)
             w == Written
  <2>1. stdout \in Seq(S) /\ Run(stdout, v, w)
    BY <1>3, <1>4
  <2> HIDE DEF S, w
  <2>2. /\ p \in Seq(S) /\ \A i \in 1 .. n : p[i] = stdout[i] /\ stdout[i] \in S
        /\ r \in Seq(S) /\ Len(r) = Len(stdout) - n
        /\ Run(p, v, After(stdout[n])) /\ Run(r, After(stdout[n]), w)
    BY <2>1, RunCut
  <2> QED BY <2>2 DEF S, w
<1>7. After(stdout[n]) \in Nat \X Nat
  <2>1. stdout[n] \in BytesTo(taken)
    BY <1>3, <1>6
  <2> QED BY <1>3, <2>1, AfterIs
<1> HIDE DEF p, r
<1>8. reader' = [at |-> "reading", chunk |-> p, header |-> reader.header,
                 body |-> reader.body, length |-> reader.length] /\ stdout' = r
  BY <1>1, <1>2, <1>3 DEF p, r
<1>9. /\ reader'.at = "reading" /\ reader'.chunk = p /\ reader'.header = reader.header
      /\ reader'.body = reader.body /\ reader'.length = reader.length
      /\ reader' \in [at : {"reading", "delivering", "ended", "failed"}, chunk : Seq(BytesTo(taken)),
                      header : Seq(BytesTo(taken)), body : Seq(BytesTo(taken)), length : Nat]
  BY <1>3, <1>6, <1>8
<1>10. Types' /\ Opened' /\ Room' /\ Outward' /\ Writing' /\ taken' = taken /\ helper' = helper
  BY <1>2, ReaderStays
<1>11. Reading'
  BY <1>2, <1>9, <1>10 DEF TunInv, Reading
<1>12. Got' = Got /\ Written' = Written
  BY <1>2, <1>9 DEF Got, Written, buffers
<1>13. Inward'
  <2>1. Len(stdout') <= Pipe
    <3>1. Len(stdout) <= Pipe /\ Pipe \in Nat
      BY TunBounds DEF TunInv, Inward
    <3> QED BY <1>3, <1>6, <1>8, <3>1
  <2>2. /\ delivered \in Seq(Seq(BytesTo(taken)))
        /\ Len(delivered) <= taken /\ \A i \in 1 .. Len(delivered) : delivered[i] = Body(i)
    BY DEF TunInv, Inward
  <2>3. Run(p, Place(k, Got), After(stdout[n])) /\ Run(r, After(stdout[n]), Written)
    BY <1>5, <1>6
  <2> QED BY <1>2, <1>6, <1>7, <1>8, <1>9, <1>10, <1>12, <2>1, <2>2, <2>3 DEF Inward
<1> QED BY <1>10, <1>11, <1>13 DEF TunInv

\* The bytes of the chunk go on where the reader is, as far as the frame goes.
LEMMA NextBytes ==
  ASSUME TunInv, reader.at = "reading", NEW k \in 1 .. taken, k = Len(delivered) + 1,
         NEW n \in 1 .. Len(reader.chunk), Got + n <= Sizes[k] + 2
  PROVE  LET p == SubSeq(reader.chunk, 1, n) IN
         /\ p \in Seq(BytesTo(taken)) /\ Len(p) = n /\ (\A i \in 1 .. n : p[i] = <<k, Got + i>>)
         /\ Rest(n) \in Seq(BytesTo(taken))
         /\ \E v \in Nat \X Nat : Run(Rest(n), Place(k, Got + n), v) /\ Run(stdout, v, Written)
<1> DEFINE q == reader.chunk
           p == SubSeq(q, 1, n)
<1>1. taken \in 0 .. Len(Sizes) /\ q \in Seq(BytesTo(taken)) /\ Got \in Nat
  BY OnTheWay DEF Got
<1>2. PICK v \in Nat \X Nat : /\ Run(q, Place(k, Got), v)
                              /\ Run(stdout, v, Written)
  BY DEF TunInv, Inward
<1> HIDE DEF q
<1>3. (\A i \in 1 .. n : q[i] = <<k, Got + i>>) /\ After(q[n]) = Place(k, Got + n)
  BY <1>1, <1>2, RunStays DEF q
<1>4. /\ p \in Seq(BytesTo(taken)) /\ Len(p) = n /\ \A i \in 1 .. n : p[i] = q[i]
      /\ SubSeq(q, n + 1, Len(q)) \in Seq(BytesTo(taken)) /\ Run(SubSeq(q, n + 1, Len(q)), After(q[n]), v)
  <2>1. n \in 1 .. Len(q)
    BY DEF q
  <2> QED BY <1>1, <1>2, <2>1, RunCut
<1>5. Rest(n) = SubSeq(q, n + 1, Len(q))
  BY DEF Rest, q
<1> QED BY <1>2, <1>3, <1>4, <1>5 DEF q

\* When the reader has more of a packet, it has it from the chunk.
LEMMA ReaderTakes ==
  ASSUME TunInv, UNCHANGED <<host, opening, exited, writable, stdin, stdout, sender, helper, buffers, delivered>>,
         reader.at = "reading", NEW k \in 1 .. taken, k = Len(delivered) + 1,
         reader' \in [at : {"reading", "delivering"}, chunk : Seq(BytesTo(taken)),
                      header : Seq(BytesTo(taken)), body : Seq(BytesTo(taken)), length : Nat],
         \A i \in 1 .. Len(reader'.header) : reader'.header[i] = <<k, i>>,
         \A i \in 1 .. Len(reader'.body) : reader'.body[i] = <<k, i + 2>>,
         Len(reader'.header) < 2,
         reader'.header # <<>> => reader'.length = 0,
         reader'.length = 0 => reader'.body = <<>>,
         reader'.length > 0 => reader'.length = Sizes[k] /\ Len(reader'.body) <= reader'.length,
         reader'.at = "delivering" <=> reader'.length > 0 /\ Len(reader'.body) = reader'.length,
         \E v \in Nat \X Nat : /\ Run(reader'.chunk, Place(k, Got'), v)
                               /\ Run(stdout, v, Written)
  PROVE  TunInv'
<1>1. Types' /\ Opened' /\ Room' /\ Outward' /\ Writing' /\ taken' = taken /\ helper' = helper
  BY ReaderStays
<1>2. /\ reader' \in [at : {"reading", "delivering", "ended", "failed"}, chunk : Seq(BytesTo(taken)),
                      header : Seq(BytesTo(taken)), body : Seq(BytesTo(taken)), length : Nat]
      /\ reader'.at # "ended"
  OBVIOUS
<1>3. stdout' = stdout /\ delivered' = delivered /\ output' = output /\ k <= taken
  BY OnTheWay DEF buffers
<1>4. Reading'
  <2>1. Len(reader'.body) \in Nat /\ reader'.length \in Nat
    BY LenProperties
  <2>2. reader'.at = "reading" /\ reader'.length > 0 => Len(reader'.body) < reader'.length
    BY <2>1
  <2> QED BY <1>1, <1>2, <1>3, <2>2 DEF Reading
<1>5. Written' = Written
  BY <1>1, <1>3 DEF Written
<1>6. Inward'
  <2>1. /\ stdout \in Seq(BytesTo(taken)) /\ Len(stdout) <= Pipe /\ delivered \in Seq(Seq(BytesTo(taken)))
        /\ Len(delivered) <= taken /\ \A i \in 1 .. Len(delivered) : delivered[i] = Body(i)
    BY DEF TunInv, Inward
  <2>2. PICK v \in Nat \X Nat : /\ Run(reader'.chunk, Place(k, Got'), v)
                                /\ Run(stdout, v, Written)
    OBVIOUS
  <2>3. Run(reader'.chunk, Place(Len(delivered') + 1, Got'), v) /\ Run(stdout', v, Written')
    BY <1>3, <1>5, <2>2
  <2> QED BY <1>1, <1>3, <2>1, <2>3 DEF Inward
<1> QED BY <1>1, <1>4, <1>6 DEF TunInv

\* What is put behind n bytes of a frame is what comes behind them.
LEMMA PutBehind ==
  ASSUME NEW S, NEW s \in Seq(S), NEW p \in Seq(S), NEW k, NEW g \in Nat,
         Behind(s, k, g), Behind(p, k, Len(s) + g)
  PROVE  /\ s \o p \in Seq(S) /\ Len(s \o p) = Len(s) + Len(p)
         /\ Behind(s \o p, k, g)
<1>1. /\ Len(s) \in Nat /\ Len(p) \in Nat /\ s \o p \in Seq(S) /\ Len(s \o p) = Len(s) + Len(p)
      /\ \A i \in 1 .. Len(s) + Len(p) : (s \o p)[i] = IF i <= Len(s) THEN s[i] ELSE p[i - Len(s)]
  BY ConcatProperties, LenProperties
<1>2. ASSUME NEW i \in 1 .. Len(s) + Len(p) PROVE (s \o p)[i] = <<k, i + g>>
  <2>1. CASE i <= Len(s)
    <3>1. i \in 1 .. Len(s)
      BY <1>1, <2>1
    <3> QED BY <1>1, <2>1, <3>1 DEF Behind
  <2>2. CASE ~(i <= Len(s))
    <3>1. i - Len(s) \in 1 .. Len(p) /\ (i - Len(s)) + (Len(s) + g) = i + g
      BY <1>1, <2>2
    <3>2. (s \o p)[i] = p[i - Len(s)]
      BY <1>1, <2>2
    <3> QED BY <3>1, <3>2 DEF Behind
  <2> QED BY <2>1, <2>2
<1> QED BY <1>1, <1>2 DEF Behind

LEMMA TakesHeaderKeepsTunInv ==
  ASSUME TunInv, TakesHeader
  PROVE  TunInv'
<1> DEFINE k == Len(delivered) + 1
           g == Len(reader.header)
           n == Fewer(2 - g, Len(reader.chunk))
           p == SubSeq(reader.chunk, 1, n)
           header == reader.header \o p
<1>1. /\ reader.at = "reading" /\ reader.chunk # <<>> /\ reader.length = 0
      /\ delivered' = delivered
      /\ UNCHANGED <<host, opening, exited, stdin, sender, helper, buffers, delivered>>
  BY DEF TakesHeader
<1>2. /\ taken \in 0 .. Len(Sizes) /\ Len(Sizes) \in Nat /\ reader.chunk \in Seq(BytesTo(taken))
      /\ reader.header \in Seq(BytesTo(taken)) /\ Len(reader.chunk) \in Nat /\ g \in Nat /\ k \in Nat /\ k > 0
      /\ reader = [at |-> reader.at, chunk |-> reader.chunk, header |-> reader.header,
                   body |-> reader.body, length |-> reader.length]
  BY OnTheWay
<1>3. /\ g < 2 /\ reader.body = <<>> /\ (reader.header # <<>> => k <= taken)
      /\ \A i \in 1 .. g : reader.header[i] = <<k, i>>
  BY <1>1 DEF TunInv, Reading
<1>4. Len(reader.chunk) > 0
  BY <1>1, <1>2, EmptySeq
<1>5. /\ n \in 1 .. Len(reader.chunk) /\ g + n <= 2
      /\ g + n < 2 => n = Len(reader.chunk)
  BY <1>2, <1>3, <1>4 DEF Fewer
<1>6. Got = g
  BY <1>1 DEF Got
<1>7. k \in 1 .. taken
  <2>1. CASE g = 0
    <3>1. PICK v \in Nat \X Nat : Run(reader.chunk, Place(k, 0), v)
      BY <1>1, <1>6, <2>1 DEF TunInv, Inward
    <3> HIDE DEF k
    <3> QED BY <1>1, <1>2, <3>1, RunStarts
  <2>2. CASE g # 0
    <3>1. reader.header # <<>>
      BY <1>2, <2>2, EmptySeq
    <3> QED BY <1>2, <1>3, <3>1
  <2> QED BY <2>1, <2>2
<1>8. k \in 1 .. Len(Sizes) /\ Sizes[k] \in Nat /\ Sizes[k] > 0 /\ g + n <= Sizes[k] + 2
  <2>1. k \in 1 .. Len(Sizes)
    BY <1>2, <1>7
  <2>2. Sizes[k] \in Nat /\ Sizes[k] > 0
    BY <2>1, SizesAre
  <2>3. n \in Nat /\ g + n \in Nat
    BY <1>2, <1>5
  <2> QED BY <1>5, <2>1, <2>2, <2>3
<1> HIDE DEF n
<1>9. /\ p \in Seq(BytesTo(taken)) /\ Len(p) = n /\ (\A i \in 1 .. n : p[i] = <<k, g + i>>)
      /\ Rest(n) \in Seq(BytesTo(taken))
      /\ \E v \in Nat \X Nat : Run(Rest(n), Place(k, g + n), v) /\ Run(stdout, v, Written)
  BY <1>1, <1>5, <1>6, <1>7, <1>8, NextBytes
<1> HIDE DEF p
<1>10. /\ header \in Seq(BytesTo(taken)) /\ Len(header) = g + n
       /\ \A i \in 1 .. Len(header) : header[i] = <<k, i>>
  <2> DEFINE s == reader.header
             S == BytesTo(taken)
  <2>1. s \in Seq(S) /\ p \in Seq(S)
    BY <1>2, <1>9
  <2>2. Behind(s, k, 0)
    <3>1. \A i \in 1 .. g : i + 0 = i
      OBVIOUS
    <3> QED BY <1>3, <3>1 DEF Behind
  <2>3. Behind(p, k, Len(s) + 0)
    <3>1. Len(p) = n /\ \A i \in 1 .. n : p[i] = <<k, g + i>> /\ i + (Len(s) + 0) = g + i
      BY <1>2, <1>9
    <3> QED BY <3>1 DEF Behind
  <2> HIDE DEF s, S, k
  <2>4. s \o p \in Seq(S) /\ Len(s \o p) = Len(s) + Len(p) /\ Behind(s \o p, k, 0)
    BY <2>1, <2>2, <2>3, PutBehind
  <2>5. \A i \in 1 .. Len(s \o p) : i + 0 = i
    OBVIOUS
  <2>6. header = s \o p /\ Len(s) = g
    BY DEF s
  <2> QED BY <1>9, <2>4, <2>5, <2>6 DEF S, Behind
<1>11. IF Len(header) < 2
       THEN reader' = [reader EXCEPT !.chunk = Rest(n), !.header = header] /\ UNCHANGED <<writable, stdout>>
       ELSE IF PacketLength(header) = 0 THEN Destroys
       ELSE /\ reader' = [reader EXCEPT !.chunk = Rest(n), !.header = <<>>, !.length = PacketLength(header)]
            /\ UNCHANGED <<writable, stdout>>
  BY DEF TakesHeader, n, p
<1> HIDE DEF header, k, g
<1> DEFINE empty == <<>>
           top == Sizes[k]
<1>12. /\ empty \in Seq(BytesTo(taken)) /\ Len(empty) = 0 /\ empty = <<>>
       /\ \A i \in 1 .. Len(empty) : empty[i] = <<k, i>>
       /\ \A i \in 1 .. Len(empty) : empty[i] = <<k, i + 2>>
  <2>1. Len(empty) = 0
    OBVIOUS
  <2>2. \A i \in 1 .. 0 : FALSE
    OBVIOUS
  <2> QED BY <2>1, <2>2, EmptySeq
<1>13. k = Len(delivered) + 1
  BY DEF k
<1>14. UNCHANGED <<host, opening, exited, writable, stdin, stdout, sender, helper, buffers, delivered>>
       /\ IF Len(header) < 2
          THEN reader' = [at |-> "reading", chunk |-> Rest(n), header |-> header, body |-> empty, length |-> 0]
          ELSE reader' = [at |-> "reading", chunk |-> Rest(n), header |-> empty, body |-> empty, length |-> top]
  <2>1. CASE Len(header) < 2
    BY <1>1, <1>2, <1>3, <1>11, <2>1
  <2>2. CASE ~(Len(header) < 2)
    <3>1. Len(header) = 2
      BY <1>2, <1>5, <1>10, <2>2
    <3>2. Seq(BytesTo(taken)) \subseteq Seq(BytesTo(Len(Sizes)))
      <4>1. taken \in 0 .. Len(Sizes) /\ Len(Sizes) \in 0 .. Len(Sizes) /\ taken <= Len(Sizes)
        BY <1>2, SizesAre
      <4> HIDE DEF n, header, top
      <4> QED BY <4>1, MoreBytes
    <3>3. PacketLength(header) = top
      BY <1>8, <1>10, <3>1, <3>2, LengthIs
    <3>4. PacketLength(header) # 0
      BY <1>8, <3>3
    <3>5. reader' = [reader EXCEPT !.chunk = Rest(n), !.header = <<>>, !.length = top]
          /\ UNCHANGED <<writable, stdout>>
      BY <1>11, <2>2, <3>3, <3>4
    <3> QED BY <1>1, <1>2, <1>3, <2>2, <3>5
  <2> QED BY <2>1, <2>2
<1> HIDE DEF empty, top
<1>15. /\ n \in Nat /\ g + n \in Nat /\ g + n = Len(header) /\ Len(header) <= 2
       /\ top \in Nat /\ top > 0 /\ 0 \in Nat /\ k \in 1 .. taken
  BY <1>2, <1>5, <1>7, <1>8, <1>10 DEF top
<1>16. Got' = g + n
  <2>1. CASE Len(header) < 2
    BY <1>14, <1>15, <2>1 DEF Got
  <2>2. CASE ~(Len(header) < 2)
    BY <1>12, <1>14, <1>15, <2>2 DEF Got
  <2> QED BY <2>1, <2>2
<1>17. reader'.chunk = Rest(n) /\ reader'.body = empty /\ reader'.at = "reading"
  BY <1>14
<1>18. \E v \in Nat \X Nat : Run(reader'.chunk, Place(k, Got'), v) /\ Run(stdout, v, Written)
  BY <1>9, <1>16, <1>17
<1>19. CASE Len(header) < 2
  <2>1. reader'.header = header /\ reader'.length = 0
    BY <1>14, <1>19
  <2>2. reader' \in [at : {"reading", "delivering"}, chunk : Seq(BytesTo(taken)),
                     header : Seq(BytesTo(taken)), body : Seq(BytesTo(taken)), length : Nat]
    <3>1. Rest(n) \in Seq(BytesTo(taken)) /\ header \in Seq(BytesTo(taken)) /\ empty \in Seq(BytesTo(taken))
      BY <1>9, <1>10, <1>12
    <3>2. reader' = [at |-> "reading", chunk |-> Rest(n), header |-> header, body |-> empty, length |-> 0]
      BY <1>14, <1>19
    <3> QED BY <3>1, <3>2
  <2> QED BY <1>1, <1>10, <1>12, <1>13, <1>14, <1>15, <1>17, <1>18, <1>19, <2>1, <2>2, ReaderTakes
<1>20. CASE ~(Len(header) < 2)
  <2>1. reader'.header = empty /\ reader'.length = top
    BY <1>14, <1>20
  <2>2. reader' \in [at : {"reading", "delivering"}, chunk : Seq(BytesTo(taken)),
                     header : Seq(BytesTo(taken)), body : Seq(BytesTo(taken)), length : Nat]
    <3>1. Rest(n) \in Seq(BytesTo(taken)) /\ empty \in Seq(BytesTo(taken)) /\ top \in Nat
      BY <1>9, <1>12, <1>15
    <3>2. reader' = [at |-> "reading", chunk |-> Rest(n), header |-> empty, body |-> empty, length |-> top]
      BY <1>14, <1>20
    <3> QED BY <3>1, <3>2
  <2>3. Len(empty) # top /\ Len(empty) <= top /\ Len(empty) < 2 /\ top = Sizes[k] /\ top # 0
    BY <1>12, <1>15 DEF top
  <2> QED BY <1>1, <1>12, <1>13, <1>14, <1>15, <1>17, <1>18, <2>1, <2>2, <2>3, ReaderTakes
<1> QED BY <1>19, <1>20

LEMMA TakesBodyKeepsTunInv ==
  ASSUME TunInv, TakesBody
  PROVE  TunInv'
<1> DEFINE k == Len(delivered) + 1
           l == reader.length
           s == reader.body
           g == Len(s)
           n == Fewer(l - g, Len(reader.chunk))
           p == SubSeq(reader.chunk, 1, n)
           body == s \o p
           at == IF Len(body) = l THEN "delivering" ELSE "reading"
           S == BytesTo(taken)
<1>1. /\ reader.at = "reading" /\ reader.chunk # <<>> /\ l > 0
      /\ reader' = [reader EXCEPT !.chunk = Rest(n), !.body = body,
                                  !.at = IF Len(body) = l THEN "delivering" ELSE @]
      /\ UNCHANGED <<host, opening, exited, writable, stdin, stdout, sender, helper, buffers, delivered>>
  BY DEF TakesBody
<1>2. /\ taken \in 0 .. Len(Sizes) /\ Len(Sizes) \in Nat /\ reader.chunk \in Seq(S) /\ s \in Seq(S)
      /\ reader.header \in Seq(S) /\ l \in Nat /\ Len(reader.chunk) \in Nat /\ g \in Nat
      /\ k \in Nat /\ k > 0
      /\ reader = [at |-> reader.at, chunk |-> reader.chunk, header |-> reader.header,
                   body |-> s, length |-> l]
  BY OnTheWay
<1>3. /\ k <= taken /\ l = Sizes[k] /\ g < l /\ (\A i \in 1 .. g : s[i] = <<k, i + 2>>)
      /\ (reader.header # <<>> => l = 0) /\ Len(reader.header) < 2
      /\ (\A i \in 1 .. Len(reader.header) : reader.header[i] = <<k, i>>)
  BY <1>1 DEF TunInv, Reading
<1>4. k \in 1 .. taken
  BY <1>2, <1>3
<1>5. Len(reader.chunk) > 0
  BY <1>1, <1>2, EmptySeq
<1>6. n \in 1 .. Len(reader.chunk) /\ n \in Nat /\ g + n <= l
  BY <1>2, <1>3, <1>5 DEF Fewer
<1>7. Got = g + 2 /\ Got + n <= Sizes[k] + 2 /\ g + 2 \in Nat
  <2>1. Got = g + 2
    BY <1>1, <1>2 DEF Got
  <2> HIDE DEF n
  <2>2. (g + 2) + n <= l + 2
    BY <1>2, <1>6
  <2> QED BY <1>2, <1>3, <2>1, <2>2
<1> HIDE DEF n
<1>8. /\ p \in Seq(S) /\ Len(p) = n /\ (\A i \in 1 .. n : p[i] = <<k, (g + 2) + i>>)
      /\ Rest(n) \in Seq(S)
      /\ \E v \in Nat \X Nat : Run(Rest(n), Place(k, (g + 2) + n), v) /\ Run(stdout, v, Written)
  BY <1>1, <1>4, <1>6, <1>7, NextBytes
<1> HIDE DEF p
<1>9. /\ body \in Seq(S) /\ Len(body) = g + n /\ \A i \in 1 .. Len(body) : body[i] = <<k, i + 2>>
  <2>1. Behind(s, k, 2)
    BY <1>3 DEF Behind
  <2>2. Behind(p, k, Len(s) + 2)
    <3>1. Len(p) = n /\ \A i \in 1 .. n : p[i] = <<k, (g + 2) + i>>
      BY <1>8
    <3>2. g \in Nat
      BY <1>2
    <3> HIDE DEF g, k
    <3>3. \A i \in 1 .. n : i + (g + 2) = (g + 2) + i
      BY <3>2
    <3>4. \A i \in 1 .. Len(p) : p[i] = <<k, i + (g + 2)>>
      BY <3>1, <3>3
    <3> QED BY <3>4 DEF Behind, g
  <2>3. s \in Seq(S) /\ p \in Seq(S)
    BY <1>2, <1>8
  <2>4. Len(p) = n /\ Len(s) = g /\ body = s \o p
    BY <1>8
  <2> HIDE DEF s, S, k, g, body
  <2>5. s \o p \in Seq(S) /\ Len(s \o p) = Len(s) + Len(p) /\ Behind(s \o p, k, 2)
    BY <2>1, <2>2, <2>3, PutBehind
  <2> QED BY <2>4, <2>5 DEF Behind
<1>11. k = Len(delivered) + 1
  OBVIOUS
<1> HIDE DEF k, s, l, g, body
<1>12. /\ reader'.at = at /\ reader'.chunk = Rest(n) /\ reader'.header = reader.header
       /\ reader'.body = body /\ reader'.length = l /\ at \in {"reading", "delivering"}
  <2>1. reader' = [reader EXCEPT !.chunk = Rest(n), !.body = body, !.at = at]
    BY <1>1 DEF s, l, g, body, n, p
  <2>2. reader \in [at : {"reading", "delivering", "ended", "failed"}, chunk : Seq(S),
                    header : Seq(S), body : Seq(S), length : Nat]
    BY DEF TunInv, Reading
  <2>3. at \in {"reading", "delivering"}
    OBVIOUS
  <2> HIDE DEF at, S
  <2>4. /\ reader'.at = at /\ reader'.chunk = Rest(n) /\ reader'.header = reader.header
        /\ reader'.body = body /\ reader'.length = reader.length
    BY <2>1, <2>2
  <2> QED BY <2>3, <2>4 DEF l
<1>13. reader' \in [at : {"reading", "delivering"}, chunk : Seq(S), header : Seq(S), body : Seq(S), length : Nat]
  <2>1. reader \in [at : {"reading", "delivering", "ended", "failed"}, chunk : Seq(S),
                    header : Seq(S), body : Seq(S), length : Nat]
    BY DEF TunInv, Reading
  <2>2. reader' = [reader EXCEPT !.chunk = Rest(n), !.body = body, !.at = at]
    BY <1>1 DEF s, l, g, body, n, p
  <2>3. at \in {"reading", "delivering"} /\ Rest(n) \in Seq(S) /\ body \in Seq(S)
    BY <1>8, <1>9
  <2> HIDE DEF at, S
  <2> QED BY <2>1, <2>2, <2>3
<1>14. at = "delivering" <=> l > 0 /\ Len(body) = l
  BY <1>1
<1>15. Got' = (g + 2) + n
  <2>1. l # 0 /\ Got' = Len(body) + 2
    BY <1>1, <1>2, <1>12 DEF Got
  <2> QED BY <1>2, <1>6, <1>9, <2>1
<1>16. \E v \in Nat \X Nat : Run(reader'.chunk, Place(k, Got'), v) /\ Run(stdout, v, Written)
  BY <1>8, <1>12, <1>15
<1>17. Len(body) <= l /\ l # 0
  BY <1>1, <1>2, <1>6, <1>9
<1> HIDE DEF at, S
<1> QED BY <1>1, <1>3, <1>4, <1>9, <1>11, <1>12, <1>13, <1>14, <1>16, <1>17, ReaderTakes DEF S

LEMMA DeliversKeepsTunInv ==
  ASSUME TunInv, Delivers
  PROVE  TunInv'
<1> DEFINE k == Len(delivered) + 1
           S == BytesTo(taken)
<1>1. /\ reader.at = "delivering" /\ delivered' = Append(delivered, reader.body)
      /\ reader' = [reader EXCEPT !.at = "reading", !.body = <<>>, !.length = 0]
      /\ UNCHANGED <<host, opening, exited, writable, stdin, stdout, sender, helper, buffers>>
  BY DEF Delivers
<1>2. /\ taken \in 0 .. Len(Sizes) /\ Len(Sizes) \in Nat /\ reader.chunk \in Seq(S) /\ reader.body \in Seq(S)
      /\ reader.header \in Seq(S) /\ reader.length \in Nat /\ k \in Nat /\ k > 0
      /\ delivered \in Seq(Seq(S)) /\ Len(delivered) \in Nat
      /\ reader = [at |-> reader.at, chunk |-> reader.chunk, header |-> reader.header,
                   body |-> reader.body, length |-> reader.length]
  BY OnTheWay
<1>3. /\ reader.length > 0 /\ Len(reader.body) = reader.length /\ k <= taken /\ reader.length = Sizes[k]
      /\ (\A i \in 1 .. Len(reader.body) : reader.body[i] = <<k, i + 2>>)
      /\ (reader.header # <<>> => reader.length = 0)
  BY <1>1 DEF TunInv, Reading
<1>4. k \in 1 .. taken /\ k \in 1 .. Len(Sizes) /\ Sizes[k] \in Nat /\ reader.header = <<>>
  <2>1. k \in 1 .. taken /\ k \in 1 .. Len(Sizes)
    BY <1>2, <1>3
  <2> QED BY <1>2, <1>3, <2>1, SizesAre
<1>5. reader.body = Body(k)
  BY <1>2, <1>3, <1>4, BodyIs
<1>6. /\ delivered' \in Seq(Seq(S)) /\ Len(delivered') = k /\ \A i \in 1 .. k : delivered'[i] = Body(i)
  <2>1. /\ delivered' \in Seq(Seq(S)) /\ Len(delivered') = Len(delivered) + 1
        /\ delivered'[Len(delivered) + 1] = reader.body
        /\ \A i \in 1 .. Len(delivered) : delivered'[i] = delivered[i]
    BY <1>1, <1>2, AppendProperties
  <2>2. \A i \in 1 .. Len(delivered) : delivered[i] = Body(i)
    BY DEF TunInv, Inward
  <2>3. \A i \in 1 .. k : i = k \/ i \in 1 .. Len(delivered)
    BY <1>2
  <2> QED BY <1>5, <2>1, <2>2, <2>3
<1>7. /\ reader'.at = "reading" /\ reader'.chunk = reader.chunk /\ reader'.header = <<>>
      /\ reader'.body = <<>> /\ reader'.length = 0
      /\ reader' \in [at : {"reading", "delivering", "ended", "failed"}, chunk : Seq(S),
                      header : Seq(S), body : Seq(S), length : Nat]
  <2>1. <<>> \in Seq(S)
    BY EmptySeq
  <2> HIDE DEF S
  <2>2. reader' = [at |-> "reading", chunk |-> reader.chunk, header |-> <<>>, body |-> <<>>, length |-> 0]
    BY <1>1, <1>2, <1>4
  <2> QED BY <1>2, <2>1, <2>2
<1>8. Types' /\ Opened' /\ Room' /\ Outward' /\ Writing' /\ taken' = taken /\ helper' = helper
  BY <1>1, ReaderStays
<1>9. Reading'
  <2>1. Len(<<>>) = 0 /\ \A i \in 1 .. 0 : FALSE
    OBVIOUS
  <2>2. Len(reader'.header) < 2
    BY <1>7, <2>1
  <2>3. \A i \in 1 .. Len(reader'.header) : reader'.header[i] = <<Len(delivered') + 1, i>>
    BY <1>7, <2>1
  <2>4. \A i \in 1 .. Len(reader'.body) : reader'.body[i] = <<Len(delivered') + 1, i + 2>>
    BY <1>7, <2>1
  <2> QED BY <1>7, <1>8, <2>2, <2>3, <2>4 DEF Reading
<1>10. Place(k, Got) = Place(k + 1, 0) /\ Got' = 0
  <2>1. Got = Sizes[k] + 2
    BY <1>3 DEF Got
  <2>2. Got' = Len(<<>>) /\ Len(<<>>) = 0
    BY <1>7 DEF Got
  <2>3. k + 1 \in Nat
    BY <1>2
  <2> HIDE DEF k
  <2> QED BY <1>4, <2>1, <2>2, <2>3, PlaceIs
<1>11. Inward'
  <2>1. PICK v \in Nat \X Nat : /\ Run(reader.chunk, Place(k, Got), v)
                                /\ Run(stdout, v, Written)
    BY <1>1 DEF TunInv, Inward
  <2>2. Written' = Written /\ stdout' = stdout
    BY <1>1 DEF Written, buffers
  <2>3. Run(reader'.chunk, Place(k + 1, Got'), v) /\ Run(stdout', v, Written')
    BY <1>7, <1>10, <2>1, <2>2
  <2>4. stdout \in Seq(S) /\ Len(stdout) <= Pipe
    BY DEF TunInv, Inward
  <2> HIDE DEF k
  <2>5. Run(reader'.chunk, Place(Len(delivered') + 1, Got'), v)
    BY <1>6, <2>3
  <2> QED BY <1>3, <1>6, <1>8, <2>2, <2>3, <2>4, <2>5 DEF Inward
<1> QED BY <1>8, <1>9, <1>11 DEF TunInv

LEMMA StreamEndsKeepsTunInv ==
  ASSUME TunInv, StreamEnds
  PROVE  TunInv'
<1>1. /\ reader.at = "reading" /\ reader.chunk = <<>> /\ helper = "exited" /\ stdout = <<>>
      /\ UNCHANGED <<host, opening, exited, stdin, sender, helper, buffers, delivered>>
      /\ \/ Destroys
         \/ /\ reader.header = <<>> /\ ~(reader.length > 0)
            /\ reader' = [reader EXCEPT !.at = "ended"] /\ UNCHANGED <<writable, stdout>>
  BY DEF StreamEnds
<1>2. CASE Destroys
  <2> USE <1>2 DEF Destroys, opening, sender, buffers
  <2>1. ~writable' /\ writable' \in BOOLEAN
    OBVIOUS
  <2>2. Types' /\ Opened'
    BY <1>1, <2>1 DEF TunInv, Types, Opened
  <2> QED BY <1>1, <2>1, <2>2, DestroyKeepsTunInv
<1>3. CASE /\ reader.header = <<>> /\ ~(reader.length > 0)
           /\ reader' = [reader EXCEPT !.at = "ended"] /\ UNCHANGED <<writable, stdout>>
  <2>1. Types' /\ Opened' /\ Room' /\ Outward' /\ Writing' /\ taken' = taken /\ helper' = helper
    BY <1>1, <1>3, ReaderStays
  <2>2. /\ reader'.at = "ended" /\ reader'.chunk = <<>> /\ reader'.header = <<>>
        /\ reader'.body = reader.body /\ reader'.length = reader.length /\ reader.length = 0
        /\ reader' \in [at : {"reading", "delivering", "ended", "failed"}, chunk : Seq(BytesTo(taken)),
                        header : Seq(BytesTo(taken)), body : Seq(BytesTo(taken)), length : Nat]
    <3>1. /\ reader = [at |-> reader.at, chunk |-> reader.chunk, header |-> reader.header,
                        body |-> reader.body, length |-> reader.length]
          /\ reader.body \in Seq(BytesTo(taken)) /\ reader.length \in Nat
          /\ <<>> \in Seq(BytesTo(taken))
      BY OnTheWay, EmptySeq
    <3>2. reader.length = 0
      BY <1>3, <3>1
    <3>3. reader' = [at |-> "ended", chunk |-> <<>>, header |-> <<>>, body |-> reader.body,
                     length |-> reader.length]
      BY <1>1, <1>3, <3>1
    <3> QED BY <3>1, <3>2, <3>3
  <2>3. Reading'
    BY <1>1, <1>3, <2>1, <2>2 DEF TunInv, Reading
  <2>4. Got' = Got /\ Written' = Written
    BY <1>1, <1>3, <2>2 DEF Got, Written, buffers
  <2>5. Inward'
    BY <1>1, <1>3, <2>1, <2>2, <2>4 DEF TunInv, Inward
  <2> QED BY <2>1, <2>3, <2>5 DEF TunInv
<1> QED BY <1>1, <1>2, <1>3

-----------------------------------------------------------------------------
(* The invariant *)

\* Before the device is opened the invariant holds.
LEMMA TunInitHolds == TunInit => TunInv
<1> SUFFICES ASSUME TunInit PROVE TunInv
  OBVIOUS
<1> USE DEF TunInit
<1>1. /\ Len(Sizes) \in Nat /\ Commands \in Nat /\ Commands >= 2 /\ HighWater \in Nat /\ HighWater > Pipe
      /\ Pipe \in Nat /\ LongestFrame \in Nat /\ LongestFrame > 2
  BY SizesAre, TunBounds, LongestIs
<1>2. Len(<<>>) = 0 /\ (\A S : <<>> \in Seq(S)) /\ (\A i \in 1 .. 0 : FALSE)
  BY EmptySeq
<1>3. Types /\ Opened
  <2>1. named \in BOOLEAN /\ exited \in BOOLEAN /\ writable \in BOOLEAN /\ sending \in BOOLEAN
    OBVIOUS
  <2>2. done = 0 /\ sent = 0 /\ taken = 0 /\ host = "idle" /\ helper = "none"
    OBVIOUS
  <2>3. 0 \in 0 .. Commands /\ 0 \in 0 .. Len(Sizes) /\ ~(0 > 0)
    BY <1>1
  <2> QED BY <2>1, <2>2, <2>3 DEF Types, Opened
<1>4. Room
  BY <1>1, <1>2 DEF Room
<1>5. Run(<<>>, <<1, 1>>, <<1, 1>>) /\ Place(1, 0) = <<1, 1>>
  BY PlaceIs DEF Run
<1>6. Outward
  <2>1. /\ stdin \in Seq(BytesTo(sent)) /\ injected \in Seq(Seq(BytesTo(sent)))
        /\ input \in [have : Seq(BytesTo(sent)), need : Nat]
    BY <1>2
  <2>2. /\ Len(injected) = 0 /\ Len(input.have) = 0 /\ input.need = 2 /\ sent = 0
        /\ Len(injected) + 1 = 1 /\ sent + 1 = 1 /\ stdin = <<>>
    BY <1>2
  <2> QED BY <1>2, <1>5, <2>1, <2>2 DEF Outward
<1>7. Writing
  BY <1>2 DEF Writing
<1>8. Reading
  <2>1. reader \in [at : {"reading", "delivering", "ended", "failed"}, chunk : Seq(BytesTo(taken)),
                    header : Seq(BytesTo(taken)), body : Seq(BytesTo(taken)), length : Nat]
    BY <1>2
  <2>2. /\ reader.at = "reading" /\ reader.chunk = <<>> /\ reader.header = <<>> /\ reader.body = <<>>
        /\ reader.length = 0 /\ Len(reader.header) = 0 /\ Len(reader.body) = 0
    BY <1>2
  <2> QED BY <1>2, <2>1, <2>2 DEF Reading
<1>9. Inward
  <2>1. Got = 0 /\ Written = <<1, 1>> /\ Len(delivered) = 0 /\ Len(delivered) + 1 = 1
    BY <1>2 DEF Got, Written
  <2>2. stdout \in Seq(BytesTo(taken)) /\ Len(stdout) <= Pipe /\ delivered \in Seq(Seq(BytesTo(taken)))
    BY <1>1, <1>2
  <2>3. <<1, 1>> \in Nat \X Nat /\ Run(reader.chunk, Place(Len(delivered) + 1, Got), <<1, 1>>)
        /\ Run(stdout, <<1, 1>>, Written)
    BY <1>5, <2>1
  <2> QED BY <1>2, <2>1, <2>2, <2>3 DEF Inward
<1> QED BY <1>3, <1>4, <1>6, <1>7, <1>8, <1>9 DEF TunInv

\* Every step keeps the invariant.
LEMMA StepKeepsTunInv == TunInv /\ [TunNext]_tunVars => TunInv'
<1> SUFFICES ASSUME TunInv, [TunNext]_tunVars PROVE TunInv'
  OBVIOUS
<1>1. CASE Receives
  BY <1>1, ChunkKeepsTunInv, TakesHeaderKeepsTunInv, TakesBodyKeepsTunInv, DeliversKeepsTunInv,
     DeliveryFailsKeepsTunInv, StreamEndsKeepsTunInv DEF Receives
<1>2. CASE Helper
  BY <1>2, OpeningKeepsTunInv, ReadsByteKeepsTunInv, InjectsKeepsTunInv, ReadsPacketKeepsTunInv,
     WritesByteKeepsTunInv DEF Helper
<1>3. CASE UNCHANGED tunVars
  <2> USE <1>3 DEF tunVars, opening, sender, buffers, receipt
  <2>1. Types' /\ Opened' /\ Room' /\ Outward' /\ Writing'
    BY ReaderStays
  <2>2. Reading' /\ Inward'
    BY InwardStays
  <2> QED BY <2>1, <2>2 DEF TunInv
<1>4. CASE Send
  BY <1>4, SendKeepsTunInv
<1>5. CASE Open \/ Ready \/ Configures \/ Fails \/ Close \/ Closed
  BY <1>5, OpeningKeepsTunInv
<1>6. CASE ExitEvent \/ SendSettles \/ Exits
  BY <1>6, EndingKeepsTunInv
<1> QED BY <1>1, <1>2, <1>3, <1>4, <1>5, <1>6, HostDiesKeepsTunInv DEF TunNext

\* The invariant holds throughout.
LEMMA Invariance == TunSpec => []TunInv
BY TunInitHolds, StepKeepsTunInv, PTL DEF TunSpec

-----------------------------------------------------------------------------
(* What it implies *)

LEMMA InvIsTyped == TunInv => TypeOK
<1> SUFFICES ASSUME TunInv PROVE TypeOK
  OBVIOUS
<1>1. /\ Len(Sizes) \in Nat /\ LongestFrame \in Nat /\ LongestFrame > 2
      /\ \A n \in 1 .. Len(Sizes) : Sizes[n] + 2 <= LongestFrame /\ Sizes[n] \in Nat
  BY SizesAre, LongestIs
<1>2. Types /\ Opened /\ Room
  BY DEF TunInv
<1>3. {named, exited, writable, sending} \subseteq BOOLEAN /\ {sent, taken} \subseteq 0 .. Len(Sizes)
  BY <1>2 DEF Types
<1>4. Len(input.have) <= input.need /\ input.need <= LongestFrame
  <2> DEFINE k == Len(injected) + 1
             n == Len(input.have)
  <2>1. /\ n \in Nat /\ Len(injected) \in Nat /\ sent \in 0 .. Len(Sizes)
        /\ n > 0 => k <= sent
        /\ n < 2 => input.need = 2
        /\ n >= 2 => input.need = Sizes[k] + 2 /\ n <= input.need
    BY <1>2, LenProperties DEF TunInv, Outward, Types
  <2>2. CASE n < 2
    BY <1>1, <2>1, <2>2
  <2>3. CASE n >= 2
    <3>1. k \in 1 .. Len(Sizes)
      BY <1>1, <2>1, <2>3
    <3> QED BY <1>1, <2>1, <2>3, <3>1
  <2> QED BY <2>1, <2>2, <2>3
<1>5. Len(output) <= LongestFrame
  <2>1. CASE output = <<>>
    BY <1>1, <2>1
  <2>2. CASE output # <<>>
    <3>1. taken > 0 /\ Len(output) <= Sizes[taken] + 2 /\ Len(output) \in Nat /\ taken \in 0 .. Len(Sizes)
      BY <2>2, LenProperties, OnTheWay DEF TunInv, Writing
    <3>2. taken \in 1 .. Len(Sizes)
      BY <1>1, <3>1
    <3> QED BY <1>1, <3>1, <3>2
  <2> QED BY <2>1, <2>2
<1>6. /\ reader.at \in {"reading", "delivering", "ended", "failed"} /\ Len(reader.header) < 2
      /\ Len(reader.body) <= reader.length
  <2>1. Len(<<>>) = 0
    OBVIOUS
  <2>2. /\ Len(reader.header) < 2
        /\ reader.length = 0 => reader.body = <<>>
        /\ reader.length > 0 => Len(reader.body) <= reader.length
    BY DEF TunInv, Reading
  <2>3. reader.length \in Nat /\ reader.at \in {"reading", "delivering", "ended", "failed"}
    BY OnTheWay
  <2> QED BY <2>1, <2>2, <2>3
<1>7. Len(stdout) <= Pipe
  BY DEF TunInv, Inward
<1> QED BY <1>2, <1>3, <1>4, <1>5, <1>6, <1>7 DEF TypeOK, Types, Opened, Room

LEMMA InvArrivesWhole == TunInv => PacketsArriveWhole
<1> SUFFICES ASSUME TunInv PROVE PacketsArriveWhole
  OBVIOUS
<1> DEFINE k == Len(delivered) + 1
<1>1. /\ Len(injected) <= sent /\ \A i \in DOMAIN injected : injected[i] = Body(i)
  <2>1. DOMAIN injected = 1 .. Len(injected)
    BY DEF TunInv, Outward
  <2> QED BY <2>1 DEF TunInv, Outward
<1>2. Len(delivered) <= taken /\ \A i \in DOMAIN delivered : delivered[i] = Body(i)
  <2>1. DOMAIN delivered = 1 .. Len(delivered)
    BY DEF TunInv, Inward
  <2> QED BY <2>1 DEF TunInv, Inward
<1>3. ASSUME reader.at = "ended"
      PROVE  \/ output = <<>> /\ Len(delivered) = taken
             \/ output # <<>> /\ output = Frame(taken) /\ Len(delivered) = taken - 1
  <2>1. reader.chunk = <<>> /\ reader.header = <<>> /\ reader.length = 0 /\ stdout = <<>>
    BY <1>3 DEF TunInv, Reading
  <2>2. Got = 0
    <3>1. Len(<<>>) = 0
      OBVIOUS
    <3> QED BY <2>1, <3>1 DEF Got
  <2>3. PICK v \in Nat \X Nat : /\ Run(reader.chunk, Place(k, Got), v)
                                /\ Run(stdout, v, Written)
    BY <1>3 DEF TunInv, Inward
  <2>4. Place(k, 0) = <<k, 1>> /\ k \in Nat /\ Len(delivered) \in Nat
    BY OnTheWay, PlaceIs
  <2>5. Written = <<k, 1>>
    BY <2>1, <2>2, <2>3, <2>4 DEF Run
  <2>6. taken \in 0 .. Len(Sizes) /\ taken \in Nat /\ Len(Sizes) \in Nat /\ output \in Seq(BytesTo(taken))
    BY OnTheWay
  <2>7. CASE output = <<>>
    <3>1. taken + 1 = k
      BY <2>5, <2>7 DEF Written
    <3> QED BY <2>4, <2>6, <2>7, <3>1
  <2>8. CASE output # <<>>
    <3> DEFINE top == Sizes[taken] + 2
    <3>1. /\ taken > 0 /\ Len(output) <= top
          /\ \A i \in 1 .. Len(output) : output[i] = <<taken, top - Len(output) + i>>
      BY <2>8 DEF TunInv, Writing
    <3>2. taken \in 1 .. taken /\ top \in Nat /\ Len(output) \in Nat /\ Len(output) > 0
      <4>1. taken \in 1 .. taken /\ taken \in 1 .. Len(Sizes)
        BY <2>6, <3>1
      <4>2. top \in Nat
        BY <4>1, SizesAre
      <4>3. Len(output) \in Nat /\ Len(output) # 0
        BY <2>6, <2>8, EmptySeq, LenProperties
      <4> QED BY <4>1, <4>2, <4>3
    <3>3. output[1] = <<k, 1>> /\ output[1] = <<taken, top - Len(output) + 1>>
      BY <2>5, <2>8, <3>1, <3>2 DEF Written
    <3>4. k = taken /\ top - Len(output) + 1 = 1
      BY <3>3
    <3>5. Len(output) = top
      <4> HIDE DEF top
      <4> QED BY <3>2, <3>4
    <3>6. /\ Frame(taken) \in Seq(BytesTo(taken)) /\ Len(Frame(taken)) = top
          /\ \A i \in 1 .. top : Frame(taken)[i] = <<taken, i>>
      BY <2>6, <3>2, FrameIs
    <3>7. \A i \in 1 .. Len(output) : output[i] = Frame(taken)[i]
      <4>1. \A i \in 1 .. Len(output) : top - Len(output) + i = i
        <5> HIDE DEF top
        <5> QED BY <3>2, <3>5
      <4> QED BY <3>1, <3>5, <3>6, <4>1
    <3>8. output = Frame(taken)
      BY <2>6, <3>5, <3>6, <3>7, SeqEqual
    <3> QED BY <2>4, <2>6, <2>8, <3>4, <3>8
  <2> QED BY <2>7, <2>8
<1> QED BY <1>1, <1>2, <1>3 DEF PacketsArriveWhole

-----------------------------------------------------------------------------
(* The theorems *)

\* openLinuxTun and its helper never buffer without bound, whatever the other side does: at
\* most a frame beyond the mark goes into stdin, a packet each way into the helper, a packet
\* into the reader; and an interface is configured only while its helper runs.
THEOREM TypeCorrect == TunSpec => []TypeOK
BY Invariance, InvIsTyped, PTL

\* However reads and writes of the two pipes are cut, and whenever the helper or the host
\* ends: what PacketFraming and the helper's loop give out are the packets that went in,
\* whole, in order and once, and a stream that ends without an error has lost none of them.
THEOREM PacketsComeOutWhole == TunSpec => []PacketsArriveWhole
BY Invariance, InvArrivesWhole, PTL

\* Where an open failed or a close returned, no helper lives: one was never started, or its end
\* was awaited.
Ended ==
  /\ exited \in BOOLEAN
  /\ host = "idle" => helper = "none"
  /\ exited => helper = "exited"
  /\ host \in {"failed", "closed"} => helper \in {"none", "exited"}

LEMMA StepKeepsEnded == Ended /\ [TunNext]_tunVars => Ended'
<1> SUFFICES ASSUME Ended, [TunNext]_tunVars PROVE Ended'
  OBVIOUS
<1> USE DEF Ended, Alive
<1>1. CASE Open \/ Ready \/ Configures \/ Fails
  <2>1. CASE Open
    BY <2>1 DEF Open
  <2>2. CASE Ready
    BY <2>2 DEF Ready
  <2>3. CASE Configures
    BY <2>3 DEF Configures
  <2>4. CASE Fails
    BY <2>4 DEF Fails
  <2> QED BY <1>1, <2>1, <2>2, <2>3, <2>4
<1>2. CASE Close \/ Closed \/ ExitEvent \/ HostDies
  <2>1. CASE Close
    BY <2>1 DEF Close
  <2>2. CASE Closed
    BY <2>2 DEF Closed
  <2>3. CASE ExitEvent
    BY <2>3 DEF ExitEvent
  <2>4. CASE HostDies
    BY <2>4 DEF HostDies
  <2> QED BY <1>2, <2>1, <2>2, <2>3, <2>4
<1>3. CASE Send \/ SendSettles
  BY <1>3 DEF Send, SendSettles
<1>4. CASE Receives
  BY <1>4 DEF Receives, Chunk, TakesHeader, TakesBody, Delivers, DeliveryFails, StreamEnds
<1>5. CASE CreatesTun \/ Reports \/ Exits
  BY <1>5 DEF CreatesTun, Reports, Exits
<1>6. CASE ReadsByte \/ Injects \/ ReadsPacket \/ WritesByte
  BY <1>6 DEF ReadsByte, Injects, ReadsPacket, WritesByte
<1>7. CASE UNCHANGED tunVars
  BY <1>7 DEF tunVars
<1> QED BY <1>1, <1>2, <1>3, <1>4, <1>5, <1>6, <1>7 DEF TunNext, Helper

\* openLinuxTun closes before it fails and close() awaits the helper's exit, so that whatever the
\* step at which an open fails, no interface is left behind by either.
THEOREM NothingStays == TunSpec => [](host \in {"failed", "closed"} => ~Alive)
<1>1. TunInit => Ended
  BY DEF TunInit, Ended
<1>2. Ended => (host \in {"failed", "closed"} => ~Alive)
  BY DEF Ended, Alive
<1> QED BY <1>1, <1>2, StepKeepsEnded, PTL DEF TunSpec

-----------------------------------------------------------------------------
(* One TCP connection through the policy: the inductive invariant *)

\* The sequence number of a position.
Number(d, n) == (Initial[d] + n) % SeqSpace

EndStates == [at : {"listening", "opening", "open", "gone"}, sent : Nat, acked : Nat,
              received : Nat \cup {None}]

SegmentStates == [first : Nat, last : Nat, ack : Nat \cup {None}, rst : BOOLEAN]

FlowStates == [initiator : Ends, sequence : Nat, replied : BOOLEAN, established : BOOLEAN,
               responseSequence : Nat \cup {None}, fin : [Ends -> Nat \cup {None}],
               acked : [Ends -> Nat \cup {None}], closedAt : Nat \cup {None}, lastSeen : Nat]

\* An end sends no more than it has and than its window, and data only when it is answered.
EndFits(d) ==
  LET e == ends[d] IN
  /\ e.acked <= e.sent /\ e.sent <= Length(d) /\ e.sent <= e.acked + Window
  /\ e.at = "listening" => e.sent = 0 /\ e.received = None
  /\ e.at = "opening" => e.sent <= 1 /\ e.acked = 0
  /\ e.at = "open" => e.acked > 0
  /\ e.acked > 0 => e.received # None
  /\ e.sent > 1 => e.acked > 0

\* The other end has received what was sent, and what it acknowledged.
Heard(d) ==
  LET r == ends[Other(d)].received IN
  /\ r # None => r \in 1 .. ends[d].sent
  /\ ends[d].acked > 0 => r # None /\ ends[d].acked <= r

\* A segment under way says what is true, and acknowledges no less than those before it.
SegmentFits(d, s) ==
  LET a == ends[Other(d)].acked IN
  /\ s.first <= s.last /\ s.last <= ends[d].sent
  /\ IF s.rst THEN s.first = s.last ELSE s.first = 0 => s.last = 1
  /\ s.ack # None => ends[d].received # None /\ s.ack \in 1 .. ends[d].received
  /\ a > 0 => s.ack # None /\ a <= s.ack

\* As long as a request is under way, no more than a request and its answer are.
Unanswered(d) == ends[d].at # "open" /\ ends[d].sent <= 1 /\ ends[d].received \in {None, 1}

Later(s, t) == s.ack # None => t.ack # None /\ s.ack <= t.ack

PathFits(d) ==
  /\ \A i \in 1 .. Len(path[d]) : SegmentFits(d, path[d][i])
  /\ \A i, j \in 1 .. Len(path[d]) : i < j => Later(path[d][i], path[d][j])
  /\ \A i \in 1 .. Len(path[d]) : path[d][i].ack = None => Unanswered(Other(d))

Typed == ends \in [Ends -> EndStates] /\ path \in [Ends -> Seq(SegmentStates)]

EndsFit == Typed /\ \A d \in Ends : EndFits(d) /\ Heard(d) /\ PathFits(d)

\* Nothing but the handshake has gone through.
Young ==
  /\ \A d \in Ends : ends[d].received \in {None, 1}
  /\ \A i \in 1 .. Len(path["out"]) : path["out"][i].rst \/ path["out"][i].last <= 1

\* What the policy has seen acknowledged by d lies between what the other end knows of and what d
\* has received; what went out was seen, what comes in has yet to be seen.
AckedTo(d, f, a) ==
  LET o == Other(d) IN
  /\ IF f.acked[d] = None THEN a = 1
     ELSE f.acked[d] = Number(o, a) /\ ends[d].received # None /\ a <= ends[d].received
  /\ ends[o].acked <= a
  /\ d = "out" => \A i \in 1 .. Len(path[d]) : path[d][i].ack # None => path[d][i].ack <= a
  /\ d = "in" /\ f.acked[d] # None =>
       \A i \in 1 .. Len(path[d]) : path[d][i].ack # None /\ a <= path[d][i].ack

AckFits(d, f) == \E a \in 1 .. Length(Other(d)) : AckedTo(d, f, a)

\* The policy knows the end of what d sends if the other end may have it.
FinFits(d, f) ==
  /\ f.fin[d] \in {None, Number(d, Length(d))}
  /\ f.fin[d] # None => ends[d].sent = Length(d)
  /\ f.fin[d] = None =>
       /\ ends[Other(d)].received # Length(d)
       /\ d = "out" => \A i \in 1 .. Len(path[d]) :
                         path[d][i].first < path[d][i].last => path[d][i].last < Length(d)

Unmarked(f) == f.closedAt = None /\ \A d \in Ends : f.fin[d] = None /\ f.acked[d] = None

BothEnded(f) == Policy!FinAcked(f, "in", "out") /\ Policy!FinAcked(f, "out", "in")

FlowFits(f) ==
  /\ f \in FlowStates
  /\ IF f.established THEN \A d \in Ends : AckFits(d, f) /\ FinFits(d, f)
     ELSE Young /\ Unmarked(f)
  /\ f.closedAt # None => \A d \in Ends : ends[d].received = Length(Other(d))
  /\ BothEnded(f) => f.closedAt # None
  /\ f.established => f.replied

TableFits ==
  /\ now \in Nat /\ flows = [k \in DOMAIN flows |-> flows[k]] /\ DOMAIN flows \subseteq {Tuple}
  /\ Tuple \in DOMAIN flows => FlowFits(flows[Tuple])

TrafficInv == EndsFit /\ TableFits

-----------------------------------------------------------------------------
(* Sequence numbers *)

LEMMA Constants ==
  /\ SeqSpace \in Nat /\ SeqSpace > 0 /\ Window \in Nat /\ Window > 0 /\ 2 * (Window + 2) <= SeqSpace
  /\ None \notin Nat /\ Transit \in Nat
  /\ \A d \in Ends : Initial[d] \in 0 .. SeqSpace - 1 /\ Bytes[d] \in Nat /\ Length(d) \in Nat /\ Length(d) >= 2
BY TrafficAssumption DEF Length

LEMMA Others ==
  ASSUME NEW d \in Ends
  PROVE  /\ Other(d) \in Ends /\ Other(d) # d /\ Other(Other(d)) = d
         /\ Ends = {d, Other(d)} /\ d \in {"out", "in"}
         /\ (d = "out" <=> Other(d) = "in") /\ (d = "in" <=> Other(d) = "out")
BY DEF Ends, Other

\* A number is a multiple of SeqSpace and a remainder, in one way only.
LEMMA Divided ==
  ASSUME NEW x \in Int
  PROVE  x \div SeqSpace \in Int /\ x % SeqSpace \in 0 .. SeqSpace - 1
         /\ x = (x \div SeqSpace) * SeqSpace + (x % SeqSpace)
BY Constants

LEMMA Remainder ==
  ASSUME NEW x \in Int, NEW q \in Int, NEW r \in 0 .. SeqSpace - 1, x = q * SeqSpace + r
  PROVE  x % SeqSpace = r
<1>1. /\ x \div SeqSpace \in Int /\ x % SeqSpace \in 0 .. SeqSpace - 1
      /\ x = (x \div SeqSpace) * SeqSpace + (x % SeqSpace)
  BY Divided
<1>2. (q - (x \div SeqSpace)) * SeqSpace = (x % SeqSpace) - r
  BY <1>1, Constants
<1>3. q - (x \div SeqSpace) = 0
  BY <1>1, <1>2, Constants
<1> QED BY <1>1, <1>3, Constants

LEMMA NumberIs ==
  ASSUME NEW d \in Ends, NEW n \in Nat
  PROVE  Number(d, n) \in 0 .. SeqSpace - 1 /\ Number(d, n) \in Nat /\ Number(d, n) # None
<1>1. Initial[d] + n \in Int
  BY Constants
<1>2. Number(d, n) \in 0 .. SeqSpace - 1
  BY <1>1, Divided DEF Number
<1> QED BY <1>2, Constants

\* What is counted on from a number is the number of the position counted on to.
LEMMA Counted ==
  ASSUME NEW d \in Ends, NEW n \in Nat, NEW m \in Nat
  PROVE  Policy!Plus(Number(d, n), m) = Number(d, n + m)
<1> DEFINE x == Initial[d] + n
           y == Number(d, n) + m
           z == Initial[d] + (n + m)
<1>1. x \in Int /\ y \in Int /\ z \in Int /\ z = x + m
  BY Constants, NumberIs
<1>2. x = (x \div SeqSpace) * SeqSpace + Number(d, n) /\ x \div SeqSpace \in Int
  BY <1>1, Divided DEF Number
<1>3. y = (y \div SeqSpace) * SeqSpace + (y % SeqSpace) /\ y \div SeqSpace \in Int /\ y % SeqSpace \in 0 .. SeqSpace - 1
  BY <1>1, Divided
<1> HIDE DEF x, y, z
<1>4. z = (x \div SeqSpace) * SeqSpace + y
  <2>1. y = Number(d, n) + m
    BY DEF y
  <2> QED BY <1>1, <1>2, <2>1, Constants, NumberIs
<1>5. z = ((x \div SeqSpace) + (y \div SeqSpace)) * SeqSpace + (y % SeqSpace)
  BY <1>1, <1>2, <1>3, <1>4, Constants
<1>6. (x \div SeqSpace) + (y \div SeqSpace) \in Int
  BY <1>2, <1>3
<1>7. z % SeqSpace = y % SeqSpace
  BY <1>1, <1>3, <1>5, <1>6, Remainder
<1> QED BY <1>7 DEF y, z, Number, Policy!Plus

\* Positions that are not half the space apart are compared by their numbers.
LEMMA Compared ==
  ASSUME NEW d \in Ends, NEW m \in Nat, NEW n \in Nat, m - n <= Window, n - m <= Window
  PROVE  Policy!Reaches(Number(d, m), Number(d, n)) <=> m >= n
<1> DEFINE x == Initial[d] + m
           y == Initial[d] + n
           z == Number(d, m) - Number(d, n)
<1>1. x \in Int /\ y \in Int /\ z \in Int /\ x - y = m - n
  BY Constants, NumberIs
<1>2. x = (x \div SeqSpace) * SeqSpace + Number(d, m) /\ x \div SeqSpace \in Int
  BY <1>1, Divided DEF Number
<1>3. y = (y \div SeqSpace) * SeqSpace + Number(d, n) /\ y \div SeqSpace \in Int
  BY <1>1, Divided DEF Number
<1> HIDE DEF x, y
<1> DEFINE q == (y \div SeqSpace) - (x \div SeqSpace)
<1>4. q \in Int /\ z = q * SeqSpace + (m - n)
  BY <1>1, <1>2, <1>3, Constants, NumberIs
<1> HIDE DEF q
<1>5. CASE m >= n
  <2>1. m - n \in 0 .. SeqSpace - 1
    BY <1>5, Constants
  <2>2. z % SeqSpace = m - n
    BY <1>1, <1>4, <2>1, Remainder
  <2> QED BY <1>5, <2>2, Constants DEF Policy!Reaches
<1>6. CASE ~(m >= n)
  <2>1. SeqSpace + (m - n) \in 0 .. SeqSpace - 1
    BY <1>6, Constants
  <2>2. z = (q - 1) * SeqSpace + (SeqSpace + (m - n)) /\ q - 1 \in Int
    BY <1>4, Constants
  <2>3. z % SeqSpace = SeqSpace + (m - n)
    <3> HIDE DEF z
    <3> QED BY <1>1, <2>1, <2>2, Remainder
  <2> QED BY <1>6, <2>3, Constants DEF Policy!Reaches
<1> QED BY <1>5, <1>6

-----------------------------------------------------------------------------
(* The ends and the path *)

LEMMA FewestIs == ASSUME NEW m \in Nat, NEW n \in Nat
                  PROVE  Fewest(m, n) \in Nat /\ Fewest(m, n) <= m /\ Fewest(m, n) <= n
BY DEF Fewest

LEMMA MostIs == ASSUME NEW m \in Nat, NEW n \in Nat
                PROVE  /\ Most(m, n) \in Nat /\ Most(m, n) >= m /\ Most(m, n) >= n
                       /\ Most(m, n) \in {m, n}
BY DEF Most

\* A segment as an end sends it.
LEMMA SentIs ==
  ASSUME EndsFit, NEW d \in Ends, NEW s \in MaySend(d), WellFormed(s)
  PROVE  /\ s \in SegmentStates /\ s.ack = ends[d].received
         /\ s.first <= s.last /\ s.last <= Length(d) /\ s.last <= ends[d].acked + Window
         /\ IF s.rst THEN s.first = s.last ELSE s.first = 0 => s.last = 1
         /\ s.last > 1 => ends[d].acked > 0
         /\ ends[d].at # "listening" /\ (ends[d].at = "opening" => s.last <= 1)
<1> DEFINE e == ends[d]
<1>1. /\ e \in EndStates /\ EndFits(d) /\ s.first <= s.last
      /\ Length(d) \in Nat /\ Length(d) >= 2 /\ Window \in Nat /\ Window > 0
  BY Constants DEF EndsFit, Typed, WellFormed
<1>2. CASE e.at = "opening"
  <2>1. s = Segment(0, 1, e.received)
    BY <1>2 DEF MaySend
  <2> QED BY <1>1, <1>2, <2>1 DEF Segment, SegmentStates, EndStates, EndFits
<1>3. CASE e.at = "open"
  <2>1. PICK n \in {e.acked, e.sent}, m \in e.acked .. Fewest(Length(d), e.acked + Window) :
          s = Segment(n, m, e.received)
    BY <1>3 DEF MaySend
  <2>2. e.acked \in Nat /\ e.sent \in Nat /\ e.acked > 0 /\ e.sent >= e.acked
    BY <1>1, <1>3 DEF EndStates, EndFits
  <2>3. m \in Nat /\ m <= Length(d) /\ m <= e.acked + Window /\ n \in Nat /\ n > 0
    <3>1. e.acked + Window \in Nat
      BY <1>1, <2>2
    <3> DEFINE top == Fewest(Length(d), e.acked + Window)
    <3>2. top \in Nat /\ top <= Length(d) /\ top <= e.acked + Window
      BY <1>1, <3>1, FewestIs
    <3>3. m \in e.acked .. top
      OBVIOUS
    <3> HIDE DEF top
    <3> QED BY <1>1, <2>2, <3>1, <3>2, <3>3
  <2> QED BY <1>1, <1>3, <2>1, <2>2, <2>3 DEF Segment, SegmentStates, EndStates
<1>4. CASE e.at = "gone"
  <2>1. s = [Segment(e.sent, e.sent, e.received) EXCEPT !.rst = TRUE]
    BY <1>4 DEF MaySend
  <2> QED BY <1>1, <1>4, <2>1 DEF Segment, SegmentStates, EndStates, EndFits
<1>5. e.at # "listening"
  BY DEF MaySend
<1> QED BY <1>1, <1>2, <1>3, <1>4, <1>5 DEF EndStates

\* What sending does to the ends.
LEMMA SentMoves ==
  ASSUME EndsFit, NEW d \in Ends, NEW s \in MaySend(d), WellFormed(s), Sent(d, s)
  PROVE  /\ ends' \in [Ends -> EndStates] /\ ends'[Other(d)] = ends[Other(d)]
         /\ ends'[d].at = ends[d].at /\ ends'[d].acked = ends[d].acked
         /\ ends'[d].received = ends[d].received
         /\ ends'[d].sent \in Nat /\ ends'[d].sent >= ends[d].sent /\ s.last <= ends'[d].sent
         /\ ends'[d].sent \in {ends[d].sent, s.last}
<1>1. s \in SegmentStates /\ ends \in [Ends -> EndStates] /\ Other(d) \in Ends /\ Other(d) # d
  BY SentIs, Others DEF EndsFit, Typed
<1>2. ends' = [ends EXCEPT ![d].sent = Most(@, s.last)]
  BY DEF Sent
<1>3. ends'[d] = [ends[d] EXCEPT !.sent = Most(@, s.last)] /\ ends'[Other(d)] = ends[Other(d)]
  BY <1>1, <1>2
<1>4. /\ Most(ends[d].sent, s.last) \in Nat /\ Most(ends[d].sent, s.last) >= ends[d].sent
      /\ Most(ends[d].sent, s.last) >= s.last /\ Most(ends[d].sent, s.last) \in {ends[d].sent, s.last}
      /\ s.last \in Nat /\ ends[d].sent \in Nat
  BY <1>1, MostIs DEF EndStates, SegmentStates
<1>5. /\ ends'[d] \in EndStates /\ ends'[d].sent = Most(ends[d].sent, s.last)
      /\ ends'[d].at = ends[d].at /\ ends'[d].acked = ends[d].acked
      /\ ends'[d].received = ends[d].received
  BY <1>1, <1>3, <1>4 DEF EndStates
<1>6. ends' \in [Ends -> EndStates]
  BY <1>1, <1>2, <1>3, <1>5
<1> QED BY <1>3, <1>4, <1>5, <1>6

\* The path with a segment sent on it, or without.
LEMMA SentOn ==
  ASSUME Typed, NEW d \in Ends, NEW s \in SegmentStates,
         path' \in {path, [path EXCEPT ![d] = Append(@, s)]}
  PROVE  LET q == path[d] IN
         /\ path' \in [Ends -> Seq(SegmentStates)] /\ path'[Other(d)] = path[Other(d)]
         /\ Len(q) \in Nat /\ Len(path'[d]) \in Nat
         /\ \A i \in 1 .. Len(q) : q[i] \in SegmentStates
         /\ \A i \in 1 .. Len(path'[d]) :
              \/ i \in 1 .. Len(q) /\ path'[d][i] = q[i]
              \/ i > Len(q) /\ path'[d][i] = s
         /\ \A i, j \in 1 .. Len(path'[d]) : i < j => i \in 1 .. Len(q)
<1> DEFINE o == Other(d)
           q == path[d]
<1>0. /\ path \in [Ends -> Seq(SegmentStates)] /\ q \in Seq(SegmentStates) /\ o \in Ends /\ o # d
      /\ Len(q) \in Nat
  BY Others, LenProperties DEF Typed
<1>3. \A i \in 1 .. Len(q) : q[i] \in SegmentStates
  BY <1>0, ElementOfSeq
<1>1. CASE path' = path
  BY <1>0, <1>3, <1>1
<1>2. CASE path' = [path EXCEPT ![d] = Append(@, s)]
  <2>1. path'[d] = Append(q, s) /\ path'[o] = path[o]
    BY <1>0, <1>2
  <2>2. /\ Append(q, s) \in Seq(SegmentStates) /\ Len(Append(q, s)) = Len(q) + 1
        /\ \A i \in 1 .. Len(q) : Append(q, s)[i] = q[i]
        /\ Append(q, s)[Len(q) + 1] = s
    BY <1>0, AppendProperties
  <2>3. path' \in [Ends -> Seq(SegmentStates)]
    BY <1>0, <1>2, <2>1, <2>2
  <2> HIDE DEF q
  <2>4. \A i \in 1 .. Len(path'[d]) : i \in 1 .. Len(q) \/ i = Len(q) + 1
    BY <1>0, <2>1, <2>2
  <2>5. \A i, j \in 1 .. Len(path'[d]) : i < j => i \in 1 .. Len(q)
    BY <1>0, <2>1, <2>2
  <2>6. /\ Len(path'[d]) \in Nat
        /\ \A i \in 1 .. Len(path'[d]) :
             \/ i \in 1 .. Len(q) /\ path'[d][i] = q[i]
             \/ i > Len(q) /\ path'[d][i] = s
    BY <1>0, <1>3, <2>1, <2>2, <2>4
  <2> QED BY <1>0, <1>3, <2>1, <2>3, <2>5, <2>6 DEF q
<1> QED BY <1>1, <1>2

LEMMA SendKeepsEnds ==
  ASSUME EndsFit, NEW d \in Ends, NEW s \in MaySend(d), WellFormed(s), Sent(d, s),
         path' \in {path, [path EXCEPT ![d] = Append(@, s)]}
  PROVE  EndsFit'
<1> DEFINE o == Other(d)
           e == ends[d]
           x == ends[o]
           q == path[d]
<1>1. /\ o \in Ends /\ o # d /\ Other(o) = d /\ Ends = {d, o}
      /\ e \in EndStates /\ x \in EndStates /\ q \in Seq(SegmentStates) /\ path[o] \in Seq(SegmentStates)
      /\ EndFits(d) /\ EndFits(o) /\ Heard(d) /\ Heard(o) /\ PathFits(d) /\ PathFits(o)
      /\ Length(d) \in Nat /\ Window \in Nat /\ Window > 0 /\ None \notin Nat
  BY Others, Constants DEF EndsFit, Typed
<1>2. /\ s \in SegmentStates /\ s.ack = e.received
      /\ s.first <= s.last /\ s.last <= Length(d) /\ s.last <= e.acked + Window
      /\ IF s.rst THEN s.first = s.last ELSE s.first = 0 => s.last = 1
      /\ s.last > 1 => e.acked > 0
      /\ e.at # "listening" /\ (e.at = "opening" => s.last <= 1)
  BY SentIs
<1>3. /\ ends' \in [Ends -> EndStates] /\ ends'[o] = x
      /\ ends'[d].at = e.at /\ ends'[d].acked = e.acked /\ ends'[d].received = e.received
      /\ ends'[d].sent \in Nat /\ ends'[d].sent >= e.sent /\ s.last <= ends'[d].sent
      /\ ends'[d].sent \in {e.sent, s.last}
  BY SentMoves
<1>4. /\ e.sent \in Nat /\ e.acked \in Nat /\ e.received \in Nat \cup {None}
      /\ x.sent \in Nat /\ x.acked \in Nat /\ x.received \in Nat \cup {None}
      /\ s.first \in Nat /\ s.last \in Nat
  BY <1>1, <1>2 DEF EndStates, SegmentStates
<1>5. EndFits(d)' /\ EndFits(o)'
  <2>1. EndFits(d)'
    BY <1>1, <1>2, <1>3, <1>4 DEF EndFits
  <2>2. EndFits(o)'
    BY <1>1, <1>3 DEF EndFits
  <2> QED BY <2>1, <2>2
<1>6. Heard(d)' /\ Heard(o)'
  BY <1>1, <1>3, <1>4 DEF Heard
<1>7. /\ path' \in [Ends -> Seq(SegmentStates)] /\ path'[o] = path[o]
      /\ Len(q) \in Nat /\ Len(path'[d]) \in Nat
      /\ \A i \in 1 .. Len(q) : q[i] \in SegmentStates
      /\ \A i \in 1 .. Len(path'[d]) :
           \/ i \in 1 .. Len(q) /\ path'[d][i] = q[i]
           \/ i > Len(q) /\ path'[d][i] = s
      /\ \A i, j \in 1 .. Len(path'[d]) : i < j => i \in 1 .. Len(q)
  BY <1>1, <1>2, SentOn DEF EndsFit
<1>8. PathFits(d)'
  <2>1. SegmentFits(d, s)'
    BY <1>1, <1>2, <1>3, <1>4 DEF SegmentFits, Heard
  <2>2. ASSUME NEW t \in SegmentStates, SegmentFits(d, t) PROVE SegmentFits(d, t)'
    BY <1>1, <1>3, <1>4, <2>2 DEF SegmentFits, SegmentStates
  <2>3. \A i \in 1 .. Len(q) : Later(q[i], s)
    <3> SUFFICES ASSUME NEW i \in 1 .. Len(q) PROVE Later(q[i], s)
      OBVIOUS
    <3>1. SegmentFits(d, q[i]) /\ q[i] \in SegmentStates
      BY <1>1, <1>7 DEF PathFits
    <3> QED BY <1>2, <1>4, <3>1 DEF SegmentFits, Later, SegmentStates
  <2>4. \A i, j \in 1 .. Len(q) : i < j => Later(q[i], q[j])
    BY <1>1 DEF PathFits
  <2>5. \A i \in 1 .. Len(q) : q[i].ack = None => Unanswered(o)'
    BY <1>1, <1>3 DEF PathFits, Unanswered
  <2>6. s.ack = None => Unanswered(o)'
    BY <1>1, <1>2, <1>3, <1>4 DEF Unanswered, Heard, EndFits, EndStates
  <2>7. \A i \in 1 .. Len(path'[d]) : SegmentFits(d, path[d][i])'
    <3> SUFFICES ASSUME NEW i \in 1 .. Len(path'[d]) PROVE SegmentFits(d, path[d][i])'
      OBVIOUS
    <3>1. CASE path'[d][i] = s
      BY <2>1, <3>1 DEF SegmentFits
    <3>2. CASE i \in 1 .. Len(q) /\ path'[d][i] = q[i]
      <4>1. q[i] \in SegmentStates /\ SegmentFits(d, q[i])
        BY <1>1, <1>7, <3>2 DEF PathFits
      <4>2. PICK t \in SegmentStates : t = q[i] /\ SegmentFits(d, t)
        BY <4>1
      <4>3. SegmentFits(d, t)'
        BY <2>2, <4>2
      <4> QED BY <3>2, <4>2, <4>3 DEF SegmentFits
    <3> QED BY <1>7, <3>1, <3>2
  <2>8. ASSUME NEW i \in 1 .. Len(path'[d]), NEW j \in 1 .. Len(path'[d]), i < j
        PROVE  Later(path'[d][i], path'[d][j])
    BY <1>7, <2>3, <2>4, <2>8
  <2>9. \A i \in 1 .. Len(path'[d]) : path'[d][i].ack = None => Unanswered(o)'
    BY <1>7, <2>5, <2>6
  <2> QED BY <2>7, <2>8, <2>9 DEF PathFits, Later
<1>9. PathFits(o)'
  <2>1. \A i \in 1 .. Len(path'[o]) : SegmentFits(o, path[o][i])'
    BY <1>1, <1>3, <1>7 DEF SegmentFits, PathFits
  <2>2. ASSUME NEW i \in 1 .. Len(path[o]), path[o][i].ack = None PROVE Unanswered(d)'
    <3>1. Unanswered(d) /\ SegmentFits(o, path[o][i])
      BY <1>1, <2>2 DEF PathFits
    <3> QED BY <1>1, <1>2, <1>3, <1>4, <2>2, <3>1 DEF Unanswered, SegmentFits
  <2> QED BY <1>1, <1>7, <2>1, <2>2 DEF PathFits, Later
<1> QED BY <1>1, <1>3, <1>5, <1>6, <1>7, <1>8, <1>9 DEF EndsFit, Typed

\* The segment that arrives, and those behind it.
LEMMA HeadIs ==
  ASSUME EndsFit, NEW d \in Ends, path[d] # <<>>, path' = [path EXCEPT ![d] = Tail(@)]
  PROVE  /\ path' \in [Ends -> Seq(SegmentStates)] /\ path'[Other(d)] = path[Other(d)]
         /\ Len(path[d]) \in Nat \ {0} /\ Head(path[d]) = path[d][1]
         /\ path[d][1] \in SegmentStates /\ SegmentFits(d, path[d][1])
         /\ path[d][1].ack = None => Unanswered(Other(d))
         /\ \A i \in 1 .. Len(path'[d]) :
              /\ i + 1 \in 1 .. Len(path[d]) /\ path'[d][i] = path[d][i + 1]
              /\ path[d][i + 1] \in SegmentStates /\ Later(path[d][1], path[d][i + 1])
         /\ \A i, j \in 1 .. Len(path'[d]) : i < j => i + 1 < j + 1
<1> DEFINE q == path[d]
<1>1. /\ path \in [Ends -> Seq(SegmentStates)] /\ q \in Seq(SegmentStates) /\ PathFits(d)
      /\ Other(d) \in Ends /\ Other(d) # d
  BY Others DEF EndsFit, Typed
<1>2. path'[d] = Tail(q) /\ path'[Other(d)] = path[Other(d)]
  BY <1>1
<1>3. /\ Tail(q) \in Seq(SegmentStates) /\ Len(Tail(q)) = Len(q) - 1
      /\ \A i \in 1 .. Len(Tail(q)) : Tail(q)[i] = q[i + 1]
      /\ Len(q) \in Nat \ {0} /\ Head(q) = q[1]
  BY <1>1, HeadTailProperties, EmptySeq
<1>4. path' \in [Ends -> Seq(SegmentStates)]
  BY <1>1, <1>2, <1>3
<1>5. \A i \in 1 .. Len(q) : q[i] \in SegmentStates
  BY <1>1, ElementOfSeq
<1>6. \A i \in 1 .. Len(Tail(q)) : i \in Nat /\ i + 1 \in 1 .. Len(q) /\ 1 < i + 1 /\ 1 \in 1 .. Len(q)
  BY <1>3
<1>7. \A i \in 1 .. Len(Tail(q)) : Later(q[1], q[i + 1])
  <2> SUFFICES ASSUME NEW i \in 1 .. Len(Tail(q)) PROVE Later(q[1], q[i + 1])
    OBVIOUS
  <2>1. \A m, n \in 1 .. Len(q) : m < n => Later(q[m], q[n])
    BY <1>1 DEF PathFits
  <2> HIDE DEF q
  <2> QED BY <1>6, <2>1
<1>8. 1 \in 1 .. Len(q)
  BY <1>3
<1>9. SegmentFits(d, q[1]) /\ (q[1].ack = None => Unanswered(Other(d)))
  BY <1>1, <1>8 DEF PathFits
<1>10. \A i, j \in 1 .. Len(Tail(q)) : i < j => i + 1 < j + 1
  BY <1>3
<1> QED BY <1>2, <1>3, <1>4, <1>5, <1>6, <1>7, <1>8, <1>9, <1>10

\* An end that has received a segment.
LEMMA TakenIs ==
  ASSUME NEW x \in EndStates, NEW s \in SegmentStates, s.ack # None => s.ack > 0,
         ~s.rst /\ s.first = 0 => s.last = 1, x.received # None => x.received > 0,
         x.acked > 0 => x.received # None,
         x.at = "listening" => x.received = None, NEW e \in Taken(x, s)
  PROVE  /\ e \in EndStates /\ e.sent = x.sent /\ e.acked >= x.acked
         /\ e.acked = x.acked \/ (~s.rst /\ s.ack # None /\ e.acked = s.ack /\ e.at = "open")
         /\ \/ e.received = x.received
            \/ ~s.rst /\ x.received = None /\ s.last = 1 /\ e.received = 1
            \/ /\ ~s.rst /\ x.received # None /\ s.ack # None
               /\ s.first <= x.received /\ x.received < s.last /\ e.received = s.last
         /\ \/ e.at = x.at /\ e.at # "open" /\ e = x
            \/ e.at = "gone"
            \/ e.at = "opening" /\ x.at = "listening"
            \/ e.at = "open" /\ s.ack # None /\ s.ack <= e.acked /\ e.received # None
            \/ e.at = "open" /\ x.at = "open" /\ e = x
<1> USE Constants
<1>1. CASE s.rst \/ x.at = "gone"
  BY <1>1 DEF Taken, EndStates
<1>2. CASE ~s.rst /\ x.at = "listening"
  <2>1. x.received = None /\ x.acked \in Nat
    BY <1>2 DEF EndStates
  <2>2. CASE s.first = 0 /\ s.ack = None
    <3>1. s.last = 1
      BY <1>2, <2>2
    <3>2. e \in {[x EXCEPT !.at = "opening", !.received = 1], [x EXCEPT !.at = "gone", !.received = 1]}
      BY <1>2, <2>2 DEF Taken
    <3>3. CASE e = [x EXCEPT !.at = "opening", !.received = 1]
      <4>1. /\ e \in EndStates /\ e.at = "opening" /\ e.received = 1
            /\ e.sent = x.sent /\ e.acked = x.acked
        BY <3>3 DEF EndStates
      <4> QED BY <1>2, <2>1, <3>1, <4>1
    <3>4. CASE e = [x EXCEPT !.at = "gone", !.received = 1]
      <4>1. /\ e \in EndStates /\ e.at = "gone" /\ e.received = 1
            /\ e.sent = x.sent /\ e.acked = x.acked
        BY <3>4 DEF EndStates
      <4> QED BY <1>2, <2>1, <3>1, <4>1
    <3> QED BY <3>2, <3>3, <3>4
  <2>3. CASE ~(s.first = 0 /\ s.ack = None)
    <3>1. e = x
      BY <1>2, <2>3 DEF Taken
    <3> QED BY <1>2, <2>1, <3>1
  <2> QED BY <2>2, <2>3
<1>3. CASE ~s.rst /\ x.at \in {"opening", "open"} /\ (s.ack = None \/ (x.received = None /\ s.first # 0))
  BY <1>3 DEF Taken, EndStates, SegmentStates
<1>4. CASE ~s.rst /\ x.at \in {"opening", "open"} /\ s.ack # None /\ ~(x.received = None /\ s.first # 0)
  <2> DEFINE r == IF x.received = None THEN 1
                  ELSE IF s.first <= x.received THEN Most(x.received, s.last) ELSE x.received
  <2>1. e = [x EXCEPT !.at = "open", !.acked = Most(x.acked, s.ack), !.received = r]
    BY <1>4 DEF Taken
  <2>2. /\ s.ack \in Nat /\ x.acked \in Nat /\ s.first \in Nat /\ s.last \in Nat
        /\ x.received \in Nat \cup {None}
    BY <1>4 DEF EndStates, SegmentStates
  <2>3. /\ Most(x.acked, s.ack) \in {x.acked, s.ack} /\ Most(x.acked, s.ack) >= x.acked
        /\ Most(x.acked, s.ack) >= s.ack /\ Most(x.acked, s.ack) \in Nat
    BY <2>2, MostIs
  <2>4. /\ r \in Nat
        /\ \/ r = x.received
           \/ x.received = None /\ s.last = 1 /\ r = 1
           \/ x.received # None /\ s.first <= x.received /\ x.received < s.last /\ r = s.last
    BY <1>4, <2>2 DEF Most
  <2>5. /\ e.at = "open" /\ e.acked = Most(x.acked, s.ack) /\ e.received = r /\ e.sent = x.sent
        /\ e \in EndStates
    BY <2>1, <2>3, <2>4 DEF EndStates
  <2> HIDE DEF r
  <2> QED BY <1>4, <2>2, <2>3, <2>4, <2>5
<1> QED BY <1>1, <1>2, <1>3, <1>4 DEF EndStates

\* What a segment does to the end at which it arrives, unless it was turned down.
ArrivesAt(d, e) ==
  /\ path[d] # <<>> /\ path' = [path EXCEPT ![d] = Tail(@)]
  /\ e \in Taken(ends[Other(d)], path[d][1]) \cup {ends[Other(d)]}
  /\ ends' = [ends EXCEPT ![Other(d)] = e]

LEMMA ArrivedIs ==
  ASSUME EndsFit, NEW d \in Ends, NEW e, ArrivesAt(d, e)
  PROVE  LET o == Other(d)
             x == ends[o]
             s == path[d][1] IN
         /\ ends' \in [Ends -> EndStates] /\ ends'[o] = e /\ ends'[d] = ends[d]
         /\ e \in EndStates /\ e.sent = x.sent /\ e.acked >= x.acked
         /\ e.acked = x.acked \/ (~s.rst /\ s.ack # None /\ e.acked = s.ack /\ e.at = "open")
         /\ \/ e.received = x.received
            \/ ~s.rst /\ x.received = None /\ s.last = 1 /\ e.received = 1
            \/ /\ ~s.rst /\ x.received # None /\ s.ack # None
               /\ s.first <= x.received /\ x.received < s.last /\ e.received = s.last
         /\ \/ e.at = x.at /\ e.at # "open" /\ e = x
            \/ e.at = "gone"
            \/ e.at = "opening" /\ x.at = "listening"
            \/ e.at = "open" /\ s.ack # None /\ s.ack <= e.acked /\ e.received # None
            \/ e.at = "open" /\ x.at = "open" /\ e = x
<1> DEFINE o == Other(d)
           x == ends[o]
           s == path[d][1]
<1>1. /\ o \in Ends /\ o # d /\ ends \in [Ends -> EndStates] /\ x \in EndStates
      /\ Heard(d) /\ EndFits(o) /\ ends[d].received \in Nat \cup {None}
      /\ x.received # None => x.received > 0
  <2>1. o \in Ends /\ o # d /\ ends \in [Ends -> EndStates] /\ x \in EndStates /\ Heard(d) /\ EndFits(o)
    BY Others DEF EndsFit, Typed
  <2>2. ends[d].sent \in Nat /\ ends[d].received \in Nat \cup {None}
    BY <2>1 DEF EndStates
  <2> QED BY <2>1, <2>2 DEF Heard
<1>2. s \in SegmentStates /\ SegmentFits(d, s)
  BY HeadIs DEF ArrivesAt
<1>3. /\ s.ack # None => s.ack > 0
      /\ ~s.rst /\ s.first = 0 => s.last = 1
      /\ x.acked > 0 => x.received # None
      /\ x.at = "listening" => x.received = None
  BY <1>1, <1>2 DEF SegmentFits, EndFits, SegmentStates
<1>4. ends'[o] = e /\ ends'[d] = ends[d]
  BY <1>1 DEF ArrivesAt
<1>5. CASE e = x
  <2>1. ends' = ends
    BY <1>1, <1>5 DEF ArrivesAt
  <2>2. x.acked \in Nat
    BY <1>1 DEF EndStates
  <2> QED BY <1>1, <1>4, <1>5, <2>1, <2>2
<1>6. CASE e \in Taken(x, s)
  <2> HIDE DEF x, s
  <2>1. /\ e \in EndStates /\ e.sent = x.sent /\ e.acked >= x.acked
        /\ e.acked = x.acked \/ (~s.rst /\ s.ack # None /\ e.acked = s.ack /\ e.at = "open")
        /\ \/ e.received = x.received
           \/ ~s.rst /\ x.received = None /\ s.last = 1 /\ e.received = 1
           \/ /\ ~s.rst /\ x.received # None /\ s.ack # None
              /\ s.first <= x.received /\ x.received < s.last /\ e.received = s.last
        /\ \/ e.at = x.at /\ e.at # "open" /\ e = x
           \/ e.at = "gone"
           \/ e.at = "opening" /\ x.at = "listening"
           \/ e.at = "open" /\ s.ack # None /\ s.ack <= e.acked /\ e.received # None
           \/ e.at = "open" /\ x.at = "open" /\ e = x
    BY <1>1, <1>2, <1>3, <1>6, TakenIs
  <2>2. ends' \in [Ends -> EndStates]
    BY <1>1, <2>1 DEF ArrivesAt
  <2> QED BY <1>4, <2>1, <2>2 DEF x, s
<1> QED BY <1>5, <1>6 DEF ArrivesAt

LEMMA ArriveKeepsEnds ==
  ASSUME EndsFit, NEW d \in Ends, NEW e, ArrivesAt(d, e)
  PROVE  EndsFit'
<1> DEFINE o == Other(d)
           x == ends[o]
           y == ends[d]
           s == path[d][1]
<1>1. /\ o \in Ends /\ o # d /\ Other(o) = d /\ Ends = {d, o}
      /\ y \in EndStates /\ x \in EndStates
      /\ EndFits(d) /\ EndFits(o) /\ Heard(d) /\ Heard(o) /\ PathFits(d) /\ PathFits(o)
      /\ Length(o) \in Nat /\ Window \in Nat /\ None \notin Nat
      /\ path[o] \in Seq(SegmentStates)
  BY Others, Constants DEF EndsFit, Typed
<1>2. /\ path' \in [Ends -> Seq(SegmentStates)] /\ path'[o] = path[o]
      /\ Len(path[d]) \in Nat \ {0} /\ s \in SegmentStates /\ SegmentFits(d, s)
      /\ s.ack = None => Unanswered(o)
      /\ \A i \in 1 .. Len(path'[d]) :
              /\ i + 1 \in 1 .. Len(path[d]) /\ path'[d][i] = path[d][i + 1]
              /\ path[d][i + 1] \in SegmentStates /\ Later(s, path[d][i + 1])
      /\ \A i, j \in 1 .. Len(path'[d]) : i < j => i + 1 < j + 1
  BY HeadIs DEF ArrivesAt
<1>3. /\ ends' \in [Ends -> EndStates] /\ ends'[o] = e /\ ends'[d] = y
      /\ e \in EndStates /\ e.sent = x.sent /\ e.acked >= x.acked
      /\ e.acked = x.acked \/ (~s.rst /\ s.ack # None /\ e.acked = s.ack /\ e.at = "open")
      /\ \/ e.received = x.received
         \/ ~s.rst /\ x.received = None /\ s.last = 1 /\ e.received = 1
         \/ /\ ~s.rst /\ x.received # None /\ s.ack # None
            /\ s.first <= x.received /\ x.received < s.last /\ e.received = s.last
      /\ \/ e.at = x.at /\ e.at # "open" /\ e = x
         \/ e.at = "gone"
         \/ e.at = "opening" /\ x.at = "listening"
         \/ e.at = "open" /\ s.ack # None /\ s.ack <= e.acked /\ e.received # None
         \/ e.at = "open" /\ x.at = "open" /\ e = x
  BY ArrivedIs
<1>4. /\ y.sent \in Nat /\ y.acked \in Nat /\ y.received \in Nat \cup {None}
      /\ x.sent \in Nat /\ x.acked \in Nat /\ x.received \in Nat \cup {None}
      /\ e.acked \in Nat /\ e.received \in Nat \cup {None}
      /\ s.first \in Nat /\ s.last \in Nat /\ s.ack \in Nat \cup {None}
  BY <1>1, <1>2, <1>3 DEF EndStates, SegmentStates
<1>5. s.ack # None => /\ s.ack > 0 /\ y.received # None /\ s.ack <= y.received
                      /\ y.received <= x.sent
  BY <1>1, <1>2, <1>4 DEF SegmentFits, Heard
<1>6. x.received # None => e.received # None /\ e.received >= x.received
  BY <1>1, <1>3, <1>4
<1>7. EndFits(d)' /\ EndFits(o)'
  <2>1. EndFits(d)'
    BY <1>1, <1>3 DEF EndFits
  <2>2. e.acked <= x.sent
    BY <1>1, <1>3, <1>4, <1>5 DEF EndFits
  <2>3. e.acked > 0 => e.received # None
    BY <1>1, <1>3, <1>4, <1>6 DEF EndFits
  <2>4. e.at = "opening" => e.sent <= 1 /\ e.acked = 0
    BY <1>1, <1>3, <1>4 DEF EndFits
  <2>5. e.at = "open" => e.acked > 0
    BY <1>1, <1>3, <1>4, <1>5 DEF EndFits
  <2>6. e.sent <= Length(o) /\ e.sent <= e.acked + Window
    <3>1. x.sent <= Length(o) /\ x.sent <= x.acked + Window
      BY <1>1 DEF EndFits
    <3>2. e.sent = x.sent /\ e.acked >= x.acked /\ e.acked \in Nat /\ x.acked \in Nat /\ x.sent \in Nat
      BY <1>3, <1>4
    <3>3. Window \in Nat
      BY Constants
    <3> HIDE DEF o, x
    <3> QED BY <3>1, <3>2, <3>3
  <2>7. e.at = "listening" => e.sent = 0 /\ e.received = None
    BY <1>1, <1>3 DEF EndFits
  <2>8. e.sent > 1 => e.acked > 0
    BY <1>1, <1>3, <1>4 DEF EndFits
  <2>9. EndFits(o)'
    BY <1>3, <2>2, <2>3, <2>4, <2>5, <2>6, <2>7, <2>8 DEF EndFits
  <2> QED BY <2>1, <2>9
<1>8. Heard(d)' /\ Heard(o)'
  <2>1. e.received # None => e.received \in 1 .. y.sent
    BY <1>1, <1>2, <1>3, <1>4 DEF Heard, SegmentFits
  <2>2. Heard(d)'
    BY <1>1, <1>3, <1>4, <1>6, <2>1 DEF Heard
  <2>3. Heard(o)'
    BY <1>1, <1>3, <1>4, <1>5 DEF Heard
  <2> QED BY <2>2, <2>3
<1>9. PathFits(d)'
  <2>1. ASSUME NEW i \in 1 .. Len(path'[d]) PROVE SegmentFits(d, path[d][i])'
    <3>1. PICK t \in SegmentStates : t = path'[d][i] /\ t = path[d][i + 1] /\ SegmentFits(d, t) /\ Later(s, t)
      BY <1>1, <1>2 DEF PathFits
    <3>2. SegmentFits(d, t)'
      BY <1>1, <1>3, <1>4, <3>1 DEF SegmentFits, Later, SegmentStates
    <3> QED BY <3>1, <3>2 DEF SegmentFits
  <2>2. ASSUME NEW i \in 1 .. Len(path'[d]), NEW j \in 1 .. Len(path'[d]), i < j
        PROVE  Later(path'[d][i], path'[d][j])
    BY <1>1, <1>2, <2>2 DEF PathFits
  <2>3. ASSUME NEW i \in 1 .. Len(path'[d]), path'[d][i].ack = None PROVE Unanswered(o)'
    <3>1. s.ack = None /\ Unanswered(o)
      BY <1>2, <2>3 DEF Later
    <3> QED BY <1>3, <3>1 DEF Unanswered
  <2> QED BY <2>1, <2>2, <2>3 DEF PathFits, Later
<1>10. PathFits(o)'
  <2>1. ASSUME NEW i \in 1 .. Len(path'[o]) PROVE SegmentFits(o, path[o][i])'
    <3>1. PICK t \in SegmentStates : t = path'[o][i] /\ SegmentFits(o, t)
      BY <1>1, <1>2, ElementOfSeq DEF PathFits
    <3>2. SegmentFits(o, t)'
      BY <1>1, <1>3, <1>4, <1>6, <3>1 DEF SegmentFits, SegmentStates
    <3> QED BY <3>1, <3>2 DEF SegmentFits
  <2>2. \A i \in 1 .. Len(path'[o]) : path'[o][i].ack = None => Unanswered(d)'
    BY <1>1, <1>2, <1>3 DEF PathFits, Unanswered
  <2> QED BY <1>1, <1>2, <2>1, <2>2 DEF PathFits, Later
<1> QED BY <1>1, <1>2, <1>3, <1>7, <1>8, <1>9, <1>10 DEF EndsFit, Typed

LEMMA AbortKeepsEnds ==
  ASSUME EndsFit, NEW d \in Ends, Aborts(d)
  PROVE  /\ EndsFit' /\ \A i \in Ends : /\ ends'[i].received = ends[i].received
                                        /\ ends'[i].sent = ends[i].sent /\ ends'[i].acked = ends[i].acked
<1> DEFINE o == Other(d)
<1>1. /\ o \in Ends /\ o # d /\ Other(o) = d /\ Ends = {d, o} /\ Typed
      /\ ends[d] \in EndStates /\ ends[d].at = "open"
      /\ EndFits(d) /\ EndFits(o) /\ Heard(d) /\ Heard(o) /\ PathFits(d) /\ PathFits(o)
  BY Others DEF EndsFit, Typed, Aborts
<1>2. path' = path /\ ends' = [ends EXCEPT ![d].at = "gone"]
  BY DEF Aborts
<1>3. /\ ends'[o] = ends[o] /\ ends'[d] = [ends[d] EXCEPT !.at = "gone"]
      /\ ends' \in [Ends -> EndStates]
  BY <1>1, <1>2 DEF Typed, EndStates
<1>4. /\ ends'[d].at = "gone" /\ ends'[d].received = ends[d].received
      /\ ends'[d].sent = ends[d].sent /\ ends'[d].acked = ends[d].acked
  BY <1>1, <1>3 DEF EndStates
<1>5. EndFits(d)' /\ EndFits(o)' /\ Heard(d)' /\ Heard(o)'
  BY <1>1, <1>3, <1>4 DEF EndFits, Heard
<1>6. PathFits(d)' /\ PathFits(o)'
  <2>1. \A i \in Ends :
          /\ Other(i) \in Ends /\ path'[i] = path[i] /\ ends'[i].received = ends[i].received
          /\ ends'[i].sent = ends[i].sent /\ ends'[i].acked = ends[i].acked
          /\ ends'[i].at = "open" => ends[i].at = "open"
    BY <1>1, <1>2, <1>3, <1>4
  <2>2. ASSUME NEW i \in Ends, PathFits(i) PROVE PathFits(i)'
    <3> DEFINE j == Other(i)
    <3>0. /\ j \in Ends /\ path'[i] = path[i] /\ ends'[i].received = ends[i].received
          /\ ends'[i].sent = ends[i].sent /\ ends'[j].received = ends[j].received
          /\ ends'[j].sent = ends[j].sent /\ ends'[j].acked = ends[j].acked
          /\ ends'[j].at = "open" => ends[j].at = "open"
      BY <2>1
    <3>1. \A s \in SegmentStates : SegmentFits(i, s) => SegmentFits(i, s)'
      BY <3>0 DEF SegmentFits
    <3>2. Unanswered(j) => Unanswered(j)'
      BY <3>0 DEF Unanswered
    <3>3. \A h \in 1 .. Len(path[i]) : path[i][h] \in SegmentStates
      BY <1>1, ElementOfSeq DEF Typed
    <3> QED BY <2>2, <3>0, <3>1, <3>2, <3>3 DEF PathFits, Later
  <2> QED BY <1>1, <2>2
<1> QED BY <1>1, <1>2, <1>3, <1>4, <1>5, <1>6 DEF EndsFit, Typed

-----------------------------------------------------------------------------
(* What the policy makes of a segment *)

LEMMA PacketIs ==
  ASSUME NEW d \in Ends, NEW s \in SegmentStates
  PROVE  LET p == Packet(d, s) IN
         /\ p.dir = d /\ p.tuple = Tuple /\ p.rst = s.rst
         /\ p.syn <=> s.first = 0 /\ s.last = 1
         /\ p.fin <=> s.last = Length(d) /\ s.first < s.last
         /\ p.ack <=> s.ack # None
         /\ p.seq = Number(d, s.first) /\ p.seq \in Nat
         /\ s.ack # None => p.ackNo = Number(Other(d), s.ack) /\ p.ackNo \in Nat
         /\ s.first > 0 /\ s.last = Length(d) /\ s.first < s.last =>
              Policy!Plus(p.seq, p.payload + 1) = Number(d, Length(d))
<1>1. /\ s.first \in Nat /\ s.last \in Nat /\ s.ack \in Nat \cup {None} /\ Other(d) \in Ends
      /\ Length(d) \in Nat /\ Length(d) >= 2
  BY Others, Constants DEF SegmentStates
<1>2. Number(d, s.first) \in Nat /\ (s.ack # None => Number(Other(d), s.ack) \in Nat)
  BY <1>1, NumberIs
<1>3. ASSUME s.first > 0, s.last = Length(d), s.first < s.last
      PROVE  Policy!Plus(Packet(d, s).seq, Packet(d, s).payload + 1) = Number(d, Length(d))
  <2>1. Packet(d, s).payload + 1 = Length(d) - s.first /\ Length(d) - s.first \in Nat
    BY <1>1, <1>3 DEF Packet, Fewest
  <2>2. Packet(d, s).seq = Number(d, s.first)
    BY DEF Packet, Number
  <2>3. Policy!Plus(Number(d, s.first), Length(d) - s.first) = Number(d, s.first + (Length(d) - s.first))
    BY <1>1, <2>1, Counted
  <2>4. s.first + (Length(d) - s.first) = Length(d)
    BY <1>1
  <2> QED BY <2>1, <2>2, <2>3, <2>4
<1> QED BY <1>1, <1>2, <1>3 DEF Packet, Number

Tab(F, C) == [flows |-> F, closed |-> C]

LEMMA SweptIs ==
  ASSUME TableFits
  PROVE  \E F, C : /\ Policy!Swept = Tab(F, C) /\ DOMAIN F \subseteq {Tuple}
                   /\ F = [k \in DOMAIN F |-> F[k]]
                   /\ \A k \in DOMAIN F : k \in DOMAIN flows /\ F[k] = flows[k]
<1> DEFINE K == {k \in DOMAIN flows : Policy!Stale(flows[k])}
<1>1. CASE now >= nextSweep
  <2> DEFINE F == [k \in DOMAIN flows \ K |-> flows[k]]
  <2>1. Policy!Swept = Tab(F, Policy!Sifted(closed, K))
    BY <1>1 DEF Policy!Swept, Policy!Removed, Policy!Without, Policy!Table, Tab
  <2>2. /\ DOMAIN F \subseteq {Tuple} /\ F = [k \in DOMAIN F |-> F[k]]
        /\ \A k \in DOMAIN F : k \in DOMAIN flows /\ F[k] = flows[k]
    BY DEF TableFits
  <2> HIDE DEF F
  <2> QED BY <2>1, <2>2
<1>2. CASE ~(now >= nextSweep)
  <2>1. Policy!Swept = Tab(flows, closed)
    BY <1>2 DEF Policy!Swept, Policy!Table, Tab
  <2> QED BY <2>1 DEF TableFits
<1> QED BY <1>1, <1>2

LEMMA RemovedIs ==
  ASSUME NEW F, NEW C, NEW K
  PROVE  Policy!Removed(Tab(F, C), K) = Tab([k \in DOMAIN F \ K |-> F[k]], Policy!Sifted(C, K))
BY DEF Policy!Removed, Policy!Without, Tab

LEMMA WithIs ==
  ASSUME NEW F, NEW C, NEW k, NEW f
  PROVE  Policy!With(Tab(F, C), k, f) = Tab([j \in DOMAIN F \cup {k} |-> IF j = k THEN f ELSE F[j]], C)
BY DEF Policy!With, Tab

\* A flow that has just been opened, in the only place there is.
LEMMA OpenIs ==
  ASSUME TableFits, NEW d \in Ends, NEW s \in SegmentStates, Policy!Open(Packet(d, s), Policy!Swept)
  PROVE  /\ s.first = 0 /\ s.last = 1 /\ s.ack = None
         /\ DOMAIN flows' = {Tuple} /\ flows' = [k \in DOMAIN flows' |-> flows'[k]]
         /\ flows'[Tuple] \in FlowStates /\ ~flows'[Tuple].established
         /\ flows'[Tuple].closedAt = None
         /\ \A i \in Ends : flows'[Tuple].fin[i] = None /\ flows'[Tuple].acked[i] = None
<1> DEFINE p == Packet(d, s)
           t == Policy!Swept
           v == Policy!Vacated(p, t)
           r == Policy!Reclaimed(v)
           f == Policy!Opened(p)
<1>1. p.dir = d /\ p.tuple = Tuple /\ p.seq \in Nat /\ (p.syn <=> s.first = 0 /\ s.last = 1) /\ (p.ack <=> s.ack # None)
  BY PacketIs
<1>2. s.first = 0 /\ s.last = 1 /\ s.ack = None
  BY <1>1 DEF Policy!Open, Policy!Opens, Policy!MayOpen, Policy!Request
<1>3. PICK F, C : t = Tab(F, C) /\ DOMAIN F \subseteq {Tuple}
  BY SweptIs
<1>4. PICK G, D : v = Tab(G, D) /\ DOMAIN G \subseteq {Tuple}
  <2>1. CASE v = t
    BY <1>3, <2>1
  <2>2. CASE v = Policy!Removed(t, {p.tuple})
    <3>1. v = Tab([k \in DOMAIN F \ {p.tuple} |-> F[k]], Policy!Sifted(C, {p.tuple}))
      <4>1. Policy!Removed(Tab(F, C), {p.tuple}) =
              Tab([k \in DOMAIN F \ {p.tuple} |-> F[k]], Policy!Sifted(C, {p.tuple}))
        BY RemovedIs
      <4> QED BY <1>3, <2>2, <4>1
    <3>2. DOMAIN [k \in DOMAIN F \ {p.tuple} |-> F[k]] \subseteq {Tuple}
      BY <1>3
    <3> QED BY <3>1, <3>2
  <2> QED BY <2>1, <2>2 DEF Policy!Vacated
<1>5. PICK H, E : r = Tab(H, E) /\ DOMAIN H \subseteq {Tuple}
  <2>1. CASE r = v
    BY <1>4, <2>1
  <2>2. CASE r = Policy!Removed(v, {Head(v.closed)})
    <3>1. r = Tab([k \in DOMAIN G \ {Head(v.closed)} |-> G[k]], Policy!Sifted(D, {Head(v.closed)}))
      <4>1. Policy!Removed(Tab(G, D), {Head(v.closed)}) =
              Tab([k \in DOMAIN G \ {Head(v.closed)} |-> G[k]], Policy!Sifted(D, {Head(v.closed)}))
        BY RemovedIs
      <4> QED BY <1>4, <2>2, <4>1
    <3>2. DOMAIN [k \in DOMAIN G \ {Head(v.closed)} |-> G[k]] \subseteq {Tuple}
      BY <1>4
    <3> QED BY <3>1, <3>2
  <2> QED BY <2>1, <2>2 DEF Policy!Reclaimed
<1>6. flows' = [j \in DOMAIN H \cup {Tuple} |-> IF j = Tuple THEN f ELSE H[j]]
  <2>1. flows' = Policy!With(r, Tuple, f).flows
    BY <1>1 DEF Policy!Open, Policy!Becomes
  <2>2. Policy!With(Tab(H, E), Tuple, f) = Tab([j \in DOMAIN H \cup {Tuple} |-> IF j = Tuple THEN f ELSE H[j]], E)
    <3> HIDE DEF f
    <3> QED BY DEF Policy!With, Tab
  <2>3. flows' = Tab([j \in DOMAIN H \cup {Tuple} |-> IF j = Tuple THEN f ELSE H[j]], E).flows
    BY <1>5, <2>1, <2>2
  <2> QED BY <2>3 DEF Tab
<1>7. DOMAIN flows' = {Tuple} /\ flows'[Tuple] = f
  BY <1>5, <1>6
<1>8. f = [initiator |-> d, sequence |-> p.seq, replied |-> FALSE, established |-> FALSE,
           responseSequence |-> None, fin |-> [i \in Ends |-> None],
           acked |-> [i \in Ends |-> None], closedAt |-> None, lastSeen |-> now]
  <2>1. Policy!Directions = Ends
    BY DEF Policy!Directions, Ends
  <2> QED BY <1>1, <2>1 DEF Policy!Opened
<1>9. f \in FlowStates
  BY <1>1, <1>8 DEF FlowStates, TableFits
<1> QED BY <1>2, <1>6, <1>7, <1>8, <1>9

\* The only flow there is becomes f.
LEMMA PutIs ==
  ASSUME NEW F, NEW C, DOMAIN F \subseteq {Tuple}, NEW f
  PROVE  Policy!With(Tab(F, C), Tuple, f) = Tab([j \in {Tuple} |-> f], C)
<1>1. Policy!With(Tab(F, C), Tuple, f) = Tab([j \in DOMAIN F \cup {Tuple} |-> IF j = Tuple THEN f ELSE F[j]], C)
  BY DEF Policy!With, Tab
<1>2. [j \in DOMAIN F \cup {Tuple} |-> IF j = Tuple THEN f ELSE F[j]] = [j \in {Tuple} |-> f]
  OBVIOUS
<1> QED BY <1>1, <1>2

\* The flow after a segment that repeats the request or the answer to it, or is the answer.
Waits(s, f, g) ==
  /\ g \in FlowStates /\ ~f.established /\ ~g.established
  /\ g.fin = f.fin /\ g.acked = f.acked /\ g.closedAt = f.closedAt
  /\ s.first = 0 /\ s.last = 1

\* The flow after a segment of an established connection, or one that establishes it.
AckedBy(d, s, f) ==
  IF s.ack # None /\ (f.acked[d] # None => Policy!Reaches(Number(Other(d), s.ack), f.acked[d]))
  THEN [f.acked EXCEPT ![d] = Number(Other(d), s.ack)] ELSE f.acked

FinBy(d, s, f) ==
  IF s.last = Length(d) /\ s.first < s.last /\ f.fin[d] = None
  THEN [f.fin EXCEPT ![d] = Number(d, Length(d))] ELSE f.fin

Follows(d, s, f, g) ==
  /\ ~s.rst /\ g \in FlowStates /\ g.established /\ g.replied
  /\ g.acked = AckedBy(d, s, f) /\ g.fin = FinBy(d, s, f)
  /\ g.closedAt = IF f.closedAt = None /\ BothEnded(g) THEN now ELSE f.closedAt

LEMMA FollowedIs ==
  ASSUME now \in Nat, NEW d \in Ends, NEW s \in SegmentStates, ~s.rst /\ s.first = 0 => s.last = 1, ~s.rst,
         NEW f \in FlowStates
  PROVE  LET g == Policy!Followed(Packet(d, s), f) IN
         /\ g \in FlowStates /\ g.established /\ g.replied = f.replied /\ g.closedAt = f.closedAt
         /\ g.acked = AckedBy(d, s, f) /\ g.fin = FinBy(d, s, f)
<1> DEFINE p == Packet(d, s)
           h == [f EXCEPT !.established = TRUE, !.lastSeen = now]
           k == Policy!Acked(p, h)
           g == Policy!Finned(p, k)
<1>1. /\ p.dir = d
      /\ p.fin <=> s.last = Length(d) /\ s.first < s.last
      /\ p.ack <=> s.ack # None
      /\ s.ack # None => p.ackNo = Number(Other(d), s.ack) /\ p.ackNo \in Nat
      /\ p.fin => Policy!Plus(p.seq, p.payload + 1) = Number(d, Length(d))
  <2>1. s.first \in Nat /\ s.last \in Nat /\ Length(d) \in Nat /\ Length(d) >= 2
    BY Constants DEF SegmentStates
  <2>2. s.last = Length(d) => s.first > 0
    BY <2>1
  <2> QED BY <2>2, PacketIs
<1> HIDE DEF p
<1>2. /\ h \in FlowStates /\ h.established /\ h.replied = f.replied /\ h.closedAt = f.closedAt
      /\ h.acked = f.acked /\ h.fin = f.fin
  BY DEF FlowStates
<1>3. Number(d, Length(d)) \in Nat
  BY NumberIs, Constants
<1> HIDE DEF h
<1>4. /\ k \in FlowStates /\ k.established /\ k.replied = f.replied /\ k.closedAt = f.closedAt
      /\ k.acked = AckedBy(d, s, f) /\ k.fin = f.fin
  <2>1. CASE s.ack # None /\ (f.acked[d] # None => Policy!Reaches(Number(Other(d), s.ack), f.acked[d]))
    <3>1. k = [h EXCEPT !.acked[d] = Number(Other(d), s.ack)]
      BY <1>1, <1>2, <2>1 DEF Policy!Acked
    <3> QED BY <1>1, <1>2, <2>1, <3>1 DEF FlowStates, AckedBy
  <2>2. CASE ~(s.ack # None /\ (f.acked[d] # None => Policy!Reaches(Number(Other(d), s.ack), f.acked[d])))
    <3>1. k = h
      BY <1>1, <1>2, <2>2 DEF Policy!Acked
    <3> QED BY <1>2, <2>2, <3>1 DEF AckedBy
  <2> QED BY <2>1, <2>2
<1> HIDE DEF k
<1>5. /\ g \in FlowStates /\ g.established /\ g.replied = f.replied /\ g.closedAt = f.closedAt
      /\ g.acked = k.acked /\ g.fin = FinBy(d, s, f)
  <2>1. CASE p.fin /\ f.fin[d] = None
    <3>1. g = [k EXCEPT !.fin[d] = Number(d, Length(d))]
      BY <1>1, <1>4, <2>1 DEF Policy!Finned
    <3> QED BY <1>1, <1>3, <1>4, <2>1, <3>1 DEF FlowStates, FinBy
  <2>2. CASE ~(p.fin /\ f.fin[d] = None)
    <3>1. g = k
      BY <1>1, <1>4, <2>2 DEF Policy!Finned
    <3> QED BY <1>1, <1>4, <2>2, <3>1 DEF FinBy
  <2> QED BY <2>1, <2>2
<1> QED BY <1>4, <1>5 DEF Policy!Followed, p, h, k

LEMMA TrackIs ==
  ASSUME TableFits, NEW d \in Ends, NEW s \in SegmentStates, ~s.rst /\ s.first = 0 => s.last = 1,
         Policy!Track(Packet(d, s), Policy!Swept)
  PROVE  /\ DOMAIN flows' \subseteq {Tuple} /\ flows' = [k \in DOMAIN flows' |-> flows'[k]]
         /\ Tuple \in DOMAIN flows' =>
              /\ Tuple \in DOMAIN flows
              /\ \/ Waits(s, flows[Tuple], flows'[Tuple])
                 \/ Follows(d, s, flows[Tuple], flows'[Tuple])
<1> DEFINE p == Packet(d, s)
           t == Policy!Swept
           f == t.flows[Tuple]
           g == Policy!Followed(p, f)
<1>1. /\ p.dir = d /\ p.tuple = Tuple /\ p.rst = s.rst /\ p.seq \in Nat
      /\ p.syn <=> s.first = 0 /\ s.last = 1
  BY PacketIs
<1>2. PICK F, C : /\ t = Tab(F, C) /\ DOMAIN F \subseteq {Tuple}
                  /\ \A k \in DOMAIN F : k \in DOMAIN flows /\ F[k] = flows[k]
  BY SweptIs
<1>3. Tuple \in DOMAIN F /\ f = F[Tuple]
  BY <1>1, <1>2 DEF Policy!Track, Policy!Tracked, Tab
<1>4. /\ f = flows[Tuple] /\ Tuple \in DOMAIN flows /\ f \in FlowStates /\ now \in Nat
      /\ f.established => f.replied
  BY <1>2, <1>3 DEF TableFits, FlowFits
<1>5. ASSUME NEW x, Policy!Becomes(Policy!With(t, Tuple, x))
      PROVE  flows' = [j \in {Tuple} |-> x]
  <2>1. Policy!With(t, Tuple, x) = Tab([j \in {Tuple} |-> x], C)
    BY <1>2, PutIs
  <2> QED BY <1>5, <2>1 DEF Policy!Becomes, Tab
<1>6. ASSUME NEW x, flows' = [j \in {Tuple} |-> x]
      PROVE  DOMAIN flows' \subseteq {Tuple} /\ flows' = [k \in DOMAIN flows' |-> flows'[k]] /\ flows'[Tuple] = x
  BY <1>6
<1>7. CASE \/ Policy!Repeats(p, f) /\ Policy!Becomes(Policy!With(t, Tuple, [f EXCEPT !.lastSeen = now]))
           \/ Policy!RepliesAgain(p, f) /\ Policy!Becomes(Policy!With(t, Tuple, [f EXCEPT !.lastSeen = now]))
  <2> DEFINE x == [f EXCEPT !.lastSeen = now]
  <2>1. Waits(s, f, x)
    <3>1. ~f.established /\ s.first = 0 /\ s.last = 1
      BY <1>1, <1>7 DEF Policy!Repeats, Policy!RepliesAgain, Policy!Request
    <3> QED BY <1>4, <3>1 DEF Waits, FlowStates
  <2>2. Policy!Becomes(Policy!With(t, Tuple, x))
    BY <1>7
  <2> HIDE DEF x
  <2> QED BY <1>4, <1>5, <1>6, <2>1, <2>2
<1>8. CASE /\ Policy!Replies(p, f)
           /\ Policy!Becomes(Policy!With(t, Tuple, [f EXCEPT !.replied = TRUE, !.responseSequence = p.seq,
                                                             !.lastSeen = now]))
  <2> DEFINE x == [f EXCEPT !.replied = TRUE, !.responseSequence = p.seq, !.lastSeen = now]
  <2>1. Waits(s, f, x)
    <3>1. s.first = 0 /\ s.last = 1
      BY <1>1, <1>8 DEF Policy!Replies
    <3>2. ~f.established
      BY <1>8, <1>4 DEF Policy!Replies
    <3> QED BY <1>1, <1>4, <3>1, <3>2 DEF Waits, FlowStates
  <2>2. Policy!Becomes(Policy!With(t, Tuple, x))
    BY <1>8
  <2> HIDE DEF x
  <2> QED BY <1>4, <1>5, <1>6, <2>1, <2>2
<1>9. CASE /\ Policy!Establishes(p, f) \/ Policy!Continues(p, f)
           /\ IF Policy!Ends(g)
              THEN Policy!Becomes([Policy!With(t, Tuple, [g EXCEPT !.closedAt = now]) EXCEPT !.closed = Append(@, Tuple)])
              ELSE Policy!Becomes(Policy!With(t, Tuple, g))
  <2>1. ~s.rst /\ f.replied
    BY <1>1, <1>4, <1>9 DEF Policy!Establishes, Policy!Continues
  <2>2. /\ g \in FlowStates /\ g.established /\ g.replied = f.replied /\ g.closedAt = f.closedAt
        /\ g.acked = AckedBy(d, s, f) /\ g.fin = FinBy(d, s, f)
    BY <1>4, <2>1, FollowedIs
  <2> HIDE DEF p, g, f, t
  <2>3. CASE Policy!Ends(g)
    <3> DEFINE x == [g EXCEPT !.closedAt = now]
    <3>1. /\ x \in FlowStates /\ x.established /\ x.replied /\ x.closedAt = now
          /\ x.acked = g.acked /\ x.fin = g.fin
      BY <1>4, <2>1, <2>2 DEF FlowStates
    <3> HIDE DEF x
    <3>0. Policy!With(Tab(F, C), Tuple, x) = Tab([j \in {Tuple} |-> x], C)
      BY <1>2, PutIs
    <3>2. Policy!With(t, Tuple, x) = Tab([j \in {Tuple} |-> x], C)
      BY <1>2, <3>0
    <3>3. Policy!Becomes([Tab([j \in {Tuple} |-> x], C) EXCEPT !.closed = Append(@, Tuple)])
      BY <1>9, <2>3, <3>2 DEF x
    <3>4. flows' = [j \in {Tuple} |-> x]
      BY <3>3 DEF Policy!Becomes, Tab
    <3>5. f.closedAt = None /\ BothEnded(x)
      BY <2>2, <2>3, <3>1 DEF Policy!Ends, BothEnded, Policy!FinAcked
    <3>6. Follows(d, s, f, x)
      BY <2>1, <2>2, <3>1, <3>5 DEF Follows
    <3> QED BY <1>4, <1>6, <3>4, <3>6
  <2>4. CASE ~Policy!Ends(g)
    <3>1. flows' = [j \in {Tuple} |-> g]
      BY <1>5, <1>9, <2>4
    <3>2. ~(f.closedAt = None /\ BothEnded(g))
      BY <2>2, <2>4 DEF Policy!Ends, BothEnded
    <3>3. Follows(d, s, f, g)
      BY <2>1, <2>2, <3>2 DEF Follows
    <3> QED BY <1>4, <1>6, <3>1, <3>3
  <2> QED BY <2>3, <2>4
<1>10. CASE Policy!Resets(p, f) /\ Policy!Becomes(Policy!Removed(t, {Tuple}))
  <2>0. Policy!Removed(Tab(F, C), {Tuple}) = Tab([k \in DOMAIN F \ {Tuple} |-> F[k]], Policy!Sifted(C, {Tuple}))
    BY RemovedIs
  <2>1. Policy!Removed(t, {Tuple}) = Tab([k \in DOMAIN F \ {Tuple} |-> F[k]], Policy!Sifted(C, {Tuple}))
    BY <1>2, <2>0
  <2>2. flows' = [k \in DOMAIN F \ {Tuple} |-> F[k]]
    BY <1>10, <2>1 DEF Policy!Becomes, Tab
  <2> QED BY <1>2, <2>2
<1> QED BY <1>1, <1>7, <1>8, <1>9, <1>10 DEF Policy!Track

\* A segment that is turned down leaves the flow, or takes it away.
LEMMA RefuseIs ==
  ASSUME TableFits, NEW d \in Ends, NEW s \in SegmentStates, Policy!Refuse(Packet(d, s))
  PROVE  /\ DOMAIN flows' \subseteq {Tuple} /\ flows' = [k \in DOMAIN flows' |-> flows'[k]]
         /\ Tuple \in DOMAIN flows' => Tuple \in DOMAIN flows /\ flows'[Tuple] = flows[Tuple]
<1> DEFINE p == Packet(d, s)
           t == Policy!Swept
<1>1. PICK F, C : /\ t = Tab(F, C) /\ DOMAIN F \subseteq {Tuple} /\ F = [k \in DOMAIN F |-> F[k]]
                  /\ \A k \in DOMAIN F : k \in DOMAIN flows /\ F[k] = flows[k]
  BY SweptIs
<1>2. p.tuple = Tuple
  BY PacketIs
<1>3. CASE Policy!Vacated(p, t) = t
  <2>1. flows' = F
    BY <1>1, <1>3 DEF Policy!Refuse, Policy!Becomes, Tab
  <2> QED BY <1>1, <2>1
<1>4. CASE Policy!Vacated(p, t) = Policy!Removed(t, {Tuple})
  <2>0. Policy!Removed(Tab(F, C), {Tuple}) = Tab([k \in DOMAIN F \ {Tuple} |-> F[k]], Policy!Sifted(C, {Tuple}))
    BY RemovedIs
  <2>1. Policy!Removed(t, {Tuple}) = Tab([k \in DOMAIN F \ {Tuple} |-> F[k]], Policy!Sifted(C, {Tuple}))
    BY <1>1, <2>0
  <2>2. flows' = [k \in DOMAIN F \ {Tuple} |-> F[k]]
    BY <1>4, <2>1 DEF Policy!Refuse, Policy!Becomes, Tab
  <2> QED BY <1>1, <2>2
<1> QED BY <1>2, <1>3, <1>4 DEF Policy!Vacated

-----------------------------------------------------------------------------
(* Connections that are young, and what then fits them *)

\* The figures an end counts by.
LEMMA Figures ==
  ASSUME EndsFit, NEW d \in Ends
  PROVE  LET e == ends[d]
             x == ends[Other(d)] IN
         /\ e.sent \in Nat /\ e.acked \in Nat /\ e.received \in Nat \cup {None}
         /\ e.acked <= e.sent /\ e.sent <= Length(d) /\ e.sent <= e.acked + Window
         /\ x.received # None => x.received \in 1 .. e.sent
         /\ e.acked > 0 => e.received # None /\ x.received # None /\ e.acked <= x.received
         /\ e.sent > 1 => e.acked > 0
         /\ None \notin Nat /\ Length(d) \in Nat /\ Length(d) >= 2 /\ Window \in Nat
BY Constants DEF EndsFit, Typed, EndStates, EndFits, Heard

LEMMA OnPath ==
  ASSUME EndsFit, NEW d \in Ends
  PROVE  /\ path[d] \in Seq(SegmentStates) /\ Len(path[d]) \in Nat
         /\ \A i \in 1 .. Len(path[d]) : path[d][i] \in SegmentStates /\ SegmentFits(d, path[d][i])
BY ElementOfSeq, LenProperties DEF EndsFit, Typed, PathFits

\* A host that sent no more than its request, and has at most had the answer to it.
LEMMA SilentIsYoung ==
  ASSUME EndsFit, ends["out"].sent <= 1, ends["out"].received \in {None, 1}
  PROVE  Young
<1>1. "out" \in Ends /\ "in" \in Ends /\ Other("out") = "in" /\ Ends = {"out", "in"}
  BY DEF Ends, Other
<1>2. ends["in"].received \in {None, 1}
  BY <1>1, Figures
<1>3. ASSUME NEW i \in 1 .. Len(path["out"])
      PROVE  path["out"][i].last <= 1
  <2>1. /\ path["out"][i] \in SegmentStates /\ path["out"][i].last <= ends["out"].sent
        /\ ends["out"].sent \in Nat
    BY <1>1, OnPath, Figures DEF SegmentFits
  <2> QED BY <2>1 DEF SegmentStates
<1> QED BY <1>1, <1>2, <1>3 DEF Young

LEMMA YoungFits ==
  ASSUME EndsFit, Young, NEW f, Unmarked(f), NEW d \in Ends
  PROVE  AckFits(d, f) /\ FinFits(d, f)
<1> DEFINE o == Other(d)
<1>1. o \in Ends /\ Other(o) = d /\ ends[d].received \in {None, 1} /\ ends[o].received \in {None, 1}
  BY Others DEF Young
<1>2. f.acked[d] = None /\ f.fin[d] = None
  BY DEF Unmarked
<1>3. /\ None \notin Nat /\ Length(d) \in Nat /\ Length(d) >= 2 /\ Length(o) \in Nat /\ Length(o) >= 2
      /\ ends[o].acked \in Nat /\ ends[o].acked <= 1
  BY <1>1, Figures
<1>4. ASSUME NEW i \in 1 .. Len(path[d]), path[d][i].ack # None
      PROVE  path[d][i].ack <= 1
  <2>1. path[d][i] \in SegmentStates /\ SegmentFits(d, path[d][i])
    BY OnPath
  <2>2. path[d][i].ack \in 1 .. 1
    BY <1>1, <1>4, <2>1 DEF SegmentFits
  <2> QED BY <2>2
<1>5. AckFits(d, f)
  <2>1. AckedTo(d, f, 1)
    BY <1>2, <1>3, <1>4 DEF AckedTo
  <2>2. 1 \in 1 .. Length(o)
    BY <1>3
  <2> QED BY <2>1, <2>2 DEF AckFits
<1>6. ASSUME d = "out", NEW i \in 1 .. Len(path[d]), path[d][i].first < path[d][i].last
      PROVE  path[d][i].last < Length(d)
  <2>1. /\ path[d][i] \in SegmentStates /\ SegmentFits(d, path[d][i])
        /\ path[d][i].rst \/ path[d][i].last <= 1
    BY <1>6, OnPath DEF Young
  <2>2. path[d][i].last <= 1
    BY <1>6, <2>1 DEF SegmentFits, SegmentStates
  <2> QED BY <1>3, <2>1, <2>2 DEF SegmentStates
<1>7. FinFits(d, f)
  BY <1>1, <1>2, <1>3, <1>6 DEF FinFits
<1> QED BY <1>5, <1>7

LEMMA FitsAnyway ==
  ASSUME EndsFit, NEW f, FlowFits(f), NEW d \in Ends
  PROVE  AckFits(d, f) /\ FinFits(d, f)
BY YoungFits DEF FlowFits

SentBy(d, s) ==
  /\ s \in MaySend(d) /\ WellFormed(s) /\ Sent(d, s)
  /\ path' \in {path, [path EXCEPT ![d] = Append(@, s)]}

LEMMA YoungWhenSent ==
  ASSUME EndsFit, Young, NEW d \in Ends, NEW s, SentBy(d, s), d = "out" => path' = path \/ s.last <= 1
  PROVE  Young'
<1>1. s \in SegmentStates /\ Typed /\ Ends = {d, Other(d)} /\ Other(d) \in Ends
  BY SentIs, Others DEF EndsFit, SentBy
<1>2. \A i \in Ends : ends'[i].received = ends[i].received
  BY <1>1, SentMoves DEF SentBy
<1>3. ASSUME NEW i \in 1 .. Len(path'["out"]) PROVE path'["out"][i].rst \/ path'["out"][i].last <= 1
  <2>1. CASE d = "out" /\ path' # path
    <3>1. \/ i \in 1 .. Len(path["out"]) /\ path'["out"][i] = path["out"][i]
          \/ path'["out"][i] = s
      BY <1>1, <2>1, SentOn DEF SentBy
    <3> QED BY <2>1, <3>1 DEF Young
  <2>2. CASE path' = path
    BY <2>2 DEF Young
  <2>3. CASE d = "in"
    <3>1. path'["out"] = path["out"]
      BY <1>1, <2>3, SentOn, Others DEF SentBy, Other
    <3> QED BY <3>1 DEF Young
  <2> QED BY <2>1, <2>2, <2>3 DEF Ends
<1> QED BY <1>2, <1>3 DEF Young

LEMMA YoungWhenArrived ==
  ASSUME EndsFit, Young, NEW d \in Ends, NEW e, ArrivesAt(d, e),
         d = "in" => path[d][1].last <= 1 \/ e = ends[Other(d)]
  PROVE  Young'
<1> DEFINE o == Other(d)
           x == ends[o]
           s == path[d][1]
<1>1. /\ o \in Ends /\ Ends = {d, o} /\ s \in SegmentStates
      /\ Len(path[d]) \in Nat \ {0} /\ path'[o] = path[o]
      /\ \A i \in 1 .. Len(path'[d]) : i + 1 \in 1 .. Len(path[d]) /\ path'[d][i] = path[d][i + 1]
  <2>1. o \in Ends /\ Ends = {d, o}
    BY Others
  <2>2. path[d] # <<>> /\ path' = [path EXCEPT ![d] = Tail(@)]
    BY DEF ArrivesAt
  <2>3. /\ s \in SegmentStates /\ Len(path[d]) \in Nat \ {0} /\ path'[o] = path[o]
        /\ \A i \in 1 .. Len(path'[d]) : i + 1 \in 1 .. Len(path[d]) /\ path'[d][i] = path[d][i + 1]
    BY <2>2, HeadIs
  <2> HIDE DEF o, s
  <2> QED BY <2>1, <2>3
<1>2. /\ ends'[o] = e /\ ends'[d] = ends[d]
      /\ \/ e.received = x.received
         \/ ~s.rst /\ x.received = None /\ s.last = 1 /\ e.received = 1
         \/ /\ ~s.rst /\ x.received # None /\ s.ack # None
            /\ s.first <= x.received /\ x.received < s.last /\ e.received = s.last
  BY ArrivedIs
<1>3. 1 \in 1 .. Len(path[d])
  BY <1>1
<1>4. s.rst \/ s.last <= 1 \/ e = x
  BY <1>3 DEF Young, Ends
<1>5. e.received \in {None, 1}
  BY <1>1, <1>2, <1>4 DEF Young, SegmentStates
<1>6. ASSUME NEW i \in 1 .. Len(path'["out"]) PROVE path'["out"][i].rst \/ path'["out"][i].last <= 1
  <2>1. CASE d = "out"
    BY <1>1, <2>1 DEF Young
  <2>2. CASE o = "out"
    BY <1>1, <2>2 DEF Young
  <2> QED BY <2>1, <2>2, Others
<1> QED BY <1>1, <1>2, <1>5, <1>6 DEF Young

-----------------------------------------------------------------------------
(* A flow that stays as it is fits what the ends and the path become *)

LEMMA KeptWhenSent ==
  ASSUME EndsFit, NEW d \in Ends, NEW s, SentBy(d, s), d = "out" => path' = path,
         NEW f, NEW i \in Ends, AckFits(i, f), FinFits(i, f)
  PROVE  AckFits(i, f)' /\ FinFits(i, f)'
<1>1. /\ s \in SegmentStates /\ s.ack = ends[d].received /\ Typed
      /\ Ends = {d, Other(d)} /\ Other(i) \in Ends
  BY SentIs, Others DEF EndsFit, SentBy
<1>2. EndsFit'
  BY SendKeepsEnds DEF SentBy
<1>3. /\ \A j \in Ends : ends'[j].received = ends[j].received /\ ends'[j].acked = ends[j].acked
      /\ ends'[i].sent \in Nat /\ ends[i].sent \in Nat /\ ends'[i].sent >= ends[i].sent
      /\ ends'[i].sent <= Length(i) /\ Length(i) \in Nat
  <2>1. \A j \in Ends : /\ ends'[j].received = ends[j].received /\ ends'[j].acked = ends[j].acked
                        /\ ends'[j].sent \in Nat /\ ends[j].sent \in Nat /\ ends'[j].sent >= ends[j].sent
    BY <1>1, SentMoves, Figures DEF SentBy
  <2>2. EndFits(i)'
    BY <1>2 DEF EndsFit
  <2> QED BY <2>1, <2>2, Constants DEF EndFits
<1>4. path'["out"] = path["out"]
  <2>1. CASE d = "out"
    BY <2>1
  <2>2. CASE d = "in"
    BY <1>1, <2>2, SentOn, Others DEF SentBy, Other
  <2> QED BY <2>1, <2>2 DEF Ends
<1>5. AckFits(i, f)'
  <2>1. PICK a \in 1 .. Length(Other(i)) : AckedTo(i, f, a)
    BY DEF AckFits
  <2>2. ASSUME i = "in", f.acked[i] # None, NEW k \in 1 .. Len(path'[i])
        PROVE  path'[i][k].ack # None /\ a <= path'[i][k].ack
    <3>1. /\ ends[i].received # None /\ a <= ends[i].received
          /\ \A j \in 1 .. Len(path[i]) : path[i][j].ack # None /\ a <= path[i][j].ack
      BY <2>1, <2>2 DEF AckedTo
    <3>2. CASE d = "in"
      <4>1. (k \in 1 .. Len(path[i]) /\ path'[i][k] = path[i][k]) \/ path'[i][k] = s
        BY <1>1, <2>2, <3>2, SentOn DEF SentBy
      <4> QED BY <1>1, <2>2, <3>1, <3>2, <4>1
    <3>3. CASE d = "out"
      BY <2>2, <3>1, <3>3
    <3> QED BY <3>2, <3>3 DEF Ends
  <2>3. ASSUME i = "out", NEW k \in 1 .. Len(path'[i]), path'[i][k].ack # None
        PROVE  path'[i][k].ack <= a
    BY <1>4, <2>1, <2>3 DEF AckedTo
  <2>4. AckedTo(i, f, a)'
    BY <1>1, <1>3, <2>1, <2>2, <2>3 DEF AckedTo
  <2> QED BY <2>4 DEF AckFits
<1>6. FinFits(i, f)'
  BY <1>1, <1>3, <1>4 DEF FinFits
<1> QED BY <1>5, <1>6

LEMMA KeptWhenArrived ==
  ASSUME EndsFit, NEW d \in Ends, NEW e, ArrivesAt(d, e), d = "in" => e = ends[Other(d)],
         NEW f, NEW i \in Ends, AckFits(i, f), FinFits(i, f)
  PROVE  AckFits(i, f)' /\ FinFits(i, f)'
<1> DEFINE o == Other(d)
           x == ends[o]
           s == path[d][1]
<1>1. /\ o \in Ends /\ o # d /\ Other(o) = d /\ Ends = {d, o} /\ i \in {d, o} /\ s \in SegmentStates
      /\ Len(path[d]) \in Nat \ {0} /\ path'[o] = path[o]
      /\ \A j \in 1 .. Len(path'[d]) : j + 1 \in 1 .. Len(path[d]) /\ path'[d][j] = path[d][j + 1]
  <2>1. path[d] # <<>> /\ path' = [path EXCEPT ![d] = Tail(@)]
    BY DEF ArrivesAt
  <2>2. /\ s \in SegmentStates /\ Len(path[d]) \in Nat \ {0} /\ path'[o] = path[o]
        /\ \A j \in 1 .. Len(path'[d]) : j + 1 \in 1 .. Len(path[d]) /\ path'[d][j] = path[d][j + 1]
    BY <2>1, HeadIs
  <2> QED BY <2>2, Others
<1>2. 1 \in 1 .. Len(path[d])
  BY <1>1
<1>3. /\ ends'[o] = e /\ ends'[d] = ends[d]
      /\ e \in EndStates /\ e.sent = x.sent /\ e.acked >= x.acked
      /\ e.acked = x.acked \/ (s.ack # None /\ e.acked = s.ack)
      /\ \/ e.received = x.received
         \/ ~s.rst /\ x.received = None /\ s.last = 1 /\ e.received = 1
         \/ /\ ~s.rst /\ x.received # None /\ s.ack # None
            /\ s.first <= x.received /\ x.received < s.last /\ e.received = s.last
  BY ArrivedIs
<1>4. /\ x.sent \in Nat /\ x.acked \in Nat /\ x.received \in Nat \cup {None}
      /\ e.acked \in Nat /\ e.received \in Nat \cup {None}
      /\ s.first \in Nat /\ s.last \in Nat /\ s.ack \in Nat \cup {None}
      /\ \A j \in Ends : Length(j) \in Nat /\ Length(j) >= 2
      /\ None \notin Nat
  BY <1>1, <1>3, Figures, Constants DEF SegmentStates, EndStates
<1>5. \A j \in Ends : ends[j].received # None =>
                        ends'[j].received # None /\ ends[j].received <= ends'[j].received
  <2>1. \A j \in Ends : ends[j].received # None => ends[j].received \in Nat
    BY Figures
  <2>2. ends[d].received # None =>
          ends'[d].received # None /\ ends[d].received <= ends'[d].received
    BY <1>1, <1>3, <2>1
  <2>3. x.received # None => e.received # None /\ x.received <= e.received
    BY <1>3, <1>4
  <2> QED BY <1>1, <1>3, <2>2, <2>3
<1>6. PICK a \in 1 .. Length(Other(i)) : AckedTo(i, f, a)
  BY DEF AckFits
<1>7. CASE i = d
  <2>1. ends'[o].acked <= a
    <3>1. CASE d = "out"
      BY <1>2, <1>3, <1>6, <1>7, <3>1 DEF AckedTo
    <3>2. CASE d = "in"
      BY <1>3, <1>6, <1>7, <3>2 DEF AckedTo
    <3> QED BY <3>1, <3>2 DEF Ends
  <2>2. AckedTo(i, f, a)'
    BY <1>1, <1>3, <1>6, <1>7, <2>1 DEF AckedTo
  <2>3. f.fin[d] = None => ends'[o].received # Length(d)
    <3> SUFFICES ASSUME f.fin[d] = None PROVE ends'[o].received # Length(d)
      OBVIOUS
    <3>1. /\ x.received # Length(d)
          /\ d = "out" => (s.first < s.last => s.last < Length(d))
      BY <1>2, <1>7 DEF FinFits
    <3>2. CASE d = "in"
      BY <1>3, <3>1, <3>2
    <3>3. CASE d = "out"
      BY <1>3, <1>4, <3>1, <3>3
    <3> QED BY <3>2, <3>3 DEF Ends
  <2>4. FinFits(i, f)'
    BY <1>1, <1>3, <1>7, <2>3 DEF FinFits
  <2> QED BY <2>2, <2>4 DEF AckFits
<1>8. CASE i = o
  <2>1. a \in Nat
    BY <1>1, <1>4, <1>8
  <2>2. AckedTo(i, f, a)'
    <3>1. /\ ends'[d].acked <= a
          /\ f.acked[i] # None => ends'[i].received # None /\ a <= ends'[i].received
      BY <1>1, <1>3, <1>4, <1>5, <1>6, <1>8, <2>1 DEF AckedTo
    <3> QED BY <1>1, <1>6, <1>8, <3>1 DEF AckedTo
  <2>3. FinFits(i, f)'
    BY <1>1, <1>3, <1>8 DEF FinFits
  <2> QED BY <2>2, <2>3 DEF AckFits
<1> QED BY <1>1, <1>7, <1>8

LEMMA KeptWhenAborted ==
  ASSUME EndsFit, NEW d \in Ends, Aborts(d), NEW f, NEW i \in Ends, AckFits(i, f), FinFits(i, f)
  PROVE  AckFits(i, f)' /\ FinFits(i, f)'
<1>1. \A j \in Ends : /\ ends'[j].received = ends[j].received
                      /\ ends'[j].sent = ends[j].sent /\ ends'[j].acked = ends[j].acked
  BY AbortKeepsEnds
<1>2. path' = path /\ Other(i) \in Ends
  BY Others DEF Aborts
<1>3. PICK a \in 1 .. Length(Other(i)) : AckedTo(i, f, a)
  BY DEF AckFits
<1>4. AckedTo(i, f, a)'
  BY <1>1, <1>2, <1>3 DEF AckedTo
<1>5. FinFits(i, f)'
  BY <1>1, <1>2 DEF FinFits
<1> QED BY <1>4, <1>5 DEF AckFits

-----------------------------------------------------------------------------
(* A flow that follows a segment of its connection *)

\* A segment that acknowledges no less than the policy has seen acknowledged is noticed.
LEMMA Noticed ==
  ASSUME EndsFit, NEW d \in Ends, NEW s \in SegmentStates, NEW f \in FlowStates,
         NEW a \in 1 .. Length(Other(d)), AckedTo(d, f, a),
         s.ack # None, ends[d].received # None, a <= s.ack, s.ack <= ends[d].received
  PROVE  AckedBy(d, s, f) = [f.acked EXCEPT ![d] = Number(Other(d), s.ack)]
<1> DEFINE o == Other(d)
<1>1. /\ o \in Ends /\ Other(o) = d /\ s.ack \in Nat /\ a \in Nat
      /\ ends[o].sent \in Nat /\ ends[o].acked \in Nat
      /\ ends[o].sent <= ends[o].acked + Window /\ ends[d].received \in 1 .. ends[o].sent
      /\ Window \in Nat /\ Length(o) \in Nat /\ ends[o].acked <= a
  BY Others, Figures, Constants DEF SegmentStates, AckedTo
<1>2. s.ack - a <= Window /\ a - s.ack <= Window
  BY <1>1
<1>3. Policy!Reaches(Number(o, s.ack), Number(o, a))
  BY <1>1, <1>2, Compared
<1>4. f.acked[d] # None => f.acked[d] = Number(o, a)
  BY DEF AckedTo
<1> QED BY <1>3, <1>4 DEF AckedBy

LEMMA FollowedWhenSent ==
  ASSUME EndsFit, NEW s, SentBy("out", s), NEW f \in FlowStates, NEW g, Follows("out", s, f, g),
         \A i \in Ends : AckFits(i, f) /\ FinFits(i, f), NEW i \in Ends
  PROVE  AckFits(i, g)' /\ FinFits(i, g)'
<1>1. /\ "out" \in Ends /\ "in" \in Ends /\ Other("out") = "in" /\ Other("in") = "out"
      /\ Ends = {"out", "in"}
  BY DEF Ends, Other
<1>2. /\ s \in SegmentStates /\ s.ack = ends["out"].received /\ Typed
      /\ s.first <= s.last /\ s.last <= Length("out")
  BY <1>1, SentIs DEF EndsFit, SentBy
<1>3. /\ \A j \in Ends : /\ ends'[j].received = ends[j].received /\ ends'[j].acked = ends[j].acked
                         /\ ends'[j].sent \in Nat /\ ends[j].sent \in Nat
                         /\ ends'[j].sent >= ends[j].sent /\ ends'[j].sent <= Length(j)
                         /\ Length(j) \in Nat
      /\ s.last <= ends'["out"].sent /\ ends'["in"].sent = ends["in"].sent
  <2>1. /\ ends'["in"] = ends["in"] /\ s.last <= ends'["out"].sent
        /\ ends'["out"].acked = ends["out"].acked /\ ends'["out"].received = ends["out"].received
        /\ ends'["out"].sent \in Nat /\ ends'["out"].sent >= ends["out"].sent
    BY <1>1, SentMoves DEF SentBy
  <2>2. \A j \in Ends : EndFits(j)'
    BY <1>1, SendKeepsEnds DEF EndsFit, SentBy
  <2>3. \A j \in Ends : ends'[j].sent <= Length(j)
    BY <2>2 DEF EndFits
  <2> QED BY <1>1, <2>1, <2>3, Figures
<1>4. path'["in"] = path["in"]
  BY <1>1, <1>2, SentOn DEF SentBy
<1>5. \A k \in 1 .. Len(path'["out"]) :
        (k \in 1 .. Len(path["out"]) /\ path'["out"][k] = path["out"][k]) \/ path'["out"][k] = s
  BY <1>1, <1>2, SentOn DEF SentBy
<1>6. AckFits("out", g)'
  <2>1. PICK a \in 1 .. Length("in") : AckedTo("out", f, a)
    BY <1>1 DEF AckFits
  <2>2. a \in Nat /\ a >= 1
    BY <1>1, Constants
  <2>3. CASE s.ack = None
    <3>1. g.acked = f.acked
      BY <2>3 DEF Follows, AckedBy
    <3>2. ASSUME NEW k \in 1 .. Len(path'["out"]), path'["out"][k].ack # None
          PROVE  path'["out"][k].ack <= a
      BY <1>5, <2>1, <2>3, <3>2 DEF AckedTo
    <3>3. AckedTo("out", g, a)'
      BY <1>1, <1>3, <2>1, <3>1, <3>2 DEF AckedTo
    <3> QED BY <1>1, <2>1, <3>3 DEF AckFits
  <2>4. CASE s.ack # None
    <3>0. PICK b \in Nat : b = ends["out"].received
      BY <1>1, <1>2, <2>4, Figures
    <3>1. /\ b = s.ack /\ b \in Nat /\ b \in 1 .. ends["in"].sent /\ ends["in"].sent <= Length("in")
          /\ ends["in"].sent \in Nat /\ Length("in") \in Nat /\ ends["in"].acked \in Nat
      BY <1>1, <1>2, <2>4, <3>0, Figures DEF SegmentStates
    <3>2. a <= b
      BY <2>1, <2>2, <2>4, <1>2, <3>0, <3>1 DEF AckedTo
    <3>3. g.acked = [f.acked EXCEPT !["out"] = Number("in", b)]
      <4>1. AckedBy("out", s, f) = [f.acked EXCEPT !["out"] = Number("in", s.ack)]
        BY <1>1, <1>2, <2>1, <2>4, <3>0, <3>1, <3>2, Noticed
      <4> QED BY <3>1, <4>1 DEF Follows
    <3>4. g.acked["out"] = Number("in", b)
      BY <1>1, <3>3 DEF FlowStates
    <3>5. ASSUME NEW k \in 1 .. Len(path'["out"]), path'["out"][k].ack # None
          PROVE  path'["out"][k].ack <= b
      <4>1. CASE path'["out"][k] = s
        BY <3>1, <4>1
      <4>2. CASE k \in 1 .. Len(path["out"]) /\ path'["out"][k] = path["out"][k]
        <5>1. path["out"][k].ack <= a /\ path["out"][k] \in SegmentStates
          BY <1>1, <2>1, <3>5, <4>2, OnPath DEF AckedTo
        <5> QED BY <2>2, <3>1, <3>2, <3>5, <4>2, <5>1 DEF SegmentStates
      <4> QED BY <1>5, <4>1, <4>2
    <3>6. ends'["in"].acked <= b /\ ends'["out"].received = b /\ b # None
      <4>1. ends["in"].acked <= a
        BY <1>1, <2>1 DEF AckedTo
      <4> QED BY <1>1, <1>2, <1>3, <2>2, <2>4, <3>0, <3>1, <3>2, <4>1
    <3>7. AckedTo("out", g, b)'
      <4>1. /\ g.acked["out"] = Number("in", b) /\ ends'["out"].received # None
            /\ b <= ends'["out"].received /\ ends'["in"].acked <= b
            /\ \A k \in 1 .. Len(path'["out"]) : path'["out"][k].ack # None => path'["out"][k].ack <= b
        BY <3>0, <3>4, <3>5, <3>6
      <4> QED BY <1>1, <4>1, NumberIs DEF AckedTo
    <3>8. b \in 1 .. Length("in")
      BY <3>1
    <3> QED BY <1>1, <3>7, <3>8 DEF AckFits
  <2> QED BY <2>3, <2>4
<1>7. AckFits("in", g)'
  <2>1. PICK a \in 1 .. Length("out") : AckedTo("in", f, a)
    BY <1>1 DEF AckFits
  <2>2. g.acked["in"] = f.acked["in"]
    BY <1>1 DEF Follows, AckedBy, FlowStates
  <2>3. AckedTo("in", g, a)'
    BY <1>1, <1>3, <1>4, <2>1, <2>2 DEF AckedTo
  <2> QED BY <1>1, <2>1, <2>3 DEF AckFits
<1>8. FinFits("out", g)'
  <2>1. FinFits("out", f) /\ f.fin \in [Ends -> Nat \cup {None}]
    BY <1>1 DEF FlowStates
  <2>2. CASE s.last = Length("out") /\ s.first < s.last
    <3>1. g.fin["out"] = Number("out", Length("out"))
      BY <1>1, <2>1, <2>2 DEF Follows, FinBy, FinFits
    <3>2. ends'["out"].sent = Length("out")
      BY <1>1, <1>3, <2>2
    <3> QED BY <1>1, <3>1, <3>2, NumberIs, Constants DEF FinFits
  <2>3. CASE ~(s.last = Length("out") /\ s.first < s.last)
    <3>1. g.fin = f.fin
      BY <2>3 DEF Follows, FinBy
    <3>2. s.first < s.last => s.last < Length("out")
      BY <1>1, <1>2, <2>3, Constants DEF SegmentStates
    <3>3. ends["out"].sent = Length("out") => ends'["out"].sent = Length("out")
      BY <1>1, <1>3
    <3> QED BY <1>1, <1>3, <1>5, <2>1, <3>1, <3>2, <3>3 DEF FinFits
  <2> QED BY <2>2, <2>3
<1>9. FinFits("in", g)'
  <2>1. FinFits("in", f) /\ g.fin["in"] = f.fin["in"]
    BY <1>1 DEF Follows, FinBy, FlowStates
  <2> QED BY <1>1, <1>3, <2>1 DEF FinFits
<1> QED BY <1>1, <1>6, <1>7, <1>8, <1>9

LEMMA FollowedWhenArrived ==
  ASSUME EndsFit, NEW e, ArrivesAt("in", e), NEW f \in FlowStates, NEW g,
         Follows("in", path["in"][1], f, g),
         \A i \in Ends : AckFits(i, f) /\ FinFits(i, f), NEW i \in Ends
  PROVE  AckFits(i, g)' /\ FinFits(i, g)'
<1> DEFINE x == ends["out"]
           y == ends["in"]
           s == path["in"][1]
<1>1. /\ "out" \in Ends /\ "in" \in Ends /\ Other("out") = "in" /\ Other("in") = "out"
      /\ Ends = {"out", "in"}
  BY DEF Ends, Other
<1>2. /\ s \in SegmentStates /\ SegmentFits("in", s)
      /\ Len(path["in"]) \in Nat \ {0} /\ path'["out"] = path["out"]
      /\ \A j \in 1 .. Len(path'["in"]) :
           /\ j + 1 \in 1 .. Len(path["in"]) /\ path'["in"][j] = path["in"][j + 1]
           /\ path["in"][j + 1] \in SegmentStates /\ Later(s, path["in"][j + 1])
  BY <1>1, HeadIs DEF ArrivesAt
<1>3. 1 \in 1 .. Len(path["in"])
  BY <1>2
<1>4. /\ ends'["out"] = e /\ ends'["in"] = y
      /\ e \in EndStates /\ e.sent = x.sent /\ e.acked >= x.acked
      /\ e.acked = x.acked \/ (s.ack # None /\ e.acked = s.ack)
      /\ \/ e.received = x.received
         \/ ~s.rst /\ x.received = None /\ s.last = 1 /\ e.received = 1
         \/ /\ ~s.rst /\ x.received # None /\ s.ack # None
            /\ s.first <= x.received /\ x.received < s.last /\ e.received = s.last
  BY <1>1, ArrivedIs
<1>5. /\ x.sent \in Nat /\ x.acked \in Nat /\ x.received \in Nat \cup {None}
      /\ y.sent \in Nat /\ y.sent <= Length("in") /\ y.acked \in Nat
      /\ y.received # None => y.received \in 1 .. x.sent
      /\ x.sent <= Length("out")
      /\ e.acked \in Nat /\ e.received \in Nat \cup {None}
      /\ s.first \in Nat /\ s.last \in Nat /\ s.ack \in Nat \cup {None}
      /\ \A j \in Ends : Length(j) \in Nat /\ Length(j) >= 2
      /\ None \notin Nat
  BY <1>1, <1>2, <1>4, Figures, Constants DEF SegmentStates, EndStates
<1>6. /\ s.first <= s.last /\ s.last <= y.sent
      /\ s.ack # None => y.received # None /\ s.ack \in 1 .. y.received
  BY <1>1, <1>2 DEF SegmentFits
<1>7. AckFits("in", g)'
  <2>1. PICK a \in 1 .. Length("out") : AckedTo("in", f, a)
    BY <1>1 DEF AckFits
  <2>2. a \in Nat /\ a >= 1 /\ x.acked <= a
    BY <1>1, <1>5, <2>1 DEF AckedTo
  <2>3. CASE s.ack = None
    <3>1. g.acked = f.acked
      BY <2>3 DEF Follows, AckedBy
    <3>2. f.acked["in"] = None
      BY <1>3, <2>1, <2>3 DEF AckedTo
    <3>3. AckedTo("in", g, a)'
      BY <1>1, <1>4, <2>1, <2>2, <2>3, <3>1, <3>2 DEF AckedTo
    <3> QED BY <1>1, <2>1, <3>3 DEF AckFits
  <2>4. CASE s.ack # None
    <3>1. s.ack \in Nat /\ s.ack <= y.received /\ y.received \in Nat /\ s.ack >= 1 /\ y.received # None
          /\ s.ack <= Length("out")
      BY <1>1, <1>5, <1>6, <2>4
    <3>2. a <= s.ack
      BY <1>1, <1>3, <2>1, <2>2, <2>4, <3>1 DEF AckedTo
    <3>3. g.acked = [f.acked EXCEPT !["in"] = Number("out", s.ack)]
      <4>1. AckedBy("in", s, f) = [f.acked EXCEPT !["in"] = Number("out", s.ack)]
        BY <1>1, <1>2, <2>1, <2>4, <3>1, <3>2, Noticed
      <4> QED BY <4>1 DEF Follows
    <3>4. g.acked["in"] = Number("out", s.ack)
      BY <1>1, <3>3 DEF FlowStates
    <3>5. ASSUME NEW k \in 1 .. Len(path'["in"])
          PROVE  path'["in"][k].ack # None /\ s.ack <= path'["in"][k].ack
      BY <1>2, <2>4, <3>5 DEF Later
    <3>6. ends'["out"].acked <= s.ack
      BY <1>4, <1>5, <2>2, <3>1, <3>2
    <3>0. PICK b \in Nat : b = s.ack
      BY <3>1
    <3>7. /\ g.acked["in"] = Number("out", b) /\ ends'["in"].received # None /\ b <= ends'["in"].received
          /\ ends'["out"].acked <= b /\ b \in Nat /\ b \in 1 .. Length("out")
          /\ \A k \in 1 .. Len(path'["in"]) : path'["in"][k].ack # None /\ b <= path'["in"][k].ack
      BY <1>1, <1>4, <1>5, <3>0, <3>1, <3>4, <3>5, <3>6
    <3>8. AckedTo("in", g, b)'
      BY <1>1, <3>7, NumberIs DEF AckedTo
    <3> QED BY <1>1, <3>7, <3>8 DEF AckFits
  <2> QED BY <2>3, <2>4
<1>8. AckFits("out", g)'
  <2>1. PICK a \in 1 .. Length("in") : AckedTo("out", f, a)
    BY <1>1 DEF AckFits
  <2>2. g.acked["out"] = f.acked["out"] /\ a \in Nat
    BY <1>1, <1>5 DEF Follows, AckedBy, FlowStates
  <2>3. x.received # None => e.received # None /\ x.received <= e.received
    BY <1>4, <1>5
  <2>4. f.acked["out"] # None => e.received # None /\ a <= e.received
    BY <1>5, <2>1, <2>2, <2>3 DEF AckedTo
  <2>5. AckedTo("out", g, a)'
    BY <1>1, <1>2, <1>4, <2>1, <2>2, <2>4 DEF AckedTo
  <2> QED BY <1>1, <2>1, <2>5 DEF AckFits
<1>9. FinFits("in", g)'
  <2>1. FinFits("in", f) /\ f.fin \in [Ends -> Nat \cup {None}]
    BY <1>1 DEF FlowStates
  <2>2. CASE s.last = Length("in") /\ s.first < s.last
    <3>1. g.fin["in"] = Number("in", Length("in"))
      BY <1>1, <2>1, <2>2 DEF Follows, FinBy, FinFits
    <3>2. ends'["in"].sent = Length("in")
      BY <1>1, <1>4, <1>5, <1>6, <2>2
    <3> QED BY <1>1, <3>1, <3>2, NumberIs, Constants DEF FinFits
  <2>3. CASE ~(s.last = Length("in") /\ s.first < s.last)
    <3>1. g.fin = f.fin
      BY <2>3 DEF Follows, FinBy
    <3>2. x.received # Length("in") => e.received # Length("in")
      BY <1>1, <1>4, <1>5, <2>3
    <3> QED BY <1>1, <1>4, <2>1, <3>1, <3>2 DEF FinFits
  <2> QED BY <2>2, <2>3
<1>10. FinFits("out", g)'
  <2>1. FinFits("out", f) /\ g.fin["out"] = f.fin["out"]
    BY <1>1 DEF Follows, FinBy, FlowStates
  <2> QED BY <1>1, <1>2, <1>4, <2>1 DEF FinFits
<1> QED BY <1>1, <1>7, <1>8, <1>9, <1>10

-----------------------------------------------------------------------------
(* The invariant is kept *)

\* If both ends of the stream have been acknowledged, both have been received.
LEMMA EndedIs ==
  ASSUME EndsFit', NEW g, BothEnded(g), \A i \in Ends : AckFits(i, g)' /\ FinFits(i, g)', NEW i \in Ends
  PROVE  ends'[i].received = Length(Other(i))
<1> DEFINE o == Other(i)
           e == ends'[i]
           x == ends'[o]
<1>1. o \in Ends /\ Other(o) = i /\ Length(o) \in Nat /\ Length(o) >= 2 /\ Window \in Nat
  BY Others, Constants
<1>2. /\ x.sent \in Nat /\ x.acked \in Nat /\ x.sent <= x.acked + Window
      /\ e.received # None => e.received \in 1 .. x.sent
  <2>1. EndFits(o)' /\ Heard(o)' /\ x \in EndStates
    BY <1>1 DEF EndsFit, Typed
  <2> QED BY <1>1, <2>1 DEF EndFits, Heard, EndStates
<1>3. g.fin[o] # None /\ g.acked[i] # None /\ Policy!Reaches(g.acked[i], g.fin[o])
  BY <1>1, Others DEF BothEnded, Policy!FinAcked
<1>4. g.fin[o] = Number(o, Length(o)) /\ x.sent = Length(o)
  <2>1. FinFits(o, g)'
    BY <1>1
  <2> QED BY <1>3, <2>1 DEF FinFits
<1>5. PICK a \in 1 .. Length(o) : AckedTo(i, g, a)'
  <2>1. AckFits(i, g)'
    OBVIOUS
  <2> QED BY <2>1 DEF AckFits
<1>6. g.acked[i] = Number(o, a) /\ e.received # None /\ a <= e.received /\ x.acked <= a
  BY <1>3, <1>5 DEF AckedTo
<1>7. a \in Nat /\ a <= Length(o) /\ a - Length(o) <= Window /\ Length(o) - a <= Window
  BY <1>1, <1>2, <1>4, <1>6
<1>8. a >= Length(o)
  BY <1>1, <1>3, <1>4, <1>6, <1>7, Compared
<1> QED BY <1>1, <1>2, <1>4, <1>6, <1>7, <1>8

\* An end never forgets what it received.
Advances == \A i \in Ends : ends[i].received # None =>
              ends'[i].received # None /\ ends[i].received <= ends'[i].received

LEMMA StaysReceived ==
  ASSUME EndsFit, EndsFit', Advances, NEW i \in Ends, ends[i].received = Length(Other(i))
  PROVE  ends'[i].received = Length(Other(i))
<1> DEFINE o == Other(i)
<1>1. o \in Ends /\ Other(o) = i /\ Length(o) \in Nat /\ None \notin Nat
  BY Others, Constants
<1>2. ends'[i].received # None /\ Length(o) <= ends'[i].received
  BY <1>1 DEF Advances
<1>3. /\ ends'[o].sent \in Nat /\ ends'[o].sent <= Length(o)
      /\ ends'[i].received \in 1 .. ends'[o].sent
  <2>1. EndFits(o)' /\ Heard(o)' /\ ends'[o] \in EndStates
    BY <1>1 DEF EndsFit, Typed
  <2> QED BY <1>1, <1>2, <2>1 DEF EndFits, Heard, EndStates
<1> QED BY <1>1, <1>2, <1>3

LEMMA AdvancesWhenSent ==
  ASSUME EndsFit, NEW d \in Ends, NEW s, SentBy(d, s)
  PROVE  Advances /\ EndsFit'
<1>1. EndsFit'
  BY SendKeepsEnds DEF SentBy
<1>2. \A i \in Ends : ends'[i].received = ends[i].received
  BY SentMoves, Others DEF SentBy
<1>3. \A i \in Ends : ends[i].received \in Nat \cup {None}
  BY Figures
<1> QED BY <1>1, <1>2, <1>3 DEF Advances

LEMMA AdvancesWhenArrived ==
  ASSUME EndsFit, NEW d \in Ends, NEW e, ArrivesAt(d, e)
  PROVE  Advances /\ EndsFit'
<1> DEFINE o == Other(d)
           x == ends[o]
           s == path[d][1]
<1>1. EndsFit'
  BY ArriveKeepsEnds
<1>2. o \in Ends /\ Ends = {d, o} /\ s \in SegmentStates
  BY Others, HeadIs DEF ArrivesAt
<1>3. /\ ends'[o] = e /\ ends'[d] = ends[d]
      /\ \/ e.received = x.received
         \/ ~s.rst /\ x.received = None /\ s.last = 1 /\ e.received = 1
         \/ /\ ~s.rst /\ x.received # None /\ s.ack # None
            /\ s.first <= x.received /\ x.received < s.last /\ e.received = s.last
  BY ArrivedIs
<1>4. /\ \A i \in Ends : ends[i].received \in Nat \cup {None}
      /\ s.last \in Nat /\ None \notin Nat
  BY <1>2, Figures, Constants DEF SegmentStates
<1> QED BY <1>1, <1>2, <1>3, <1>4 DEF Advances

\* A flow that stays as it is, or follows a segment, if the ends and the path still fit it.
LEMMA Settled ==
  ASSUME EndsFit, EndsFit', Advances, TableFits, NEW f, FlowFits(f), NEW g, g \in FlowStates, g.established, g.replied,
         \A i \in Ends : AckFits(i, g)' /\ FinFits(i, g)',
         (g.closedAt = f.closedAt /\ (BothEnded(g) => f.closedAt # None)) \/ (BothEnded(g) /\ g.closedAt = now)
  PROVE  FlowFits(g)'
<1>1. ASSUME g.closedAt # None, NEW i \in Ends PROVE ends'[i].received = Length(Other(i))
  <2>1. CASE BothEnded(g)
    BY <2>1, EndedIs
  <2>2. CASE f.closedAt # None
    BY <2>2, StaysReceived DEF FlowFits
  <2> QED BY <1>1, <2>1, <2>2
<1>2. BothEnded(g) => g.closedAt # None
  BY Constants DEF TableFits
<1> QED BY <1>1, <1>2 DEF FlowFits

\* A flow of a connection that is young.
LEMMA Fresh ==
  ASSUME Young', NEW g \in FlowStates, ~g.established, Unmarked(g)
  PROVE  FlowFits(g)'
<1>1. ~BothEnded(g)
  BY DEF BothEnded, Policy!FinAcked, Unmarked, Ends
<1>2. g.closedAt = None
  BY DEF Unmarked
<1> QED BY <1>1, <1>2 DEF FlowFits, Unmarked

\* What is known of a flow that is followed.
LEMMA FollowsClosed ==
  ASSUME NEW d, NEW s, NEW f, NEW g, Follows(d, s, f, g)
  PROVE  (g.closedAt = f.closedAt /\ (BothEnded(g) => f.closedAt # None)) \/ (BothEnded(g) /\ g.closedAt = now)
BY DEF Follows

\* The table is left alone, or loses the flow.
Loses == /\ DOMAIN flows' \subseteq {Tuple} /\ flows' = [k \in DOMAIN flows' |-> flows'[k]]
         /\ Tuple \in DOMAIN flows' => Tuple \in DOMAIN flows /\ flows'[Tuple] = flows[Tuple]

LEMMA LosesSame == ASSUME TableFits, flows' = flows PROVE Loses
BY DEF TableFits, Loses

LEMMA TableKept ==
  ASSUME EndsFit, EndsFit', Advances, TableFits, Loses, now' = now,
         \A f, i : FlowFits(f) /\ i \in Ends => AckFits(i, f)' /\ FinFits(i, f)',
         Young => Young'
  PROVE  TableFits'
<1>1. ASSUME Tuple \in DOMAIN flows' PROVE FlowFits(flows[Tuple])'
  <2>1. PICK f : f = flows[Tuple] /\ f = flows'[Tuple] /\ FlowFits(f)
    BY <1>1 DEF Loses, TableFits
  <2>2. FlowFits(f)'
    <3>1. CASE f.established
      <4>1. \A i \in Ends : AckFits(i, f)' /\ FinFits(i, f)'
        BY <2>1
      <4> QED BY <2>1, <3>1, <4>1, Settled DEF FlowFits
    <3>2. CASE ~f.established
      BY <2>1, <3>2, Fresh DEF FlowFits
    <3> QED BY <3>1, <3>2
  <2> QED BY <2>1, <2>2
<1> QED BY <1>1 DEF TableFits, Loses

\* A segment that leaves this host passes.
LEMMA PassedOut ==
  ASSUME TrafficInv, NEW s, SentBy("out", s), Policy!Pass(Packet("out", s))
  PROVE  TrafficInv'
<1>1. /\ "out" \in Ends /\ Other("out") = "in" /\ EndsFit /\ TableFits
      /\ now' = now /\ now \in Nat
  BY DEF Ends, Other, TrafficInv, TableFits, Policy!Pass
<1>2. /\ s \in SegmentStates /\ (~s.rst /\ s.first = 0 => s.last = 1)
      /\ s.ack = ends["out"].received
  BY <1>1, SentIs DEF SentBy
<1>3. EndsFit' /\ Advances
  BY <1>1, AdvancesWhenSent
<1>4. CASE Policy!Open(Packet("out", s), Policy!Swept)
  <2>1. /\ s.last = 1 /\ s.ack = None
        /\ DOMAIN flows' = {Tuple} /\ flows' = [k \in DOMAIN flows' |-> flows'[k]]
        /\ flows'[Tuple] \in FlowStates /\ ~flows'[Tuple].established /\ Unmarked(flows'[Tuple])
    BY <1>1, <1>2, <1>4, OpenIs DEF Unmarked
  <2>2. Young
    <3>1. /\ ends["out"].received = None /\ ends["out"].sent \in Nat
          /\ ends["out"].sent <= 1
      <4>1. /\ ends["out"].sent \in Nat /\ ends["out"].acked \in Nat
            /\ ends["out"].acked > 0 => ends["out"].received # None
            /\ ends["out"].sent > 1 => ends["out"].acked > 0
        BY <1>1, Figures
      <4> QED BY <1>2, <2>1, <4>1
    <3> QED BY <1>1, <3>1, SilentIsYoung
  <2>3. Young'
    BY <1>1, <2>1, <2>2, YoungWhenSent
  <2>4. PICK g : g = flows'[Tuple]
    OBVIOUS
  <2>5. FlowFits(g)'
    BY <2>1, <2>3, <2>4, Fresh
  <2>6. FlowFits(flows[Tuple])'
    BY <2>4, <2>5
  <2> QED BY <1>1, <1>3, <2>1, <2>6 DEF TrafficInv, TableFits
<1>5. CASE Policy!Track(Packet("out", s), Policy!Swept)
  <2>1. /\ DOMAIN flows' \subseteq {Tuple} /\ flows' = [k \in DOMAIN flows' |-> flows'[k]]
        /\ Tuple \in DOMAIN flows' =>
             /\ Tuple \in DOMAIN flows
             /\ Waits(s, flows[Tuple], flows'[Tuple]) \/ Follows("out", s, flows[Tuple], flows'[Tuple])
    BY <1>1, <1>2, <1>5, TrackIs
  <2>2. ASSUME Tuple \in DOMAIN flows' PROVE FlowFits(flows[Tuple])'
    <3>1. PICK f, g : f = flows[Tuple] /\ g = flows'[Tuple]
      OBVIOUS
    <3>2. FlowFits(f) /\ f \in FlowStates /\ (Waits(s, f, g) \/ Follows("out", s, f, g))
      BY <1>1, <2>1, <2>2, <3>1 DEF TableFits, FlowFits
    <3>3. CASE Waits(s, f, g)
      <4>1. Young' /\ g \in FlowStates /\ ~g.established /\ Unmarked(g)
        BY <1>1, <3>2, <3>3, YoungWhenSent DEF Waits, FlowFits, Unmarked
      <4>2. FlowFits(g)'
        BY <4>1, Fresh
      <4> QED BY <3>1, <4>2
    <3>4. CASE Follows("out", s, f, g)
      <4>1. \A i \in Ends : AckFits(i, f) /\ FinFits(i, f)
        BY <1>1, <3>2, FitsAnyway
      <4>2. \A i \in Ends : AckFits(i, g)' /\ FinFits(i, g)'
        BY <1>1, <3>2, <3>4, <4>1, FollowedWhenSent
      <4>3. /\ (g.closedAt = f.closedAt /\ (BothEnded(g) => f.closedAt # None)) \/ (BothEnded(g) /\ g.closedAt = now)
            /\ g \in FlowStates /\ g.established /\ g.replied
        BY <3>4 DEF Follows
      <4>4. FlowFits(g)'
        BY <1>1, <1>3, <3>2, <4>2, <4>3, Settled
      <4> QED BY <3>1, <4>4
    <3> QED BY <3>2, <3>3, <3>4
  <2> QED BY <1>1, <1>3, <2>1, <2>2 DEF TrafficInv, TableFits
<1> QED BY <1>4, <1>5 DEF Policy!Pass

\* A segment that comes in passes, and is received.
LEMMA PassedIn ==
  ASSUME TrafficInv, NEW e, ArrivesAt("in", e), Policy!Pass(Packet("in", path["in"][1]))
  PROVE  TrafficInv'
<1> DEFINE s == path["in"][1]
<1>1. /\ "in" \in Ends /\ "out" \in Ends /\ Other("in") = "out" /\ EndsFit /\ TableFits
      /\ now' = now /\ now \in Nat
  BY DEF Ends, Other, TrafficInv, TableFits, Policy!Pass
<1>2. /\ s \in SegmentStates /\ (~s.rst /\ s.first = 0 => s.last = 1)
      /\ s.ack = None => Unanswered("out")
  <2>1. s \in SegmentStates /\ SegmentFits("in", s) /\ (s.ack = None => Unanswered("out"))
    BY <1>1, HeadIs DEF ArrivesAt
  <2> QED BY <2>1 DEF SegmentFits
<1>3. EndsFit' /\ Advances
  BY <1>1, AdvancesWhenArrived
<1>4. CASE Policy!Open(Packet("in", s), Policy!Swept)
  <2>1. /\ s.last = 1 /\ s.ack = None
        /\ DOMAIN flows' = {Tuple} /\ flows' = [k \in DOMAIN flows' |-> flows'[k]]
        /\ flows'[Tuple] \in FlowStates /\ ~flows'[Tuple].established /\ Unmarked(flows'[Tuple])
    BY <1>1, <1>2, <1>4, OpenIs DEF Unmarked
  <2>2. Young
    BY <1>1, <1>2, <2>1, SilentIsYoung DEF Unanswered
  <2>3. Young'
    BY <1>1, <2>1, <2>2, YoungWhenArrived
  <2>4. PICK g : g = flows'[Tuple]
    OBVIOUS
  <2>5. FlowFits(g)'
    BY <2>1, <2>3, <2>4, Fresh
  <2>6. FlowFits(flows[Tuple])'
    BY <2>4, <2>5
  <2> QED BY <1>1, <1>3, <2>1, <2>6 DEF TrafficInv, TableFits
<1>5. CASE Policy!Track(Packet("in", s), Policy!Swept)
  <2>1. /\ DOMAIN flows' \subseteq {Tuple} /\ flows' = [k \in DOMAIN flows' |-> flows'[k]]
        /\ Tuple \in DOMAIN flows' =>
             /\ Tuple \in DOMAIN flows
             /\ Waits(s, flows[Tuple], flows'[Tuple]) \/ Follows("in", s, flows[Tuple], flows'[Tuple])
    BY <1>1, <1>2, <1>5, TrackIs
  <2>2. ASSUME Tuple \in DOMAIN flows' PROVE FlowFits(flows[Tuple])'
    <3>1. PICK f, g : f = flows[Tuple] /\ g = flows'[Tuple]
      OBVIOUS
    <3>2. FlowFits(f) /\ f \in FlowStates /\ (Waits(s, f, g) \/ Follows("in", s, f, g))
      BY <1>1, <2>1, <2>2, <3>1 DEF TableFits, FlowFits
    <3>3. CASE Waits(s, f, g)
      <4>1. Young' /\ g \in FlowStates /\ ~g.established /\ Unmarked(g)
        BY <1>1, <3>2, <3>3, YoungWhenArrived DEF Waits, FlowFits, Unmarked
      <4>2. FlowFits(g)'
        BY <4>1, Fresh
      <4> QED BY <3>1, <4>2
    <3>4. CASE Follows("in", s, f, g)
      <4>1. \A i \in Ends : AckFits(i, f) /\ FinFits(i, f)
        BY <1>1, <3>2, FitsAnyway
      <4>2. \A i \in Ends : AckFits(i, g)' /\ FinFits(i, g)'
        BY <1>1, <3>2, <3>4, <4>1, FollowedWhenArrived
      <4>3. /\ (g.closedAt = f.closedAt /\ (BothEnded(g) => f.closedAt # None)) \/ (BothEnded(g) /\ g.closedAt = now)
            /\ g \in FlowStates /\ g.established /\ g.replied
        BY <3>4 DEF Follows
      <4>4. FlowFits(g)'
        BY <1>1, <1>3, <3>2, <4>2, <4>3, Settled
      <4> QED BY <3>1, <4>4
    <3> QED BY <3>2, <3>3, <3>4
  <2> QED BY <1>1, <1>3, <2>1, <2>2 DEF TrafficInv, TableFits
<1> QED BY <1>4, <1>5 DEF Policy!Pass

\* A segment is sent that the policy does not judge, or that goes no further.
LEMMA SentUnseen ==
  ASSUME TrafficInv, NEW d \in Ends, NEW s, SentBy(d, s), d = "out" => path' = path, Loses, now' = now
  PROVE  TrafficInv'
<1>1. EndsFit /\ TableFits /\ EndsFit' /\ Advances
  BY AdvancesWhenSent DEF TrafficInv
<1>2. \A f, i : FlowFits(f) /\ i \in Ends => AckFits(i, f)' /\ FinFits(i, f)'
  BY <1>1, FitsAnyway, KeptWhenSent
<1>3. Young => Young'
  BY <1>1, YoungWhenSent
<1> QED BY <1>1, <1>2, <1>3, TableKept DEF TrafficInv

\* A segment arrives that the policy does not judge, or that goes no further.
LEMMA ArrivedUnseen ==
  ASSUME TrafficInv, NEW d \in Ends, NEW e, ArrivesAt(d, e), d = "in" => e = ends[Other(d)], Loses, now' = now
  PROVE  TrafficInv'
<1>1. EndsFit /\ TableFits /\ EndsFit' /\ Advances
  BY AdvancesWhenArrived DEF TrafficInv
<1>2. \A f, i : FlowFits(f) /\ i \in Ends => AckFits(i, f)' /\ FinFits(i, f)'
  BY <1>1, FitsAnyway, KeptWhenArrived
<1>3. Young => Young'
  BY <1>1, YoungWhenArrived
<1> QED BY <1>1, <1>2, <1>3, TableKept DEF TrafficInv

LEMMA AbortedUnseen ==
  ASSUME TrafficInv, NEW d \in Ends, Aborts(d)
  PROVE  TrafficInv'
<1>1. /\ EndsFit /\ TableFits /\ flows' = flows /\ now' = now /\ path' = path
  BY DEF TrafficInv, Aborts, Unjudged
<1>2. /\ EndsFit' /\ \A i \in Ends : ends'[i].received = ends[i].received
  BY <1>1, AbortKeepsEnds
<1>3. Advances
  BY <1>1, <1>2, Figures DEF Advances
<1>4. Loses
  BY <1>1, LosesSame
<1>5. \A f, i : FlowFits(f) /\ i \in Ends => AckFits(i, f)' /\ FinFits(i, f)'
  BY <1>1, FitsAnyway, KeptWhenAborted
<1>6. Young => Young'
  BY <1>1, <1>2 DEF Young
<1> QED BY <1>1, <1>2, <1>3, <1>4, <1>5, <1>6, TableKept DEF TrafficInv

-----------------------------------------------------------------------------
(* The theorem *)

LEMMA TrafficInit == Init => TrafficInv
<1> SUFFICES ASSUME Init PROVE TrafficInv
  OBVIOUS
<1>1. /\ flows = [k \in {} |-> None] /\ now \in Nat
      /\ path = [i \in Ends |-> <<>>]
  BY DEF Init, Policy!Init, Policy!Times
<1>2. PICK d \in Ends : ends = [e \in Ends |-> End(IF e = d THEN "opening" ELSE "listening")]
  BY DEF Init
<1>3. \A i \in Ends : /\ ends[i].at \in {"opening", "listening"} /\ ends[i].sent = 0 /\ ends[i].acked = 0
                      /\ ends[i].received = None /\ ends[i] \in EndStates
  BY <1>2 DEF End, EndStates
<1>4. ends \in [Ends -> EndStates] /\ path \in [Ends -> Seq(SegmentStates)]
  BY <1>1, <1>2, <1>3, EmptySeq
<1>5. ASSUME NEW i \in Ends PROVE EndFits(i) /\ Heard(i) /\ PathFits(i)
  <2>1. EndFits(i) /\ Heard(i)
    BY <1>3, Others, Constants DEF EndFits, Heard
  <2>2. Len(path[i]) = 0
    BY <1>1
  <2>3. PathFits(i)
    BY <2>2 DEF PathFits
  <2> QED BY <2>1, <2>3
<1>6. TableFits
  BY <1>1 DEF TableFits
<1> QED BY <1>4, <1>5, <1>6 DEF TrafficInv, EndsFit, Typed

LEMMA TrafficStep == TrafficInv /\ [Next]_vars => TrafficInv'
<1> SUFFICES ASSUME TrafficInv, [Next]_vars PROVE TrafficInv'
  OBVIOUS
<1>1. CASE UNCHANGED vars
  <2>1. flows' = flows /\ now' = now /\ ends' = ends /\ path' = path
    BY <1>1 DEF vars
  <2>2. EndsFit'
    BY <2>1 DEF TrafficInv, EndsFit, Typed, EndFits, Heard, PathFits, SegmentFits, Unanswered
  <2>3. TableFits'
    BY <2>1 DEF TrafficInv, TableFits, FlowFits, AckFits, AckedTo, FinFits, Young
  <2> QED BY <2>2, <2>3 DEF TrafficInv
<1>2. ASSUME NEW d \in Ends, NEW s \in MaySend(d), Sends(d, s) PROVE TrafficInv'
  <2>1. SentBy(d, s)
    BY <1>2 DEF Sends, SentBy
  <2>2. CASE d = "out"
    BY <1>2, <2>1, <2>2, PassedOut DEF Sends
  <2>3. CASE d = "in"
    <3>1. Loses /\ now' = now
      BY <1>2, <2>3, LosesSame DEF Sends, Unjudged, TrafficInv
    <3> QED BY <2>1, <2>3, <3>1, SentUnseen
  <2> QED BY <2>2, <2>3 DEF Ends
<1>3. ASSUME NEW d \in Ends, NEW s \in MaySend(d), IsDropped(d, s) PROVE TrafficInv'
  <2>1. SentBy(d, s) /\ path' = path
    BY <1>3 DEF IsDropped, SentBy
  <2>2. CASE Unjudged
    <3>1. Loses /\ now' = now
      BY <2>2, LosesSame DEF Unjudged, TrafficInv
    <3> QED BY <2>1, <3>1, SentUnseen
  <2>3. CASE d = "out" /\ Policy!Pass(Packet(d, s))
    BY <2>1, <2>3, PassedOut
  <2>4. CASE d = "out" /\ Policy!Refuse(Packet(d, s))
    <3>1. s \in SegmentStates
      BY <1>3, SentIs DEF IsDropped, TrafficInv
    <3>2. Loses /\ now' = now
      BY <2>4, <3>1, RefuseIs DEF Loses, TrafficInv, Policy!Refuse
    <3> QED BY <2>1, <3>2, SentUnseen
  <2> QED BY <1>3, <2>2, <2>3, <2>4 DEF IsDropped
<1>4. ASSUME NEW d \in Ends, Arrives(d) PROVE TrafficInv'
  <2> DEFINE o == Other(d)
             s == path[d][1]
  <2>1. /\ EndsFit /\ TableFits /\ path[d] # <<>> /\ path' = [path EXCEPT ![d] = Tail(@)]
        /\ Head(path[d]) = s /\ s \in SegmentStates
    BY <1>4, HeadIs DEF Arrives, TrafficInv
  <2>2. CASE /\ IF d = "in" THEN Policy!Pass(Packet(d, s)) ELSE Unjudged
             /\ \E e \in Taken(ends[o], s) : ends' = [ends EXCEPT ![o] = e]
    <3>1. PICK e \in Taken(ends[o], s) : ends' = [ends EXCEPT ![o] = e]
      BY <2>2
    <3>2. ArrivesAt(d, e)
      BY <2>1, <3>1 DEF ArrivesAt
    <3>3. CASE d = "in"
      BY <2>2, <3>2, <3>3, PassedIn
    <3>4. CASE d = "out"
      <4>1. Loses /\ now' = now
        BY <2>1, <2>2, <3>4, LosesSame DEF Unjudged
      <4> QED BY <3>2, <3>4, <4>1, ArrivedUnseen
    <3> QED BY <3>3, <3>4 DEF Ends
  <2>3. CASE d = "in" /\ Policy!Refuse(Packet(d, s)) /\ UNCHANGED ends
    <3>1. Loses /\ now' = now
      BY <2>1, <2>3, RefuseIs DEF Loses, Policy!Refuse
    <3>2. ends' = [ends EXCEPT ![o] = ends[o]]
      BY <2>1, <2>3, Others DEF EndsFit, Typed
    <3>3. ArrivesAt(d, ends[o])
      BY <2>1, <3>2 DEF ArrivesAt
    <3> QED BY <3>1, <3>3, ArrivedUnseen
  <2> QED BY <1>4, <2>1, <2>2, <2>3 DEF Arrives
<1>5. ASSUME NEW d \in Ends, Aborts(d) PROVE TrafficInv'
  BY <1>5, AbortedUnseen
<1>6. CASE IsLost
  <2>1. /\ "in" \in Ends /\ Other("in") = "out" /\ EndsFit
        /\ path["in"] # <<>> /\ path' = [path EXCEPT !["in"] = Tail(@)] /\ ends' = ends
    BY <1>6 DEF IsLost, Ends, Other, TrafficInv
  <2>2. Head(path["in"]) = path["in"][1]
    BY <2>1, HeadIs
  <2>3. ends' = [ends EXCEPT !["out"] = ends["out"]]
    BY <2>1 DEF EndsFit, Typed
  <2>4. ArrivesAt("in", ends["out"])
    BY <2>1, <2>3 DEF ArrivesAt
  <2>5. Policy!Pass(Packet("in", path["in"][1]))
    BY <1>6, <2>2 DEF IsLost
  <2> QED BY <2>4, <2>5, PassedIn
<1> QED BY <1>1, <1>2, <1>3, <1>4, <1>5, <1>6 DEF Next

LEMMA TrafficImplies == TrafficInv => ClosedIsOver
<1> SUFFICES ASSUME TrafficInv PROVE ClosedIsOver
  OBVIOUS
<1>1. EndsFit /\ (Tuple \in DOMAIN flows => FlowFits(flows[Tuple]))
  BY DEF TrafficInv, TableFits
<1>2. IsClosed => \A d \in Ends : ends[d].received = Length(Other(d))
  BY <1>1 DEF IsClosed, FlowFits
<1>3. ASSUME \A d \in Ends : ends[d].acked = Length(d), Tuple \in DOMAIN flows PROVE IsClosed
  <2> DEFINE f == flows[Tuple]
  <2>1. FlowFits(f)
    BY <1>1, <1>3
  <2> HIDE DEF f
  <2>2. \A d \in Ends : /\ ends[d].received = Length(Other(d)) /\ Length(d) \in Nat /\ Length(d) >= 2
                        /\ Other(d) \in Ends
    <3> SUFFICES ASSUME NEW d \in Ends
                 PROVE  /\ ends[d].received = Length(Other(d)) /\ Length(d) \in Nat /\ Length(d) >= 2
                        /\ Other(d) \in Ends
      OBVIOUS
    <3>1. Other(d) \in Ends /\ Other(Other(d)) = d
      BY Others
    <3>2. ends[Other(d)].acked = Length(Other(d))
      BY <1>3, <3>1
    <3> QED BY <1>1, <3>1, <3>2, Figures
  <2>3. f.established
    <3>1. ~Young
      BY <2>2, Constants, Others DEF Young, Ends
    <3> QED BY <2>1, <3>1 DEF FlowFits
  <2>4. ASSUME NEW d \in Ends PROVE Policy!FinAcked(f, Other(d), d)
    <3> DEFINE o == Other(d)
    <3>1. o \in Ends /\ Other(o) = d /\ Length(o) \in Nat /\ Length(o) >= 2
      BY Others, <2>2
    <3>2. FinFits(o, f) /\ AckFits(d, f)
      BY <2>1, <2>3, <3>1 DEF FlowFits
    <3>3. f.fin[o] = Number(o, Length(o)) /\ f.fin[o] # None
      BY <2>2, <3>1, <3>2, NumberIs DEF FinFits
    <3>4. PICK a \in 1 .. Length(o) : AckedTo(d, f, a)
      BY <3>2 DEF AckFits
    <3>5. a = Length(o)
      <4>1. Length(o) <= a
        BY <1>3, <3>1, <3>4 DEF AckedTo
      <4> QED BY <3>1, <4>1
    <3>6. f.acked[d] # None /\ f.acked[d] = Number(o, Length(o))
      BY <3>1, <3>4, <3>5 DEF AckedTo
    <3>7. Policy!Reaches(Number(o, Length(o)), Number(o, Length(o)))
      BY <3>1, Constants, Compared
    <3> QED BY <3>3, <3>6, <3>7 DEF Policy!FinAcked
  <2>5. BothEnded(f)
    BY <2>4 DEF BothEnded, Ends, Other
  <2> QED BY <1>3, <2>1, <2>5 DEF FlowFits, IsClosed, f
<1> QED BY <1>2, <1>3 DEF ClosedIsOver

\* PacketPolicy.admit takes a connection for closed when both ends have received all the other
\* had to say, and not before, for whatever initial sequence numbers, lengths of the two streams
\* and windows below half of the sequence space, and whichever segments are lost and repeated.
THEOREM ClosedWhenOver == Spec => []ClosedIsOver
<1>1. Init => TrafficInv
  BY TrafficInit
<1>2. TrafficInv /\ [Next]_vars => TrafficInv'
  BY TrafficStep
<1>3. TrafficInv => ClosedIsOver
  BY TrafficImplies
<1> QED BY <1>1, <1>2, <1>3, PTL DEF Spec

=============================================================================
