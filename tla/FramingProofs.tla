--------------------------- MODULE FramingProofs ---------------------------
(***************************************************************************)
(* Proofs about Framing: of any packet that fits the buffer, cut in any    *)
(* way, with anything an earlier one can leave in front of it.             *)
(***************************************************************************)
EXTENDS Framing, SequenceTheorems, WellFoundedInduction, TLAPS

LEMMA FunctionIsSeq ==
    ASSUME NEW n \in Nat, NEW S, NEW f \in [1..n -> S]
    PROVE  f \in Seq(S) /\ Len(f) = n
  OBVIOUS

(* Induction, over a set. *)
LEMMA UpTo ==
    ASSUME NEW n \in Nat, NEW S, 0 \in S, \A k \in 0..(n - 1) : k \in S => k + 1 \in S
    PROVE  \A k \in 0..n : k \in S
<1> DEFINE T == (0..n) \ S
<1>1. SUFFICES ASSUME T # {} PROVE FALSE
  OBVIOUS
<1>2. IsWellFoundedOn(OpToRel(<, Nat), Nat)
  BY NatLessThanWellFounded
<1>3. PICK x \in T : \A y \in T : <<y, x>> \notin OpToRel(<, Nat)
  <2>1. T \subseteq Nat
    OBVIOUS
  <2> QED BY <1>1, <1>2, <2>1, WFMin
<1>4. \A y \in T : y \in Nat /\ ~(y < x)
  <2>1. \A y \in Nat : y < x => <<y, x>> \in OpToRel(<, Nat)
    BY <1>3 DEF OpToRel
  <2>2. T \subseteq Nat
    OBVIOUS
  <2> QED BY <1>3, <2>1, <2>2
<1>5. x \in 1..n /\ x - 1 \in 0..(n - 1) /\ (x - 1) + 1 = x
  <2>1. x \in 0..n /\ x # 0
    BY <1>3
  <2> QED BY <2>1
<1>6. x - 1 \in S
  <2>1. x - 1 \in 0..n /\ x - 1 < x
    BY <1>5
  <2> QED BY <1>4, <2>1
<1> QED BY <1>3, <1>5, <1>6

(* The loop of feed does what its rounds do, one after the other. *)
LEMMA FeedSteps ==
    ASSUME NEW chunk, Len(chunk) \in Nat
    PROVE  \E a : /\ a[0] = filter
                  /\ \A i \in 1..Len(chunk) : a[i] = Step(a[i - 1], chunk[i])
                  /\ Feed(chunk) = a[Len(chunk)]
<1> DEFINE n == Len(chunk)
           Runs(k, g) == g = [i \in 0..k |-> IF i = 0 THEN NextChunk(filter)
                                                      ELSE Step(g[i - 1], chunk[i])]
           S == {k \in 0..n : \E g : Runs(k, g)}
<1>1. 0 \in S
  <2> DEFINE g == [i \in {0} |-> NextChunk(filter)]
  <2>1. Runs(0, g)
    <3>1. 0..0 = {0}
      OBVIOUS
    <3> QED BY <3>1
  <2>2. 0 \in 0..n
    OBVIOUS
  <2> QED BY <2>1, <2>2
<1>2. \A k \in 0..(n - 1) : k \in S => k + 1 \in S
  <2> SUFFICES ASSUME NEW k \in 0..(n - 1), k \in S PROVE k + 1 \in S
    OBVIOUS
  <2>1. PICK g : Runs(k, g)
    OBVIOUS
  <2> DEFINE h == [i \in 0..(k + 1) |-> IF i = k + 1 THEN Step(g[k], chunk[k + 1]) ELSE g[i]]
  <2>2. \A i \in 0..(k + 1) :
           h[i] = IF i = 0 THEN NextChunk(filter) ELSE Step(h[i - 1], chunk[i])
    <3> SUFFICES ASSUME NEW i \in 0..(k + 1)
                 PROVE  h[i] = IF i = 0 THEN NextChunk(filter) ELSE Step(h[i - 1], chunk[i])
      OBVIOUS
    <3>1. CASE i = k + 1
      <4>1. i # 0 /\ i - 1 = k /\ k \in 0..(k + 1) /\ k # k + 1
        BY <3>1
      <4> QED BY <3>1, <4>1
    <3>2. CASE i # k + 1
      <4>1. i \in 0..k
        BY <3>2
      <4>2. i # 0 => i - 1 \in 0..(k + 1) /\ i - 1 # k + 1
        BY <4>1
      <4>3. g[i] = IF i = 0 THEN NextChunk(filter) ELSE Step(g[i - 1], chunk[i])
        BY <2>1, <4>1
      <4> QED BY <3>2, <4>2, <4>3
    <3> QED BY <3>1, <3>2
  <2>3. Runs(k + 1, h)
    <3> HIDE DEF h
    <3>1. h = [i \in 0..(k + 1) |-> h[i]]
      BY DEF h
    <3> QED BY <2>2, <3>1
  <2>4. k + 1 \in 0..n
    OBVIOUS
  <2> QED BY <2>3, <2>4
<1>3. PICK g : Runs(n, g)
  <2> HIDE DEF S
  <2>1. \A k \in 0..n : k \in S
    <3>1. n \in Nat
      OBVIOUS
    <3> HIDE DEF n
    <3> QED BY <1>1, <1>2, <3>1, UpTo
  <2>2. n \in 0..n
    OBVIOUS
  <2>3. n \in S
    BY <2>1, <2>2
  <2> QED BY <2>3 DEF S
<1>4. PICK a : Runs(n, a) /\ Feed(chunk) = a[n]
  BY <1>3 DEF Feed
<1>5. a[0] = filter
  BY <1>4 DEF NextChunk
<1>6. ASSUME NEW i \in 1..n PROVE a[i] = Step(a[i - 1], chunk[i])
  <2>1. i \in 0..n /\ i # 0
    OBVIOUS
  <2> QED BY <1>4, <2>1
<1> QED BY <1>4, <1>5, <1>6

-----------------------------------------------------------------------------
(* What FlattenSeq is made of. *)
LEMMA ConcatInRow ==
    ASSUME NEW S
    PROVE  \A x, y, z \in Seq(S) : (x \o y) \o z = x \o (y \o z)
  BY ConcatAssociative

LEMMA FlattenSteps ==
    ASSUME NEW S, NEW q \in Seq(Seq(S)), q # <<>>
    PROVE  \E f : /\ f[1] = q[1]
                  /\ \A i \in 2..Len(q) : f[i] = f[i - 1] \o q[i]
                  /\ \A i \in 1..Len(q) : f[i] \in Seq(S)
                  /\ FlattenSeq(q) = f[Len(q)]
<1> DEFINE n == Len(q)
           Runs(k, g) == g = [i \in 1..k |-> IF i = 1 THEN q[i] ELSE g[i - 1] \o q[i]]
           T == {k \in 0..n : \E g : Runs(k, g)}
<1>0. n \in Nat /\ n # 0 /\ \A i \in 1..n : q[i] \in Seq(S)
  BY LenProperties, EmptySeq, ElementOfSeq
<1> HIDE DEF n
<1>1. 0 \in T
  <2>1. Runs(0, [i \in 1..0 |-> IF i = 1 THEN q[i] ELSE <<>>])
    OBVIOUS
  <2>2. 0 \in 0..n
    BY <1>0
  <2> QED BY <2>1, <2>2
<1>2. \A k \in 0..(n - 1) : k \in T => k + 1 \in T
  <2> SUFFICES ASSUME NEW k \in 0..(n - 1), k \in T PROVE k + 1 \in T
    OBVIOUS
  <2>1. PICK g : Runs(k, g)
    OBVIOUS
  <2> DEFINE h == [i \in 1..(k + 1) |-> IF i = k + 1 THEN (IF i = 1 THEN q[i] ELSE g[k] \o q[i])
                                                     ELSE g[i]]
  <2>2. \A i \in 1..(k + 1) : h[i] = IF i = 1 THEN q[i] ELSE h[i - 1] \o q[i]
    <3> SUFFICES ASSUME NEW i \in 1..(k + 1)
                 PROVE  h[i] = IF i = 1 THEN q[i] ELSE h[i - 1] \o q[i]
      OBVIOUS
    <3>1. CASE i = k + 1
      <4>1. i # 1 => i - 1 = k /\ k \in 1..(k + 1) /\ k # k + 1
        BY <1>0, <3>1
      <4> QED BY <3>1, <4>1
    <3>2. CASE i # k + 1
      <4>1. i \in 1..k
        BY <1>0, <3>2
      <4>2. i # 1 => i - 1 \in 1..(k + 1) /\ i - 1 # k + 1
        BY <1>0, <4>1
      <4>3. g[i] = IF i = 1 THEN q[i] ELSE g[i - 1] \o q[i]
        BY <2>1, <4>1
      <4> QED BY <3>2, <4>2, <4>3
    <3> QED BY <3>1, <3>2
  <2>3. Runs(k + 1, h)
    <3> HIDE DEF h
    <3>1. h = [i \in 1..(k + 1) |-> h[i]]
      BY DEF h
    <3> QED BY <2>2, <3>1
  <2>4. k + 1 \in 0..n
    BY <1>0
  <2> QED BY <2>3, <2>4
<1>3. PICK g : Runs(n, g)
  <2> HIDE DEF T
  <2>1. \A k \in 0..n : k \in T
    BY <1>0, <1>1, <1>2, UpTo
  <2>2. n \in 0..n
    BY <1>0
  <2>3. n \in T
    BY <2>1, <2>2
  <2> QED BY <2>3 DEF T
<1>4. PICK f : Runs(n, f) /\ FlattenSeq(q) = f[n]
  BY <1>0, <1>3 DEF FlattenSeq, n
<1>5. f[1] = q[1]
  <2>1. 1 \in 1..n
    BY <1>0
  <2> QED BY <1>4, <2>1
<1>6. ASSUME NEW i \in 2..n PROVE f[i] = f[i - 1] \o q[i]
  <2>1. i \in 1..n /\ i # 1
    BY <1>0
  <2> QED BY <1>4, <2>1
<1>7. \A i \in 1..n : f[i] \in Seq(S)
  <2> DEFINE U == {k \in 0..(n - 1) : f[k + 1] \in Seq(S)}
  <2>1. 0 \in U
    BY <1>0, <1>5
  <2>2. \A k \in 0..((n - 1) - 1) : k \in U => k + 1 \in U
    <3> SUFFICES ASSUME NEW k \in 0..((n - 1) - 1), k \in U PROVE k + 1 \in U
      OBVIOUS
    <3>1. k + 2 \in 2..n /\ k + 2 \in 1..n /\ (k + 2) - 1 = k + 1 /\ k + 1 \in 0..(n - 1) /\ (k + 1) + 1 = k + 2
      BY <1>0
    <3>2. f[k + 2] = f[k + 1] \o q[k + 2]
      BY <1>6, <3>1
    <3>3. f[k + 1] \in Seq(S) /\ q[k + 2] \in Seq(S)
      BY <1>0, <3>1
    <3>4. f[k + 2] \in Seq(S)
      BY <3>2, <3>3, ConcatProperties
    <3> QED BY <3>1, <3>4
  <2> HIDE DEF U
  <2>3. \A k \in 0..(n - 1) : k \in U
    <3>1. n - 1 \in Nat
      BY <1>0
    <3> QED BY <2>1, <2>2, <3>1, UpTo
  <2>4. ASSUME NEW i \in 1..n PROVE f[i] \in Seq(S)
    <3>1. i - 1 \in 0..(n - 1) /\ (i - 1) + 1 = i
      BY <1>0
    <3>2. i - 1 \in U
      BY <2>3, <3>1
    <3> QED BY <3>1, <3>2 DEF U
  <2> QED BY <2>4
<1> QED BY <1>4, <1>5, <1>6, <1>7 DEF n

LEMMA FlattenType ==
    ASSUME NEW S, NEW q \in Seq(Seq(S))
    PROVE  FlattenSeq(q) \in Seq(S)
<1>1. CASE q = <<>>
  <2>1. FlattenSeq(q) = q
    BY <1>1, EmptySeq DEF FlattenSeq
  <2> QED BY <1>1, <2>1, EmptySeq
<1>2. CASE q # <<>>
  <2>1. Len(q) \in 1..Len(q)
    BY <1>2, LenProperties, EmptySeq
  <2> QED BY <1>2, <2>1, FlattenSteps
<1> QED BY <1>1, <1>2

(* What is first in the sequences is first in the result. *)
LEMMA FlattenFirst ==
    ASSUME NEW S, NEW q \in Seq(Seq(S)), q # <<>>
    PROVE  FlattenSeq(q) = q[1] \o FlattenSeq(Tail(q))
<1> DEFINE n == Len(q)
           t == Tail(q)
<1>0. n \in Nat /\ n # 0 /\ \A i \in 1..n : q[i] \in Seq(S)
  BY LenProperties, EmptySeq, ElementOfSeq
<1>1. /\ t \in Seq(Seq(S)) /\ Len(t) = n - 1
      /\ \A i \in 1..Len(t) : t[i] = q[i + 1]
  BY HeadTailProperties
<1> HIDE DEF n, t
<1>2. PICK f : /\ f[1] = q[1]
               /\ \A i \in 2..n : f[i] = f[i - 1] \o q[i]
               /\ \A i \in 1..n : f[i] \in Seq(S)
               /\ FlattenSeq(q) = f[n]
  BY FlattenSteps DEF n
<1>3. q[1] \in Seq(S)
  BY <1>0
<1>6. \A x, y, z \in Seq(S) : (x \o y) \o z = x \o (y \o z)
  BY ConcatAssociative, SMTT(30)
<1>4. CASE t = <<>>
  <2>1. n = 1
    BY <1>0, <1>1, <1>4, EmptySeq
  <2>2. FlattenSeq(t) = <<>>
    BY <1>4, EmptySeq DEF FlattenSeq
  <2> QED BY <1>2, <1>3, <2>1, <2>2, ConcatEmptySeq DEF t
<1>5. CASE t # <<>>
  <2>1. PICK g : /\ g[1] = t[1]
                 /\ \A i \in 2..Len(t) : g[i] = g[i - 1] \o t[i]
                 /\ \A i \in 1..Len(t) : g[i] \in Seq(S)
                 /\ FlattenSeq(t) = g[Len(t)]
    BY <1>1, <1>5, FlattenSteps
  <2>2. n >= 2
    BY <1>0, <1>1, <1>5, EmptySeq
  <2> DEFINE U == {k \in 0..(n - 2) : f[k + 2] = q[1] \o g[k + 1]}
  <2>3. 0 \in U
    <3>1. 2 \in 2..n /\ 1 \in 1..Len(t) /\ 0 \in 0..(n - 2)
      BY <1>0, <1>1, <2>2
    <3>2. 2 - 1 = 1 /\ 1 + 1 = 2 /\ 0 + 2 = 2 /\ 0 + 1 = 1
      OBVIOUS
    <3>3. f[2] = f[1] \o q[2]
      BY <1>2, <3>1, <3>2
    <3>4. t[1] = q[2]
      BY <1>1, <3>1, <3>2
    <3> QED BY <1>2, <2>1, <3>1, <3>2, <3>3, <3>4
  <2>4. \A k \in 0..((n - 2) - 1) : k \in U => k + 1 \in U
    <3> SUFFICES ASSUME NEW k \in 0..((n - 2) - 1), k \in U PROVE k + 1 \in U
      OBVIOUS
    <3>1. /\ k + 3 \in 2..n /\ (k + 3) - 1 = k + 2 /\ (k + 1) + 2 = k + 3 /\ k + 1 \in 0..(n - 2)
          /\ k + 2 \in 2..Len(t) /\ (k + 2) - 1 = k + 1 /\ k + 1 \in 1..Len(t) /\ k + 2 \in 1..Len(t)
          /\ (k + 1) + 1 = k + 2 /\ (k + 2) + 1 = k + 3 /\ k + 3 \in 1..n
      BY <1>0, <1>1, <2>2
    <3>2. f[k + 3] = f[k + 2] \o q[k + 3] /\ f[k + 2] = q[1] \o g[k + 1]
      BY <1>2, <3>1
    <3>3. g[k + 2] = g[k + 1] \o t[k + 2] /\ t[k + 2] = q[k + 3]
      BY <1>1, <2>1, <3>1
    <3>4. g[k + 1] \in Seq(S) /\ q[k + 3] \in Seq(S)
      BY <1>0, <2>1, <3>1
    <3>5. (q[1] \o g[k + 1]) \o q[k + 3] = q[1] \o (g[k + 1] \o q[k + 3])
      BY <1>3, <1>6, <3>4
    <3>6. f[k + 3] = q[1] \o g[k + 2]
      BY <3>2, <3>3, <3>5
    <3> QED BY <3>1, <3>6
  <2> HIDE DEF U
  <2>5. \A k \in 0..(n - 2) : k \in U
    <3>1. n - 2 \in Nat
      BY <1>0, <2>2
    <3> QED BY <2>3, <2>4, <3>1, UpTo
  <2>6. n - 2 \in U
    <3>1. n - 2 \in 0..(n - 2)
      BY <1>0, <2>2
    <3> QED BY <2>5, <3>1
  <2>7. f[n] = q[1] \o g[Len(t)]
    <3>1. (n - 2) + 2 = n /\ (n - 2) + 1 = Len(t)
      BY <1>0, <1>1
    <3> QED BY <2>6, <3>1 DEF U
  <2> QED BY <1>2, <2>1, <2>7 DEF t
<1> QED BY <1>4, <1>5

LEMMA FlattenLast ==
    ASSUME NEW S, NEW q \in Seq(Seq(S)), NEW e, q # <<>>, q[Len(q)] = <<e>>
    PROVE  /\ Len(FlattenSeq(q)) \in Nat /\ Len(FlattenSeq(q)) # 0
           /\ FlattenSeq(q)[Len(FlattenSeq(q))] = e
<1> DEFINE n == Len(q)
<1>0. n \in Nat /\ n # 0 /\ \A i \in 1..n : q[i] \in Seq(S)
  BY LenProperties, EmptySeq, ElementOfSeq
<1>1. PICK f : /\ f[1] = q[1]
               /\ \A i \in 2..n : f[i] = f[i - 1] \o q[i]
               /\ \A i \in 1..n : f[i] \in Seq(S)
               /\ FlattenSeq(q) = f[n]
  BY FlattenSteps
<1> HIDE DEF n
<1>2. CASE n = 1
  <2>1. FlattenSeq(q) = <<e>>
    BY <1>1, <1>2 DEF n
  <2> QED BY <2>1
<1>3. CASE n # 1
  <2>1. n \in 2..n /\ n - 1 \in 1..n /\ n \in 1..n
    BY <1>0, <1>3
  <2>2. PICK a, b : a = f[n - 1] /\ b = q[n]
    OBVIOUS
  <2>3. a \in Seq(S) /\ b \in Seq(S) /\ f[n] = a \o b /\ b = <<e>>
    BY <1>0, <1>1, <2>1, <2>2 DEF n
  <2>4. /\ Len(a \o b) = Len(a) + Len(b) /\ Len(a) \in Nat
        /\ \A i \in 1..Len(a) + Len(b) : (a \o b)[i] = IF i <= Len(a) THEN a[i] ELSE b[i - Len(a)]
    BY <2>3, ConcatProperties, LenProperties
  <2>5. Len(b) = 1 /\ b[1] = e
    BY <2>3
  <2>6. (Len(a) + 1) - Len(a) = 1 /\ Len(a) + 1 \in 1..Len(a) + Len(b) /\ ~(Len(a) + 1 <= Len(a))
    BY <2>4, <2>5
  <2>7. (a \o b)[Len(a) + 1] = e
    BY <2>4, <2>5, <2>6
  <2> QED BY <1>1, <2>3, <2>4, <2>5, <2>7
<1> QED BY <1>2, <1>3

-----------------------------------------------------------------------------
(* The bytes of packets, and their checksums, whatever those are.          *)
Value == Nat \cup {DeviceCrc(p) % 256 : p \in Seq(Nat)} \cup {DeviceCrc(p) \div 256 : p \in Seq(Nat)}
             \cup {checksum_calc(p)[1] : p \in Seq(Nat)} \cup {checksum_calc(p)[2] : p \in Seq(Nat)}

Start(name) == IF name = "subway" THEN FBGN ELSE FSSTR

(* What a packet looks like. *)
Shape(name, p) ==
    /\ p \in Seq(Value)
    /\ Len(p) \in Nat /\ Len(p) >= 6
    /\ p[1] = Start(name)
    /\ name = "terminal" => p[Len(p)] = FEND

(* What the receiver goes by. *)
WellFormed(name, p) ==
    /\ Shape(name, p)
    /\ Len(p) <= BufferSize
    /\ name = "subway" => p[4] \in Nat /\ Len(p) = p[4] + 6
    /\ name = "terminal" =>
          /\ Len(p) >= 7 /\ p[3] = ADDR /\ p[4] = CODE
          /\ SubSeq(p, Len(p) - 2, Len(p) - 1) = checksum_calc(p)

LEMMA SubwayPacketIs ==
    ASSUME NEW data \in Seq(Byte)
    PROVE  /\ Shape("subway", SubwayPacket(data))
           /\ Len(data) <= MaxData => WellFormed("subway", SubwayPacket(data))
<1> DEFINE h == <<FBGN, 0, 2, Len(data)>>
           p == h \o data
           t == <<DeviceCrc(p) % 256, DeviceCrc(p) \div 256>>
           s == p \o t
<1>1. SubwayPacket(data) = s
  BY DEF SubwayPacket
<1>2. Len(data) \in Nat /\ data \in Seq(Nat)
  <2>1. Byte \subseteq Nat
    BY DEF Byte
  <2> QED BY <2>1, LenProperties, SeqMonotonic
<1>3. h \in Seq(Nat) /\ Len(h) = 4 /\ h[1] = FBGN /\ h[4] = Len(data)
  BY <1>2 DEF FBGN
<1> HIDE DEF h
<1>4. /\ p \in Seq(Nat) /\ Len(p) = 4 + Len(data)
      /\ \A i \in 1..4 + Len(data) : p[i] = IF i <= 4 THEN h[i] ELSE data[i - 4]
  <2>1. /\ h \o data \in Seq(Nat) /\ Len(h \o data) = Len(h) + Len(data)
        /\ \A i \in 1..Len(h) + Len(data) : (h \o data)[i] = IF i <= Len(h) THEN h[i] ELSE data[i - Len(h)]
    BY <1>2, <1>3, ConcatProperties
  <2> QED BY <1>3, <2>1
<1> HIDE DEF p
<1>5. p \in Seq(Value) /\ t \in Seq(Value) /\ Len(t) = 2
  <2>1. Nat \subseteq Value
    BY DEF Value
  <2>2. DeviceCrc(p) % 256 \in Value /\ DeviceCrc(p) \div 256 \in Value
    BY <1>4 DEF Value
  <2> QED BY <1>4, <2>1, <2>2, SeqMonotonic
<1> HIDE DEF t
<1>6. /\ s \in Seq(Value) /\ Len(s) = Len(p) + 2
      /\ \A i \in 1..Len(p) + 2 : s[i] = IF i <= Len(p) THEN p[i] ELSE t[i - Len(p)]
  <2>1. /\ p \o t \in Seq(Value) /\ Len(p \o t) = Len(p) + Len(t)
        /\ \A i \in 1..Len(p) + Len(t) : (p \o t)[i] = IF i <= Len(p) THEN p[i] ELSE t[i - Len(p)]
    BY <1>5, ConcatProperties
  <2> QED BY <1>5, <2>1
<1> HIDE DEF s
<1>7. Len(s) = Len(data) + 6 /\ s[1] = FBGN /\ s[4] = Len(data)
  <2>1. /\ 1 \in 1..Len(p) + 2 /\ 1 <= Len(p) /\ 1 \in 1..4 + Len(data) /\ 1 <= 4
        /\ 4 \in 1..Len(p) + 2 /\ 4 <= Len(p) /\ 4 \in 1..4 + Len(data)
    BY <1>2, <1>4
  <2>2. s[1] = p[1] /\ s[4] = p[4] /\ p[1] = h[1] /\ p[4] = h[4]
    BY <1>4, <1>6, <2>1
  <2>3. Len(s) = Len(data) + 6
    BY <1>2, <1>4, <1>6
  <2> QED BY <1>3, <2>2, <2>3
<1>8. Shape("subway", s)
  BY <1>2, <1>6, <1>7 DEF Shape, Start
<1>9. Len(data) <= MaxData => Len(s) <= BufferSize
  BY <1>2, <1>7, FramingAssumption DEF Byte
<1> QED BY <1>1, <1>2, <1>7, <1>8, <1>9 DEF WellFormed

LEMMA ChecksumOf ==
    ASSUME NEW x, NEW y, SubSeq(x, 2, Len(x) - 3) = SubSeq(y, 2, Len(y) - 3)
    PROVE  checksum_calc(x) = checksum_calc(y)
<1> DEFINE Of(a) == LET sum == Total(a) % 65536 IN <<sum \div 256, sum % 256>>
<1>1. \A a, b : a = b => Of(a) = Of(b)
  OBVIOUS
<1>2. checksum_calc(x) = Of(SubSeq(x, 2, Len(x) - 3)) /\ checksum_calc(y) = Of(SubSeq(y, 2, Len(y) - 3))
  BY DEF checksum_calc
<1> HIDE DEF Of
<1> QED BY <1>1, <1>2

LEMMA TerminalPacketIs ==
    ASSUME NEW data \in Seq(Byte)
    PROVE  /\ Shape("terminal", TerminalPacket(data))
           /\ Len(data) <= MaxData => WellFormed("terminal", TerminalPacket(data))
<1> DEFINE h == <<FSSTR, FACK, ADDR, CODE>>
           p == h \o data
           z == p \o <<0, 0, FEND>>
           sum == checksum_calc(z)
           s == (p \o sum) \o <<FEND>>
<1>1. TerminalPacket(data) = s
  BY DEF TerminalPacket
<1>2. Len(data) \in Nat /\ data \in Seq(Nat)
  <2>1. Byte \subseteq Nat
    BY DEF Byte
  <2> QED BY <2>1, LenProperties, SeqMonotonic
<1>3. h \in Seq(Nat) /\ Len(h) = 4 /\ h[1] = FSSTR /\ h[3] = ADDR /\ h[4] = CODE
  BY DEF FSSTR, FACK, ADDR, CODE
<1> HIDE DEF h
<1>4. /\ p \in Seq(Nat) /\ Len(p) = 4 + Len(data)
      /\ \A i \in 1..4 + Len(data) : p[i] = IF i <= 4 THEN h[i] ELSE data[i - 4]
  <2>1. /\ h \o data \in Seq(Nat) /\ Len(h \o data) = Len(h) + Len(data)
        /\ \A i \in 1..Len(h) + Len(data) : (h \o data)[i] = IF i <= Len(h) THEN h[i] ELSE data[i - Len(h)]
    BY <1>2, <1>3, ConcatProperties
  <2> QED BY <1>3, <2>1
<1> HIDE DEF p
<1>5. /\ z \in Seq(Nat) /\ Len(z) = Len(p) + 3
      /\ \A i \in 1..Len(p) + 3 : i <= Len(p) => z[i] = p[i]
  <2>1. <<0, 0, FEND>> \in Seq(Nat) /\ Len(<<0, 0, FEND>>) = 3
    BY DEF FEND
  <2> QED BY <1>4, <2>1, ConcatProperties
<1> HIDE DEF z
<1>6. sum \in Seq(Value) /\ Len(sum) = 2
  <2>1. PICK a, b : sum = <<a, b>>
    BY DEF checksum_calc
  <2>2. a \in Value /\ b \in Value
    <3>1. sum[1] = a /\ sum[2] = b
      BY <2>1
    <3>2. sum[1] \in Value /\ sum[2] \in Value
      BY <1>5 DEF Value
    <3> QED BY <3>1, <3>2
  <2> QED BY <2>1, <2>2
<1> HIDE DEF sum
<1>7. Nat \subseteq Value /\ p \in Seq(Value) /\ FEND \in Value
  <2>1. Nat \subseteq Value
    BY DEF Value
  <2> QED BY <1>4, <2>1, SeqMonotonic DEF FEND
<1> DEFINE r == p \o sum
<1>8. /\ r \in Seq(Value) /\ Len(r) = Len(p) + 2
      /\ \A i \in 1..Len(p) + 2 : r[i] = IF i <= Len(p) THEN p[i] ELSE sum[i - Len(p)]
  <2>1. /\ p \o sum \in Seq(Value) /\ Len(p \o sum) = Len(p) + Len(sum)
        /\ \A i \in 1..Len(p) + Len(sum) : (p \o sum)[i] = IF i <= Len(p) THEN p[i] ELSE sum[i - Len(p)]
    BY <1>6, <1>7, ConcatProperties
  <2> QED BY <1>6, <2>1
<1> HIDE DEF r
<1>9. /\ s \in Seq(Value) /\ Len(s) = Len(r) + 1
      /\ \A i \in 1..Len(r) + 1 : s[i] = IF i <= Len(r) THEN r[i] ELSE <<FEND>>[i - Len(r)]
  <2>1. s = r \o <<FEND>>
    BY DEF r
  <2>2. PICK e : e = <<FEND>>
    OBVIOUS
  <2>4. e \in Seq(Value) /\ Len(e) = 1
    BY <1>7, <2>2
  <2>3. /\ r \o e \in Seq(Value) /\ Len(r \o e) = Len(r) + Len(e)
        /\ \A i \in 1..Len(r) + Len(e) : (r \o e)[i] = IF i <= Len(r) THEN r[i] ELSE e[i - Len(r)]
    <3>1. r \in Seq(Value)
      BY <1>8
    <3> QED BY <2>4, <3>1, ConcatProperties
  <2> QED BY <2>1, <2>2, <2>3, <2>4
<1> HIDE DEF s
<1>10. /\ Len(s) = Len(data) + 7
       /\ \A i \in 1..Len(p) : s[i] = p[i]
       /\ \A i \in 1..2 : s[Len(p) + i] = sum[i]
       /\ s[Len(s)] = FEND
  <2>1. \A i \in 1..Len(p) : i \in 1..Len(r) + 1 /\ i <= Len(r) /\ i \in 1..Len(p) + 2
    BY <1>2, <1>4, <1>8
  <2>2. \A i \in 1..2 : /\ Len(p) + i \in 1..Len(r) + 1 /\ Len(p) + i <= Len(r)
                        /\ Len(p) + i \in 1..Len(p) + 2 /\ ~(Len(p) + i <= Len(p))
                        /\ (Len(p) + i) - Len(p) = i
    BY <1>2, <1>4, <1>8
  <2>3. Len(s) \in 1..Len(r) + 1 /\ ~(Len(s) <= Len(r)) /\ Len(s) - Len(r) = 1 /\ Len(s) = Len(data) + 7
    BY <1>2, <1>4, <1>8, <1>9
  <2>4. s[Len(s)] = <<FEND>>[1]
    BY <1>9, <2>3
  <2>5. \A i \in 1..Len(p) : s[i] = p[i]
    BY <1>8, <1>9, <2>1
  <2>6. \A i \in 1..2 : s[Len(p) + i] = sum[i]
    BY <1>8, <1>9, <2>2
  <2> QED BY <2>3, <2>4, <2>5, <2>6
<1>11. s[1] = FSSTR /\ s[3] = ADDR /\ s[4] = CODE
  <2>1. \A i \in 1..4 : i \in 1..Len(p) /\ i \in 1..4 + Len(data) /\ i <= 4
    BY <1>2, <1>4
  <2>2. \A i \in 1..4 : s[i] = h[i]
    BY <1>4, <1>10, <2>1
  <2> QED BY <1>3, <2>2
<1>12. Shape("terminal", s)
  BY <1>2, <1>9, <1>10, <1>11 DEF Shape, Start
<1>13. SubSeq(s, Len(s) - 2, Len(s) - 1) = checksum_calc(s)
  <2>1. SubSeq(s, 2, Len(s) - 3) = SubSeq(z, 2, Len(z) - 3)
    <3>1. Len(s) - 3 = Len(p) /\ Len(z) - 3 = Len(p) /\ Len(p) \in Nat
      BY <1>2, <1>4, <1>5, <1>10
    <3>2. \A i \in 2..Len(p) : s[i] = z[i] /\ s[i] \in Value
      <4>1. \A i \in 2..Len(p) : i \in 1..Len(p) /\ i \in 1..Len(p) + 3 /\ i \in 1..Len(s)
        BY <3>1, <1>9, <1>8
      <4>2. \A i \in 1..Len(s) : s[i] \in Value
        BY <1>9, ElementOfSeq
      <4>3. \A i \in 2..Len(p) : s[i] = p[i] /\ z[i] = p[i]
        BY <1>5, <1>10, <4>1, SMTT(20)
      <4> QED BY <4>1, <4>2, <4>3
    <3>3. \A i \in 2..Len(p) : z[i] \in Value
      BY <3>2
    <3>4. PICK n \in Nat : n = Len(p)
      BY <3>1
    <3>5. /\ SubSeq(s, 2, n) \in Seq(Value) /\ Len(SubSeq(s, 2, n)) = IF 2 <= n THEN n - 2 + 1 ELSE 0
          /\ \A i \in 1..(n - 2 + 1) : SubSeq(s, 2, n)[i] = s[2 + i - 1]
      BY <3>2, <3>4, SubSeqProperties
    <3>6. /\ SubSeq(z, 2, n) \in Seq(Value) /\ Len(SubSeq(z, 2, n)) = IF 2 <= n THEN n - 2 + 1 ELSE 0
          /\ \A i \in 1..(n - 2 + 1) : SubSeq(z, 2, n)[i] = z[2 + i - 1]
      BY <3>3, <3>4, SubSeqProperties
    <3>7. \A i \in 1..(n - 2 + 1) : 2 + i - 1 \in 2..n
      OBVIOUS
    <3>8. \A i \in 1..Len(SubSeq(s, 2, n)) : i \in 1..(n - 2 + 1)
      BY <3>5
    <3>9. SubSeq(s, 2, n) = SubSeq(z, 2, n)
      BY <3>2, <3>4, <3>5, <3>6, <3>7, <3>8, SeqEqual
    <3> QED BY <3>1, <3>4, <3>9
  <2>2. checksum_calc(s) = sum
    <3>1. checksum_calc(s) = checksum_calc(z)
      BY <2>1, ChecksumOf
    <3> QED BY <3>1 DEF sum
  <2>3. Len(s) - 2 = Len(p) + 1 /\ Len(s) - 1 = Len(p) + 2 /\ Len(p) \in Nat
    BY <1>2, <1>4, <1>10
  <2>4. PICK n \in Nat : n = Len(p)
    BY <2>3
  <2>5. \A i \in (n + 1)..(n + 2) : s[i] \in Value
    <3>1. \A i \in (n + 1)..(n + 2) : i \in 1..Len(s)
      BY <1>10, <2>3, <2>4
    <3> QED BY <1>9, <3>1, ElementOfSeq
  <2>6. /\ SubSeq(s, n + 1, n + 2) \in Seq(Value) /\ Len(SubSeq(s, n + 1, n + 2)) = 2
        /\ \A i \in 1..2 : SubSeq(s, n + 1, n + 2)[i] = s[n + 1 + i - 1]
    <3>1. n + 1 <= n + 2 /\ (n + 2) - (n + 1) + 1 = 2
      OBVIOUS
    <3> QED BY <2>5, <3>1, SubSeqProperties
  <2>7. \A i \in 1..2 : n + 1 + i - 1 = n + i
    OBVIOUS
  <2>8. SubSeq(s, n + 1, n + 2) = sum
    <3>1. PICK x : x = SubSeq(s, n + 1, n + 2)
      OBVIOUS
    <3>2. x \in Seq(Value) /\ Len(x) = 2 /\ \A i \in 1..2 : x[i] = sum[i]
      BY <1>10, <2>4, <2>6, <2>7, <3>1
    <3>3. \A i \in 1..Len(x) : x[i] = sum[i]
      BY <3>2
    <3> QED BY <1>6, <3>1, <3>2, <3>3, SeqEqual
  <2> QED BY <2>2, <2>3, <2>4, <2>8
<1>14. Len(data) <= MaxData => Len(s) <= BufferSize
  BY <1>2, <1>10, FramingAssumption DEF Byte
<1>15. Len(s) >= 7
  BY <1>2, <1>10
<1> QED BY <1>1, <1>11, <1>12, <1>13, <1>14, <1>15 DEF WellFormed

-----------------------------------------------------------------------------
(* A packet on the line, byte by byte: what stands for the i-th one, and   *)
(* what follows the first k.                                               *)
Code(name, p, i) ==
    IF i = 1 \/ (name = "terminal" /\ i = Len(p)) THEN <<p[i]>>
    ELSE IF name = "subway" THEN Escaped(p[i]) ELSE TerminalEscaped(p[i])

Rest(name, p, k) == FlattenSeq([i \in 1..(Len(p) - k) |-> Code(name, p, i + k)])

Stuffed(name, p) == IF name = "subway" THEN bytestaff(p) ELSE terminal_bytestaff(p)

LEMMA CodeType ==
    ASSUME NEW name, NEW p, Shape(name, p), NEW i \in 1..Len(p)
    PROVE  p[i] \in Value /\ Code(name, p, i) \in Seq(Value)
<1>1. p[i] \in Value
  BY ElementOfSeq DEF Shape
<1>2. \A c, d \in Value : <<c>> \in Seq(Value) /\ <<c, d>> \in Seq(Value)
  OBVIOUS
<1>3. FESC \in Value /\ TFBGN \in Value /\ TFESC \in Value /\ FMID \in Value
  BY DEF FESC, TFBGN, TFESC, FMID, Value
<1>4. Escaped(p[i]) \in Seq(Value)
  BY <1>1, <1>2, <1>3 DEF Escaped
<1>5. TerminalEscaped(p[i]) \in Seq(Value)
  BY <1>1, <1>2, <1>3 DEF TerminalEscaped
<1> QED BY <1>1, <1>2, <1>4, <1>5 DEF Code

LEMMA RestIs ==
    ASSUME NEW name \in {"subway", "terminal"}, NEW p, Shape(name, p)
    PROVE  /\ Rest(name, p, 0) = Stuffed(name, p)
           /\ \A k \in 0..Len(p) : Rest(name, p, k) \in Seq(Value)
           /\ \A k \in 0..(Len(p) - 1) : Rest(name, p, k) = Code(name, p, k + 1) \o Rest(name, p, k + 1)
           /\ Rest(name, p, Len(p)) = <<>>
<1> DEFINE q(k) == [i \in 1..(Len(p) - k) |-> Code(name, p, i + k)]
<1>0. Len(p) \in Nat /\ Len(p) # 0
  BY DEF Shape
<1>1. ASSUME NEW k \in 0..Len(p)
      PROVE  q(k) \in Seq(Seq(Value)) /\ Len(q(k)) = Len(p) - k
  <2>1. \A i \in 1..(Len(p) - k) : i + k \in 1..Len(p)
    BY <1>0
  <2>2. q(k) \in [1..(Len(p) - k) -> Seq(Value)]
    BY <2>1, CodeType
  <2>3. Len(p) - k \in Nat
    BY <1>0
  <2> HIDE DEF q
  <2> QED BY <2>2, <2>3, FunctionIsSeq
<1>2. Rest(name, p, 0) = Stuffed(name, p)
  <2>1. \A i \in 1..(Len(p) - 0) : i + 0 = i
    BY <1>0
  <2>2. 1..(Len(p) - 0) = 1..Len(p)
    BY <1>0
  <2>3. q(0) = [i \in 1..Len(p) |-> Code(name, p, i)]
    BY <2>1, <2>2
  <2>4. CASE name = "subway"
    <3>1. \A i \in 1..Len(p) : Code(name, p, i) = IF i = 1 THEN <<p[i]>> ELSE Escaped(p[i])
      BY <2>4 DEF Code
    <3>2. q(0) = [i \in 1..Len(p) |-> IF i = 1 THEN <<p[i]>> ELSE Escaped(p[i])]
      BY <2>3, <3>1
    <3> QED BY <2>4, <3>2 DEF Rest, Stuffed, bytestaff
  <2>5. CASE name = "terminal"
    <3>1. \A i \in 1..Len(p) :
             Code(name, p, i) = IF i \in {1, Len(p)} THEN <<p[i]>> ELSE TerminalEscaped(p[i])
      BY <2>5 DEF Code
    <3>2. q(0) = [i \in 1..Len(p) |-> IF i \in {1, Len(p)} THEN <<p[i]>> ELSE TerminalEscaped(p[i])]
      BY <2>3, <3>1
    <3> QED BY <2>5, <3>2 DEF Rest, Stuffed, terminal_bytestaff
  <2> QED BY <2>4, <2>5
<1>3. \A k \in 0..Len(p) : Rest(name, p, k) \in Seq(Value)
  BY <1>1, FlattenType DEF Rest
<1>4. ASSUME NEW k \in 0..(Len(p) - 1)
      PROVE  Rest(name, p, k) = Code(name, p, k + 1) \o Rest(name, p, k + 1)
  <2>0. k \in 0..Len(p) /\ k + 1 \in 0..Len(p) /\ Len(p) - k \in Nat /\ Len(p) - k # 0
        /\ Len(p) - (k + 1) = (Len(p) - k) - 1
    BY <1>0
  <2>1. PICK s, u : s = q(k) /\ u = q(k + 1)
    OBVIOUS
  <2>2. s \in Seq(Seq(Value)) /\ Len(s) = Len(p) - k /\ u \in Seq(Seq(Value)) /\ Len(u) = Len(p) - (k + 1)
    BY <1>1, <2>0, <2>1
  <2>7. \A i \in 1..(Len(p) - k) : s[i] = Code(name, p, i + k)
    BY <2>1, ZenonT(30)
  <2>8. \A i \in 1..(Len(p) - (k + 1)) : u[i] = Code(name, p, i + (k + 1))
    BY <2>1, ZenonT(30)
  <2> HIDE DEF q
  <2>3. s # <<>>
    BY <2>0, <2>2, EmptySeq
  <2>4. FlattenSeq(s) = s[1] \o FlattenSeq(Tail(s))
    BY <2>2, <2>3, FlattenFirst
  <2>5. s[1] = Code(name, p, k + 1)
    <3>1. 1 \in 1..(Len(p) - k) /\ 1 + k = k + 1
      <4>1. \A n \in Nat : \A j \in 0..(n - 1) : 1 \in 1..(n - j) /\ 1 + j = j + 1
        OBVIOUS
      <4> QED BY <1>0, <4>1
    <3> QED BY <2>7, <3>1
  <2>6. Tail(s) = u
    <3>1. PICK t : t = Tail(s)
      OBVIOUS
    <3>2. /\ t \in Seq(Seq(Value)) /\ Len(t) = Len(p) - (k + 1)
          /\ \A i \in 1..Len(t) : t[i] = s[i + 1]
      BY <2>0, <2>2, <2>3, <3>1, HeadTailProperties, Zenon
    <3>4. \A i \in 1..Len(t) : i \in 1..(Len(p) - (k + 1)) /\ i + 1 \in 1..(Len(p) - k)
                               /\ i + (k + 1) = (i + 1) + k
      <4>1. \A n \in Nat : \A j \in 0..(n - 1) : \A i \in 1..(n - (j + 1)) :
               i + 1 \in 1..(n - j) /\ i + (j + 1) = (i + 1) + j
        OBVIOUS
      <4>2. 1..Len(t) = 1..(Len(p) - (k + 1))
        BY <3>2
      <4> QED BY <1>0, <4>1, <4>2
    <3>5. \A i \in 1..Len(t) : t[i] = u[i]
      BY <2>7, <2>8, <3>2, <3>4
    <3>6. t = u
      BY <2>2, <3>2, <3>5, SeqEqual
    <3> QED BY <3>1, <3>6
  <2> QED BY <2>1, <2>4, <2>5, <2>6 DEF Rest, q
<1>5. Rest(name, p, Len(p)) = <<>>
  <2>1. PICK s : s = q(Len(p))
    OBVIOUS
  <2>2. s = <<>>
    <3>1. Len(p) \in 0..Len(p) /\ Len(p) - Len(p) = 0
      BY <1>0
    <3> QED BY <1>1, <2>1, <3>1, EmptySeq
  <2>3. FlattenSeq(s) = <<>>
    BY <2>2, EmptySeq DEF FlattenSeq
  <2> QED BY <2>1, <2>3 DEF Rest
<1> QED BY <1>2, <1>3, <1>4, <1>5

-----------------------------------------------------------------------------
(* The filter's type, and FilterOK of any filter. *)
Filter == [buffer : Seq(Value), waiting : BOOLEAN, escape : BOOLEAN, completed : BOOLEAN]

Sound(f) ==
    /\ f \in Filter
    /\ Len(f.buffer) <= BufferSize
    /\ f.waiting => f.buffer = <<>> /\ ~f.completed
    /\ f.completed => /\ protocol # "subway"
                      /\ f.buffer # <<>> /\ f.buffer[Len(f.buffer)] = FEND

LEMMA StoreIs ==
    ASSUME NEW f \in Filter, NEW bytes \in Seq(Value)
    PROVE  /\ Store(f, bytes) \in Filter
           /\ Len(Store(f, bytes).buffer) <= BufferSize
           /\ ~Store(f, bytes).waiting /\ ~Store(f, bytes).escape
           /\ Store(f, bytes).completed = f.completed
           /\ Len(f.buffer) + Len(bytes) <= BufferSize => Store(f, bytes).buffer = f.buffer \o bytes
<1>1. PICK b, s : b = f.buffer /\ s = b \o bytes
  OBVIOUS
<1>2. b \in Seq(Value)
  BY <1>1 DEF Filter
<1>3. s \in Seq(Value) /\ Len(s) = Len(b) + Len(bytes) /\ Len(s) \in Nat
  BY <1>1, <1>2, ConcatProperties, LenProperties
<1>4. PICK m \in Nat : m = Least(Len(s), BufferSize) /\ m <= Len(s) /\ m <= BufferSize
                       /\ (Len(s) <= BufferSize => m = Len(s))
  BY <1>3, FramingAssumption DEF Least
<1>5. SubSeq(s, 1, m) \in Seq(Value) /\ Len(SubSeq(s, 1, m)) <= BufferSize
  <2>1. \A i \in 1..m : i \in 1..Len(s)
    BY <1>3, <1>4
  <2>2. \A i \in 1..m : s[i] \in Value
    BY <1>3, <2>1, ElementOfSeq
  <2>3. SubSeq(s, 1, m) \in Seq(Value) /\ Len(SubSeq(s, 1, m)) = IF 1 <= m THEN m - 1 + 1 ELSE 0
    BY <2>2, SubSeqProperties
  <2> QED BY <1>4, <2>3
<1>6. Len(s) <= BufferSize => SubSeq(s, 1, m) = s
  BY <1>3, <1>4, SubSeqFull
<1>7. Store(f, bytes) = [f EXCEPT !.buffer = SubSeq(s, 1, m), !.waiting = FALSE, !.escape = FALSE]
  BY <1>1, <1>4 DEF Store
<1>8. PICK g : g = Store(f, bytes)
  OBVIOUS
<1>9. /\ g \in Filter /\ g.buffer = SubSeq(s, 1, m) /\ g.waiting = FALSE /\ g.escape = FALSE
      /\ g.completed = f.completed
  BY <1>5, <1>7, <1>8 DEF Filter
<1> QED BY <1>1, <1>3, <1>5, <1>6, <1>8, <1>9

(* A byte keeps a sound filter sound. *)
LEMMA StepSound ==
    ASSUME NEW f, Sound(f), NEW c \in Value
    PROVE  Sound(Step(f, c))
<1>0. f \in Filter /\ f.buffer \in Seq(Value) /\ Len(f.buffer) \in Nat /\ BufferSize \in Nat
  BY LenProperties, FramingAssumption DEF Sound, Filter
<1>1. FBGN \in Value /\ FESC \in Value /\ Nat \subseteq Value
  BY DEF FBGN, FESC, Value
<1>2. ASSUME ~f.completed, NEW bytes \in Seq(Value)
      PROVE  Sound(Store(f, bytes))
  BY <1>0, <1>2, StoreIs DEF Sound
<1>3. ASSUME NEW e \in BOOLEAN
      PROVE  Sound([f EXCEPT !.escape = e])
  <2>1. PICK g : g = [f EXCEPT !.escape = e]
    OBVIOUS
  <2>2. g \in Filter /\ g.buffer = f.buffer /\ g.waiting = f.waiting /\ g.completed = f.completed
    BY <1>0, <2>1 DEF Filter
  <2>3. Sound(g)
    BY <2>2 DEF Sound
  <2> QED BY <2>1, <2>3
<1>4. <<c>> \in Seq(Value) /\ <<FBGN>> \in Seq(Value) /\ <<FESC>> \in Seq(Value) /\ <<FESC, c>> \in Seq(Value)
  BY <1>1
(* The byte that ends a packet. *)
<1>5. ASSUME ~f.completed, ~Full(f), c = FEND, protocol # "subway"
      PROVE  Sound([Store(f, <<c>>) EXCEPT !.completed = TRUE])
  <2>1. PICK g, h : g = Store(f, <<c>>) /\ h = [g EXCEPT !.completed = TRUE]
    OBVIOUS
  <2>2. Len(f.buffer) + 1 <= BufferSize /\ Len(<<c>>) = 1
    BY <1>0, <1>5 DEF Full
  <2>3. g \in Filter /\ g.buffer = f.buffer \o <<c>> /\ ~g.waiting /\ Len(g.buffer) <= BufferSize
    BY <1>0, <1>4, <2>1, <2>2, StoreIs
  <2>4. h \in Filter /\ h.buffer = g.buffer /\ h.waiting = g.waiting
    BY <2>1, <2>3 DEF Filter
  <2>5. g.buffer = Append(f.buffer, c)
    BY <1>0, <2>3, AppendIsConcat
  <2>6. g.buffer # <<>> /\ g.buffer[Len(g.buffer)] = FEND
    BY <1>0, <1>5, <2>5, AppendProperties
  <2>7. Sound(h)
    BY <1>5, <2>3, <2>4, <2>6 DEF Sound
  <2> QED BY <2>1, <2>7
<1>6. Sound(f)
  OBVIOUS
<1>7. CASE protocol = "subway"
  <2>1. ~f.completed
    BY <1>7 DEF Sound
  <2>2. Step(f, c) \in {f, [f EXCEPT !.escape = TRUE], Store(f, <<FBGN>>), Store(f, <<FESC>>),
                        Store(f, <<FESC, c>>), Store(f, <<c>>)}
    BY <1>7 DEF Step, SubwayStep
  <2> QED BY <1>2, <1>3, <1>4, <1>6, <2>1, <2>2
<1>8. CASE protocol # "subway"
  <2>1. Step(f, c) = TerminalStep(f, c)
    BY <1>8 DEF Step
  <2>2. CASE Full(f) \/ f.completed
    BY <1>6, <2>1, <2>2 DEF TerminalStep
  <2>3. CASE ~Full(f) /\ ~f.completed /\ ~f.escape /\ ~f.waiting /\ c = FEND
    <3>1. Step(f, c) = [Store(f, <<c>>) EXCEPT !.completed = TRUE]
      BY <2>1, <2>3 DEF TerminalStep
    <3> QED BY <1>5, <1>8, <2>3, <3>1
  <2>4. CASE ~Full(f) /\ ~f.completed /\ ~(~f.escape /\ ~f.waiting /\ c = FEND)
    <3>1. Step(f, c) \in {f, [f EXCEPT !.escape = TRUE], [f EXCEPT !.escape = FALSE], Store(f, <<c>>)}
      BY <2>1, <2>4 DEF TerminalStep
    <3> QED BY <1>2, <1>3, <1>4, <1>6, <2>4, <3>1
  <2> QED BY <2>2, <2>3, <2>4
<1> QED BY <1>7, <1>8

(* So does a chunk. *)
LEMMA FeedSound ==
    ASSUME Sound(filter), NEW chunk \in Seq(Value)
    PROVE  Sound(Feed(chunk))
<1> DEFINE n == Len(chunk)
<1>1. n \in Nat /\ \A i \in 1..n : chunk[i] \in Value
  BY LenProperties, ElementOfSeq
<1>2. PICK a : /\ a[0] = filter
               /\ \A i \in 1..n : a[i] = Step(a[i - 1], chunk[i])
               /\ Feed(chunk) = a[n]
  BY <1>1, FeedSteps
<1> HIDE DEF n
<1> DEFINE S == {k \in 0..n : Sound(a[k])}
<1>3. 0 \in S
  BY <1>1, <1>2
<1>4. \A k \in 0..(n - 1) : k \in S => k + 1 \in S
  <2> SUFFICES ASSUME NEW k \in 0..(n - 1), k \in S PROVE k + 1 \in S
    OBVIOUS
  <2>1. k + 1 \in 1..n /\ (k + 1) - 1 = k /\ k + 1 \in 0..n
    BY <1>1
  <2>2. a[k + 1] = Step(a[k], chunk[k + 1]) /\ chunk[k + 1] \in Value
    BY <1>1, <1>2, <2>1
  <2>3. Sound(a[k + 1])
    BY <2>2, StepSound
  <2> QED BY <2>1, <2>3
<1> HIDE DEF S
<1>5. \A k \in 0..n : k \in S
  BY <1>1, <1>3, <1>4, UpTo
<1>6. n \in S
  <2>1. n \in 0..n
    BY <1>1
  <2> QED BY <1>5, <2>1
<1> QED BY <1>2, <1>6 DEF S

-----------------------------------------------------------------------------
(* Where the receiver is, of a packet that nothing precedes in which a     *)
(* packet could start: before it; with its first k bytes; or with the      *)
(* first half of what stands for the next.                                 *)
Mark(name) == IF name = "subway" THEN FESC ELSE FMID

Before(name, p, f, w) ==
    /\ f.waiting /\ f.buffer = <<>> /\ ~f.completed
    /\ \E l \in Seq(Value) :
          /\ w = l \o Rest(name, p, 0)
          /\ \A i \in 1..Len(l) : l[i] # Start(name)
          /\ (name = "terminal" /\ l # <<>>) => l[Len(l)] = FEND
          /\ f.escape => (name = "terminal" /\ l # <<>>)

Inside(name, p, f, w) ==
    \E k \in 1..Len(p) :
        /\ ~f.waiting /\ ~f.escape
        /\ f.buffer = SubSeq(p, 1, k)
        /\ f.completed <=> (name = "terminal" /\ k = Len(p))
        /\ w = Rest(name, p, k)

Between(name, p, f, w) ==
    \E k \in 1..(Len(p) - 1) :
        /\ ~f.waiting /\ f.escape /\ ~f.completed
        /\ f.buffer = SubSeq(p, 1, k)
        /\ \E c \in Value : /\ Code(name, p, k + 1) = <<Mark(name), c>>
                            /\ w = <<c>> \o Rest(name, p, k + 1)

At(name, p, f, w) == f \in Filter /\ (Before(name, p, f, w) \/ Inside(name, p, f, w) \/ Between(name, p, f, w))

(* The ways in which a byte is sent. *)
LEMMA CodeCases ==
    ASSUME NEW name \in {"subway", "terminal"}, NEW p, Shape(name, p), NEW i \in 2..Len(p)
    PROVE  /\ name = "subway" =>
                 \/ p[i] # FESC /\ Code(name, p, i) = <<p[i]>>
                 \/ p[i] = FBGN /\ Code(name, p, i) = <<FESC, TFBGN>>
                 \/ p[i] = FESC /\ Code(name, p, i) = <<FESC, TFESC>>
           /\ name = "terminal" =>
                 \/ i = Len(p) /\ p[i] = FEND /\ Code(name, p, i) = <<p[i]>>
                 \/ i # Len(p) /\ p[i] \notin {FEND, FMID} /\ Code(name, p, i) = <<p[i]>>
                 \/ i # Len(p) /\ Code(name, p, i) = <<FMID, p[i]>>
<1>1. i # 1 /\ Len(p) \in Nat
  BY DEF Shape
<1>2. CASE name = "subway"
  <2>1. Code(name, p, i) = Escaped(p[i])
    BY <1>1, <1>2 DEF Code
  <2> QED BY <1>2, <2>1 DEF Escaped, FBGN, FESC
<1>3. CASE name = "terminal" /\ i = Len(p)
  <2>1. Code(name, p, i) = <<p[i]>> /\ p[i] = FEND
    BY <1>3 DEF Code, Shape
  <2> QED BY <1>3, <2>1
<1>4. CASE name = "terminal" /\ i # Len(p)
  <2>1. Code(name, p, i) = TerminalEscaped(p[i])
    BY <1>1, <1>4 DEF Code
  <2> QED BY <1>4, <2>1 DEF TerminalEscaped
<1> QED BY <1>2, <1>3, <1>4

(* A prefix, one byte longer. *)
LEMMA PrefixGrows ==
    ASSUME NEW p \in Seq(Value), NEW k \in 0..(Len(p) - 1)
    PROVE  /\ SubSeq(p, 1, k) \in Seq(Value) /\ Len(SubSeq(p, 1, k)) = k
           /\ SubSeq(p, 1, k + 1) = SubSeq(p, 1, k) \o <<p[k + 1]>>
<1>1. Len(p) \in Nat /\ k \in Nat /\ k + 1 \in 1..Len(p) /\ k + 1 \in Nat /\ (k + 1) - 1 = k
  BY LenProperties
<1>2. \A i \in 1..k : p[i] \in Value
  <2>1. \A i \in 1..k : i \in 1..Len(p)
    BY <1>1
  <2> QED BY <2>1, ElementOfSeq
<1>3. SubSeq(p, 1, k) \in Seq(Value) /\ Len(SubSeq(p, 1, k)) = IF 1 <= k THEN k - 1 + 1 ELSE 0
  BY <1>1, <1>2, SubSeqProperties
<1>4. Len(SubSeq(p, 1, k)) = k
  BY <1>1, <1>3
<1>5. SubSeq(p, 1, k + 1) = SubSeq(p, 1, k) \o <<p[k + 1]>>
  <2>1. PICK n \in 1..Len(p) : n = k + 1
    BY <1>1
  <2>2. 1 \in 1..Len(p) /\ n \in 1..Len(p) /\ n - 1 = k
    BY <1>1, <2>1
  <2>3. SubSeq(p, 1, n) = SubSeq(p, 1, n - 1) \o <<p[n]>>
    BY <2>2, SubSeqRecursiveSecond
  <2> QED BY <2>1, <2>2, <2>3
<1> QED BY <1>3, <1>4, <1>5

(* The next byte of a packet is stored. *)
LEMMA StoreNext ==
    ASSUME NEW p \in Seq(Value), Len(p) <= BufferSize, NEW k \in 0..(Len(p) - 1),
           NEW f \in Filter, f.buffer = SubSeq(p, 1, k)
    PROVE  /\ ~Full(f)
           /\ LET g == Store(f, <<p[k + 1]>>)
              IN  /\ g \in Filter /\ g.buffer = SubSeq(p, 1, k + 1)
                  /\ ~g.waiting /\ ~g.escape /\ g.completed = f.completed
<1>1. Len(p) \in Nat /\ BufferSize \in Nat /\ k \in Nat /\ k + 1 <= BufferSize
  BY LenProperties, FramingAssumption
<1>2. SubSeq(p, 1, k) \in Seq(Value) /\ Len(f.buffer) = k /\ SubSeq(p, 1, k + 1) = SubSeq(p, 1, k) \o <<p[k + 1]>>
  BY PrefixGrows
<1>3. ~Full(f)
  BY <1>1, <1>2 DEF Full
<1>4. PICK b : b = <<p[k + 1]>>
  OBVIOUS
<1>5. b \in Seq(Value) /\ Len(b) = 1
  <2>1. k + 1 \in 1..Len(p)
    BY <1>1
  <2>2. p[k + 1] \in Value
    BY <2>1, ElementOfSeq
  <2> QED BY <1>4, <2>2
<1>6. PICK g : g = Store(f, b)
  OBVIOUS
<1>7. /\ g \in Filter /\ ~g.waiting /\ ~g.escape /\ g.completed = f.completed
      /\ Len(f.buffer) + Len(b) <= BufferSize => g.buffer = f.buffer \o b
  BY <1>5, <1>6, StoreIs
<1>8. Len(f.buffer) + Len(b) <= BufferSize
  BY <1>1, <1>2, <1>5
<1>9. g.buffer = SubSeq(p, 1, k + 1)
  BY <1>2, <1>4, <1>7, <1>8
<1> QED BY <1>3, <1>4, <1>6, <1>7, <1>9

(* The first byte of a sequence that begins with another. *)
LEMMA HeadOfConcat ==
    ASSUME NEW S, NEW l \in Seq(S), NEW r \in Seq(S), l # <<>>
    PROVE  /\ Head(l \o r) = l[1] /\ Tail(l \o r) = Tail(l) \o r
           /\ l[1] \in S /\ Tail(l) \in Seq(S)
<1>1. Len(l) \in Nat /\ Len(l) # 0 /\ Len(r) \in Nat /\ 1 \in 1..Len(l)
  <2>1. Len(l) \in Nat /\ Len(l) # 0 /\ Len(r) \in Nat
    BY LenProperties, EmptySeq
  <2> QED BY <2>1
<1>2. PICK u, t : u = l \o r /\ t = Tail(l)
  OBVIOUS
<1>3. /\ u \in Seq(S) /\ Len(u) = Len(l) + Len(r)
      /\ \A i \in 1..Len(l) + Len(r) : u[i] = IF i <= Len(l) THEN l[i] ELSE r[i - Len(l)]
  BY <1>2, ConcatProperties
<1>4. /\ t \in Seq(S) /\ Len(t) = Len(l) - 1
      /\ \A i \in 1..Len(t) : t[i] = l[i + 1]
  BY <1>2, HeadTailProperties
<1>5. u # <<>>
  <2>1. Len(u) # 0
    BY <1>1, <1>3
  <2> QED BY <2>1, EmptySeq
<1>6. Head(u) = l[1]
  <2>1. 1 \in 1..Len(l) + Len(r) /\ 1 <= Len(l)
    BY <1>1
  <2>2. u[1] = l[1]
    BY <1>3, <2>1
  <2> QED BY <1>3, <1>5, <2>2
<1>7. PICK v, x : v = Tail(u) /\ x = t \o r
  OBVIOUS
<1>8. /\ v \in Seq(S) /\ Len(v) = Len(u) - 1
      /\ \A i \in 1..Len(v) : v[i] = u[i + 1]
  BY <1>3, <1>5, <1>7, HeadTailProperties
<1>9. /\ x \in Seq(S) /\ Len(x) = Len(t) + Len(r)
      /\ \A i \in 1..Len(t) + Len(r) : x[i] = IF i <= Len(t) THEN t[i] ELSE r[i - Len(t)]
  BY <1>4, <1>7, ConcatProperties
<1>10. \A i \in 1..Len(v) : v[i] = x[i]
  <2> SUFFICES ASSUME NEW i \in 1..Len(v) PROVE v[i] = x[i]
    OBVIOUS
  <2>1. PICK m, n \in Nat : m = Len(l) /\ n = Len(r) /\ Len(u) = m + n /\ Len(t) = m - 1 /\ m # 0
                            /\ Len(v) = (m + n) - 1
    BY <1>1, <1>3, <1>4, <1>8
  <2>2. i \in 1..((m + n) - 1)
    BY <2>1
  <2>3. i + 1 \in 1..(m + n) /\ i \in 1..((m - 1) + n) /\ (i + 1) - m = i - (m - 1)
        /\ (i + 1 <= m <=> i <= m - 1) /\ (i <= m - 1 => i \in 1..(m - 1))
    BY <2>1, <2>2
  <2>4. v[i] = u[i + 1]
    BY <1>8
  <2>5. u[i + 1] = IF i + 1 <= m THEN l[i + 1] ELSE r[(i + 1) - m]
    BY <1>3, <2>1, <2>3
  <2>6. x[i] = IF i <= m - 1 THEN t[i] ELSE r[i - (m - 1)]
    BY <1>9, <2>1, <2>3
  <2>7. i <= m - 1 => t[i] = l[i + 1]
    BY <1>4, <2>1, <2>3
  <2> QED BY <2>3, <2>4, <2>5, <2>6, <2>7
<1>11. Len(v) = Len(x)
  <2>1. \A m, n \in Nat : (m + n) - 1 = (m - 1) + n
    OBVIOUS
  <2> QED BY <1>1, <1>3, <1>4, <1>8, <1>9, <2>1
<1>12. v = x
  BY <1>8, <1>9, <1>10, <1>11, SeqEqual
<1>13. l[1] \in S
  BY <1>1, ElementOfSeq
<1> QED BY <1>2, <1>4, <1>6, <1>7, <1>12, <1>13

LEMMA HeadOfOne ==
    ASSUME NEW S, NEW c \in S, NEW r \in Seq(S)
    PROVE  <<c>> \o r # <<>> /\ Head(<<c>> \o r) = c /\ Tail(<<c>> \o r) = r
<1>1. PICK l : l = <<c>>
  OBVIOUS
<1>2. l \in Seq(S) /\ Len(l) = 1 /\ l[1] = c /\ l # <<>>
  BY <1>1
<1>3. Head(l \o r) = l[1] /\ Tail(l \o r) = Tail(l) \o r
  BY <1>2, HeadOfConcat
<1>4. Tail(l) = <<>>
  <2>1. Tail(l) \in Seq(S) /\ Len(Tail(l)) = Len(l) - 1
    BY <1>2, HeadTailProperties
  <2>2. Len(Tail(l)) = 0
    BY <1>2, <2>1
  <2> QED BY <2>1, <2>2, EmptySeq
<1>5. <<>> \o r = r
  BY ConcatEmptySeq
<1>6. l \o r # <<>>
  <2>1. l \o r \in Seq(S) /\ Len(l \o r) = Len(l) + Len(r) /\ Len(r) \in Nat
    BY <1>2, ConcatProperties, LenProperties
  <2>2. Len(l \o r) # 0
    BY <1>2, <2>1
  <2> QED BY <2>1, <2>2, EmptySeq
<1> QED BY <1>1, <1>2, <1>3, <1>4, <1>5, <1>6

LEMMA HeadOfTwo ==
    ASSUME NEW S, NEW c \in S, NEW d \in S, NEW r \in Seq(S)
    PROVE  Head(<<c, d>> \o r) = c /\ Tail(<<c, d>> \o r) = <<d>> \o r
<1>1. PICK l : l = <<c, d>>
  OBVIOUS
<1>2. l \in Seq(S) /\ Len(l) = 2 /\ l[1] = c /\ l[2] = d /\ l # <<>>
  BY <1>1
<1>3. Head(l \o r) = l[1] /\ Tail(l \o r) = Tail(l) \o r
  BY <1>2, HeadOfConcat
<1>4. Tail(l) = <<d>>
  BY <1>1
<1> QED BY <1>1, <1>2, <1>3, <1>4

(* After the next byte of a packet, the receiver is inside it. *)
LEMMA Stored ==
    ASSUME NEW name, NEW p, WellFormed(name, p), NEW k \in 0..(Len(p) - 1),
           NEW f \in Filter, f.buffer = SubSeq(p, 1, k), ~f.completed,
           ~(name = "terminal" /\ k + 1 = Len(p))
    PROVE  At(name, p, Store(f, <<p[k + 1]>>), Rest(name, p, k + 1))
<1>1. p \in Seq(Value) /\ Len(p) \in Nat /\ Len(p) <= BufferSize
  BY DEF WellFormed, Shape
<1>2. PICK g : g = Store(f, <<p[k + 1]>>)
  OBVIOUS
<1>3. /\ g \in Filter /\ g.buffer = SubSeq(p, 1, k + 1)
      /\ ~g.waiting /\ ~g.escape /\ g.completed = f.completed
  BY <1>1, <1>2, StoreNext
<1>4. k + 1 \in 1..Len(p)
  BY <1>1
<1>5. Inside(name, p, g, Rest(name, p, k + 1))
  BY <1>3, <1>4 DEF Inside
<1> QED BY <1>2, <1>3, <1>5 DEF At

LEMMA StepBefore ==
    ASSUME protocol \in {"subway", "terminal"}, NEW p, WellFormed(protocol, p),
           NEW f \in Filter, NEW w \in Seq(Value), w # <<>>, Before(protocol, p, f, w)
    PROVE  At(protocol, p, Step(f, Head(w)), Tail(w))
<1>0. /\ Shape(protocol, p) /\ p \in Seq(Value) /\ Len(p) \in Nat /\ Len(p) >= 6
      /\ p[1] = Start(protocol)
  BY DEF WellFormed, Shape
<1>1. PICK l \in Seq(Value) :
         /\ w = l \o Rest(protocol, p, 0)
         /\ \A i \in 1..Len(l) : l[i] # Start(protocol)
         /\ (protocol = "terminal" /\ l # <<>>) => l[Len(l)] = FEND
         /\ f.escape => (protocol = "terminal" /\ l # <<>>)
  BY DEF Before
<1>2. f.waiting /\ f.buffer = <<>> /\ ~f.completed
  BY DEF Before
<1>3. ~Full(f)
  <2>1. Len(f.buffer) = 0 /\ BufferSize \in Nat /\ BufferSize >= 7
    <3>1. Len(f.buffer) = 0
      BY <1>2
    <3> QED BY <3>1, FramingAssumption DEF Byte
  <2> QED BY <2>1 DEF Full
<1>4. Rest(protocol, p, 0) \in Seq(Value) /\ Rest(protocol, p, 1) \in Seq(Value)
      /\ Rest(protocol, p, 0) = Code(protocol, p, 1) \o Rest(protocol, p, 1)
  <2>1. 0 \in 0..Len(p) /\ 1 \in 0..Len(p) /\ 0 \in 0..(Len(p) - 1) /\ 0 + 1 = 1
    BY <1>0
  <2>2. Rest(protocol, p, 0) \in Seq(Value) /\ Rest(protocol, p, 1) \in Seq(Value)
    BY <1>0, <2>1, RestIs
  <2>3. Rest(protocol, p, 0) = Code(protocol, p, 0 + 1) \o Rest(protocol, p, 0 + 1)
    BY <1>0, <2>1, RestIs
  <2> QED BY <2>1, <2>2, <2>3
<1>5. CASE l = <<>>
  <2>1. w = Rest(protocol, p, 0)
    BY <1>1, <1>4, <1>5, ConcatEmptySeq
  <2>2. Code(protocol, p, 1) = <<p[1]>>
    BY DEF Code
  <2>3. p[1] \in Value
    <3>1. 1 \in 1..Len(p)
      BY <1>0
    <3> QED BY <1>0, <3>1, ElementOfSeq
  <2>4. Head(w) = p[1] /\ Tail(w) = Rest(protocol, p, 1)
    <3>1. PICK x, r : x = p[1] /\ r = Rest(protocol, p, 1)
      OBVIOUS
    <3>2. w = <<x>> \o r /\ x \in Value /\ r \in Seq(Value)
      BY <1>4, <2>1, <2>2, <2>3, <3>1
    <3>3. Head(<<x>> \o r) = x /\ Tail(<<x>> \o r) = r
      BY <3>2, HeadOfOne
    <3> QED BY <3>1, <3>2, <3>3
  <2>5. ~f.escape
    BY <1>1, <1>5
  <2>6. Step(f, p[1]) = Store(f, <<p[1]>>)
    <3>1. CASE protocol = "subway"
      <4>1. p[1] = FBGN /\ p[1] # FESC
        BY <1>0, <3>1 DEF Start, FBGN, FESC
      <4> QED BY <1>3, <2>5, <3>1, <4>1 DEF Step, SubwayStep
    <3>2. CASE protocol = "terminal"
      <4>1. p[1] = FSSTR /\ p[1] # FMID
        BY <1>0, <3>2 DEF Start, FSSTR, FMID
      <4> QED BY <1>2, <1>3, <2>5, <3>2, <4>1 DEF Step, TerminalStep
    <3> QED BY <3>1, <3>2
  <2>7. f.buffer = SubSeq(p, 1, 0) /\ 0 \in 0..(Len(p) - 1) /\ 0 + 1 = 1 /\ 1 # Len(p)
    <3>1. 0 \in 0..(Len(p) - 1) /\ 1 # Len(p)
      <4>1. \A m \in Nat : m >= 6 => 0 \in 0..(m - 1) /\ 1 # m
        OBVIOUS
      <4> QED BY <1>0, <4>1
    <3>2. SubSeq(p, 1, 0) \in Seq(Value) /\ Len(SubSeq(p, 1, 0)) = 0
      BY <1>0, <3>1, PrefixGrows
    <3> QED BY <1>2, <3>1, <3>2, EmptySeq
  <2>8. At(protocol, p, Store(f, <<p[1]>>), Rest(protocol, p, 1))
    BY <1>2, <2>7, Stored
  <2> QED BY <2>4, <2>6, <2>8
<1>6. CASE l # <<>>
  <2>1. PICK c, t : c = l[1] /\ t = Tail(l)
    OBVIOUS
  <2>2. Head(w) = c /\ Tail(w) = t \o Rest(protocol, p, 0) /\ t \in Seq(Value) /\ c \in Value
    BY <1>1, <1>4, <1>6, <2>1, HeadOfConcat
  <2>3. Len(l) \in Nat /\ Len(l) # 0 /\ Len(t) = Len(l) - 1 /\ \A i \in 1..Len(t) : t[i] = l[i + 1]
    BY <1>6, <2>1, HeadTailProperties, LenProperties, EmptySeq
  <2>4. c # Start(protocol)
    <3>1. 1 \in 1..Len(l)
      BY <2>3
    <3> QED BY <1>1, <2>1, <3>1
  <2>5. \A i \in 1..Len(t) : t[i] # Start(protocol)
    <3>1. \A i \in 1..Len(t) : i + 1 \in 1..Len(l)
      BY <2>3
    <3> QED BY <1>1, <2>3, <3>1
  <2>6. protocol = "terminal" /\ t # <<>> => t[Len(t)] = FEND
    <3>1. ASSUME protocol = "terminal", t # <<>> PROVE t[Len(t)] = FEND
      <4>1. Len(t) # 0
        BY <2>2, <3>1, EmptySeq
      <4>2. Len(t) \in 1..Len(t) /\ Len(t) + 1 = Len(l)
        BY <2>3, <4>1
      <4>3. t[Len(t)] = l[Len(l)]
        BY <2>3, <4>2
      <4> QED BY <1>1, <1>6, <3>1, <4>3
    <3> QED BY <3>1
  <2>7. ASSUME NEW g \in Filter, g.waiting, g.buffer = <<>>, ~g.completed,
               g.escape => (protocol = "terminal" /\ t # <<>>)
        PROVE  At(protocol, p, g, Tail(w))
    <3>1. Before(protocol, p, g, Tail(w))
      BY <2>2, <2>5, <2>6, <2>7 DEF Before
    <3> QED BY <2>7, <3>1 DEF At
  <2>8. CASE protocol = "subway"
    <3>1. c # FBGN
      BY <2>4, <2>8 DEF Start
    <3>2. Step(f, c) = f
      BY <1>2, <2>8, <3>1 DEF Step, SubwayStep
    <3>3. ~f.escape
      BY <1>1, <2>8
    <3> QED BY <1>2, <2>2, <2>7, <3>2, <3>3
  <2>9. CASE protocol = "terminal"
    <3>1. c # FSSTR
      BY <2>4, <2>9 DEF Start
    <3>2. Step(f, c) = TerminalStep(f, c)
      BY <2>9 DEF Step
    <3>3. ASSUME NEW e \in BOOLEAN, e => t # <<>>
          PROVE  At(protocol, p, [f EXCEPT !.escape = e], Tail(w))
      <4>1. PICK g : g = [f EXCEPT !.escape = e]
        OBVIOUS
      <4>2. g \in Filter /\ g.waiting /\ g.buffer = <<>> /\ ~g.completed /\ g.escape = e
        BY <1>2, <4>1 DEF Filter
      <4>3. g.escape => (protocol = "terminal" /\ t # <<>>)
        BY <2>9, <3>3, <4>2
      <4>4. At(protocol, p, g, Tail(w))
        BY <2>7, <4>2, <4>3
      <4> QED BY <4>1, <4>4
    <3>4. CASE f.escape
      <4>1. Step(f, c) = [f EXCEPT !.escape = FALSE]
        BY <1>2, <1>3, <3>2, <3>4 DEF TerminalStep
      <4> QED BY <2>2, <3>3, <4>1
    <3>5. CASE ~f.escape /\ c = FMID
      <4>1. Step(f, c) = [f EXCEPT !.escape = TRUE]
        BY <1>2, <1>3, <3>2, <3>5 DEF TerminalStep
      <4>2. t # <<>>
        <5>1. SUFFICES ASSUME t = <<>> PROVE FALSE
          OBVIOUS
        <5>2. Len(t) = 0
          BY <5>1, EmptySeq
        <5>3. Len(l) = 1
          BY <2>3, <5>2
        <5>4. c = FEND
          BY <1>1, <1>6, <2>1, <2>9, <5>3
        <5> QED BY <3>5, <5>4 DEF FEND, FMID
      <4> QED BY <2>2, <3>3, <4>1, <4>2
    <3>6. CASE ~f.escape /\ c # FMID
      <4>1. Step(f, c) = f
        BY <1>2, <1>3, <3>1, <3>2, <3>6 DEF TerminalStep
      <4> QED BY <1>2, <2>2, <2>7, <3>6, <4>1
    <3> QED BY <3>4, <3>5, <3>6
  <2> QED BY <2>8, <2>9
<1> QED BY <1>5, <1>6

LEMMA StepInside ==
    ASSUME protocol \in {"subway", "terminal"}, NEW p, WellFormed(protocol, p),
           NEW f \in Filter, NEW w \in Seq(Value), w # <<>>, Inside(protocol, p, f, w)
    PROVE  At(protocol, p, Step(f, Head(w)), Tail(w))
<1>0. Shape(protocol, p) /\ p \in Seq(Value) /\ Len(p) \in Nat /\ Len(p) <= BufferSize
  BY DEF WellFormed, Shape
<1>1. PICK k \in 1..Len(p) :
         /\ ~f.waiting /\ ~f.escape
         /\ f.buffer = SubSeq(p, 1, k)
         /\ f.completed <=> (protocol = "terminal" /\ k = Len(p))
         /\ w = Rest(protocol, p, k)
  BY DEF Inside
<1>2. k # Len(p)
  BY <1>0, <1>1, RestIs
<1>3. ~f.completed
  BY <1>1, <1>2
<1>4. k \in 0..(Len(p) - 1) /\ k \in 1..(Len(p) - 1) /\ k + 1 \in 2..Len(p) /\ k + 1 \in 1..Len(p)
      /\ k + 1 \in 0..Len(p)
  BY <1>0, <1>2
<1>5. PICK r, x : r = Rest(protocol, p, k + 1) /\ x = p[k + 1]
  OBVIOUS
<1>6. w = Code(protocol, p, k + 1) \o r /\ r \in Seq(Value) /\ x \in Value
  <2>1. x \in Value
    BY <1>0, <1>4, <1>5, ElementOfSeq
  <2> QED BY <1>0, <1>1, <1>4, <1>5, <2>1, RestIs
<1>7. ~Full(f)
  BY <1>0, <1>1, <1>4, StoreNext
(* A byte that is sent as it is, and one that is escaped. *)
<1>8. ASSUME Code(protocol, p, k + 1) = <<x>>, Step(f, x) = Store(f, <<x>>),
             ~(protocol = "terminal" /\ k + 1 = Len(p))
      PROVE  At(protocol, p, Step(f, Head(w)), Tail(w))
  <2>1. Head(w) = x /\ Tail(w) = r
    BY <1>6, <1>8, HeadOfOne
  <2>2. At(protocol, p, Store(f, <<p[k + 1]>>), Rest(protocol, p, k + 1))
    BY <1>1, <1>3, <1>4, <1>8, Stored
  <2> QED BY <1>5, <1>8, <2>1, <2>2
<1>9. ASSUME NEW c \in Value, Code(protocol, p, k + 1) = <<Mark(protocol), c>>,
             Step(f, Mark(protocol)) = [f EXCEPT !.escape = TRUE]
      PROVE  At(protocol, p, Step(f, Head(w)), Tail(w))
  <2>1. Mark(protocol) \in Value
    BY DEF Mark, FESC, FMID, Value
  <2>2. Head(w) = Mark(protocol) /\ Tail(w) = <<c>> \o r
    <3>1. PICK m : m = Mark(protocol)
      OBVIOUS
    <3>2. w = <<m, c>> \o r /\ m \in Value
      BY <1>6, <1>9, <2>1, <3>1
    <3>3. Head(<<m, c>> \o r) = m /\ Tail(<<m, c>> \o r) = <<c>> \o r
      BY <1>6, <3>2, HeadOfTwo
    <3> QED BY <3>1, <3>2, <3>3
  <2>3. PICK g : g = [f EXCEPT !.escape = TRUE]
    OBVIOUS
  <2>4. g \in Filter /\ ~g.waiting /\ g.escape /\ ~g.completed /\ g.buffer = SubSeq(p, 1, k)
    BY <1>1, <1>3, <2>3 DEF Filter
  <2>5. Between(protocol, p, g, Tail(w))
    BY <1>4, <1>5, <1>9, <2>2, <2>4 DEF Between
  <2>6. At(protocol, p, g, Tail(w))
    BY <2>4, <2>5 DEF At
  <2> QED BY <1>9, <2>2, <2>3, <2>6
<1>10. CASE protocol = "subway"
  <2>1. \/ x # FESC /\ Code(protocol, p, k + 1) = <<x>>
        \/ x = FBGN /\ Code(protocol, p, k + 1) = <<FESC, TFBGN>>
        \/ x = FESC /\ Code(protocol, p, k + 1) = <<FESC, TFESC>>
    BY <1>0, <1>4, <1>5, <1>10, CodeCases
  <2>2. CASE x # FESC /\ Code(protocol, p, k + 1) = <<x>>
    <3>1. Step(f, x) = Store(f, <<x>>)
      BY <1>1, <1>7, <1>10, <2>2 DEF Step, SubwayStep
    <3> QED BY <1>8, <1>10, <2>2, <3>1
  <2>3. CASE \E c \in {TFBGN, TFESC} : Code(protocol, p, k + 1) = <<FESC, c>>
    <3>1. PICK c \in {TFBGN, TFESC} : Code(protocol, p, k + 1) = <<FESC, c>>
      BY <2>3
    <3>2. c \in Value /\ Mark(protocol) = FESC
      BY <1>10 DEF TFBGN, TFESC, Value, Mark
    <3>3. Step(f, FESC) = [f EXCEPT !.escape = TRUE]
      BY <1>1, <1>7, <1>10 DEF Step, SubwayStep
    <3> QED BY <1>9, <3>1, <3>2, <3>3
  <2> QED BY <2>1, <2>2, <2>3
<1>11. CASE protocol = "terminal"
  <2>0. Step(f, x) = TerminalStep(f, x) /\ Step(f, FMID) = TerminalStep(f, FMID)
    BY <1>11 DEF Step
  <2>1. \/ k + 1 = Len(p) /\ x = FEND /\ Code(protocol, p, k + 1) = <<x>>
        \/ k + 1 # Len(p) /\ x \notin {FEND, FMID} /\ Code(protocol, p, k + 1) = <<x>>
        \/ k + 1 # Len(p) /\ Code(protocol, p, k + 1) = <<FMID, x>>
    BY <1>0, <1>4, <1>5, <1>11, CodeCases
  <2>2. CASE k + 1 = Len(p) /\ x = FEND /\ Code(protocol, p, k + 1) = <<x>>
    <3>1. Head(w) = x /\ Tail(w) = r
      BY <1>6, <2>2, HeadOfOne
    <3>2. Step(f, x) = [Store(f, <<x>>) EXCEPT !.completed = TRUE]
      BY <1>1, <1>3, <1>7, <2>0, <2>2 DEF TerminalStep
    <3>3. PICK g : g = Store(f, <<x>>)
      OBVIOUS
    <3>4. g \in Filter /\ g.buffer = SubSeq(p, 1, k + 1) /\ ~g.waiting /\ ~g.escape
      BY <1>0, <1>1, <1>4, <1>5, <3>3, StoreNext
    <3>5. PICK h : h = [g EXCEPT !.completed = TRUE]
      OBVIOUS
    <3>6. h \in Filter /\ h.buffer = SubSeq(p, 1, k + 1) /\ ~h.waiting /\ ~h.escape /\ h.completed
      BY <3>4, <3>5 DEF Filter
    <3>7. Inside(protocol, p, h, r)
      BY <1>4, <1>5, <1>11, <2>2, <3>6 DEF Inside
    <3>8. At(protocol, p, h, r)
      BY <3>6, <3>7 DEF At
    <3> QED BY <3>1, <3>2, <3>3, <3>5, <3>8
  <2>3. CASE k + 1 # Len(p) /\ x \notin {FEND, FMID} /\ Code(protocol, p, k + 1) = <<x>>
    <3>1. Step(f, x) = Store(f, <<x>>)
      BY <1>1, <1>3, <1>7, <2>0, <2>3 DEF TerminalStep
    <3> QED BY <1>8, <2>3, <3>1
  <2>4. CASE k + 1 # Len(p) /\ Code(protocol, p, k + 1) = <<FMID, x>>
    <3>1. Step(f, FMID) = [f EXCEPT !.escape = TRUE]
      BY <1>1, <1>3, <1>7, <2>0 DEF TerminalStep, FMID, FEND
    <3>2. Mark(protocol) = FMID
      BY <1>11 DEF Mark
    <3> QED BY <1>6, <1>9, <2>4, <3>1, <3>2
  <2> QED BY <2>1, <2>2, <2>3, <2>4
<1> QED BY <1>10, <1>11

LEMMA StepBetween ==
    ASSUME protocol \in {"subway", "terminal"}, NEW p, WellFormed(protocol, p),
           NEW f \in Filter, NEW w \in Seq(Value), Between(protocol, p, f, w)
    PROVE  At(protocol, p, Step(f, Head(w)), Tail(w))
<1>0. Shape(protocol, p) /\ p \in Seq(Value) /\ Len(p) \in Nat /\ Len(p) <= BufferSize
  BY DEF WellFormed, Shape
<1>1. PICK k \in 1..(Len(p) - 1), c \in Value :
         /\ ~f.waiting /\ f.escape /\ ~f.completed
         /\ f.buffer = SubSeq(p, 1, k)
         /\ Code(protocol, p, k + 1) = <<Mark(protocol), c>>
         /\ w = <<c>> \o Rest(protocol, p, k + 1)
  BY DEF Between
<1>2. k \in 0..(Len(p) - 1) /\ k + 1 \in 2..Len(p) /\ k + 1 \in 0..Len(p)
  BY <1>0
<1>3. Head(w) = c /\ Tail(w) = Rest(protocol, p, k + 1)
  <2>1. PICK r : r = Rest(protocol, p, k + 1)
    OBVIOUS
  <2>2. r \in Seq(Value)
    BY <1>0, <1>2, <2>1, RestIs
  <2> QED BY <1>1, <2>1, <2>2, HeadOfOne
<1>4. ~Full(f)
  BY <1>0, <1>1, <1>2, StoreNext
<1>5. \A a, b, m : <<m, c>> # <<a>> /\ (<<m, c>> = <<a, b>> => c = b)
  OBVIOUS
<1>6. PICK x : x = p[k + 1]
  OBVIOUS
<1>7. CASE protocol = "subway"
  <2>1. \/ Code(protocol, p, k + 1) = <<x>>
        \/ x = FBGN /\ Code(protocol, p, k + 1) = <<FESC, TFBGN>>
        \/ x = FESC /\ Code(protocol, p, k + 1) = <<FESC, TFESC>>
    BY <1>0, <1>2, <1>6, <1>7, CodeCases
  <2>2. (x = FBGN /\ c = TFBGN) \/ (x = FESC /\ c = TFESC)
    <3>1. Code(protocol, p, k + 1) = <<FESC, c>>
      BY <1>1, <1>7 DEF Mark
    <3>2. <<FESC, c>> # <<x>>
      BY <1>5
    <3>3. \A a : <<FESC, c>> = <<FESC, a>> => c = a
      BY <1>5
    <3>4. Code(protocol, p, k + 1) # <<x>>
      BY <3>1, <3>2
    <3>5. Code(protocol, p, k + 1) = <<FESC, TFBGN>> => c = TFBGN
      BY <3>1, <3>3
    <3>6. Code(protocol, p, k + 1) = <<FESC, TFESC>> => c = TFESC
      BY <3>1, <3>3
    <3> QED BY <2>1, <3>4, <3>5, <3>6
  <2>3. Step(f, c) = Store(f, <<x>>)
    <3>1. Step(f, c) = Store(f, IF c = TFBGN THEN <<FBGN>> ELSE IF c = TFESC THEN <<FESC>> ELSE <<FESC, c>>)
      BY <1>1, <1>4, <1>7 DEF Step, SubwayStep
    <3>2. CASE x = FBGN /\ c = TFBGN
      BY <3>1, <3>2
    <3>3. CASE x = FESC /\ c = TFESC
      <4>1. c # TFBGN
        BY <3>3 DEF TFBGN, TFESC
      <4> QED BY <3>1, <3>3, <4>1
    <3> QED BY <2>2, <3>2, <3>3
  <2>4. At(protocol, p, Store(f, <<p[k + 1]>>), Rest(protocol, p, k + 1))
    BY <1>1, <1>2, <1>7, Stored
  <2> QED BY <1>3, <1>6, <2>3, <2>4
<1>8. CASE protocol = "terminal"
  <2>1. \/ Code(protocol, p, k + 1) = <<x>>
        \/ k + 1 # Len(p) /\ Code(protocol, p, k + 1) = <<FMID, x>>
    BY <1>0, <1>2, <1>6, <1>8, CodeCases
  <2>2. k + 1 # Len(p) /\ c = x
    BY <1>1, <1>5, <2>1
  <2>3. Step(f, c) = Store(f, <<x>>)
    BY <1>1, <1>4, <1>8, <2>2 DEF Step, TerminalStep
  <2>4. At(protocol, p, Store(f, <<p[k + 1]>>), Rest(protocol, p, k + 1))
    BY <1>1, <1>2, <2>2, Stored
  <2> QED BY <1>3, <1>6, <2>3, <2>4
<1> QED BY <1>7, <1>8

LEMMA StepAt ==
    ASSUME protocol \in {"subway", "terminal"}, NEW p, WellFormed(protocol, p),
           NEW f, NEW w \in Seq(Value), w # <<>>, At(protocol, p, f, w)
    PROVE  At(protocol, p, Step(f, Head(w)), Tail(w))
  BY StepBefore, StepInside, StepBetween DEF At

(* feed takes the bytes of a chunk from the line, one after the other. *)
LEMMA FeedAlong ==
    ASSUME NEW w \in Seq(Value), NEW n \in 1..Len(w)
    PROVE  \E a : /\ a[0] = filter /\ Feed(SubSeq(w, 1, n)) = a[n]
                  /\ \A k \in 0..(n - 1) :
                        LET v == SubSeq(w, k + 1, Len(w))
                        IN  /\ v \in Seq(Value) /\ v # <<>>
                            /\ a[k + 1] = Step(a[k], Head(v))
                            /\ Tail(v) = SubSeq(w, (k + 1) + 1, Len(w))
<1>1. Len(w) \in Nat /\ n \in Nat /\ \A i \in 1..n : i \in 1..Len(w) /\ w[i] \in Value
  <2>1. Len(w) \in Nat
    BY LenProperties
  <2>2. \A i \in 1..n : i \in 1..Len(w)
    BY <2>1
  <2> QED BY <2>1, <2>2, ElementOfSeq
<1>2. PICK chunk : chunk = SubSeq(w, 1, n)
  OBVIOUS
<1>3. Len(chunk) = n /\ \A i \in 1..n : chunk[i] = w[i]
  <2>1. /\ Len(SubSeq(w, 1, n)) = IF 1 <= n THEN n - 1 + 1 ELSE 0
        /\ \A i \in 1..n - 1 + 1 : SubSeq(w, 1, n)[i] = w[1 + i - 1]
    BY <1>1, SubSeqProperties
  <2>2. 1 <= n /\ n - 1 + 1 = n /\ \A i \in 1..n : 1 + i - 1 = i
    BY <1>1
  <2> QED BY <1>2, <2>1, <2>2
<1>4. PICK a : /\ a[0] = filter
               /\ \A i \in 1..n : a[i] = Step(a[i - 1], w[i])
               /\ Feed(chunk) = a[n]
  <2>1. PICK a : /\ a[0] = filter
                 /\ \A i \in 1..Len(chunk) : a[i] = Step(a[i - 1], chunk[i])
                 /\ Feed(chunk) = a[Len(chunk)]
    BY <1>1, <1>3, FeedSteps
  <2> QED BY <1>3, <2>1
<1>5. ASSUME NEW k \in 0..(n - 1), NEW v, v = SubSeq(w, k + 1, Len(w))
      PROVE  /\ v \in Seq(Value) /\ v # <<>>
             /\ a[k + 1] = Step(a[k], Head(v))
             /\ Tail(v) = SubSeq(w, (k + 1) + 1, Len(w))
  <2>1. k + 1 \in 1..n /\ (k + 1) - 1 = k /\ k + 1 \in 1..Len(w) /\ Len(w) \in (k + 1)..Len(w)
    BY <1>1
  <2>2. PICK m : v = SubSeq(w, m, Len(w)) /\ m = k + 1
    BY <1>5
  <2>3. m \in 1..Len(w) /\ Len(w) \in m..Len(w)
    BY <2>1, <2>2
  <2>4. Head(v) = w[m] /\ Tail(v) = SubSeq(w, m + 1, Len(w))
    BY <2>2, <2>3, HeadTailOfSubSeq
  <2>5. v \in Seq(Value) /\ v # <<>>
    <3>1. \A i \in m..Len(w) : i \in 1..Len(w)
      BY <1>1, <2>3
    <3>2. \A i \in m..Len(w) : w[i] \in Value
      BY <3>1, ElementOfSeq
    <3>3. v \in Seq(Value) /\ Len(v) = IF m <= Len(w) THEN Len(w) - m + 1 ELSE 0
      BY <1>1, <2>2, <2>3, <3>2, SubSeqProperties
    <3>4. Len(v) # 0
      BY <1>1, <2>3, <3>3
    <3> QED BY <3>3, <3>4, EmptySeq
  <2>6. a[k + 1] = Step(a[k], w[m])
    BY <1>4, <2>1, <2>2
  <2> QED BY <2>2, <2>4, <2>5, <2>6
<1>6. \A k \in 0..(n - 1) :
         LET v == SubSeq(w, k + 1, Len(w))
         IN  /\ v \in Seq(Value) /\ v # <<>>
             /\ a[k + 1] = Step(a[k], Head(v))
             /\ Tail(v) = SubSeq(w, (k + 1) + 1, Len(w))
  BY <1>5, Zenon
<1>7. a[0] = filter /\ Feed(SubSeq(w, 1, n)) = a[n]
  BY <1>2, <1>4
<1> QED BY <1>6, <1>7, Zenon

(* Wherever a chunk ends, the receiver is where the line is. *)
LEMMA FeedAt ==
    ASSUME protocol \in {"subway", "terminal"}, NEW p, WellFormed(protocol, p),
           NEW w \in Seq(Value), At(protocol, p, filter, w), NEW n \in 1..Len(w)
    PROVE  At(protocol, p, Feed(SubSeq(w, 1, n)), SubSeq(w, n + 1, Len(w)))
<1>1. n \in Nat /\ n \in 0..n
  <2>1. Len(w) \in Nat
    BY LenProperties
  <2> QED BY <2>1
<1>2. PICK a : /\ a[0] = filter /\ Feed(SubSeq(w, 1, n)) = a[n]
               /\ \A k \in 0..(n - 1) :
                     LET v == SubSeq(w, k + 1, Len(w))
                     IN  /\ v \in Seq(Value) /\ v # <<>>
                         /\ a[k + 1] = Step(a[k], Head(v))
                         /\ Tail(v) = SubSeq(w, (k + 1) + 1, Len(w))
  BY FeedAlong
<1> DEFINE S == {k \in 0..n : At(protocol, p, a[k], SubSeq(w, k + 1, Len(w)))}
<1>3. 0 \in S
  <2>1. SubSeq(w, 0 + 1, Len(w)) = w
    BY SubSeqFull
  <2>2. 0 \in 0..n
    BY <1>1
  <2> QED BY <1>2, <2>1, <2>2
<1>4. \A k \in 0..(n - 1) : k \in S => k + 1 \in S
  <2> SUFFICES ASSUME NEW k \in 0..(n - 1), k \in S PROVE k + 1 \in S
    OBVIOUS
  <2>1. PICK v : v = SubSeq(w, k + 1, Len(w))
    OBVIOUS
  <2>2. /\ v \in Seq(Value) /\ v # <<>>
        /\ a[k + 1] = Step(a[k], Head(v))
        /\ Tail(v) = SubSeq(w, (k + 1) + 1, Len(w))
    BY <1>2, <2>1
  <2>3. At(protocol, p, a[k], v)
    BY <2>1
  <2>4. At(protocol, p, a[k + 1], Tail(v))
    BY <2>2, <2>3, StepAt
  <2>5. k + 1 \in 0..n
    BY <1>1
  <2> QED BY <2>2, <2>4, <2>5
<1> HIDE DEF S
<1>5. \A k \in 0..n : k \in S
  BY <1>1, <1>3, <1>4, UpTo
<1> QED BY <1>1, <1>2, <1>5 DEF S

(* What the filter holds: the packet when the line is empty, a part of it  *)
(* when it is not.                                                         *)
LEMMA AtEnd ==
    ASSUME NEW name \in {"subway", "terminal"}, NEW p, Shape(name, p),
           NEW f, NEW w, At(name, p, f, w)
    PROVE  /\ w = <<>> => f.buffer = p /\ (name = "terminal" => f.completed)
           /\ w # <<>> => /\ ~f.completed
                          /\ \E k \in 0..(Len(p) - 1) : f.buffer = SubSeq(p, 1, k)
<1>0. p \in Seq(Value) /\ Len(p) \in Nat /\ Len(p) >= 6
  BY DEF Shape
<1>1. \A l, r \in Seq(Value) : l # <<>> => l \o r # <<>> /\ r \o l # <<>>
  <2> SUFFICES ASSUME NEW l \in Seq(Value), NEW r \in Seq(Value), l # <<>>
               PROVE  l \o r # <<>> /\ r \o l # <<>>
    OBVIOUS
  <2>1. Len(l) \in Nat /\ Len(r) \in Nat /\ Len(l) # 0
    BY LenProperties, EmptySeq
  <2>2. l \o r \in Seq(Value) /\ Len(l \o r) = Len(l) + Len(r)
    BY ConcatProperties
  <2>3. r \o l \in Seq(Value) /\ Len(r \o l) = Len(r) + Len(l)
    BY ConcatProperties
  <2>4. Len(l \o r) # 0 /\ Len(r \o l) # 0
    BY <2>1, <2>2, <2>3
  <2> QED BY <2>2, <2>3, <2>4, EmptySeq
<1>2. ASSUME NEW k \in 0..(Len(p) - 1) PROVE Rest(name, p, k) # <<>>
  <2>1. k + 1 \in 1..Len(p) /\ k + 1 \in 0..Len(p) /\ k + 1 # 1 => k + 1 \in 2..Len(p)
    BY <1>0
  <2>2. Code(name, p, k + 1) # <<>>
    BY DEF Code, Escaped, TerminalEscaped
  <2>3. Code(name, p, k + 1) \in Seq(Value) /\ Rest(name, p, k + 1) \in Seq(Value)
    <3>1. k + 1 \in 1..Len(p) /\ k + 1 \in 0..Len(p)
      BY <1>0
    <3> QED BY <3>1, CodeType, RestIs
  <2>4. Rest(name, p, k) = Code(name, p, k + 1) \o Rest(name, p, k + 1)
    BY RestIs
  <2> QED BY <1>1, <2>2, <2>3, <2>4
<1>3. CASE Before(name, p, f, w)
  <2>1. 0 \in 0..(Len(p) - 1) /\ 0 \in 0..Len(p)
    BY <1>0
  <2>2. PICK l \in Seq(Value) : w = l \o Rest(name, p, 0)
    BY <1>3 DEF Before
  <2>3. w # <<>>
    BY <1>1, <1>2, <2>1, <2>2, RestIs
  <2>4. SubSeq(p, 1, 0) = <<>>
    BY <1>0, <2>1, PrefixGrows, EmptySeq
  <2> QED BY <1>3, <2>1, <2>3, <2>4 DEF Before
<1>4. CASE Inside(name, p, f, w)
  <2>1. PICK k \in 1..Len(p) :
           /\ f.buffer = SubSeq(p, 1, k)
           /\ f.completed <=> (name = "terminal" /\ k = Len(p))
           /\ w = Rest(name, p, k)
    BY <1>4 DEF Inside
  <2>2. CASE k = Len(p)
    <3>1. w = <<>>
      BY <2>1, <2>2, RestIs
    <3>2. f.buffer = p
      BY <1>0, <2>1, <2>2, SubSeqFull
    <3> QED BY <2>1, <2>2, <3>1, <3>2
  <2>3. CASE k # Len(p)
    <3>1. k \in 0..(Len(p) - 1)
      BY <1>0, <2>3
    <3> QED BY <1>2, <2>1, <2>3, <3>1
  <2> QED BY <2>2, <2>3
<1>5. CASE Between(name, p, f, w)
  <2>1. PICK k \in 1..(Len(p) - 1), c \in Value :
           ~f.completed /\ f.buffer = SubSeq(p, 1, k) /\ w = <<c>> \o Rest(name, p, k + 1)
    BY <1>5 DEF Between
  <2>2. k \in 0..(Len(p) - 1) /\ k + 1 \in 0..Len(p)
    BY <1>0
  <2>3. w # <<>>
    BY <2>1, <2>2, RestIs, HeadOfOne
  <2> QED BY <2>1, <2>2, <2>3
<1> QED BY <1>3, <1>4, <1>5 DEF At

-----------------------------------------------------------------------------
(* What the protocol makes of it. *)
LEMMA SubwayVerdict ==
    ASSUME NEW p, WellFormed("subway", p)
    PROVE  /\ \A k \in 0..(Len(p) - 1) : ~Enough(SubSeq(p, 1, k))
           /\ Enough(p) /\ 4 + p[4] = Len(p) - 2
<1>1. p \in Seq(Value) /\ Len(p) \in Nat /\ p[4] \in Nat /\ Len(p) = p[4] + 6
  BY DEF WellFormed, Shape
<1>2. Enough(p) /\ 4 + p[4] = Len(p) - 2
  <2>1. \A m \in Nat : m + 6 >= 4 /\ m + 6 >= 4 + m + 2 /\ 4 + m = (m + 6) - 2
    OBVIOUS
  <2> QED BY <1>1, <2>1 DEF Enough, full_size
<1>3. ASSUME NEW k \in 0..(Len(p) - 1) PROVE ~Enough(SubSeq(p, 1, k))
  <2>1. k \in Nat /\ k < Len(p)
    BY <1>1
  <2>2. PICK b : b = SubSeq(p, 1, k)
    OBVIOUS
  <2>3. Len(b) = k
    BY <1>1, <2>2, PrefixGrows
  <2>4. k >= 4 => b[4] = p[4]
    <3>1. \A i \in 1..k : p[i] \in Value
      <4>1. \A i \in 1..k : i \in 1..Len(p)
        BY <1>1, <2>1
      <4> QED BY <1>1, <4>1, ElementOfSeq
    <3>2. \A i \in 1..k - 1 + 1 : SubSeq(p, 1, k)[i] = p[1 + i - 1]
      BY <2>1, <3>1, SubSeqProperties
    <3>3. k >= 4 => 4 \in 1..k - 1 + 1 /\ 1 + 4 - 1 = 4
      BY <2>1
    <3> QED BY <2>2, <3>2, <3>3
  <2>5. k >= 4 => ~(k >= 4 + p[4] + 2)
    <3>1. \A m, j \in Nat : j < m + 6 => ~(j >= 4 + m + 2)
      OBVIOUS
    <3> QED BY <1>1, <2>1, <3>1
  <2>6. ~Enough(b)
    BY <2>3, <2>4, <2>5 DEF Enough, full_size
  <2> QED BY <2>2, <2>6
<1> QED BY <1>2, <1>3

(* The inductive invariant of FoundWithItsLastByte: until a start byte is  *)
(* left of an earlier packet, the filter is where the line is.             *)
FoundInv ==
    /\ protocol \in {"subway", "terminal"}
    /\ WellFormed(protocol, packet)
    /\ wire \in Seq(Value)
    /\ clean => At(protocol, packet, filter, wire)

LEMMA DeliverFound ==
    ASSUME FoundInv, Deliver
    PROVE  FoundInv' /\ FoundWithItsLastByte'
<1>1. /\ protocol \in {"subway", "terminal"} /\ WellFormed(protocol, packet) /\ wire \in Seq(Value)
      /\ Shape(protocol, packet)
      /\ clean => At(protocol, packet, filter, wire)
  BY DEF FoundInv, WellFormed
<1>2. protocol' = protocol /\ packet' = packet /\ clean' = clean
  BY DEF Deliver
<1>3. PICK n \in 1..Len(wire) :
         /\ wire' = SubSeq(wire, n + 1, Len(wire))
         /\ IF protocol = "subway" THEN subway_feed(SubSeq(wire, 1, n))
                                   ELSE terminal_feed(SubSeq(wire, 1, n))
  BY DEF Deliver
<1>4. wire' \in Seq(Value)
  <2>1. Len(wire) \in Nat /\ n + 1 \in Int /\ \A i \in (n + 1)..Len(wire) : i \in 1..Len(wire)
    BY <1>1, LenProperties
  <2>2. \A i \in (n + 1)..Len(wire) : wire[i] \in Value
    BY <1>1, <2>1, ElementOfSeq
  <2> QED BY <1>3, <2>1, <2>2, SubSeqProperties
<1>5. WellFormed(protocol', packet')
  BY <1>1, <1>2
<1>6. CASE ~clean
  <2>1. FoundInv'
    BY <1>1, <1>2, <1>4, <1>5, <1>6 DEF FoundInv
  <2>2. FoundWithItsLastByte'
    BY <1>2, <1>6 DEF FoundWithItsLastByte
  <2> QED BY <2>1, <2>2
<1>7. CASE clean
  <2>1. PICK f, b : f = Feed(SubSeq(wire, 1, n)) /\ b = f.buffer
    OBVIOUS
  <2>2. At(protocol, packet, f, wire')
    BY <1>1, <1>3, <1>7, <2>1, FeedAt
  <2>3. /\ wire' = <<>> => b = packet /\ (protocol = "terminal" => f.completed)
        /\ wire' # <<>> => ~f.completed /\ \E k \in 0..(Len(packet) - 1) : b = SubSeq(packet, 1, k)
    BY <1>1, <2>1, <2>2, AtEnd
  <2>4. CASE protocol = "subway"
    <3>1. subway_feed(SubSeq(wire, 1, n))
      BY <1>3, <2>4
    <3>2. /\ filter' = f
          /\ state' = IF ~Enough(b) THEN Listening
                      ELSE IF crc_check(b) THEN Reply(b[3], SubSeq(b, 5, 4 + b[4]))
                      ELSE Failed("PACKET_CRC_ERROR")
      BY <2>1, <3>1 DEF subway_feed
    <3>3. /\ \A k \in 0..(Len(packet) - 1) : ~Enough(SubSeq(packet, 1, k))
          /\ Enough(packet) /\ 4 + packet[4] = Len(packet) - 2
      BY <1>1, <2>4, SubwayVerdict
    <3>4. wire' # <<>> => state' = Listening
      BY <2>3, <3>2, <3>3
    <3>5. wire' = <<>> => state' = IF crc_check(packet) THEN Reply(packet[3], SubSeq(packet, 5, Len(packet) - 2))
                                   ELSE Failed("PACKET_CRC_ERROR")
      BY <2>3, <3>2, <3>3
    <3>6. (Intact' <=> crc_check(packet)) /\ Sent' = Reply(packet[3], SubSeq(packet, 5, Len(packet) - 2))
      BY <1>2, <2>4 DEF Intact, Sent, crc_check, full_size, Reply
    <3>7. FoundWithItsLastByte'
      BY <3>4, <3>5, <3>6 DEF FoundWithItsLastByte, Listening, Failed
    <3>8. FoundInv'
      BY <1>1, <1>2, <1>4, <1>5, <2>2, <3>2 DEF FoundInv
    <3> QED BY <3>7, <3>8
  <2>5. CASE protocol = "terminal"
    <3>1. terminal_feed(SubSeq(wire, 1, n))
      BY <1>3, <2>5
    <3> DEFINE foreign == Len(b) < 4 \/ b[3] # ADDR \/ b[4] # CODE
    <3>2. /\ filter' = IF f.completed /\ foreign THEN Fresh ELSE f
          /\ state' = IF ~f.completed \/ foreign THEN Listening
                      ELSE IF Len(b) < 7 THEN Failed("WRONG_ANSWER")
                      ELSE IF SubSeq(b, Len(b) - 2, Len(b) - 1) # checksum_calc(b)
                           THEN Failed("PACKET_CRC_ERROR")
                      ELSE Reply(b[2], SubSeq(b, 5, Len(b) - 3))
      BY <2>1, <3>1 DEF terminal_feed
    <3>3. /\ Len(packet) \in Nat /\ Len(packet) >= 7 /\ packet[3] = ADDR /\ packet[4] = CODE
          /\ SubSeq(packet, Len(packet) - 2, Len(packet) - 1) = checksum_calc(packet)
      BY <1>1, <2>5 DEF WellFormed, Shape
    <3>4. wire' # <<>> => state' = Listening /\ filter' = f
      BY <2>3, <3>2
    <3>5. ASSUME wire' = <<>>
          PROVE  state' = Reply(packet[2], SubSeq(packet, 5, Len(packet) - 3)) /\ filter' = f
      <4>1. b = packet /\ f.completed
        BY <2>3, <2>5, <3>5
      <4>2. ~foreign /\ ~(Len(packet) < 7) /\ ~(Len(packet) < 4)
        BY <3>3, <4>1
      <4> HIDE DEF foreign
      <4> QED BY <3>2, <3>3, <4>1, <4>2
    <3>6. Intact' /\ Sent' = Reply(packet[2], SubSeq(packet, 5, Len(packet) - 3))
      BY <1>2, <2>5 DEF Intact, Sent, Reply
    <3>7. FoundWithItsLastByte'
      BY <3>4, <3>5, <3>6 DEF FoundWithItsLastByte, Listening
    <3>8. FoundInv'
      BY <1>1, <1>2, <1>4, <1>5, <2>2, <3>4, <3>5 DEF FoundInv
    <3> QED BY <3>7, <3>8
  <2> QED BY <1>1, <2>4, <2>5
<1> QED BY <1>6, <1>7

-----------------------------------------------------------------------------
(* The beginning. *)
LEMMA PieceIs ==
    ASSUME NEW name \in {"subway", "terminal"}, NEW p, Shape(name, p), NEW l \in Pieces(Stuffed(name, p))
    PROVE  /\ l \in Seq(Value)
           /\ (\A i \in 1..Len(l) : l[i] # Start(name)) =>
                 ((name = "terminal" /\ l # <<>>) => l[Len(l)] = FEND)
<1>0. p \in Seq(Value) /\ Len(p) \in Nat /\ Len(p) >= 6 /\ p[1] = Start(name)
      /\ (name = "terminal" => p[Len(p)] = FEND)
  BY DEF Shape
<1>1. PICK e : e = Stuffed(name, p)
  OBVIOUS
<1>2. e \in Seq(Value) /\ e = Rest(name, p, 0) /\ Rest(name, p, 1) \in Seq(Value)
      /\ e = Code(name, p, 1) \o Rest(name, p, 1)
  <2>1. 0 \in 0..Len(p) /\ 1 \in 0..Len(p) /\ 0 \in 0..(Len(p) - 1) /\ 0 + 1 = 1
    BY <1>0
  <2> QED BY <1>1, <2>1, RestIs
<1>3. Len(e) \in Nat /\ \A i \in 1..Len(e) : e[i] \in Value
  BY <1>2, LenProperties, ElementOfSeq
<1>4. CASE \E i \in 1..(Len(e) - 1) : l = SubSeq(e, 1, i)
  <2>1. PICK i \in 1..(Len(e) - 1) : l = SubSeq(e, 1, i)
    BY <1>4
  <2>2. i \in Nat /\ 1 <= i /\ \A j \in 1..i : j \in 1..Len(e)
    BY <1>3
  <2>3. \A j \in 1..i : e[j] \in Value
    BY <1>3, <2>2
  <2>4. /\ l \in Seq(Value) /\ Len(l) = IF 1 <= i THEN i - 1 + 1 ELSE 0
        /\ \A j \in 1..i - 1 + 1 : l[j] = e[1 + j - 1]
    BY <2>1, <2>2, <2>3, SubSeqProperties
  <2>5. 1 \in 1..i - 1 + 1 /\ 1 + 1 - 1 = 1 /\ 1 \in 1..Len(l)
    BY <2>2, <2>4
  <2>6. l[1] = e[1]
    BY <2>4, <2>5
  <2>7. e[1] = Start(name)
    <3>1. Code(name, p, 1) = <<p[1]>>
      BY DEF Code
    <3>2. p[1] \in Value
      <4>1. 1 \in 1..Len(p)
        BY <1>0
      <4> QED BY <1>0, <4>1, ElementOfSeq
    <3>3. e # <<>> /\ Head(e) = p[1]
      BY <1>2, <3>1, <3>2, HeadOfOne
    <3> QED BY <1>0, <1>2, <3>3
  <2> QED BY <2>4, <2>5, <2>6, <2>7
<1>5. CASE \E i \in 2..Len(e) : l = SubSeq(e, i, Len(e))
  <2>1. PICK i \in 2..Len(e) : l = SubSeq(e, i, Len(e))
    BY <1>5
  <2>2. i \in Nat /\ i <= Len(e) /\ \A j \in i..Len(e) : j \in 1..Len(e)
    BY <1>3
  <2>3. \A j \in i..Len(e) : e[j] \in Value
    BY <1>3, <2>2
  <2>4. /\ l \in Seq(Value) /\ Len(l) = IF i <= Len(e) THEN Len(e) - i + 1 ELSE 0
        /\ \A j \in 1..Len(e) - i + 1 : l[j] = e[i + j - 1]
    BY <1>3, <2>1, <2>2, <2>3, SubSeqProperties
  <2>5. Len(l) = Len(e) - i + 1
    BY <2>2, <2>4
  <2>6. Len(l) \in 1..Len(e) - i + 1 /\ i + Len(l) - 1 = Len(e)
    <3>1. \A m, j \in Nat : j <= m => (m - j + 1) \in 1..m - j + 1 /\ j + (m - j + 1) - 1 = m
      OBVIOUS
    <3> QED BY <1>3, <2>2, <2>5, <3>1
  <2>7. l[Len(l)] = e[Len(e)]
    BY <2>4, <2>6
  <2>8. ASSUME name = "terminal" PROVE e[Len(e)] = FEND
    <3>1. PICK q : q = [i_1 \in 1..(Len(p) - 0) |-> Code(name, p, i_1 + 0)]
      OBVIOUS
    <3>2. Len(p) - 0 = Len(p) /\ Len(p) \in 1..Len(p) /\ \A j \in 1..Len(p) : j + 0 = j
      BY <1>0
    <3>3. q \in [1..Len(p) -> Seq(Value)]
      BY <3>1, <3>2, CodeType
    <3>4. q \in Seq(Seq(Value)) /\ Len(q) = Len(p)
      BY <1>0, <3>3, FunctionIsSeq
    <3>5. q[Len(q)] = <<FEND>>
      <4>1. q[Len(p)] = Code(name, p, Len(p))
        BY <3>1, <3>2
      <4> QED BY <1>0, <2>8, <3>4, <4>1 DEF Code
    <3>6. q # <<>>
      BY <1>0, <3>4, EmptySeq
    <3>7. e = FlattenSeq(q)
      BY <1>2, <3>1 DEF Rest
    <3> QED BY <3>4, <3>5, <3>6, <3>7, FlattenLast
  <2> QED BY <2>4, <2>7, <2>8
<1> QED BY <1>1, <1>4, <1>5 DEF Pieces

LEMMA CarriesFound ==
    ASSUME NEW name \in {"subway", "terminal"}, NEW sent, NEW Earlier, NEW stuffed,
           stuffed = Stuffed(name, sent), WellFormed(name, sent), Carries(name, sent, stuffed, Earlier),
           \A e \in Earlier : \E p : Shape(name, p) /\ e = Stuffed(name, p),
           filter = Fresh, state = Listening
    PROVE  FoundInv /\ FoundWithItsLastByte
<1>0. Shape(name, sent) /\ sent \in Seq(Value) /\ Len(sent) \in Nat /\ Len(sent) >= 6
      /\ sent[1] = Start(name)
  BY DEF WellFormed, Shape
<1>1. protocol = name /\ packet = sent
  BY DEF Carries
<1>2. PICK left \in {<<>>} \cup UNION {Pieces(e) : e \in Earlier} :
         wire = left \o stuffed /\ clean = (Head(sent) \notin ToSet(left))
  BY DEF Carries
<1>3. left \in Seq(Value)
      /\ ((\A i \in 1..Len(left) : left[i] # Start(name)) =>
            ((name = "terminal" /\ left # <<>>) => left[Len(left)] = FEND))
  <2>1. CASE left = <<>>
    BY <2>1
  <2>2. CASE \E e \in Earlier : left \in Pieces(e)
    BY <2>2, PieceIs
  <2> QED BY <2>1, <2>2
<1>4. stuffed \in Seq(Value) /\ stuffed = Rest(name, sent, 0)
  <2>1. 0 \in 0..Len(sent)
    BY <1>0
  <2> QED BY <1>0, <2>1, RestIs
<1>5. wire \in Seq(Value)
  BY <1>2, <1>3, <1>4, ConcatProperties
<1>6. filter \in Filter /\ filter.waiting /\ filter.buffer = <<>> /\ ~filter.completed /\ ~filter.escape
  BY DEF Fresh, Filter
<1>7. ASSUME clean PROVE At(name, sent, filter, wire)
  <2>1. Head(sent) = Start(name)
    <3>1. sent # <<>>
      BY <1>0, EmptySeq
    <3> QED BY <1>0, <3>1
  <2>2. \A i \in 1..Len(left) : left[i] # Start(name)
    <3>1. DOMAIN left = 1..Len(left)
      BY <1>3, LenProperties
    <3>2. \A i \in 1..Len(left) : left[i] \in ToSet(left)
      BY <3>1 DEF ToSet
    <3> QED BY <1>2, <1>7, <2>1, <3>2
  <2>3. Before(name, sent, filter, wire)
    BY <1>2, <1>3, <1>4, <1>6, <2>2 DEF Before
  <2> QED BY <1>6, <2>3 DEF At
<1>8. clean => wire # <<>>
  <2>1. SUFFICES ASSUME clean, wire = <<>> PROVE FALSE
    OBVIOUS
  <2>2. filter.buffer = sent
    BY <1>0, <1>7, <2>1, AtEnd
  <2>3. Len(sent) = 0
    BY <1>6, <2>2, EmptySeq
  <2> QED BY <1>0, <2>3
<1>9. FoundInv
  BY <1>1, <1>5, <1>7 DEF FoundInv
<1>10. FoundWithItsLastByte
  BY <1>8 DEF FoundWithItsLastByte
<1> QED BY <1>9, <1>10

LEMMA DataIs ==
    ASSUME NEW B, B \subseteq Byte
    PROVE  /\ \A data \in SeqOf(B, MaxData) : data \in Seq(Byte) /\ Len(data) <= MaxData
           /\ \A x \in B : Longer(x) \in Seq(Byte)
<1>0. MaxData \in Nat
  BY FramingAssumption DEF Byte
<1>1. ASSUME NEW data \in SeqOf(B, MaxData) PROVE data \in Seq(Byte) /\ Len(data) <= MaxData
  <2>1. PICK m \in 0..MaxData : data \in [1..m -> B]
    BY DEF SeqOf
  <2>2. m \in Nat /\ m <= MaxData /\ data \in [1..m -> Byte]
    BY <1>0, <2>1
  <2>3. data \in Seq(Byte) /\ Len(data) = m
    BY <2>2, FunctionIsSeq
  <2> QED BY <2>2, <2>3
<1>2. ASSUME NEW x \in B PROVE Longer(x) \in Seq(Byte)
  <2>1. MaxData + 1 \in Nat
    BY <1>0
  <2>2. Longer(x) \in [1..(MaxData + 1) -> Byte]
    BY <1>2 DEF Longer
  <2> QED BY <2>1, <2>2, FunctionIsSeq
<1> QED BY <1>1, <1>2

LEMMA InitFound == Init => FoundInv /\ FoundWithItsLastByte
<1> SUFFICES ASSUME Init PROVE FoundInv /\ FoundWithItsLastByte
  OBVIOUS
<1>0. filter = Fresh /\ state = Listening
  BY DEF Init
<1>1. SubwayBytes \subseteq Byte /\ TerminalBytes \subseteq Byte
  BY FramingAssumption
<1>2. ASSUME NEW data \in SeqOf(SubwayBytes, MaxData), NEW p, p = SubwayPacket(data), NEW Earlier,
             Earlier = {bytestaff(SubwayPacket(Longer(x))) : x \in SubwayBytes},
             Carries("subway", p, bytestaff(p), Earlier)
      PROVE  FoundInv /\ FoundWithItsLastByte
  <2>1. WellFormed("subway", p)
    BY <1>1, <1>2, DataIs, SubwayPacketIs
  <2>2. \A x \in SubwayBytes : Shape("subway", SubwayPacket(Longer(x)))
    BY <1>1, DataIs, SubwayPacketIs
  <2>3. \A q : bytestaff(q) = Stuffed("subway", q)
    BY DEF Stuffed
  <2>4. \A e \in Earlier : \E q : Shape("subway", q) /\ e = Stuffed("subway", q)
    BY <1>2, <2>2, <2>3
  <2> QED BY <1>0, <1>2, <2>1, <2>3, <2>4, CarriesFound
<1>3. ASSUME NEW data \in SeqOf(TerminalBytes, MaxData), NEW p, p = TerminalPacket(data), NEW Earlier,
             Earlier = {terminal_bytestaff(TerminalPacket(Longer(x))) : x \in TerminalBytes},
             Carries("terminal", p, terminal_bytestaff(p), Earlier)
      PROVE  FoundInv /\ FoundWithItsLastByte
  <2>1. WellFormed("terminal", p)
    BY <1>1, <1>3, DataIs, TerminalPacketIs
  <2>2. \A x \in TerminalBytes : Shape("terminal", TerminalPacket(Longer(x)))
    BY <1>1, DataIs, TerminalPacketIs
  <2>3. \A q : terminal_bytestaff(q) = Stuffed("terminal", q)
    BY DEF Stuffed
  <2>4. \A e \in Earlier : \E q : Shape("terminal", q) /\ e = Stuffed("terminal", q)
    BY <1>3, <2>2, <2>3
  <2> QED BY <1>0, <1>3, <2>1, <2>3, <2>4, CarriesFound
<1> QED BY <1>2, <1>3 DEF Init

(* FoundWithItsLastByte of Framing: feed and the unbytestaffers it calls   *)
(* find any packet that fits their buffer, however the line cuts it.       *)
THEOREM FramingFound == Spec => []FoundWithItsLastByte
<1>1. Init => FoundInv /\ FoundWithItsLastByte
  BY InitFound
<1>2. FoundInv /\ FoundWithItsLastByte /\ [Next]_vars => (FoundInv /\ FoundWithItsLastByte)'
  <2> SUFFICES ASSUME FoundInv, FoundWithItsLastByte, [Next]_vars
               PROVE  FoundInv' /\ FoundWithItsLastByte'
    OBVIOUS
  <2>1. CASE Deliver
    BY <2>1, DeliverFound
  <2>2. CASE UNCHANGED vars
    <3>1. FoundInv'
      BY <2>2 DEF vars, FoundInv
    <3>2. FoundWithItsLastByte'
      BY <2>2 DEF vars, FoundWithItsLastByte, Intact, crc_check, full_size, Sent, Reply, Failed, Listening
    <3> QED BY <3>1, <3>2
  <2> QED BY <2>1, <2>2 DEF Next
<1> QED BY <1>1, <1>2, PTL DEF Spec

(* FilterOK of Framing: feed of the unbytestaffers, for any bytes.         *)
THEOREM FramingFilterOK == Spec => []FilterOK
<1> DEFINE Inv == Sound(filter) /\ FoundInv
<1>1. Init => Inv
  <2> SUFFICES ASSUME Init PROVE Inv
    OBVIOUS
  <2>1. Sound(filter)
    BY EmptySeq, FramingAssumption DEF Init, Fresh, Sound, Filter
  <2> QED BY <2>1, InitFound
<1>2. Inv /\ [Next]_vars => Inv'
  <2> SUFFICES ASSUME Inv, [Next]_vars PROVE Inv'
    OBVIOUS
  <2>1. CASE Deliver
    <3>1. FoundInv'
      BY <2>1, DeliverFound
    <3>2. PICK n \in 1..Len(wire) : \/ subway_feed(SubSeq(wire, 1, n))
                                    \/ terminal_feed(SubSeq(wire, 1, n))
      BY <2>1 DEF Deliver
    <3>3. PICK chunk : chunk = SubSeq(wire, 1, n)
      OBVIOUS
    <3>4. chunk \in Seq(Value)
      <4>1. wire \in Seq(Value) /\ Len(wire) \in Nat /\ n \in Nat
        BY LenProperties DEF FoundInv
      <4>2. \A i \in 1..n : i \in 1..Len(wire)
        BY <4>1
      <4>3. \A i \in 1..n : wire[i] \in Value
        BY <4>1, <4>2, ElementOfSeq
      <4> QED BY <3>3, <4>1, <4>3, SubSeqProperties
    <3>5. Sound(Feed(chunk)) /\ Sound(Fresh)
      <4>1. Sound(Feed(chunk))
        BY <3>4, FeedSound
      <4>2. Sound(Fresh)
        BY EmptySeq, FramingAssumption DEF Fresh, Sound, Filter
      <4> QED BY <4>1, <4>2
    <3>6. filter' \in {Feed(chunk), Fresh}
      BY <3>2, <3>3 DEF subway_feed, terminal_feed
    <3>7. Sound(filter')
      BY <3>5, <3>6
    <3>8. protocol' = protocol
      BY <2>1 DEF Deliver
    <3> QED BY <3>1, <3>7, <3>8 DEF Sound
  <2>2. CASE UNCHANGED vars
    BY <2>2 DEF vars, FoundInv, Sound
  <2> QED BY <2>1, <2>2 DEF Next
<1>3. Inv => FilterOK
  BY DEF Sound, FilterOK, Last
<1> QED BY <1>1, <1>2, <1>3, PTL DEF Spec

-----------------------------------------------------------------------------
(* The checksum of the terminal is a sum: what Total computes. *)
LEMMA TotalSteps ==
    ASSUME NEW s \in Seq(Nat)
    PROVE  \E t : /\ t[0] = 0
                  /\ \A i \in 1..Len(s) : t[i] = t[i - 1] + s[i]
                  /\ \A i \in 0..Len(s) : t[i] \in Nat
                  /\ Total(s) = t[Len(s)]
<1> DEFINE n == Len(s)
           Runs(k, g) == g = [i \in 0..k |-> IF i = 0 THEN 0 ELSE g[i - 1] + s[i]]
           S == {k \in 0..n : \E g : Runs(k, g)}
<1>0. n \in Nat /\ \A i \in 1..n : s[i] \in Nat
  BY LenProperties, ElementOfSeq
<1> HIDE DEF n
<1>1. 0 \in S
  <2> DEFINE g == [i \in {0} |-> 0]
  <2>1. Runs(0, g)
    <3>1. 0..0 = {0}
      OBVIOUS
    <3> QED BY <3>1
  <2>2. 0 \in 0..n
    BY <1>0
  <2> QED BY <2>1, <2>2
<1>2. \A k \in 0..(n - 1) : k \in S => k + 1 \in S
  <2> SUFFICES ASSUME NEW k \in 0..(n - 1), k \in S PROVE k + 1 \in S
    OBVIOUS
  <2>1. PICK g : Runs(k, g)
    OBVIOUS
  <2> DEFINE h == [i \in 0..(k + 1) |-> IF i = k + 1 THEN g[k] + s[k + 1] ELSE g[i]]
  <2>2. \A i \in 0..(k + 1) : h[i] = IF i = 0 THEN 0 ELSE h[i - 1] + s[i]
    <3> SUFFICES ASSUME NEW i \in 0..(k + 1)
                 PROVE  h[i] = IF i = 0 THEN 0 ELSE h[i - 1] + s[i]
      OBVIOUS
    <3>1. CASE i = k + 1
      <4>1. i # 0 /\ i - 1 = k /\ k \in 0..(k + 1) /\ k # k + 1
        BY <1>0, <3>1
      <4> QED BY <3>1, <4>1
    <3>2. CASE i # k + 1
      <4>1. i \in 0..k
        BY <1>0, <3>2
      <4>2. i # 0 => i - 1 \in 0..(k + 1) /\ i - 1 # k + 1
        BY <1>0, <4>1
      <4>3. g[i] = IF i = 0 THEN 0 ELSE g[i - 1] + s[i]
        BY <2>1, <4>1
      <4> QED BY <3>2, <4>2, <4>3
    <3> QED BY <3>1, <3>2
  <2>3. Runs(k + 1, h)
    <3> HIDE DEF h
    <3>1. h = [i \in 0..(k + 1) |-> h[i]]
      BY DEF h
    <3> QED BY <2>2, <3>1
  <2>4. k + 1 \in 0..n
    BY <1>0
  <2> QED BY <2>3, <2>4
<1>3. PICK g : Runs(n, g)
  <2> HIDE DEF S
  <2>1. \A k \in 0..n : k \in S
    BY <1>0, <1>1, <1>2, UpTo
  <2>2. n \in 0..n
    BY <1>0
  <2>3. n \in S
    BY <2>1, <2>2
  <2> QED BY <2>3 DEF S
<1>4. PICK t : Runs(n, t) /\ Total(s) = t[n]
  BY <1>3 DEF Total, n
<1>5. t[0] = 0 /\ \A i \in 1..n : t[i] = t[i - 1] + s[i]
  <2>1. 0 \in 0..n /\ \A i \in 1..n : i \in 0..n /\ i # 0
    BY <1>0
  <2> QED BY <1>4, <2>1
<1>6. \A i \in 0..n : t[i] \in Nat
  <2> DEFINE U == {k \in 0..n : t[k] \in Nat}
  <2>1. 0 \in U
    BY <1>0, <1>5
  <2>2. \A k \in 0..(n - 1) : k \in U => k + 1 \in U
    <3> SUFFICES ASSUME NEW k \in 0..(n - 1), k \in U PROVE k + 1 \in U
      OBVIOUS
    <3>1. k + 1 \in 1..n /\ (k + 1) - 1 = k /\ k + 1 \in 0..n
      BY <1>0
    <3>2. t[k + 1] = t[k] + s[k + 1] /\ s[k + 1] \in Nat /\ t[k] \in Nat
      BY <1>0, <1>5, <3>1
    <3> QED BY <3>1, <3>2
  <2> HIDE DEF U
  <2>3. \A k \in 0..n : k \in U
    BY <1>0, <2>1, <2>2, UpTo
  <2> QED BY <2>3 DEF U
<1> QED BY <1>4, <1>5, <1>6 DEF n

LEMMA TotalConcat ==
    ASSUME NEW a \in Seq(Nat), NEW b \in Seq(Nat)
    PROVE  /\ Total(a) \in Nat /\ Total(b) \in Nat
           /\ Total(a \o b) = Total(a) + Total(b)
<1>0. Len(a) \in Nat /\ Len(b) \in Nat
  BY LenProperties
<1>1. PICK c, m, n : c = a \o b /\ m = Len(a) /\ n = Len(b)
  OBVIOUS
<1>2. /\ c \in Seq(Nat) /\ Len(c) = m + n /\ m \in Nat /\ n \in Nat
      /\ \A i \in 1..(m + n) : c[i] = IF i <= m THEN a[i] ELSE b[i - m]
  BY <1>0, <1>1, ConcatProperties
<1>3. PICK x : /\ x[0] = 0 /\ \A i \in 1..m : x[i] = x[i - 1] + a[i]
               /\ \A i \in 0..m : x[i] \in Nat
               /\ Total(a) = x[m]
  BY <1>1, TotalSteps
<1>4. PICK y : /\ y[0] = 0 /\ \A i \in 1..n : y[i] = y[i - 1] + b[i]
               /\ \A i \in 0..n : y[i] \in Nat
               /\ Total(b) = y[n]
  BY <1>1, TotalSteps
<1>5. PICK z : /\ z[0] = 0 /\ \A i \in 1..(m + n) : z[i] = z[i - 1] + c[i]
               /\ Total(c) = z[m + n]
  BY <1>2, TotalSteps
<1>6. z[m] = x[m]
  <2> DEFINE U == {k \in 0..m : z[k] = x[k]}
  <2>1. 0 \in U
    BY <1>2, <1>3, <1>5
  <2>2. \A k \in 0..(m - 1) : k \in U => k + 1 \in U
    <3> SUFFICES ASSUME NEW k \in 0..(m - 1), k \in U PROVE k + 1 \in U
      OBVIOUS
    <3>1. k + 1 \in 1..m /\ k + 1 \in 1..(m + n) /\ (k + 1) - 1 = k /\ k + 1 <= m /\ k + 1 \in 0..m
      BY <1>2
    <3>2. z[k + 1] = z[k] + c[k + 1] /\ x[k + 1] = x[k] + a[k + 1] /\ c[k + 1] = a[k + 1]
      BY <1>2, <1>3, <1>5, <3>1
    <3> QED BY <3>1, <3>2
  <2> HIDE DEF U
  <2>3. \A k \in 0..m : k \in U
    BY <1>2, <2>1, <2>2, UpTo
  <2>4. m \in 0..m
    BY <1>2
  <2> QED BY <2>3, <2>4 DEF U
<1>7. z[m + n] = x[m] + y[n]
  <2> DEFINE U == {k \in 0..n : z[m + k] = x[m] + y[k]}
  <2>0. x[m] \in Nat /\ \A k \in 0..n : y[k] \in Nat
    <3>1. m \in 0..m
      BY <1>2
    <3> QED BY <1>3, <1>4, <3>1
  <2>1. 0 \in U
    <3>1. m + 0 = m /\ x[m] + 0 = x[m] /\ 0 \in 0..n
      BY <1>2, <2>0
    <3> QED BY <1>4, <1>6, <3>1
  <2>2. \A k \in 0..(n - 1) : k \in U => k + 1 \in U
    <3> SUFFICES ASSUME NEW k \in 0..(n - 1), k \in U PROVE k + 1 \in U
      OBVIOUS
    <3>1. /\ k + 1 \in 1..n /\ k \in 0..n /\ k + 1 \in 0..n /\ (k + 1) - 1 = k
          /\ m + (k + 1) \in 1..(m + n) /\ (m + (k + 1)) - 1 = m + k
          /\ ~(m + (k + 1) <= m) /\ (m + (k + 1)) - m = k + 1
      BY <1>2
    <3>2. z[m + (k + 1)] = z[m + k] + c[m + (k + 1)] /\ c[m + (k + 1)] = b[k + 1]
      BY <1>2, <1>5, <3>1
    <3>3. y[k + 1] = y[k] + b[k + 1] /\ y[k] \in Nat /\ b[k + 1] \in Nat
      BY <1>1, <1>4, <3>1, ElementOfSeq
    <3>4. \A p, q, r \in Nat : (p + q) + r = p + (q + r)
      OBVIOUS
    <3>5. (x[m] + y[k]) + b[k + 1] = x[m] + (y[k] + b[k + 1])
      BY <2>0, <3>3, <3>4
    <3>6. z[m + (k + 1)] = x[m] + y[k + 1]
      BY <3>2, <3>3, <3>5
    <3> QED BY <3>1, <3>6
  <2> HIDE DEF U
  <2>3. \A k \in 0..n : k \in U
    BY <1>2, <2>1, <2>2, UpTo
  <2>4. n \in 0..n
    BY <1>2
  <2> QED BY <2>3, <2>4 DEF U
<1>8. Total(a) \in Nat /\ Total(b) \in Nat
  <2>1. m \in 0..m /\ n \in 0..n
    BY <1>2
  <2> QED BY <1>3, <1>4, <2>1
<1> QED BY <1>1, <1>3, <1>4, <1>5, <1>7, <1>8

LEMMA TotalOne == \A c \in Nat : Total(<<c>>) = c
<1> SUFFICES ASSUME NEW c \in Nat PROVE Total(<<c>>) = c
  OBVIOUS
<1>1. PICK s : s = <<c>>
  OBVIOUS
<1>2. s \in Seq(Nat) /\ Len(s) = 1 /\ s[1] = c
  BY <1>1
<1>3. PICK t : t[0] = 0 /\ (\A i \in 1..1 : t[i] = t[i - 1] + s[i]) /\ Total(s) = t[1]
  BY <1>2, TotalSteps
<1>4. t[1] = t[0] + s[1]
  <2>1. 1 \in 1..1 /\ 1 - 1 = 0
    OBVIOUS
  <2> QED BY <1>3, <2>1
<1> QED BY <1>1, <1>2, <1>3, <1>4

(* Of bytes; and of one byte again and again. *)
LEMMA TotalOfBytes ==
    ASSUME NEW s \in Seq(Byte)
    PROVE  Total(s) \in Nat /\ Total(s) <= 255 * Len(s)
<1>0. s \in Seq(Nat) /\ Len(s) \in Nat /\ \A i \in 1..Len(s) : s[i] \in 0..255
  <2>1. Byte \subseteq Nat /\ Byte = 0..255
    BY DEF Byte
  <2>2. s \in Seq(Nat)
    BY <2>1, SeqMonotonic
  <2>3. Len(s) \in Nat
    BY LenProperties
  <2>4. \A i \in 1..Len(s) : s[i] \in Byte
    BY ElementOfSeq
  <2> QED BY <2>1, <2>2, <2>3, <2>4
<1>1. PICK n \in Nat : n = Len(s)
  BY <1>0
<1>2. PICK t : /\ t[0] = 0 /\ \A i \in 1..n : t[i] = t[i - 1] + s[i]
               /\ \A i \in 0..n : t[i] \in Nat
               /\ Total(s) = t[n]
  BY <1>0, <1>1, TotalSteps
<1> DEFINE U == {k \in 0..n : t[k] <= 255 * k}
<1>3. 0 \in U
  BY <1>2
<1>4. \A k \in 0..(n - 1) : k \in U => k + 1 \in U
  <2> SUFFICES ASSUME NEW k \in 0..(n - 1), k \in U PROVE k + 1 \in U
    OBVIOUS
  <2>1. k + 1 \in 1..n /\ (k + 1) - 1 = k /\ k \in 0..n /\ k + 1 \in 0..n
    OBVIOUS
  <2>2. t[k + 1] = t[k] + s[k + 1] /\ t[k] \in Nat
    BY <1>2, <2>1
  <2>5. s[k + 1] \in Nat /\ s[k + 1] <= 255
    <3>1. s[k + 1] \in 0..255
      BY <1>0, <1>1, <2>1
    <3>2. \A c \in 0..255 : c \in Nat /\ c <= 255
      OBVIOUS
    <3> QED BY <3>1, <3>2
  <2>3. t[k] <= 255 * k
    OBVIOUS
  <2>4. t[k + 1] <= 255 * (k + 1)
    <3>1. \A j, u, v \in Nat : u <= 255 * j /\ v <= 255 => u + v <= 255 * (j + 1)
      OBVIOUS
    <3>2. PICK u, v : u = t[k] /\ v = s[k + 1]
      OBVIOUS
    <3>3. u \in Nat /\ v \in Nat /\ v <= 255 /\ u <= 255 * k /\ k \in Nat
      <4>1. k \in Nat
        OBVIOUS
      <4>2. u \in Nat /\ v \in Nat /\ v <= 255
        BY <2>2, <2>5, <3>2
      <4>3. u <= 255 * k
        BY <2>3, <3>2
      <4> QED BY <4>1, <4>2, <4>3
    <3>4. u + v <= 255 * (k + 1)
      BY <3>1, <3>3
    <3> QED BY <2>2, <3>2, <3>4
  <2> QED BY <2>1, <2>4
<1> HIDE DEF U
<1>5. \A k \in 0..n : k \in U
  BY <1>3, <1>4, UpTo
<1>6. n \in 0..n
  OBVIOUS
<1>7. t[n] \in Nat /\ t[n] <= 255 * n
  BY <1>2, <1>5, <1>6 DEF U
<1> QED BY <1>1, <1>2, <1>7

LEMMA TotalOfSame ==
    ASSUME NEW n \in Nat, NEW x \in Nat
    PROVE  Total([i \in 1..n |-> x]) = n * x
<1>1. PICK s : s = [i \in 1..n |-> x]
  OBVIOUS
<1>2. s \in [1..n -> Nat] /\ \A i \in 1..n : s[i] = x
  BY <1>1
<1>3. s \in Seq(Nat) /\ Len(s) = n
  BY <1>2, FunctionIsSeq
<1>4. PICK t : /\ t[0] = 0 /\ \A i \in 1..n : t[i] = t[i - 1] + s[i]
               /\ Total(s) = t[n]
  BY <1>3, TotalSteps
<1> DEFINE U == {k \in 0..n : t[k] = k * x}
<1>5. 0 \in U
  BY <1>4
<1>6. \A k \in 0..(n - 1) : k \in U => k + 1 \in U
  <2> SUFFICES ASSUME NEW k \in 0..(n - 1), k \in U PROVE k + 1 \in U
    OBVIOUS
  <2>1. k + 1 \in 1..n /\ (k + 1) - 1 = k /\ k \in Nat /\ k + 1 \in 0..n
    OBVIOUS
  <2>2. t[k + 1] = t[k] + x
    BY <1>2, <1>4, <2>1
  <2>3. (k + 1) * x = k * x + x
    BY <2>1
  <2>4. t[k] = k * x
    OBVIOUS
  <2>5. t[k + 1] = (k + 1) * x
    BY <2>2, <2>3, <2>4
  <2> QED BY <2>1, <2>5
<1> HIDE DEF U
<1>7. \A k \in 0..n : k \in U
  BY <1>5, <1>6, UpTo
<1>8. n \in 0..n
  OBVIOUS
<1> QED BY <1>1, <1>4, <1>7, <1>8 DEF U

-----------------------------------------------------------------------------
(* A terminal packet: r stands between its start and its checksum. *)
Sums == {v \in Nat : v < 65396}

High(v) == v \div 256
Low(v) == v % 256

Sizes == 3..259

Framed(p, r) ==
    /\ r \in Seq(Byte) /\ Len(r) \in Sizes
    /\ r[1] = FACK /\ r[2] = ADDR /\ r[3] = CODE
    /\ Total(r) \in Sums
    /\ p = (<<FSSTR>> \o r) \o <<High(Total(r)), Low(Total(r)), FEND>>

LEMMA SumOfBytes == \A v \in Sums : High(v) \in Byte /\ Low(v) \in Byte
  BY SMT DEF Sums, Byte, High, Low

LEMMA ChecksumIs ==
    ASSUME NEW p, Total(SubSeq(p, 2, Len(p) - 3)) \in Sums
    PROVE  LET v == Total(SubSeq(p, 2, Len(p) - 3))
           IN  checksum_calc(p) = <<High(v), Low(v)>>
<1>1. \A v \in Sums : v % 65536 = v
  BY SMT DEF Sums
<1> QED BY <1>1, SMT DEF checksum_calc, High, Low

(* The checksum is of what stands there. *)
LEMMA Summed ==
    ASSUME NEW r \in Seq(Byte), Len(r) >= 3, NEW t \in Seq(Nat), Len(t) = 3
    PROVE  LET q == (<<FSSTR>> \o r) \o t
           IN  /\ q \in Seq(Nat) /\ Len(q) = Len(r) + 4
               /\ SubSeq(q, 2, Len(q) - 3) = r
               /\ q[1] = FSSTR
               /\ \A i \in 1..Len(r) : q[i + 1] = r[i]
               /\ \A i \in 1..3 : q[Len(r) + 1 + i] = t[i]
<1>0. r \in Seq(Nat) /\ Len(r) \in Nat
  <2>1. Byte \subseteq Nat
    BY DEF Byte
  <2> QED BY <2>1, LenProperties, SeqMonotonic
<1>1. PICK s, a, q : s = <<FSSTR>> /\ a = s \o r /\ q = a \o t
  OBVIOUS
<1>2. s \in Seq(Nat) /\ Len(s) = 1 /\ s[1] = FSSTR
  BY <1>1 DEF FSSTR
<1>3. PICK n \in Nat : n = Len(r) /\ n >= 3
  BY <1>0
<1>4. /\ a \in Seq(Nat) /\ Len(a) = n + 1
      /\ \A i \in 1..(n + 1) : a[i] = IF i <= 1 THEN s[i] ELSE r[i - 1]
  <2>1. /\ s \o r \in Seq(Nat) /\ Len(s \o r) = Len(s) + Len(r)
        /\ \A i \in 1..Len(s) + Len(r) : (s \o r)[i] = IF i <= Len(s) THEN s[i] ELSE r[i - Len(s)]
    <3>1. s \in Seq(Nat) /\ r \in Seq(Nat)
      BY <1>0, <1>2
    <3> QED BY <3>1, ConcatProperties
  <2>2. Len(s) + Len(r) = n + 1
    BY <1>2, <1>3
  <2> QED BY <1>1, <1>2, <2>1, <2>2
<1>5. /\ q \in Seq(Nat) /\ Len(q) = n + 4
      /\ \A i \in 1..(n + 4) : q[i] = IF i <= n + 1 THEN a[i] ELSE t[i - (n + 1)]
  <2>1. /\ a \o t \in Seq(Nat) /\ Len(a \o t) = Len(a) + Len(t)
        /\ \A i \in 1..Len(a) + Len(t) : (a \o t)[i] = IF i <= Len(a) THEN a[i] ELSE t[i - Len(a)]
    BY <1>4, ConcatProperties
  <2>2. Len(a) + Len(t) = n + 4
    BY <1>4
  <2> QED BY <1>1, <1>4, <2>1, <2>2
<1>6. SubSeq(q, 2, n + 1) = r
  <2>1. 2 \in 1..Len(a) /\ n + 1 \in 1..Len(a) /\ 2 \in Len(s) + 1..Len(s) + Len(r)
        /\ n + 1 \in Len(s) + 1..Len(s) + Len(r) /\ 2 - Len(s) = 1 /\ (n + 1) - Len(s) = n
    BY <1>2, <1>3, <1>4
  <2>2. SubSeq(a \o t, 2, n + 1) = SubSeq(a, 2, n + 1)
    <3>1. a \in Seq(Nat) /\ t \in Seq(Nat)
      BY <1>4
    <3> QED BY <2>1, <3>1, SubSeqOfConcat1
  <2>3. SubSeq(s \o r, 2, n + 1) = SubSeq(r, 2 - Len(s), (n + 1) - Len(s))
    BY <1>0, <1>2, <2>1, SubSeqOfConcat2
  <2>4. SubSeq(r, 1, n) = r
    BY <1>3, SubSeqFull
  <2> QED BY <1>1, <2>1, <2>2, <2>3, <2>4
<1>7. (n + 4) - 3 = n + 1
  OBVIOUS
<1>8. q[1] = FSSTR
  <2>1. 1 \in 1..(n + 4) /\ 1 <= n + 1 /\ 1 \in 1..(n + 1)
    BY <1>3
  <2> QED BY <1>2, <1>4, <1>5, <2>1
<1>9. ASSUME NEW i \in 1..n PROVE q[i + 1] = r[i]
  <2>1. i + 1 \in 1..(n + 4) /\ i + 1 <= n + 1 /\ i + 1 \in 1..(n + 1) /\ ~(i + 1 <= 1) /\ (i + 1) - 1 = i
    OBVIOUS
  <2> QED BY <1>4, <1>5, <2>1
<1>10. ASSUME NEW i \in 1..3 PROVE q[n + 1 + i] = t[i]
  <2>1. n + 1 + i \in 1..(n + 4) /\ ~(n + 1 + i <= n + 1) /\ (n + 1 + i) - (n + 1) = i
    OBVIOUS
  <2> QED BY <1>5, <2>1
<1> QED BY <1>1, <1>3, <1>5, <1>6, <1>7, <1>8, <1>9, <1>10

(* What a packet with r in it is made of, and its checksum. *)
LEMMA FramedIs ==
    ASSUME NEW p, NEW r, Framed(p, r)
    PROVE  /\ p \in Seq(Byte) /\ Len(p) = Len(r) + 4
           /\ p[1] = FSSTR /\ p[Len(p)] = FEND
           /\ \A i \in 1..Len(r) : p[i + 1] = r[i]
           /\ p[Len(r) + 2] = High(Total(r)) /\ p[Len(r) + 3] = Low(Total(r))
           /\ SubSeq(p, 2, Len(p) - 3) = r
           /\ checksum_calc(p) = <<High(Total(r)), Low(Total(r))>>
           /\ SubSeq(p, Len(p) - 2, Len(p) - 1) = checksum_calc(p)
<1>0. r \in Seq(Byte) /\ Len(r) \in Nat /\ Len(r) >= 3 /\ Total(r) \in Sums
  <2>1. \A n \in Sizes : n \in Nat /\ n >= 3
    BY DEF Sizes
  <2> QED BY <2>1 DEF Framed
<1>1. PICK v \in Sums, n \in Nat : v = Total(r) /\ n = Len(r) /\ n >= 3
  BY <1>0
<1>3. PICK hi, lo \in Byte : hi = High(v) /\ lo = Low(v)
  BY SumOfBytes
<1>4. PICK t : t = <<hi, lo, FEND>>
  OBVIOUS
<1>5. t \in Seq(Nat) /\ Len(t) = 3 /\ t[1] = hi /\ t[2] = lo /\ t[3] = FEND /\ FEND \in Byte /\ FSSTR \in Byte
  BY <1>4 DEF Byte, FEND, FSSTR
<1>6. p = (<<FSSTR>> \o r) \o t
  BY <1>1, <1>3, <1>4 DEF Framed
<1>7. /\ p \in Seq(Nat) /\ Len(p) = n + 4 /\ SubSeq(p, 2, Len(p) - 3) = r /\ p[1] = FSSTR
      /\ \A i \in 1..n : p[i + 1] = r[i]
      /\ \A i \in 1..3 : p[n + 1 + i] = t[i]
  BY <1>0, <1>1, <1>5, <1>6, Summed
<1>8. p[n + 2] = hi /\ p[n + 3] = lo /\ p[n + 4] = FEND
  <2>1. n + 1 + 1 = n + 2 /\ n + 1 + 2 = n + 3 /\ n + 1 + 3 = n + 4
    OBVIOUS
  <2>2. 1 \in 1..3 /\ 2 \in 1..3 /\ 3 \in 1..3
    OBVIOUS
  <2>3. p[n + 1 + 1] = t[1] /\ p[n + 1 + 2] = t[2] /\ p[n + 1 + 3] = t[3]
    BY <1>7, <2>2
  <2>4. t[1] = hi /\ t[2] = lo /\ t[3] = FEND
    BY <1>5
  <2> QED BY <2>1, <2>3, <2>4
<1>9. p \in Seq(Byte)
  <2>1. ASSUME NEW i \in 1..(n + 4) PROVE p[i] \in Byte
    <3>1. i = 1 \/ (i - 1 \in 1..n /\ (i - 1) + 1 = i) \/ i \in {n + 2, n + 3, n + 4}
      OBVIOUS
    <3>2. \A j \in 1..n : r[j] \in Byte
      BY <1>0, <1>1, ElementOfSeq
    <3> QED BY <1>5, <1>7, <1>8, <3>1, <3>2
  <2> QED BY <1>7, <2>1, IsASeq
<1>10. checksum_calc(p) = <<hi, lo>>
  <2>1. Total(SubSeq(p, 2, Len(p) - 3)) = v
    BY <1>1, <1>7
  <2> QED BY <1>3, <2>1, ChecksumIs
<1>11. SubSeq(p, Len(p) - 2, Len(p) - 1) = <<hi, lo>>
  <2>1. PICK m \in Nat : m = n + 2 /\ Len(p) - 2 = m /\ Len(p) - 1 = m + 1
    BY <1>7
  <2>2. \A i \in m..(m + 1) : i \in 1..Len(p)
    BY <1>7, <2>1
  <2>3. \A i \in m..(m + 1) : p[i] \in Byte
    BY <1>9, <2>2, ElementOfSeq
  <2>4. /\ SubSeq(p, m, m + 1) \in Seq(Byte) /\ Len(SubSeq(p, m, m + 1)) = 2
        /\ \A i \in 1..2 : SubSeq(p, m, m + 1)[i] = p[m + i - 1]
    <3>1. m <= m + 1 /\ (m + 1) - m + 1 = 2
      OBVIOUS
    <3> QED BY <2>3, <3>1, SubSeqProperties
  <2>5. PICK x : x = SubSeq(p, m, m + 1)
    OBVIOUS
  <2>6. x \in Seq(Byte) /\ Len(x) = 2 /\ x[1] = hi /\ x[2] = lo
    <3>1. m + 1 - 1 = n + 2 /\ m + 2 - 1 = n + 3 /\ 1 \in 1..2 /\ 2 \in 1..2
      BY <2>1
    <3> QED BY <1>8, <2>4, <2>5, <3>1
  <2>7. x = <<hi, lo>>
    BY <2>6
  <2> QED BY <2>1, <2>5, <2>7
<1> QED BY <1>1, <1>3, <1>7, <1>8, <1>9, <1>10, <1>11

LEMMA OneAndThree == \A a, b, c, d \in Nat : <<a>> \o <<b, c, d>> = <<a, b, c, d>>
<1> SUFFICES ASSUME NEW a \in Nat, NEW b \in Nat, NEW c \in Nat, NEW d \in Nat PROVE <<a>> \o <<b, c, d>> = <<a, b, c, d>>
  OBVIOUS
<1> SUFFICES ASSUME NEW x, x = <<a>>, NEW y, y = <<b, c, d>>, NEW z, z = <<a, b, c, d>> PROVE x \o y = z
  OBVIOUS
<1>1. /\ x \in Seq(Nat) /\ y \in Seq(Nat) /\ z \in Seq(Nat)
      /\ Len(x) = 1 /\ Len(y) = 3 /\ Len(z) = 4
  OBVIOUS
<1>2. x[1] = a /\ y[1] = b /\ y[2] = c /\ y[3] = d /\ z[1] = a /\ z[2] = b /\ z[3] = c /\ z[4] = d
  OBVIOUS
<1>3. Len(x \o y) = 4 /\ x \o y \in Seq(Nat)
  BY <1>1, ConcatProperties
<1>4. (x \o y)[1] = a /\ (x \o y)[2] = b /\ (x \o y)[3] = c /\ (x \o y)[4] = d
  BY <1>1, <1>2, ConcatProperties
<1>5. \A i \in 1..Len(z) : (x \o y)[i] = z[i]
  BY <1>1, <1>2, <1>4
<1> QED BY <1>1, <1>3, <1>5, SeqEqual

LEMMA TwoAndOne == \A a, b, c \in Nat : <<a, b>> \o <<c>> = <<a, b, c>>
<1> SUFFICES ASSUME NEW a \in Nat, NEW b \in Nat, NEW c \in Nat PROVE <<a, b>> \o <<c>> = <<a, b, c>>
  OBVIOUS
<1> SUFFICES ASSUME NEW x, x = <<a, b>>, NEW y, y = <<c>>, NEW z, z = <<a, b, c>> PROVE x \o y = z
  OBVIOUS
<1>1. /\ x \in Seq(Nat) /\ y \in Seq(Nat) /\ z \in Seq(Nat)
      /\ Len(x) = 2 /\ Len(y) = 1 /\ Len(z) = 3
  OBVIOUS
<1>2. x[1] = a /\ x[2] = b /\ y[1] = c /\ z[1] = a /\ z[2] = b /\ z[3] = c
  OBVIOUS
<1>3. Len(x \o y) = 3 /\ x \o y \in Seq(Nat)
  BY <1>1, ConcatProperties
<1>4. (x \o y)[1] = a /\ (x \o y)[2] = b /\ (x \o y)[3] = c
  BY <1>1, <1>2, ConcatProperties
<1>5. \A i \in 1..Len(z) : (x \o y)[i] = z[i]
  BY <1>1, <1>2, <1>4
<1> QED BY <1>1, <1>3, <1>5, SeqEqual

(* The device's packets are of this kind. *)
LEMMA PacketFramed ==
    ASSUME NEW data \in Seq(Byte), Len(data) <= 256
    PROVE  LET r == <<FACK, ADDR, CODE>> \o data
           IN  Framed(TerminalPacket(data), r) /\ Total(r) = 115 + Total(data)
<1>1. PICK h, r : h = <<FACK, ADDR, CODE>> /\ r = h \o data
  OBVIOUS
<1>2. h \in Seq(Byte) /\ Len(h) = 3 /\ h[1] = FACK /\ h[2] = ADDR /\ h[3] = CODE
  BY <1>1 DEF Byte, FACK, ADDR, CODE
<1>3. PICK n \in Nat : n = Len(data) /\ n <= 256
  BY LenProperties
<1>4. Byte \subseteq Nat /\ h \in Seq(Nat) /\ data \in Seq(Nat) /\ FSSTR \in Nat /\ <<FSSTR>> \in Seq(Nat)
  <2>1. Byte \subseteq Nat
    BY DEF Byte
  <2>2. FSSTR \in Nat
    BY DEF FSSTR
  <2>3. h \in Seq(Nat) /\ data \in Seq(Nat)
    BY <1>2, <2>1, SeqMonotonic
  <2> QED BY <2>1, <2>2, <2>3
<1>5. /\ r \in Seq(Byte) /\ Len(r) = n + 3
      /\ \A i \in 1..(n + 3) : r[i] = IF i <= 3 THEN h[i] ELSE data[i - 3]
  <2>1. /\ h \o data \in Seq(Byte) /\ Len(h \o data) = Len(h) + Len(data)
        /\ \A i \in 1..Len(h) + Len(data) : (h \o data)[i] = IF i <= Len(h) THEN h[i] ELSE data[i - Len(h)]
    <3>1. h \in Seq(Byte) /\ data \in Seq(Byte)
      BY <1>2
    <3> QED BY <3>1, ConcatProperties
  <2>2. Len(h) + Len(data) = n + 3
    BY <1>2, <1>3
  <2> QED BY <1>1, <1>2, <2>1, <2>2
<1>6. r[1] = FACK /\ r[2] = ADDR /\ r[3] = CODE
  <2>1. \A i \in 1..3 : i \in 1..(n + 3) /\ i <= 3
    OBVIOUS
  <2> QED BY <1>2, <1>5, <2>1
<1>7. Total(h) = 115
  <2>1. PICK a, b, c : a = <<FACK>> /\ b = <<ADDR>> /\ c = <<CODE>>
    OBVIOUS
  <2>2. a \in Seq(Nat) /\ b \in Seq(Nat) /\ c \in Seq(Nat) /\ h = (a \o b) \o c
    BY <1>1, <2>1 DEF FACK, ADDR, CODE
  <2>3. Total(a) = 43 /\ Total(b) = 1 /\ Total(c) = 71
    BY <2>1, TotalOne DEF FACK, ADDR, CODE
  <2>4. Total(a \o b) = 43 + 1 /\ a \o b \in Seq(Nat)
    BY <2>2, <2>3, TotalConcat, ConcatProperties
  <2>5. Total((a \o b) \o c) = Total(a \o b) + Total(c)
    BY <2>2, <2>4, TotalConcat
  <2> QED BY <2>2, <2>3, <2>4, <2>5
<1>8. Total(r) = 115 + Total(data) /\ Total(data) \in Nat /\ Total(data) <= 255 * n
  <2>1. Total(h \o data) = Total(h) + Total(data)
    BY <1>4, TotalConcat
  <2> QED BY <1>1, <1>3, <1>7, <2>1, TotalOfBytes
<1>9. Total(r) \in Sums
  <2>1. \A m \in Nat : m <= 255 * n => 115 + m \in Sums
    BY <1>3, SMT DEF Sums
  <2> QED BY <1>8, <2>1
<1>10. PICK s, w : s = <<FSSTR>> \o r /\ w = <<0, 0, FEND>>
  OBVIOUS
<1>11. s = <<FSSTR, FACK, ADDR, CODE>> \o data /\ s \in Seq(Nat)
  <2>1. (<<FSSTR>> \o h) \o data = <<FSSTR>> \o (h \o data)
    BY <1>4, ConcatAssociative, SMTT(30)
  <2>2. <<FSSTR>> \o h = <<FSSTR, FACK, ADDR, CODE>>
    <3>1. \A a, b, c, d \in Nat : <<a>> \o <<b, c, d>> = <<a, b, c, d>>
      BY OneAndThree
    <3>2. FSSTR \in Nat /\ FACK \in Nat /\ ADDR \in Nat /\ CODE \in Nat
      BY DEF FSSTR, FACK, ADDR, CODE
    <3> QED BY <1>1, <3>1, <3>2
  <2>3. r \in Seq(Nat)
    <3>1. Byte \subseteq Nat /\ r \in Seq(Byte)
      BY <1>4, <1>5
    <3> QED BY <3>1, SeqMonotonic, Zenon
  <2> QED BY <1>1, <1>4, <1>10, <2>1, <2>2, <2>3, ConcatProperties
<1>12. checksum_calc(s \o w) = <<High(Total(r)), Low(Total(r))>>
  <2>1. w \in Seq(Nat) /\ Len(w) = 3
    BY <1>10 DEF FEND
  <2>2. Len(r) >= 3
    BY <1>3, <1>5
  <2>3. PICK q : q = s \o w
    OBVIOUS
  <2>4. SubSeq(q, 2, Len(q) - 3) = r
    BY <1>5, <1>10, <2>1, <2>2, <2>3, Summed
  <2> QED BY <1>9, <2>3, <2>4, ChecksumIs
<1>13. PICK a, b : a = High(Total(r)) /\ b = Low(Total(r))
  OBVIOUS
<1>14. TerminalPacket(data) = (s \o <<a, b>>) \o <<FEND>>
  BY <1>10, <1>11, <1>12, <1>13 DEF TerminalPacket
<1>15. (s \o <<a, b>>) \o <<FEND>> = s \o <<a, b, FEND>>
  <2>1. a \in Nat /\ b \in Nat
    <3>1. \A v \in Sums : High(v) \in Nat /\ Low(v) \in Nat
      BY SMT DEF Sums, High, Low
    <3> QED BY <1>9, <1>13, <3>1
  <2>2. PICK y, z : y = <<a, b>> /\ z = <<FEND>>
    OBVIOUS
  <2>3. y \in Seq(Nat) /\ z \in Seq(Nat) /\ y \o z = <<a, b, FEND>>
    <3>1. FEND \in Nat
      BY DEF FEND
    <3>2. \A c, d, e \in Nat : <<c, d>> \o <<e>> = <<c, d, e>>
      BY TwoAndOne
    <3> QED BY <2>1, <2>2, <3>1, <3>2
  <2>4. (s \o y) \o z = s \o (y \o z)
    <3>1. s \in Seq(Nat) /\ y \in Seq(Nat) /\ z \in Seq(Nat)
      BY <1>11, <2>3
    <3> QED BY <3>1, ConcatAssociative, SMTT(30)
  <2> QED BY <2>2, <2>3, <2>4
<1>16. TerminalPacket(data) = (<<FSSTR>> \o r) \o <<High(Total(r)), Low(Total(r)), FEND>>
  BY <1>10, <1>13, <1>14, <1>15
<1>17. Len(r) \in Sizes
  <2>1. \A m \in Nat : m <= 256 => m + 3 \in Sizes
    BY DEF Sizes
  <2> QED BY <1>3, <1>5, <2>1
<1>18. Framed(TerminalPacket(data), r)
  BY <1>5, <1>6, <1>9, <1>16, <1>17 DEF Framed
<1> QED BY <1>1, <1>8, <1>18

(* Two bytes say which number below 65536 they stand for. *)
Word == 65536

LEMMA SameChecksum ==
    ASSUME NEW b, NEW w \in Nat, w = Total(SubSeq(b, 2, Len(b) - 3)), NEW v \in Sums,
           checksum_calc(b) = <<High(v), Low(v)>>
    PROVE  w % Word = v
<1>1. PICK s \in Nat : s = w % 65536 /\ s < 65536
  BY SMT
<1>2. checksum_calc(b) = <<High(s), Low(s)>>
  BY <1>1, SMT DEF checksum_calc, High, Low
<1>3. \A a, c, d, e : <<a, c>> = <<d, e>> => a = d /\ c = e
  OBVIOUS
<1>4. High(s) = High(v) /\ Low(s) = Low(v)
  <2>1. <<High(s), Low(s)>> = <<High(v), Low(v)>>
    BY <1>2
  <2> QED BY <1>3, <2>1
<1>5. v \in Nat /\ v < 65536
  BY SMT DEF Sums
<1>6. s = v
  <2>1. s \in Nat /\ v \in Nat
    BY <1>1, <1>5
  <2>2. \A i \in Nat : i = 256 * (i \div 256) + (i % 256)
    <3> TAKE i \in Nat
    <3>1. i % 256 = i - 256 * (i \div 256)
      BY SMT
    <3> QED BY <3>1, SMT
  <2>3. s = 256 * (s \div 256) + (s % 256) /\ v = 256 * (v \div 256) + (v % 256)
    BY <2>1, <2>2
  <2> QED BY <1>4, <2>3 DEF High, Low
<1> QED BY <1>1, <1>6, SMT DEF Word

(* What the protocol does not take for a packet. *)
Refused(b) ==
    \/ Len(b) < 7 \/ b[3] # ADDR \/ b[4] # CODE
    \/ SubSeq(b, Len(b) - 2, Len(b) - 1) # checksum_calc(b)

LEMMA Inner ==
    ASSUME NEW S, NEW s \in Seq(S), NEW i \in 1..Len(s), NEW j \in 1..Len(s),
           NEW m \in 1..(j - i + 1), NEW n \in 1..(j - i + 1)
    PROVE  SubSeq(SubSeq(s, i, j), m, n) = SubSeq(s, i + m - 1, i + n - 1)
<1>1. \A t \in Seq(S) : SubSeq(SubSeq(s, i, j), m, n) = SubSeq(s, i + m - 1, i + n - 1)
  BY SubSeqOfSubSeq
<1> QED BY <1>1

(* The end of a packet is refused: the bytes before it are in the checksum. *)
LEMMA EndRefused ==
    ASSUME NEW p, NEW r, Framed(p, r), NEW m \in 2..Len(p), p[m] = FSSTR
    PROVE  Refused(SubSeq(p, m, Len(p)))
<1>0. /\ p \in Seq(Byte) /\ Len(p) = Len(r) + 4 /\ r \in Seq(Byte)
      /\ Len(r) \in Sizes /\ Total(r) \in Sums
      /\ SubSeq(p, 2, Len(p) - 3) = r
      /\ checksum_calc(p) = <<High(Total(r)), Low(Total(r))>>
      /\ SubSeq(p, Len(p) - 2, Len(p) - 1) = checksum_calc(p)
  <2>1. r \in Seq(Byte) /\ Len(r) \in Sizes /\ Total(r) \in Sums
    BY DEF Framed
  <2> QED BY <2>1, FramedIs
<1>1. PICK n \in Nat : n = Len(p) /\ n <= 263 /\ n >= 7 /\ m \in 2..n /\ n - 3 = Len(r) + 1
  <2>1. \A k \in Sizes : k + 4 \in Nat /\ k + 4 <= 263 /\ k + 4 >= 7 /\ (k + 4) - 3 = k + 1
    BY DEF Sizes
  <2> QED BY <1>0, <2>1
<1>2. PICK b : b = SubSeq(p, m, n)
  OBVIOUS
<1>3. b \in Seq(Byte) /\ Len(b) = n - m + 1
  <2>1. \A i \in m..n : i \in 1..Len(p)
    BY <1>1
  <2>2. \A i \in m..n : p[i] \in Byte
    BY <1>0, <2>1, ElementOfSeq
  <2>3. m \in Int /\ n \in Int /\ m <= n
    BY <1>1
  <2> QED BY <1>2, <2>2, <2>3, SubSeqProperties
<1>4. SUFFICES ASSUME Len(b) >= 7, SubSeq(b, Len(b) - 2, Len(b) - 1) = checksum_calc(b) PROVE FALSE
  <2>1. Len(b) \in Nat
    BY <1>3, LenProperties
  <2>2. ~(Len(b) >= 7) => Len(b) < 7
    BY <2>1
  <2>3. Refused(b)
    BY <1>4, <2>2 DEF Refused
  <2> QED BY <1>1, <1>2, <2>3
<1>5. m \in 2..(n - 6)
  BY <1>1, <1>3, <1>4
<1>6. SubSeq(b, Len(b) - 2, Len(b) - 1) = SubSeq(p, n - 2, n - 1)
  <2>1. PICK x, y \in 1..(n - m + 1) : x = n - m - 1 /\ y = n - m
    BY <1>5
  <2>2. m + x - 1 = n - 2 /\ m + y - 1 = n - 1 /\ Len(b) - 2 = x /\ Len(b) - 1 = y
    BY <1>1, <1>3, <2>1
  <2>3. m \in 1..Len(p) /\ n \in 1..Len(p) /\ x \in 1..(n - m + 1) /\ y \in 1..(n - m + 1)
    BY <1>1, <2>1
  <2>4. SubSeq(SubSeq(p, m, n), x, y) = SubSeq(p, m + x - 1, m + y - 1)
    <3>1. p \in Seq(Byte)
      BY <1>0
    <3>2. \A i, j \in 1..Len(p) : \A k, l \in 1..(j - i + 1) :
             SubSeq(SubSeq(p, i, j), k, l) = SubSeq(p, i + k - 1, i + l - 1)
      BY <3>1, Inner
    <3> QED BY <2>3, <3>2
  <2> QED BY <1>2, <2>2, <2>4
<1>7. SubSeq(b, 2, Len(b) - 3) = SubSeq(p, m + 1, n - 3)
  <2>1. PICK x, y \in 1..(n - m + 1) : x = 2 /\ y = n - m - 2
    BY <1>5
  <2>2. m + x - 1 = m + 1 /\ m + y - 1 = n - 3 /\ Len(b) - 3 = y
    BY <1>1, <1>3, <2>1
  <2>3. m \in 1..Len(p) /\ n \in 1..Len(p) /\ x \in 1..(n - m + 1) /\ y \in 1..(n - m + 1)
    BY <1>1, <2>1
  <2>4. SubSeq(SubSeq(p, m, n), x, y) = SubSeq(p, m + x - 1, m + y - 1)
    <3>1. p \in Seq(Byte)
      BY <1>0
    <3>2. \A i, j \in 1..Len(p) : \A k, l \in 1..(j - i + 1) :
             SubSeq(SubSeq(p, i, j), k, l) = SubSeq(p, i + k - 1, i + l - 1)
      BY <3>1, Inner
    <3> QED BY <2>3, <3>2
  <2> QED BY <1>2, <2>1, <2>2, <2>4
(* What is before the piece, the start it is taken for, and its own bytes. *)
<1>8. PICK x, y, z : x = SubSeq(p, 2, m - 1) /\ y = <<p[m]>> /\ z = SubSeq(p, m + 1, n - 3)
  OBVIOUS
<1>9. /\ x \in Seq(Byte) /\ Len(x) <= 255 /\ z \in Seq(Byte) /\ y \in Seq(Nat)
      /\ Len(x) \in Nat
  <2>1. \A i \in 1..n : p[i] \in Byte
    BY <1>0, <1>1, ElementOfSeq
  <2>2. (\A i \in 2..(m - 1) : i \in 1..n) /\ (\A i \in (m + 1)..(n - 3) : i \in 1..n)
    BY <1>1, <1>5
  <2>3. (\A i \in 2..(m - 1) : p[i] \in Byte) /\ (\A i \in (m + 1)..(n - 3) : p[i] \in Byte)
    BY <2>1, <2>2
  <2>4. m \in Int /\ m - 1 \in Int /\ m + 1 \in Int /\ n - 3 \in Int
    BY <1>1, <1>5
  <2>5. x \in Seq(Byte) /\ Len(x) = IF 2 <= m - 1 THEN (m - 1) - 2 + 1 ELSE 0
    BY <1>8, <2>3, <2>4, SubSeqProperties
  <2>6. z \in Seq(Byte)
    BY <1>8, <2>3, <2>4, SubSeqProperties
  <2>7. Len(x) \in Nat /\ Len(x) <= 255
    BY <1>1, <1>5, <2>5
  <2>8. y \in Seq(Nat)
    BY <1>8 DEF FSSTR
  <2> QED BY <2>5, <2>6, <2>7, <2>8
<1>10. r = (x \o y) \o z
  <2>1. m \in 2..(n - 3) /\ 2 \in 1..n + 1 /\ m \in 1..n /\ m - 1 \in 2 - 1..n /\ m \in 2 - 1..n
        /\ n - 3 \in m..n /\ m \in (m - 1)..n
    BY <1>1, <1>5
  <2>2. SubSeq(p, 2, m) \o SubSeq(p, m + 1, n - 3) = SubSeq(p, 2, n - 3)
    BY <1>0, <1>1, <2>1, ConcatAdjacentSubSeq
  <2>3. SubSeq(p, 2, m) = SubSeq(p, 2, m - 1) \o <<p[m]>>
    <3>1. 2 \in 1..Len(p) /\ m \in 2..Len(p)
      BY <1>1
    <3> QED BY <1>0, <3>1, SubSeqRecursiveSecond
  <2>4. SubSeq(p, 2, n - 3) = r
    BY <1>0, <1>1
  <2> QED BY <1>8, <2>2, <2>3, <2>4
<1>11. PICK u, w \in Nat : /\ Total(r) = u + w /\ w = Total(z) /\ u >= 62 /\ u <= 62 + 255 * 255
  <2>1. x \in Seq(Nat) /\ z \in Seq(Nat)
    <3>1. Byte \subseteq Nat
      BY DEF Byte
    <3> QED BY <1>9, <3>1, SeqMonotonic
  <2>2. Total(y) = 62
    BY <1>8, TotalOne DEF FSSTR
  <2>3. Total(x \o y) = Total(x) + 62 /\ Total(x) \in Nat /\ Total(z) \in Nat /\ x \o y \in Seq(Nat)
    BY <1>9, <2>1, <2>2, TotalConcat, ConcatProperties
  <2>4. Total((x \o y) \o z) = Total(x \o y) + Total(z)
    BY <2>1, <2>3, TotalConcat
  <2>5. Total(x) <= 255 * 255
    <3>1. \A i \in Nat : i <= 255 => 255 * i <= 255 * 255
      OBVIOUS
    <3>2. Total(x) <= 255 * Len(x)
      BY <1>9, TotalOfBytes
    <3> QED BY <1>9, <2>3, <3>1, <3>2
  <2>6. Total(r) = (Total(x) + 62) + Total(z)
    BY <1>10, <2>3, <2>4
  <2>7. Total(x) + 62 \in Nat /\ Total(x) + 62 >= 62 /\ Total(x) + 62 <= 62 + 255 * 255
    BY <2>3, <2>5
  <2> QED BY <2>3, <2>6, <2>7
<1>12. w % Word = Total(r)
  <2>1. checksum_calc(b) = <<High(Total(r)), Low(Total(r))>>
    BY <1>0, <1>1, <1>4, <1>6
  <2>2. w = Total(SubSeq(b, 2, Len(b) - 3))
    BY <1>7, <1>8, <1>11
  <2>3. PICK v \in Sums : v = Total(r)
    BY <1>0
  <2>4. checksum_calc(b) = <<High(v), Low(v)>>
    BY <2>1, <2>3
  <2>5. w % Word = v
    BY <2>2, <2>4, SameChecksum
  <2> QED BY <2>3, <2>5
<1>13. w % Word # u + w
  <2>1. w < 65536 => w % 65536 = w
    BY SMT
  <2>2. w % 65536 < 65536
    BY SMT
  <2> QED BY <1>11, <2>1, <2>2, SMT DEF Word
<1> QED BY <1>11, <1>12, <1>13

(* What the checksum of a packet of one byte again and again is.           *)
Repeats(v) == \E n \in 0..256, c \in Byte : v = 115 + n * c

TwoBytes(v, hi, lo) == v = 256 * hi + lo

NotAWord(v, hi, lo) == (v + hi) + 62 # Word /\ ((v + hi) + lo) + 62 # Word

LEMMA SumInBytes == \A v \in Sums : TwoBytes(v, High(v), Low(v))
<1> TAKE v \in Sums
<1>1. v \in Nat
  BY SMT DEF Sums
<1>2. v % 256 = v - 256 * (v \div 256)
  BY <1>1, SMT
<1> QED BY <1>1, <1>2, SMT DEF TwoBytes, High, Low

(* With its two bytes and the start of another packet it is never a whole  *)
(* Word.                                                                   *)
LEMMA NoWord ==
    \A v \in Nat, hi, lo \in Byte : Repeats(v) /\ TwoBytes(v, hi, lo) => NotAWord(v, hi, lo)
<1> TAKE v \in Nat, hi, lo \in Byte
<1> HAVE Repeats(v) /\ TwoBytes(v, hi, lo)
<1>0. PICK n \in 0..256, x \in Byte : v = 115 + n * x
  BY DEF Repeats
<1>1. n \in Nat /\ x \in Nat /\ n <= 256 /\ x <= 255
  BY DEF Byte
<1>2. PICK y \in Nat : y = n * x /\ v = 115 + y
  <2>1. n * x \in Nat
    BY <1>1
  <2> QED BY <1>0, <2>1
<1>3. y # 65105 /\ y # 65007
  <2>1. CASE n <= 254
    <3>1. \A a, b \in Nat : a <= 254 /\ b <= 255 => a * b <= 254 * 255
      <4> SUFFICES ASSUME NEW a \in Nat, NEW b \in Nat, a <= 254, b <= 255 PROVE a * b <= 254 * 255
        OBVIOUS
      <4>1. a * b <= 254 * b
        <5>1. a * b + (254 - a) * b = 254 * b
          OBVIOUS
        <5>2. (254 - a) \in Nat
          OBVIOUS
        <5>3. (254 - a) * b >= 0
          BY <5>2
        <5> QED BY <5>1, <5>3
      <4>2. 254 * b <= 254 * 255
        OBVIOUS
      <4> QED BY <4>1, <4>2
    <3>2. y <= 254 * 255
      BY <1>1, <1>2, <2>1, <3>1
    <3> QED BY <3>2, SMT
  <2>2. CASE n = 255
    BY <1>1, <1>2, <2>2, SMT
  <2>3. CASE n = 256
    BY <1>1, <1>2, <2>3, SMT
  <2> QED BY <1>1, <2>1, <2>2, <2>3
<1>4. hi \in 0..255 /\ lo \in 0..255 /\ v = 256 * hi + lo
  BY DEF Byte, TwoBytes
<1> QED BY <1>2, <1>3, <1>4, SMT DEF Word, NotAWord

(* Two packets glued together are refused: what is left of the first and   *)
(* the start of the second are in the checksum.                            *)
LEMMA GlueRefused ==
    ASSUME NEW e, NEW q, Framed(e, q), Repeats(Total(q)),
           NEW s, NEW r, Framed(s, r), NEW k \in 1..(Len(e) - 1)
    PROVE  Refused(SubSeq(e, 1, k) \o s)
<1>0. /\ e \in Seq(Byte) /\ s \in Seq(Byte) /\ Byte \subseteq Nat
      /\ q \in Seq(Nat) /\ r \in Seq(Nat) /\ Total(q) \in Sums /\ Total(r) \in Sums
      /\ Len(e) = Len(q) + 4 /\ Len(s) = Len(r) + 4
      /\ s[1] = FSSTR /\ s[2] = FACK
      /\ e[Len(q) + 2] = High(Total(q)) /\ e[Len(q) + 3] = Low(Total(q))
      /\ SubSeq(e, 2, Len(e) - 3) = q /\ SubSeq(s, 2, Len(s) - 3) = r
      /\ SubSeq(s, Len(s) - 2, Len(s) - 1) = <<High(Total(r)), Low(Total(r))>>
  <2>1. /\ q \in Seq(Byte) /\ r \in Seq(Byte) /\ Total(q) \in Sums /\ Total(r) \in Sums
        /\ r[1] = FACK /\ Len(r) \in Sizes
    BY DEF Framed
  <2>2. Byte \subseteq Nat
    BY DEF Byte
  <2>3. q \in Seq(Nat) /\ r \in Seq(Nat)
    BY <2>1, <2>2, SeqMonotonic
  <2>4. s[2] = FACK
    <3>1. 1 \in 1..Len(r) /\ 1 + 1 = 2
      <4>1. \A i \in Sizes : 1 \in 1..i
        BY DEF Sizes
      <4> QED BY <2>1, <4>1
    <3>2. s[1 + 1] = r[1]
      BY <3>1, FramedIs
    <3> QED BY <2>1, <3>1, <3>2
  <2>5. /\ e \in Seq(Byte) /\ Len(e) = Len(q) + 4
        /\ e[Len(q) + 2] = High(Total(q)) /\ e[Len(q) + 3] = Low(Total(q))
        /\ SubSeq(e, 2, Len(e) - 3) = q
    BY FramedIs
  <2>6. /\ s \in Seq(Byte) /\ Len(s) = Len(r) + 4 /\ s[1] = FSSTR
        /\ SubSeq(s, 2, Len(s) - 3) = r
        /\ SubSeq(s, Len(s) - 2, Len(s) - 1) = <<High(Total(r)), Low(Total(r))>>
    <3>1. /\ s \in Seq(Byte) /\ Len(s) = Len(r) + 4 /\ s[1] = FSSTR
          /\ SubSeq(s, 2, Len(s) - 3) = r
          /\ checksum_calc(s) = <<High(Total(r)), Low(Total(r))>>
          /\ SubSeq(s, Len(s) - 2, Len(s) - 1) = checksum_calc(s)
      BY FramedIs
    <3> QED BY <3>1
  <2> QED BY <2>1, <2>2, <2>3, <2>4, <2>5, <2>6
<1>1. PICK l, m \in Nat : l = Len(q) /\ m = Len(r) /\ l >= 3 /\ m >= 3 /\ k \in 1..(l + 3)
                          /\ Len(e) = l + 4 /\ Len(s) = m + 4
  <2>1. Len(q) \in Sizes /\ Len(r) \in Sizes
    BY DEF Framed
  <2>2. \A i \in Sizes : i \in Nat /\ i >= 3 /\ (i + 4) - 1 = i + 3
    BY DEF Sizes
  <2>3. Len(q) \in Nat /\ Len(q) >= 3 /\ Len(r) \in Nat /\ Len(r) >= 3 /\ (Len(q) + 4) - 1 = Len(q) + 3
    BY <2>1, <2>2
  <2>4. k \in 1..(Len(q) + 3) /\ Len(e) = Len(q) + 4 /\ Len(s) = Len(r) + 4
    <3>1. Len(e) = Len(q) + 4 /\ Len(s) = Len(r) + 4
      BY <1>0
    <3>2. Len(e) - 1 = Len(q) + 3
      BY <2>3, <3>1
    <3> QED BY <3>1, <3>2
  <2> QED BY <2>3, <2>4
<1>2. PICK a, b : a = SubSeq(e, 1, k) /\ b = a \o s
  OBVIOUS
<1>3. a \in Seq(Byte) /\ Len(a) = k
  <2>1. k \in 0..(Len(e) - 1)
    BY <1>1
  <2>2. e \in Seq(Value)
    <3>1. Nat \subseteq Value
      BY DEF Value
    <3>2. Byte \subseteq Value
      BY <1>0, <3>1
    <3> QED BY <1>0, <3>2, SeqMonotonic
  <2>3. Len(a) = k
    BY <1>2, <2>1, <2>2, PrefixGrows
  <2>4. \A i \in 1..k : i \in 1..Len(e)
    BY <1>1
  <2>5. \A i \in 1..k : e[i] \in Byte
    BY <1>0, <2>4, ElementOfSeq
  <2>6. a \in Seq(Byte)
    BY <1>2, <2>5, SubSeqProperties
  <2> QED BY <2>3, <2>6
<1>4. /\ b \in Seq(Byte) /\ Len(b) = k + (m + 4)
      /\ \A i \in 1..(k + (m + 4)) : b[i] = IF i <= k THEN a[i] ELSE s[i - k]
  <2>1. /\ a \o s \in Seq(Byte) /\ Len(a \o s) = Len(a) + Len(s)
        /\ \A i \in 1..Len(a) + Len(s) : (a \o s)[i] = IF i <= Len(a) THEN a[i] ELSE s[i - Len(a)]
    <3>1. a \in Seq(Byte) /\ s \in Seq(Byte)
      BY <1>0, <1>3
    <3> QED BY <3>1, ConcatProperties
  <2>2. Len(a) + Len(s) = k + (m + 4)
    BY <1>1, <1>3
  <2> QED BY <1>2, <1>3, <2>1, <2>2
<1>5. CASE k < 4
  <2>1. k \in {1, 2, 3} /\ 3 \in 1..(k + (m + 4)) /\ 4 \in 1..(k + (m + 4))
    BY <1>1, <1>5
  <2>2. (k = 1 => b[3] = s[2]) /\ (k = 2 => b[3] = s[1]) /\ (k = 3 => b[4] = s[1])
    <3>1. 3 - 1 = 2 /\ 3 - 2 = 1 /\ 4 - 3 = 1 /\ ~(3 <= 1) /\ ~(3 <= 2) /\ ~(4 <= 3)
      OBVIOUS
    <3> QED BY <1>4, <2>1, <3>1
  <2>3. b[3] # ADDR \/ b[4] # CODE
    <3>1. s[1] = 62 /\ s[2] = 43
      BY <1>0 DEF FACK, FSSTR
    <3>2. CASE k = 1
      BY <2>2, <3>1, <3>2 DEF ADDR
    <3>3. CASE k = 2
      BY <2>2, <3>1, <3>3 DEF ADDR
    <3>4. CASE k = 3
      BY <2>2, <3>1, <3>4 DEF CODE
    <3> QED BY <2>1, <3>2, <3>3, <3>4
  <2> QED BY <1>2, <2>3 DEF Refused
<1>6. CASE k >= 4 /\ SubSeq(b, Len(b) - 2, Len(b) - 1) # checksum_calc(b)
  BY <1>2, <1>6 DEF Refused
<1>7. CASE k >= 4 /\ SubSeq(b, Len(b) - 2, Len(b) - 1) = checksum_calc(b)
  <2>0. k \in Nat /\ k >= 4 /\ k <= l + 3
    BY <1>1, <1>7
  <2>1. SubSeq(b, Len(b) - 2, Len(b) - 1) = SubSeq(s, Len(s) - 2, Len(s) - 1)
    <3>1. PICK i, j \in Nat : i = k + m + 2 /\ j = k + m + 3
      BY <2>0
    <3>2. /\ i \in Len(a) + 1..Len(a) + Len(s) /\ j \in Len(a) + 1..Len(a) + Len(s)
          /\ i - Len(a) = Len(s) - 2 /\ j - Len(a) = Len(s) - 1
          /\ Len(b) - 2 = i /\ Len(b) - 1 = j
      BY <1>1, <1>3, <1>4, <2>0, <3>1
    <3>3. a \in Seq(Byte) /\ s \in Seq(Byte)
      BY <1>0, <1>3
    <3>4. SubSeq(a \o s, i, j) = SubSeq(s, i - Len(a), j - Len(a))
      BY <3>2, <3>3, SubSeqOfConcat2
    <3> QED BY <1>2, <3>2, <3>4
  <2>2. PICK x, y : x = SubSeq(e, 2, k) /\ y = <<FSSTR>>
    OBVIOUS
  <2>3. SubSeq(b, 2, Len(b) - 3) = x \o (y \o r)
    <3>1. PICK j \in Nat : j = k + m + 1 /\ Len(b) - 3 = j
      BY <1>4, <2>0
    <3>2. SubSeq(b, 2, k) \o SubSeq(b, k + 1, j) = SubSeq(b, 2, j)
      <4>1. 2 \in 1..Len(b) + 1 /\ k \in 2 - 1..Len(b) /\ j \in k..Len(b)
        BY <1>1, <1>4, <2>0, <3>1
      <4> QED BY <1>4, <4>1, ConcatAdjacentSubSeq
    <3>3. SubSeq(b, 2, k) = x
      <4>1. 2 \in 1..Len(a) /\ k \in 1..Len(a) /\ a \in Seq(Byte) /\ s \in Seq(Byte)
        BY <1>0, <1>3, <2>0
      <4>2. SubSeq(a \o s, 2, k) = SubSeq(a, 2, k)
        BY <4>1, SubSeqOfConcat1
      <4>3. 1 \in 1..Len(e) /\ k \in 1..Len(e) /\ 2 \in 1..(k - 1 + 1) /\ k \in 1..(k - 1 + 1)
            /\ 1 + 2 - 1 = 2 /\ 1 + k - 1 = k
        BY <1>1, <2>0
      <4>4. \A i, i_1 \in 1..Len(e) : \A h, h_1 \in 1..(i_1 - i + 1) :
               SubSeq(SubSeq(e, i, i_1), h, h_1) = SubSeq(e, i + h - 1, i + h_1 - 1)
        <5>1. e \in Seq(Byte)
          BY <1>0
        <5> QED BY <5>1, Inner
      <4>5. SubSeq(SubSeq(e, 1, k), 2, k) = SubSeq(e, 1 + 2 - 1, 1 + k - 1)
        BY <4>3, <4>4
      <4> QED BY <1>2, <2>2, <4>2, <4>3, <4>5
    <3>4. SubSeq(b, k + 1, j) = y \o r
      <4>1. /\ k + 1 \in Len(a) + 1..Len(a) + Len(s) /\ j \in Len(a) + 1..Len(a) + Len(s)
            /\ (k + 1) - Len(a) = 1 /\ j - Len(a) = Len(s) - 3
        BY <1>1, <1>3, <2>0, <3>1
      <4>2. a \in Seq(Byte) /\ s \in Seq(Byte)
        BY <1>0, <1>3
      <4>3. SubSeq(a \o s, k + 1, j) = SubSeq(s, (k + 1) - Len(a), j - Len(a))
        BY <4>1, <4>2, SubSeqOfConcat2
      <4>4. 1 \in 1..Len(s) /\ Len(s) - 3 \in 1..Len(s)
        BY <1>1
      <4>5. SubSeq(s, 1, Len(s) - 3) = <<s[1]>> \o SubSeq(s, 1 + 1, Len(s) - 3)
        BY <4>2, <4>4, SubSeqRecursiveFirst
      <4>6. 1 + 1 = 2
        OBVIOUS
      <4> QED BY <1>0, <1>2, <2>2, <4>1, <4>3, <4>5, <4>6
    <3> QED BY <3>1, <3>2, <3>3, <3>4
  <2>4. x \in Seq(Nat) /\ y \in Seq(Nat) /\ Total(y) = 62
    <3>1. \A i \in 2..k : i \in 1..Len(e)
      BY <1>1, <2>0
    <3>2. \A i \in 2..k : e[i] \in Nat
      BY <1>0, <3>1, ElementOfSeq
    <3>3. x \in Seq(Nat)
      BY <2>0, <2>2, <3>2, SubSeqProperties
    <3> QED BY <2>2, <3>3, TotalOne DEF FSSTR
  <2>5. PICK u, v, w \in Nat : u = Total(x) /\ v = Total(r) /\ w = Total(SubSeq(b, 2, Len(b) - 3))
                               /\ w = u + (62 + v)
    <3>1. Total(y \o r) = 62 + Total(r) /\ Total(r) \in Nat /\ y \o r \in Seq(Nat)
      BY <1>0, <2>4, TotalConcat, ConcatProperties
    <3>2. Total(x \o (y \o r)) = Total(x) + Total(y \o r) /\ Total(x) \in Nat
      BY <2>4, <3>1, TotalConcat
    <3>3. Total(SubSeq(b, 2, Len(b) - 3)) = Total(x) + (62 + Total(r))
      BY <2>3, <3>1, <3>2
    <3>4. Total(x) + (62 + Total(r)) \in Nat
      BY <3>1, <3>2
    <3> QED BY <3>1, <3>2, <3>3, <3>4
  <2>6. w % Word = v
    <3>1. v \in Sums
      BY <1>0, <2>5
    <3>2. checksum_calc(b) = <<High(v), Low(v)>>
      BY <1>0, <1>7, <2>1, <2>5
    <3> QED BY <2>5, <3>1, <3>2, SameChecksum
(* How much of the first packet is left: some of what its checksum is of,  *)
(* all of that, one byte of the checksum, both.                            *)
  <2>7. PICK t \in Sums, hi, lo \in Byte : t = Total(q) /\ hi = High(t) /\ lo = Low(t)
    BY <1>0, SumOfBytes
  <2>8. t \in Nat /\ t < 65396 /\ hi \in Nat /\ lo \in Nat /\ hi <= 255 /\ lo <= 255
    BY SMT DEF Sums, Byte
  <2>9. u <= t \/ u = t + hi \/ u = (t + hi) + lo
    <3>1. e[l + 2] = hi /\ e[l + 3] = lo
      BY <1>0, <1>1, <2>7
    <3>2. ASSUME NEW i \in 2..(l + 3), i >= 3
          PROVE  SubSeq(e, 2, i) = SubSeq(e, 2, i - 1) \o <<e[i]>>
      <4>1. 2 \in 1..Len(e) /\ i \in 2..Len(e)
        BY <1>1
      <4> QED BY <1>0, <4>1, SubSeqRecursiveSecond
    <3>3. SubSeq(e, 2, l + 1) = q
      BY <1>0, <1>1
    <3>4. Total(q \o <<hi>>) = t + hi /\ q \o <<hi>> \in Seq(Nat)
      <4>1. PICK z : z = <<hi>>
        OBVIOUS
      <4>2. z \in Seq(Nat) /\ Total(z) = hi
        BY <2>8, <4>1, TotalOne
      <4>3. q \in Seq(Nat)
        BY <1>0
      <4>4. Total(q \o z) = Total(q) + Total(z)
        BY <4>2, <4>3, TotalConcat
      <4>5. q \o z \in Seq(Nat)
        BY <4>2, <4>3, ConcatProperties
      <4> QED BY <2>7, <4>1, <4>2, <4>4, <4>5
    <3>5. SubSeq(e, 2, l + 2) = q \o <<hi>>
      <4>1. l + 2 \in 2..(l + 3) /\ l + 2 >= 3 /\ (l + 2) - 1 = l + 1
        BY <1>1
      <4> QED BY <3>1, <3>2, <3>3, <4>1
    <3>6. CASE k <= l + 1
      <4>1. SubSeq(e, 2, k) \o SubSeq(e, k + 1, l + 1) = SubSeq(e, 2, l + 1)
        <5>1. 2 \in 1..Len(e) + 1 /\ k \in 2 - 1..Len(e) /\ l + 1 \in k..Len(e)
          BY <1>1, <2>0, <3>6
        <5> QED BY <1>0, <5>1, ConcatAdjacentSubSeq
      <4>2. PICK z : z = SubSeq(e, k + 1, l + 1)
        OBVIOUS
      <4>3. z \in Seq(Nat)
        <5>1. \A i \in (k + 1)..(l + 1) : i \in 1..Len(e)
          BY <1>1, <2>0
        <5>2. \A i \in (k + 1)..(l + 1) : e[i] \in Nat
          BY <1>0, <5>1, ElementOfSeq
        <5> QED BY <2>0, <4>2, <5>2, SubSeqProperties
      <4>4. Total(x \o z) = Total(x) + Total(z) /\ Total(z) \in Nat
        BY <2>4, <4>3, TotalConcat
      <4>5. t = u + Total(z)
        BY <2>2, <2>5, <2>7, <3>3, <4>1, <4>2, <4>4
      <4> QED BY <2>8, <4>4, <4>5
    <3>7. CASE k = l + 2
      BY <2>2, <2>5, <3>4, <3>5, <3>7
    <3>8. CASE k = l + 3
      <4>1. l + 3 \in 2..(l + 3) /\ l + 3 >= 3 /\ (l + 3) - 1 = l + 2
        BY <1>1
      <4>2. x = (q \o <<hi>>) \o <<lo>>
        BY <2>2, <3>1, <3>2, <3>5, <3>8, <4>1
      <4>3. PICK z, z_1 : z = <<lo>> /\ z_1 = q \o <<hi>>
        OBVIOUS
      <4>4. z \in Seq(Nat) /\ Total(z) = lo
        BY <2>8, <4>3, TotalOne
      <4>5. Total(z_1 \o z) = Total(z_1) + Total(z)
        BY <3>4, <4>3, <4>4, TotalConcat
      <4> QED BY <2>5, <3>4, <4>2, <4>3, <4>4, <4>5
    <3> QED BY <2>0, <3>6, <3>7, <3>8
  <2>10. (t + hi) + 62 # Word /\ ((t + hi) + lo) + 62 # Word
    <3>1. Repeats(t) /\ TwoBytes(t, hi, lo)
      BY <2>7, SumInBytes
    <3>2. t \in Nat
      BY <2>8
    <3>3. NotAWord(t, hi, lo)
      BY <3>1, <3>2, NoWord
    <3> QED BY <3>3 DEF NotAWord
  <2>11. u + 62 # Word /\ u + 62 > 0 /\ u + 62 < 2 * 65536
    <3>1. u <= t => u + 62 < 65536
      BY <2>8, SMT
    <3>2. u <= t => u + 62 # Word
      BY <3>1, <2>8, SMT DEF Word
    <3>3. u + 62 < 2 * 65536
      BY <2>8, <2>9, SMT
    <3>4. u + 62 > 0
      OBVIOUS
    <3> QED BY <2>9, <2>10, <3>2, <3>3, <3>4
  <2>12. (u + 62) % Word # 0
    BY <2>11, SMT DEF Word
  <2>13. (u + 62) % Word = 0
    <3>1. PICK d \in Nat : d = u + 62 /\ w = d + v
      BY <2>5
    <3>2. (d + v) % Word = v
      BY <2>6, <3>1
    <3>3. v \in Nat /\ v < 65536
      BY <1>0, <2>5, SMT DEF Sums
    <3>4. d % 65536 = 0
      BY <3>2, <3>3, SMT DEF Word
    <3> QED BY <3>1, <3>4, SMT DEF Word
  <2> QED BY <2>12, <2>13
<1> QED BY <1>1, <1>5, <1>6, <1>7

-----------------------------------------------------------------------------
(* The bytes of a packet that are still on the line after k of its bytes;  *)
(* esc: the next one has been announced by FMID.                           *)
Rem(p, k, esc, x) ==
    /\ k \in 0..Len(p)
    /\ esc => /\ k \in 1..(Len(p) - 2)
              /\ Code("terminal", p, k + 1) = <<FMID, p[k + 1]>>
              /\ x = <<p[k + 1]>> \o Rest("terminal", p, k + 1)
    /\ ~esc => x = Rest("terminal", p, k)

LEMMA FramedShape ==
    ASSUME NEW p, NEW r, Framed(p, r)
    PROVE  Shape("terminal", p) /\ Len(p) >= 7
<1>1. Len(r) \in Sizes
  BY DEF Framed
<1>2. /\ p \in Seq(Byte) /\ Len(p) = Len(r) + 4 /\ p[1] = FSSTR /\ p[Len(p)] = FEND
  BY FramedIs
<1>3. \A i \in Sizes : i + 4 \in Nat /\ i + 4 >= 7 /\ i + 4 >= 6
  BY DEF Sizes
<1>4. p \in Seq(Value)
  <2>1. Byte \subseteq Value
    BY DEF Byte, Value
  <2> QED BY <1>2, <2>1, SeqMonotonic
<1>5. Start("terminal") = FSSTR
  BY DEF Start
<1> QED BY <1>1, <1>2, <1>3, <1>4, <1>5 DEF Shape

LEMMA RemEnds ==
    ASSUME NEW p, Shape("terminal", p), NEW k, NEW esc \in BOOLEAN, NEW x, Rem(p, k, esc, x)
    PROVE  x \in Seq(Value) /\ k \in 0..Len(p) /\ (x = <<>> <=> k = Len(p))
<1>0. p \in Seq(Value) /\ Len(p) \in Nat /\ k \in 0..Len(p)
  BY DEF Shape, Rem
<1>1. /\ \A i \in 0..Len(p) : Rest("terminal", p, i) \in Seq(Value)
      /\ \A i \in 0..(Len(p) - 1) :
            Rest("terminal", p, i) = Code("terminal", p, i + 1) \o Rest("terminal", p, i + 1)
      /\ Rest("terminal", p, Len(p)) = <<>>
  BY RestIs
<1>2. CASE esc
  <2>1. k \in 1..(Len(p) - 2) /\ x = <<p[k + 1]>> \o Rest("terminal", p, k + 1)
    BY <1>2 DEF Rem
  <2>2. k + 1 \in 1..Len(p) /\ k + 1 \in 0..Len(p) /\ k # Len(p)
    BY <1>0, <2>1
  <2>3. p[k + 1] \in Value /\ Rest("terminal", p, k + 1) \in Seq(Value)
    BY <1>0, <1>1, <2>2, ElementOfSeq
  <2>4. <<p[k + 1]>> \in Seq(Value)
    BY <2>3
  <2>5. x \in Seq(Value)
    BY <2>1, <2>3, <2>4, ConcatProperties
  <2>6. x # <<>>
    BY <2>1, <2>3, HeadOfOne
  <2> QED BY <1>0, <2>2, <2>5, <2>6
<1>3. CASE ~esc
  <2>1. x = Rest("terminal", p, k)
    BY <1>3 DEF Rem
  <2>2. CASE k = Len(p)
    BY <1>0, <1>1, <2>1, <2>2
  <2>3. CASE k # Len(p)
    <3>1. k \in 0..(Len(p) - 1) /\ k + 1 \in 1..Len(p) /\ k + 1 \in 0..Len(p)
      BY <1>0, <2>3
    <3>2. x = Code("terminal", p, k + 1) \o Rest("terminal", p, k + 1) /\ x \in Seq(Value)
          /\ Rest("terminal", p, k + 1) \in Seq(Value)
      BY <1>0, <1>1, <2>1, <3>1
    <3>3. Code("terminal", p, k + 1) # <<>> /\ Code("terminal", p, k + 1) \in Seq(Value)
      <4>1. Code("terminal", p, k + 1) \in Seq(Value)
        BY <3>1, CodeType
      <4>2. Code("terminal", p, k + 1) # <<>>
        BY DEF Code, TerminalEscaped
      <4> QED BY <4>1, <4>2
    <3>4. x # <<>>
      BY <3>2, <3>3, ConcatEmptySeq
    <3> QED BY <1>0, <2>3, <3>2, <3>4
  <2> QED BY <2>2, <2>3
<1> QED BY <1>2, <1>3

(* The next byte of a packet: the first of an escape, a byte that stands   *)
(* for itself, the second of an escape.                                    *)
Advances(p, k, esc, x) ==
    /\ k \in 0..(Len(p) - 1)
    /\ \/ ~esc /\ Head(x) = FMID /\ k # 0 /\ Rem(p, k, TRUE, Tail(x))
       \/ /\ ~esc /\ Head(x) = p[k + 1] /\ Head(x) # FMID /\ Rem(p, k + 1, FALSE, Tail(x))
          /\ Head(x) = FEND <=> k + 1 = Len(p)
       \/ esc /\ Head(x) = p[k + 1] /\ k + 1 < Len(p) /\ Rem(p, k + 1, FALSE, Tail(x))

LEMMA Advance ==
    ASSUME NEW p, Shape("terminal", p), NEW k, NEW esc \in BOOLEAN, NEW x, Rem(p, k, esc, x), x # <<>>
    PROVE  Advances(p, k, esc, x)
<1> USE DEF Advances
<1>0. /\ p \in Seq(Value) /\ Len(p) \in Nat /\ Len(p) >= 6 /\ p[1] = FSSTR /\ p[Len(p)] = FEND
      /\ k \in 0..Len(p)
  BY DEF Shape, Rem, Start
<1>1. k \in 0..(Len(p) - 1)
  <2>1. k # Len(p)
    BY RemEnds
  <2> QED BY <1>0, <2>1
<1>2. /\ k + 1 \in 1..Len(p) /\ k + 1 \in 0..Len(p) /\ p[k + 1] \in Value
      /\ Rest("terminal", p, k + 1) \in Seq(Value)
  <2>1. k + 1 \in 1..Len(p) /\ k + 1 \in 0..Len(p)
    BY <1>0, <1>1
  <2> QED BY <1>0, <2>1, ElementOfSeq, RestIs
<1>3. Rem(p, k + 1, FALSE, Rest("terminal", p, k + 1))
  BY <1>2 DEF Rem
<1>4. CASE esc
  <2>1. k \in 1..(Len(p) - 2) /\ x = <<p[k + 1]>> \o Rest("terminal", p, k + 1)
    BY <1>4 DEF Rem
  <2>2. Head(x) = p[k + 1] /\ Tail(x) = Rest("terminal", p, k + 1)
    BY <1>2, <2>1, HeadOfOne
  <2>3. k + 1 < Len(p)
    BY <1>0, <2>1
  <2> QED BY <1>1, <1>3, <1>4, <2>2, <2>3
<1>5. CASE ~esc
  <2>1. x = Code("terminal", p, k + 1) \o Rest("terminal", p, k + 1)
    <3>1. x = Rest("terminal", p, k)
      BY <1>5 DEF Rem
    <3> QED BY <1>1, <3>1, RestIs
  <2>2. ASSUME Code("terminal", p, k + 1) = <<p[k + 1]>>
        PROVE  Head(x) = p[k + 1] /\ Tail(x) = Rest("terminal", p, k + 1)
    BY <1>2, <2>1, <2>2, HeadOfOne
  <2>3. CASE k = 0
    <3>1. k + 1 = 1 /\ 1 # Len(p) /\ Code("terminal", p, 1) = <<p[1]>>
      BY <1>0, <2>3 DEF Code
    <3>2. Head(x) = FSSTR /\ Head(x) = p[k + 1] /\ Tail(x) = Rest("terminal", p, k + 1)
      BY <1>0, <2>2, <3>1
    <3>3. FSSTR # FMID /\ FSSTR # FEND
      BY DEF FSSTR, FMID, FEND
    <3> QED BY <1>1, <1>3, <1>5, <3>1, <3>2, <3>3
  <2>4. CASE k # 0
    <3>1. k + 1 \in 2..Len(p)
      BY <1>0, <1>1, <2>4
    <3>2. \/ k + 1 = Len(p) /\ p[k + 1] = FEND /\ Code("terminal", p, k + 1) = <<p[k + 1]>>
          \/ k + 1 # Len(p) /\ p[k + 1] \notin {FEND, FMID} /\ Code("terminal", p, k + 1) = <<p[k + 1]>>
          \/ k + 1 # Len(p) /\ Code("terminal", p, k + 1) = <<FMID, p[k + 1]>>
      BY <3>1, CodeCases
    <3>3. CASE k + 1 = Len(p) /\ p[k + 1] = FEND /\ Code("terminal", p, k + 1) = <<p[k + 1]>>
      <4>1. FEND # FMID
        BY DEF FMID, FEND
      <4> QED BY <1>1, <1>3, <1>5, <2>2, <3>3, <4>1
    <3>4. CASE k + 1 # Len(p) /\ p[k + 1] \notin {FEND, FMID} /\ Code("terminal", p, k + 1) = <<p[k + 1]>>
      BY <1>1, <1>3, <1>5, <2>2, <3>4
    <3>5. CASE k + 1 # Len(p) /\ Code("terminal", p, k + 1) = <<FMID, p[k + 1]>>
      <4>1. FMID \in Value
        BY DEF FMID, Value
      <4>2. Head(x) = FMID /\ Tail(x) = <<p[k + 1]>> \o Rest("terminal", p, k + 1)
        <5>1. PICK c, r : c = p[k + 1] /\ r = Rest("terminal", p, k + 1)
          OBVIOUS
        <5>2. c \in Value /\ r \in Seq(Value)
          BY <1>2, <5>1
        <5>3. Head(<<FMID, c>> \o r) = FMID /\ Tail(<<FMID, c>> \o r) = <<c>> \o r
          BY <4>1, <5>2, HeadOfTwo
        <5> QED BY <2>1, <3>5, <5>1, <5>3
      <4>3. k \in 1..(Len(p) - 2)
        BY <1>0, <1>1, <2>4, <3>5
      <4>4. Rem(p, k, TRUE, Tail(x))
        BY <1>0, <3>5, <4>2, <4>3 DEF Rem
      <4> QED BY <1>1, <1>5, <2>4, <4>2, <4>4
    <3> QED BY <3>2, <3>3, <3>4, <3>5
  <2> QED BY <2>3, <2>4
<1> QED BY <1>4, <1>5

(* Wherever a packet is cut, a part of it is left. *)
PartLeft(p, k, esc, x, inside) == esc \in BOOLEAN /\ Rem(p, k, esc, x) /\ (inside => k # 0)

LEMMA EndRem ==
    ASSUME NEW p, Shape("terminal", p), NEW s, s = Rest("terminal", p, 0), NEW i \in 1..Len(s)
    PROVE  \E k, esc : PartLeft(p, k, esc, SubSeq(s, i, Len(s)), i # 1)
<1> DEFINE Left(j) == \E k, esc : PartLeft(p, k, esc, SubSeq(s, j + 1, Len(s)), j # 0)
<1>0. p \in Seq(Value) /\ Len(p) \in Nat /\ Len(p) >= 6 /\ s \in Seq(Value)
  <2>1. p \in Seq(Value) /\ Len(p) \in Nat /\ Len(p) >= 6
    BY DEF Shape
  <2>2. 0 \in 0..Len(p)
    BY <2>1
  <2> QED BY <2>1, <2>2, RestIs
<1>1. PICK n \in Nat : Len(s) = n + 1
  <2>1. Len(s) \in Nat
    BY <1>0, LenProperties
  <2>2. Len(s) # 0
    BY <2>1
  <2>3. Len(s) - 1 \in Nat /\ Len(s) = (Len(s) - 1) + 1
    BY <2>1, <2>2
  <2> QED BY <2>3
<1>2. Left(0)
  <2>1. SubSeq(s, 0 + 1, Len(s)) = s
    <3>1. 0 + 1 = 1
      OBVIOUS
    <3> QED BY <1>0, <3>1, SubSeqFull
  <2>2. Rem(p, 0, FALSE, s)
    <3>1. 0 \in 0..Len(p)
      BY <1>0
    <3> QED BY <3>1 DEF Rem
  <2>3. PartLeft(p, 0, FALSE, s, 0 # 0)
    BY <2>2 DEF PartLeft
  <2> QED BY <2>1, <2>3
<1>3. ASSUME NEW j \in 0..(n - 1), Left(j) PROVE Left(j + 1)
  <2>1. PICK k, esc : PartLeft(p, k, esc, SubSeq(s, j + 1, Len(s)), j # 0)
    BY <1>3
  <2>2. esc \in BOOLEAN /\ Rem(p, k, esc, SubSeq(s, j + 1, Len(s)))
    BY <2>1 DEF PartLeft
  <2>3. j + 1 \in 1..Len(s) /\ Len(s) \in 1..Len(s) /\ j + 1 <= Len(s)
    BY <1>1
  <2>4. SubSeq(s, j + 1, Len(s)) = <<s[j + 1]>> \o SubSeq(s, (j + 1) + 1, Len(s))
    BY <1>0, <2>3, SubSeqRecursiveFirst
  <2>5. s[j + 1] \in Value /\ SubSeq(s, (j + 1) + 1, Len(s)) \in Seq(Value)
    <3>1. \A l \in 1..Len(s) : s[l] \in Value
      BY <1>0, ElementOfSeq
    <3>2. \A l \in ((j + 1) + 1)..Len(s) : l \in 1..Len(s)
      BY <1>1
    <3>3. \A l \in ((j + 1) + 1)..Len(s) : s[l] \in Value
      BY <3>1, <3>2
    <3>4. (j + 1) + 1 \in Int /\ Len(s) \in Int
      BY <1>1
    <3> QED BY <2>3, <3>1, <3>3, <3>4, SubSeqProperties
  <2>6. PICK x : x = SubSeq(s, j + 1, Len(s)) /\ x # <<>> /\ Tail(x) = SubSeq(s, (j + 1) + 1, Len(s))
    BY <2>4, <2>5, HeadOfOne
  <2>7. (k # 0 /\ Rem(p, k, TRUE, Tail(x))) \/ (k + 1 # 0 /\ Rem(p, k + 1, FALSE, Tail(x)))
    <3>1. Rem(p, k, esc, x)
      BY <2>2, <2>6
    <3>2. x # <<>>
      BY <2>6
    <3>3. /\ k \in 0..(Len(p) - 1)
          /\ \/ ~esc /\ Head(x) = FMID /\ k # 0 /\ Rem(p, k, TRUE, Tail(x))
             \/ /\ ~esc /\ Head(x) = p[k + 1] /\ Head(x) # FMID /\ Rem(p, k + 1, FALSE, Tail(x))
                /\ Head(x) = FEND <=> k + 1 = Len(p)
             \/ esc /\ Head(x) = p[k + 1] /\ k + 1 < Len(p) /\ Rem(p, k + 1, FALSE, Tail(x))
      <4>1. Advances(p, k, esc, x)
        BY <2>2, <3>1, <3>2, Advance, Zenon
      <4> QED BY <4>1 DEF Advances
    <3>4. \A j_1 \in 0..(Len(p) - 1) : j_1 + 1 # 0
      OBVIOUS
    <3> QED BY <3>3, <3>4
  <2>8. PartLeft(p, k, TRUE, Tail(x), j + 1 # 0) \/ PartLeft(p, k + 1, FALSE, Tail(x), j + 1 # 0)
    BY <2>7 DEF PartLeft
  <2> QED BY <2>6, <2>8
<1> DEFINE S == {j \in 0..n : Left(j)}
<1>4. 0 \in S
  BY <1>2
<1>5. \A j \in 0..(n - 1) : j \in S => j + 1 \in S
  <2> SUFFICES ASSUME NEW j \in 0..(n - 1), j \in S PROVE j + 1 \in S
    OBVIOUS
  <2>1. j + 1 \in 0..n
    OBVIOUS
  <2> HIDE DEF Left
  <2> QED BY <1>3, <2>1
<1> HIDE DEF S
<1>6. \A j \in 0..n : j \in S
  BY <1>4, <1>5, UpTo
<1>7. i - 1 \in 0..n /\ (i - 1) + 1 = i
  BY <1>1
<1>8. PICK k, esc : PartLeft(p, k, esc, SubSeq(s, (i - 1) + 1, Len(s)), i - 1 # 0)
  BY <1>6, <1>7 DEF S
<1>9. i # 1 => i - 1 # 0
  BY <1>1
<1>10. PartLeft(p, k, esc, SubSeq(s, i, Len(s)), i # 1)
  BY <1>7, <1>8, <1>9 DEF PartLeft
<1> QED BY <1>10

-----------------------------------------------------------------------------
(* The terminal's receiver, whatever came first.  The line is in the       *)
(* packet sent, or in an earlier one (not at its start) that it follows.   *)
Upon(sent, p, k, x, w) ==
    \/ p = sent /\ w = x
    \/ k # 0 /\ w = x \o Rest("terminal", sent, 0)

Anywhere(sent, w) ==
    \E p, r, k, x : \E esc \in BOOLEAN : Framed(p, r) /\ Rem(p, k, esc, x) /\ Upon(sent, p, k, x, w)

Harmless(sent, b) == b = sent \/ Refused(b)

Waits(sent, f, w) == f.waiting /\ ~f.completed /\ f.buffer = <<>> /\ Anywhere(sent, w)

(* What it has gathered will be harmless with the rest of p. *)
Gathers(sent, f, w) ==
    /\ ~f.waiting /\ ~f.completed
    /\ \E p, r, k, x : /\ Framed(p, r) /\ Rem(p, k, f.escape, x) /\ Upon(sent, p, k, x, w)
                       /\ k # Len(p)
                       /\ Harmless(sent, f.buffer \o SubSeq(p, k + 1, Len(p)))

(* It is in an earlier packet e whose end, cut, never comes. *)
CutAt(sent, f, w, e, q, k, x, cut) ==
    /\ Framed(e, q) /\ Repeats(Total(q)) /\ Rem(e, k, f.escape, x \o cut)
    /\ x \in Seq(Value) /\ cut \in Seq(Value) /\ cut # <<>>
    /\ w = x \o Rest("terminal", sent, 0)
    /\ f.buffer = SubSeq(e, 1, k)
    /\ f.waiting <=> k = 0
    /\ k = 0 => x # <<>>

Glued(sent, f, w) ==
    /\ ~f.completed
    /\ \E e, q, k, x, cut : CutAt(sent, f, w, e, q, k, x, cut)

Done(sent, f, w) == f.completed /\ Harmless(sent, f.buffer) /\ Anywhere(sent, w)

(* The buffer is full: it stays as it is. *)
Stuck(f) == ~f.waiting /\ ~f.completed /\ Full(f)

Within(sent, f, w) ==
    /\ f \in Filter
    /\ Waits(sent, f, w) \/ Gathers(sent, f, w) \/ Glued(sent, f, w) \/ Done(sent, f, w) \/ Stuck(f)

(* The line's next byte is x's. *)
Follows(sent, p, k, x, w) ==
    /\ Head(w) = Head(x) /\ Head(x) \in Value /\ Tail(x) \in Seq(Value)
    /\ \A l : (k # 0 => l # 0) => Upon(sent, p, l, Tail(x), Tail(w))

LEMMA UponTail ==
    ASSUME NEW sent, NEW r, Framed(sent, r), NEW p, NEW k, NEW x \in Seq(Value), x # <<>>,
           NEW w, Upon(sent, p, k, x, w)
    PROVE  Follows(sent, p, k, x, w)
<1>0. Rest("terminal", sent, 0) \in Seq(Value)
  <2>1. Shape("terminal", sent)
    BY FramedShape
  <2>2. 0 \in 0..Len(sent)
    BY <2>1 DEF Shape
  <2> QED BY <2>1, <2>2, RestIs
<1>1. Head(x) = x[1] /\ x[1] \in Value /\ Tail(x) \in Seq(Value)
  BY HeadTailProperties
<1>2. CASE p = sent /\ w = x
  BY <1>1, <1>2 DEF Upon, Follows
<1>3. CASE k # 0 /\ w = x \o Rest("terminal", sent, 0)
  <2>1. Head(w) = x[1] /\ Tail(w) = Tail(x) \o Rest("terminal", sent, 0)
    BY <1>0, <1>3, HeadOfConcat
  <2> QED BY <1>1, <1>3, <2>1 DEF Upon, Follows
<1> QED BY <1>2, <1>3 DEF Upon

(* The next byte on the line is one of a packet. *)
LEMMA NextByte ==
    ASSUME NEW sent, NEW s, Framed(sent, s), NEW w, w # <<>>, Anywhere(sent, w)
    PROVE  \E p, r, k, x : \E esc \in BOOLEAN :
              Framed(p, r) /\ Rem(p, k, esc, x) /\ Upon(sent, p, k, x, w) /\ x # <<>>
<1>1. PICK p, r, k, x : \E esc \in BOOLEAN :
         Framed(p, r) /\ Rem(p, k, esc, x) /\ Upon(sent, p, k, x, w)
  BY DEF Anywhere
<1>2. CASE x # <<>>
  BY <1>1, <1>2
<1>3. CASE x = <<>>
  <2>1. Shape("terminal", sent)
    BY FramedShape
  <2>2. 0 \in 0..Len(sent) /\ Rest("terminal", sent, 0) \in Seq(Value)
    <3>1. 0 \in 0..Len(sent)
      BY <2>1 DEF Shape
    <3> QED BY <2>1, <3>1, RestIs
  <2>3. w = Rest("terminal", sent, 0)
    <3>1. <<>> \o Rest("terminal", sent, 0) = Rest("terminal", sent, 0)
      BY <2>2, ConcatEmptySeq
    <3> QED BY <1>1, <1>3, <3>1 DEF Upon
  <2>4. Rem(sent, 0, FALSE, w) /\ Upon(sent, sent, 0, w, w)
    BY <2>2, <2>3 DEF Rem, Upon
  <2> QED BY <2>4
<1> QED BY <1>2, <1>3

LEMMA AnywhereTail ==
    ASSUME NEW sent, NEW s, Framed(sent, s), NEW w, w # <<>>, Anywhere(sent, w)
    PROVE  Anywhere(sent, Tail(w))
<1>1. PICK p, r, k, x : \E esc \in BOOLEAN :
         Framed(p, r) /\ Rem(p, k, esc, x) /\ Upon(sent, p, k, x, w) /\ x # <<>>
  BY NextByte
<1>2. PICK esc \in BOOLEAN : Framed(p, r) /\ Rem(p, k, esc, x) /\ Upon(sent, p, k, x, w) /\ x # <<>>
  BY <1>1
<1>3. Shape("terminal", p)
  BY <1>2, FramedShape
<1>4. x \in Seq(Value)
  BY <1>2, <1>3, RemEnds
<1>5. PICK l : \E esc_1 \in BOOLEAN : Rem(p, l, esc_1, Tail(x)) /\ l # 0
  <2>1. /\ k \in 0..(Len(p) - 1)
        /\ \/ ~esc /\ Head(x) = FMID /\ k # 0 /\ Rem(p, k, TRUE, Tail(x))
           \/ /\ ~esc /\ Head(x) = p[k + 1] /\ Head(x) # FMID /\ Rem(p, k + 1, FALSE, Tail(x))
              /\ Head(x) = FEND <=> k + 1 = Len(p)
           \/ esc /\ Head(x) = p[k + 1] /\ k + 1 < Len(p) /\ Rem(p, k + 1, FALSE, Tail(x))
    <3>1. Advances(p, k, esc, x)
      BY <1>2, <1>3, Advance, Zenon
    <3> QED BY <3>1 DEF Advances
  <2>2. k + 1 # 0
    BY <2>1
  <2> QED BY <2>1, <2>2
<1>6. Upon(sent, p, l, Tail(x), Tail(w))
  <2>1. Follows(sent, p, k, x, w)
    BY <1>2, <1>4, UponTail
  <2> QED BY <1>5, <2>1 DEF Follows
<1> QED BY <1>2, <1>5, <1>6 DEF Anywhere

LEMMA StoreOne ==
    ASSUME NEW f \in Filter, ~Full(f), NEW c \in Value
    PROVE  LET g == Store(f, <<c>>)
           IN  /\ g \in Filter /\ g.buffer = f.buffer \o <<c>>
               /\ ~g.waiting /\ ~g.escape /\ g.completed = f.completed
<1>1. f.buffer \in Seq(Value) /\ Len(f.buffer) \in Nat /\ BufferSize \in Nat
  BY LenProperties, FramingAssumption DEF Filter
<1>2. PICK b : b = <<c>>
  OBVIOUS
<1>3. b \in Seq(Value) /\ Len(b) = 1
  BY <1>2
<1>4. Len(f.buffer) + Len(b) <= BufferSize
  BY <1>1, <1>3 DEF Full
<1>5. /\ Store(f, b) \in Filter
      /\ ~Store(f, b).waiting /\ ~Store(f, b).escape
      /\ Store(f, b).completed = f.completed
      /\ Store(f, b).buffer = f.buffer \o b
  BY <1>3, <1>4, StoreIs
<1> QED BY <1>2, <1>5

(* A byte after a buffer, before the rest. *)
LEMMA ByteBetween ==
    ASSUME NEW p \in Seq(Value), NEW k \in 0..(Len(p) - 1), NEW b \in Seq(Value)
    PROVE  (b \o <<p[k + 1]>>) \o SubSeq(p, (k + 1) + 1, Len(p)) = b \o SubSeq(p, k + 1, Len(p))
<1>1. Len(p) \in Nat /\ k + 1 \in 1..Len(p) /\ Len(p) \in (k + 1)..Len(p)
  <2>1. Len(p) \in Nat
    BY LenProperties
  <2> QED BY <2>1
<1>2. SubSeq(p, k + 1, Len(p)) = <<p[k + 1]>> \o SubSeq(p, (k + 1) + 1, Len(p))
  BY <1>1, SubSeqRecursiveFirst
<1>3. PICK c, z : c = <<p[k + 1]>> /\ z = SubSeq(p, (k + 1) + 1, Len(p))
  OBVIOUS
<1>4. c \in Seq(Value) /\ z \in Seq(Value)
  <2>1. \A i \in 1..Len(p) : p[i] \in Value
    BY ElementOfSeq
  <2>2. c \in Seq(Value)
    BY <1>1, <1>3, <2>1
  <2>3. (k + 1) + 1 \in Int /\ Len(p) \in Int /\ \A i \in ((k + 1) + 1)..Len(p) : i \in 1..Len(p)
    BY <1>1
  <2>4. \A i \in ((k + 1) + 1)..Len(p) : p[i] \in Value
    BY <2>1, <2>3
  <2>5. z \in Seq(Value)
    BY <1>3, <2>3, <2>4, SubSeqProperties
  <2> QED BY <2>2, <2>5
<1>5. (b \o c) \o z = b \o (c \o z)
  BY <1>4, ConcatAssociative, SMTT(30)
<1> QED BY <1>2, <1>3, <1>5

(* One byte, wherever the receiver is. *)
LEMMA WithinWaits ==
    ASSUME NEW sent, NEW s, Framed(sent, s), NEW f \in Filter, NEW w, w # <<>>, Waits(sent, f, w)
    PROVE  Within(sent, TerminalStep(f, Head(w)), Tail(w))
<1>0. f.waiting /\ ~f.completed /\ f.buffer = <<>> /\ Anywhere(sent, w) /\ Anywhere(sent, Tail(w))
  BY AnywhereTail DEF Waits
<1>1. ~Full(f)
  <2>1. Len(f.buffer) = 0
    BY <1>0
  <2>2. BufferSize \in Nat /\ BufferSize # 0
    BY FramingAssumption DEF Byte
  <2> QED BY <2>1, <2>2 DEF Full
<1>2. PICK c, g : c = Head(w) /\ g = TerminalStep(f, c)
  OBVIOUS
<1>3. ASSUME NEW e \in BOOLEAN, g = [f EXCEPT !.escape = e]
      PROVE  Within(sent, g, Tail(w))
  <2>1. g \in Filter /\ g.waiting /\ ~g.completed /\ g.buffer = <<>>
    BY <1>0, <1>3 DEF Filter
  <2> QED BY <1>0, <2>1 DEF Within, Waits
<1>4. CASE f.escape
  <2>1. g = [f EXCEPT !.escape = FALSE]
    BY <1>0, <1>1, <1>2, <1>4 DEF TerminalStep
  <2> QED BY <1>2, <1>3, <2>1
<1>5. CASE ~f.escape /\ c = FMID
  <2>1. g = [f EXCEPT !.escape = TRUE]
    BY <1>0, <1>1, <1>2, <1>5 DEF TerminalStep
  <2> QED BY <1>2, <1>3, <2>1
<1>6. CASE ~f.escape /\ c # FMID /\ c # FSSTR
  <2>1. g = f
    BY <1>0, <1>1, <1>2, <1>6 DEF TerminalStep
  <2>2. Within(sent, g, Tail(w))
    BY <1>0, <2>1 DEF Within, Waits
  <2> QED BY <1>2, <2>2
<1>7. CASE ~f.escape /\ c = FSSTR
  <2>1. c # FMID /\ c # FEND
    BY <1>7 DEF FSSTR, FMID, FEND
  <2>2. g = Store(f, <<c>>)
    BY <1>0, <1>1, <1>2, <1>7, <2>1 DEF TerminalStep
  <2>3. PICK p, r, k, x : \E esc \in BOOLEAN :
           Framed(p, r) /\ Rem(p, k, esc, x) /\ Upon(sent, p, k, x, w) /\ x # <<>>
    BY <1>0, NextByte
  <2>4. PICK esc \in BOOLEAN : Framed(p, r) /\ Rem(p, k, esc, x) /\ Upon(sent, p, k, x, w) /\ x # <<>>
    BY <2>3
  <2>5. Shape("terminal", p) /\ p \in Seq(Value) /\ Len(p) \in Nat
    <3>1. Shape("terminal", p)
      BY <2>4, FramedShape
    <3> QED BY <3>1 DEF Shape
  <2>6. x \in Seq(Value)
    BY <2>4, <2>5, RemEnds
  <2>7. /\ Head(x) = c /\ c \in Value
        /\ \A l : (k # 0 => l # 0) => Upon(sent, p, l, Tail(x), Tail(w))
    <3>1. Follows(sent, p, k, x, w)
      BY <2>4, <2>6, UponTail
    <3> QED BY <1>2, <3>1 DEF Follows
  <2>8. /\ k \in 0..(Len(p) - 1)
        /\ \/ ~esc /\ Head(x) = FMID /\ k # 0 /\ Rem(p, k, TRUE, Tail(x))
           \/ /\ ~esc /\ Head(x) = p[k + 1] /\ Head(x) # FMID /\ Rem(p, k + 1, FALSE, Tail(x))
              /\ Head(x) = FEND <=> k + 1 = Len(p)
           \/ esc /\ Head(x) = p[k + 1] /\ k + 1 < Len(p) /\ Rem(p, k + 1, FALSE, Tail(x))
    <3>1. Advances(p, k, esc, x)
      BY <2>4, <2>5, Advance, Zenon
    <3> QED BY <3>1 DEF Advances
  <2>9. c = p[k + 1] /\ Rem(p, k + 1, FALSE, Tail(x)) /\ k + 1 # Len(p)
    <3>1. k + 1 < Len(p) => k + 1 # Len(p)
      BY <2>5
    <3>2. CASE ~esc /\ Head(x) = FMID
      BY <2>1, <2>7, <3>2
    <3>3. CASE /\ ~esc /\ Head(x) = p[k + 1] /\ Rem(p, k + 1, FALSE, Tail(x))
               /\ Head(x) = FEND <=> k + 1 = Len(p)
      BY <2>1, <2>7, <3>3
    <3>4. CASE esc /\ Head(x) = p[k + 1] /\ k + 1 < Len(p) /\ Rem(p, k + 1, FALSE, Tail(x))
      BY <2>7, <3>1, <3>4
    <3> QED BY <2>8, <3>2, <3>3, <3>4
  <2>10. /\ g \in Filter /\ g.buffer = <<>> \o <<c>> /\ ~g.waiting /\ ~g.escape /\ ~g.completed
    BY <1>0, <1>1, <2>2, <2>7, StoreOne
  <2>11. g.buffer \o SubSeq(p, (k + 1) + 1, Len(p)) = SubSeq(p, k + 1, Len(p))
    <3>1. k + 1 \in 1..Len(p) /\ Len(p) \in (k + 1)..Len(p)
      BY <2>5, <2>8
    <3>2. SubSeq(p, k + 1, Len(p)) = <<p[k + 1]>> \o SubSeq(p, (k + 1) + 1, Len(p))
      BY <2>5, <3>1, SubSeqRecursiveFirst
    <3>3. <<c>> \in Seq(Value)
      BY <2>7
    <3>4. <<>> \o <<c>> = <<c>>
      BY <3>3, ConcatEmptySeq
    <3> QED BY <2>9, <2>10, <3>2, <3>4
  <2>12. Harmless(sent, SubSeq(p, k + 1, Len(p)))
    <3>1. CASE k = 0
      <4>1. p = sent
        BY <2>4, <3>1 DEF Upon
      <4>2. k + 1 = 1
        BY <3>1
      <4>3. SubSeq(p, 1, Len(p)) = p
        BY <2>5, SubSeqFull
      <4> QED BY <4>1, <4>2, <4>3 DEF Harmless
    <3>2. CASE k # 0
      <4>1. k + 1 \in 2..Len(p)
        BY <2>5, <2>8, <3>2
      <4>2. p[k + 1] = FSSTR
        BY <1>7, <2>9
      <4>3. Refused(SubSeq(p, k + 1, Len(p)))
        BY <2>4, <4>1, <4>2, EndRefused
      <4> QED BY <4>3 DEF Harmless
    <3> QED BY <3>1, <3>2
  <2>13. Upon(sent, p, k + 1, Tail(x), Tail(w))
    <3>1. k + 1 # 0
      BY <2>8
    <3> QED BY <2>7, <3>1
  <2>14. Rem(p, k + 1, g.escape, Tail(x))
    <3>1. g.escape = FALSE
      BY <2>10 DEF Filter
    <3> QED BY <2>9, <3>1
  <2>15. Gathers(sent, g, Tail(w))
    <3>1. Harmless(sent, g.buffer \o SubSeq(p, (k + 1) + 1, Len(p)))
      BY <2>11, <2>12
    <3> QED BY <2>4, <2>9, <2>10, <2>13, <2>14, <3>1 DEF Gathers
  <2> QED BY <1>2, <2>10, <2>15 DEF Within
<1> QED BY <1>4, <1>5, <1>6, <1>7

LEMMA WithinGathers ==
    ASSUME NEW sent, NEW s, Framed(sent, s), NEW f \in Filter, NEW w, w # <<>>, Gathers(sent, f, w)
    PROVE  Within(sent, TerminalStep(f, Head(w)), Tail(w))
<1>0. ~f.waiting /\ ~f.completed /\ f.escape \in BOOLEAN /\ f.buffer \in Seq(Value)
  BY DEF Gathers, Filter
<1>1. PICK p, r, k, x : /\ Framed(p, r) /\ Rem(p, k, f.escape, x) /\ Upon(sent, p, k, x, w)
                        /\ k # Len(p)
                        /\ Harmless(sent, f.buffer \o SubSeq(p, k + 1, Len(p)))
  BY DEF Gathers
<1>2. PICK c, g : c = Head(w) /\ g = TerminalStep(f, c)
  OBVIOUS
<1>3. CASE Full(f)
  <2>1. g = f
    BY <1>2, <1>3 DEF TerminalStep
  <2> QED BY <1>0, <1>2, <1>3, <2>1 DEF Within, Stuck
<1>4. CASE ~Full(f)
  <2>1. Shape("terminal", p) /\ p \in Seq(Value) /\ Len(p) \in Nat
    <3>1. Shape("terminal", p)
      BY <1>1, FramedShape
    <3> QED BY <3>1 DEF Shape
  <2>2. x \in Seq(Value) /\ x # <<>>
    BY <1>0, <1>1, <2>1, RemEnds
  <2>3. /\ Head(x) = c /\ c \in Value
        /\ \A l : (k # 0 => l # 0) => Upon(sent, p, l, Tail(x), Tail(w))
    <3>1. Upon(sent, p, k, x, w)
      BY <1>1
    <3>2. Follows(sent, p, k, x, w)
      BY <2>2, <3>1, UponTail
    <3> QED BY <1>2, <3>2 DEF Follows
  <2>4. /\ k \in 0..(Len(p) - 1)
        /\ \/ ~f.escape /\ Head(x) = FMID /\ k # 0 /\ Rem(p, k, TRUE, Tail(x))
           \/ /\ ~f.escape /\ Head(x) = p[k + 1] /\ Head(x) # FMID /\ Rem(p, k + 1, FALSE, Tail(x))
              /\ Head(x) = FEND <=> k + 1 = Len(p)
           \/ f.escape /\ Head(x) = p[k + 1] /\ k + 1 < Len(p) /\ Rem(p, k + 1, FALSE, Tail(x))
    <3>1. Advances(p, k, f.escape, x)
      BY <1>0, <1>1, <2>1, <2>2, Advance, Zenon
    <3> QED BY <3>1 DEF Advances
  <2>5. k + 1 # 0
    BY <2>4
  <2>6. Upon(sent, p, k, Tail(x), Tail(w)) /\ Upon(sent, p, k + 1, Tail(x), Tail(w))
    BY <2>3, <2>5
  <2>7. FMID # FEND
    BY DEF FMID, FEND
  <2>8. CASE ~f.escape /\ Head(x) = FMID /\ k # 0 /\ Rem(p, k, TRUE, Tail(x))
    <3>1. g = [f EXCEPT !.escape = TRUE]
      BY <1>0, <1>2, <1>4, <2>3, <2>7, <2>8 DEF TerminalStep
    <3>2. g \in Filter /\ ~g.waiting /\ ~g.completed /\ g.escape = TRUE /\ g.buffer = f.buffer
      BY <1>0, <3>1 DEF Filter
    <3>3. Gathers(sent, g, Tail(w))
      BY <1>1, <2>6, <2>8, <3>2 DEF Gathers
    <3> QED BY <1>2, <3>2, <3>3 DEF Within
(* A byte of the packet is stored. *)
  <2>9. ASSUME Head(x) = p[k + 1], Rem(p, k + 1, FALSE, Tail(x)), k + 1 # Len(p), g = Store(f, <<c>>)
        PROVE  Within(sent, g, Tail(w))
    <3>1. g \in Filter /\ g.buffer = f.buffer \o <<c>> /\ ~g.waiting /\ g.escape = FALSE /\ ~g.completed
      <4>1. g \in Filter /\ g.buffer = f.buffer \o <<c>> /\ ~g.waiting /\ ~g.escape /\ g.completed = f.completed
        BY <1>4, <2>3, <2>9, StoreOne
      <4> QED BY <1>0, <4>1 DEF Filter
    <3>2. g.buffer \o SubSeq(p, (k + 1) + 1, Len(p)) = f.buffer \o SubSeq(p, k + 1, Len(p))
      BY <1>0, <2>1, <2>3, <2>4, <2>9, <3>1, ByteBetween
    <3>3. Gathers(sent, g, Tail(w))
      BY <1>1, <2>6, <2>9, <3>1, <3>2 DEF Gathers
    <3> QED BY <3>1, <3>3 DEF Within
  <2>10. CASE f.escape /\ Head(x) = p[k + 1] /\ k + 1 < Len(p) /\ Rem(p, k + 1, FALSE, Tail(x))
    <3>1. g = Store(f, <<c>>)
      BY <1>0, <1>2, <1>4, <2>10 DEF TerminalStep
    <3>2. k + 1 # Len(p)
      BY <2>1, <2>10
    <3> QED BY <1>2, <2>9, <2>10, <3>1, <3>2
  <2>11. CASE /\ ~f.escape /\ Head(x) = p[k + 1] /\ Head(x) # FMID /\ Rem(p, k + 1, FALSE, Tail(x))
              /\ Head(x) = FEND <=> k + 1 = Len(p)
    <3>1. CASE c # FEND
      <4>1. g = Store(f, <<c>>)
        BY <1>0, <1>2, <1>4, <2>3, <2>11, <3>1 DEF TerminalStep
      <4> QED BY <1>2, <2>3, <2>9, <2>11, <3>1, <4>1
    <3>2. CASE c = FEND
      <4>1. g = [Store(f, <<c>>) EXCEPT !.completed = TRUE]
        BY <1>0, <1>2, <1>4, <2>11, <3>2 DEF TerminalStep
      <4>2. Store(f, <<c>>) \in Filter /\ Store(f, <<c>>).buffer = f.buffer \o <<c>>
        BY <1>4, <2>3, StoreOne
      <4>3. g \in Filter /\ g.buffer = f.buffer \o <<c>> /\ g.completed
        BY <4>1, <4>2 DEF Filter
      <4>4. f.buffer \o SubSeq(p, k + 1, Len(p)) = f.buffer \o <<c>>
        <5>1. k + 1 \in 1..Len(p) /\ Len(p) \in (k + 1)..Len(p) /\ k + 1 = Len(p)
          BY <2>1, <2>3, <2>4, <2>11, <3>2
        <5>2. SubSeq(p, k + 1, Len(p)) = <<p[k + 1]>> \o SubSeq(p, (k + 1) + 1, Len(p))
          BY <2>1, <5>1, SubSeqRecursiveFirst
        <5>3. SubSeq(p, (k + 1) + 1, Len(p)) = <<>>
          <6>1. (k + 1) + 1 \in Int /\ Len(p) \in Int /\ Len(p) < (k + 1) + 1
            BY <2>1, <5>1
          <6> QED BY <6>1, SubSeqEmpty
        <5>4. <<c>> \o <<>> = <<c>>
          <6>1. <<c>> \in Seq(Value)
            BY <2>3
          <6> QED BY <6>1, ConcatEmptySeq
        <5> QED BY <2>3, <2>11, <5>2, <5>3, <5>4
      <4>5. Harmless(sent, g.buffer)
        BY <1>1, <4>3, <4>4
      <4>6. Anywhere(sent, Tail(w))
        BY <1>1, <2>6, <2>11 DEF Anywhere
      <4> QED BY <1>2, <4>3, <4>5, <4>6 DEF Within, Done
    <3> QED BY <3>1, <3>2
  <2> QED BY <2>4, <2>8, <2>10, <2>11
<1> QED BY <1>3, <1>4

LEMMA WithinGlued ==
    ASSUME NEW sent, NEW s, Framed(sent, s), NEW f \in Filter, NEW w, Glued(sent, f, w),
           f.waiting => f.buffer = <<>>
    PROVE  Within(sent, TerminalStep(f, Head(w)), Tail(w))
<1>0. ~f.completed /\ f.escape \in BOOLEAN /\ f.waiting \in BOOLEAN /\ f.buffer \in Seq(Value)
  BY DEF Glued, Filter
<1>a. PICK e, q, k, x, cut : CutAt(sent, f, w, e, q, k, x, cut)
  BY DEF Glued
<1>1. /\ Framed(e, q) /\ Repeats(Total(q)) /\ Rem(e, k, f.escape, x \o cut)
      /\ x \in Seq(Value) /\ cut \in Seq(Value) /\ cut # <<>>
      /\ w = x \o Rest("terminal", sent, 0)
      /\ f.buffer = SubSeq(e, 1, k)
      /\ f.waiting <=> k = 0
      /\ k = 0 => x # <<>>
  BY <1>a DEF CutAt
<1>2. PICK c, g : c = Head(w) /\ g = TerminalStep(f, c)
  OBVIOUS
<1>3. Shape("terminal", e) /\ e \in Seq(Value) /\ Len(e) \in Nat /\ e[1] = FSSTR
  <2>1. Shape("terminal", e)
    BY <1>1, FramedShape
  <2> QED BY <2>1 DEF Shape, Start
<1>4. /\ Shape("terminal", sent) /\ sent \in Seq(Value) /\ Len(sent) \in Nat /\ Len(sent) >= 7
      /\ sent[1] = FSSTR /\ Rest("terminal", sent, 0) \in Seq(Value)
  <2>1. Shape("terminal", sent) /\ Len(sent) >= 7
    BY FramedShape
  <2>2. sent \in Seq(Value) /\ Len(sent) \in Nat /\ sent[1] = FSSTR
    BY <2>1 DEF Shape, Start
  <2>3. 0 \in 0..Len(sent)
    BY <2>2
  <2> QED BY <2>1, <2>2, <2>3, RestIs
<1>5. PICK y : y = x \o cut
  OBVIOUS
<1>6. y \in Seq(Value) /\ y # <<>> /\ Rem(e, k, f.escape, y)
  <2>1. y \in Seq(Value)
    BY <1>1, <1>5, ConcatProperties
  <2>2. y # <<>>
    <3>1. x = <<>> => y = cut
      BY <1>1, <1>5, ConcatEmptySeq
    <3>2. x # <<>> => y # <<>>
      <4>1. Len(y) = Len(x) + Len(cut) /\ Len(x) \in Nat /\ Len(cut) \in Nat /\ (Len(x) # 0 \/ x = <<>>)
        BY <1>1, <1>5, ConcatProperties, LenProperties, EmptySeq
      <4>2. x # <<>> => Len(y) # 0
        BY <4>1
      <4> QED BY <2>1, <4>2, EmptySeq
    <3> QED BY <1>1, <3>1, <3>2
  <2> QED BY <1>1, <1>5, <2>1, <2>2
<1>7. CASE Full(f)
  <2>1. g = f
    BY <1>2, <1>7 DEF TerminalStep
  <2>2. ~f.waiting
    <3>1. BufferSize \in Nat /\ BufferSize # 0
      BY FramingAssumption DEF Byte
    <3>2. f.buffer = <<>> => Len(f.buffer) = 0
      OBVIOUS
    <3> QED BY <1>7, <3>1, <3>2 DEF Full
  <2> QED BY <1>0, <1>2, <1>7, <2>1, <2>2 DEF Within, Stuck
<1>8. CASE ~Full(f) /\ x # <<>>
  <2>1. Head(x) = x[1] /\ Head(w) = x[1] /\ Tail(w) = Tail(x) \o Rest("terminal", sent, 0)
    <3>1. PICK z : z = Rest("terminal", sent, 0)
      OBVIOUS
    <3>2. Head(x \o z) = x[1] /\ Tail(x \o z) = Tail(x) \o z
      BY <1>1, <1>4, <1>8, <3>1, HeadOfConcat
    <3>3. Head(x) = x[1]
      BY <1>1, <1>8
    <3> QED BY <1>1, <3>1, <3>2, <3>3
  <2>2. Head(y) = x[1] /\ Tail(y) = Tail(x) \o cut /\ x[1] \in Value /\ Tail(x) \in Seq(Value)
    BY <1>1, <1>5, <1>8, HeadOfConcat
  <2>3. Head(y) = c /\ c \in Value
    BY <1>2, <2>1, <2>2
  <2>4. /\ k \in 0..(Len(e) - 1)
        /\ \/ ~f.escape /\ Head(y) = FMID /\ k # 0 /\ Rem(e, k, TRUE, Tail(y))
           \/ /\ ~f.escape /\ Head(y) = e[k + 1] /\ Head(y) # FMID /\ Rem(e, k + 1, FALSE, Tail(y))
              /\ Head(y) = FEND <=> k + 1 = Len(e)
           \/ f.escape /\ Head(y) = e[k + 1] /\ k + 1 < Len(e) /\ Rem(e, k + 1, FALSE, Tail(y))
    <3>1. Advances(e, k, f.escape, y)
      BY <1>0, <1>3, <1>6, Advance, Zenon
    <3> QED BY <3>1 DEF Advances
  <2>5. FMID # FEND
    BY DEF FMID, FEND
  <2>6. k + 1 # 0
    BY <2>4
  <2>7. CASE ~f.escape /\ Head(y) = FMID /\ k # 0 /\ Rem(e, k, TRUE, Tail(y))
    <3>1. g = [f EXCEPT !.escape = TRUE]
      BY <1>0, <1>1, <1>2, <1>8, <2>3, <2>5, <2>7 DEF TerminalStep
    <3>2. g \in Filter /\ g.waiting = f.waiting /\ ~g.completed /\ g.escape = TRUE /\ g.buffer = f.buffer
      BY <1>0, <3>1 DEF Filter
    <3>3. Glued(sent, g, Tail(w))
      <4>1. CutAt(sent, g, Tail(w), e, q, k, Tail(x), cut)
        BY <1>1, <2>1, <2>2, <2>7, <3>2 DEF CutAt
      <4> QED BY <3>2, <4>1 DEF Glued
    <3> QED BY <1>2, <3>2, <3>3 DEF Within
  <2>8. ASSUME Head(y) = e[k + 1], Rem(e, k + 1, FALSE, Tail(y)), g = Store(f, <<c>>)
        PROVE  Within(sent, g, Tail(w))
    <3>1. g \in Filter /\ g.buffer = f.buffer \o <<c>> /\ ~g.waiting /\ g.escape = FALSE /\ ~g.completed
      <4>1. g \in Filter /\ g.buffer = f.buffer \o <<c>> /\ ~g.waiting /\ ~g.escape /\ g.completed = f.completed
        BY <1>8, <2>3, <2>8, StoreOne
      <4> QED BY <1>0, <4>1 DEF Filter
    <3>2. SubSeq(e, 1, k + 1) = SubSeq(e, 1, k) \o <<e[k + 1]>>
      BY <1>3, <2>4, PrefixGrows
    <3>3. g.buffer = SubSeq(e, 1, k + 1)
      BY <1>1, <2>3, <2>8, <3>1, <3>2
    <3>4. Rem(e, k + 1, g.escape, Tail(x) \o cut)
      BY <2>2, <2>8, <3>1
    <3>5. Glued(sent, g, Tail(w))
      <4>1. CutAt(sent, g, Tail(w), e, q, k + 1, Tail(x), cut)
        BY <1>1, <2>1, <2>2, <2>6, <3>1, <3>3, <3>4 DEF CutAt
      <4> QED BY <3>1, <4>1 DEF Glued
    <3> QED BY <3>1, <3>5 DEF Within
  <2>9. CASE f.escape /\ Head(y) = e[k + 1] /\ k + 1 < Len(e) /\ Rem(e, k + 1, FALSE, Tail(y))
    <3>1. k # 0
      BY <1>6, <2>9 DEF Rem
    <3>2. g = Store(f, <<c>>)
      BY <1>0, <1>1, <1>2, <1>8, <2>9, <3>1 DEF TerminalStep
    <3> QED BY <1>2, <2>8, <2>9, <3>2
  <2>10. CASE /\ ~f.escape /\ Head(y) = e[k + 1] /\ Head(y) # FMID /\ Rem(e, k + 1, FALSE, Tail(y))
              /\ Head(y) = FEND <=> k + 1 = Len(e)
    <3>1. Tail(y) # <<>>
      <4>1. Len(Tail(x) \o cut) = Len(Tail(x)) + Len(cut) /\ Len(Tail(x)) \in Nat /\ Len(cut) \in Nat
        BY <1>1, <2>2, ConcatProperties, LenProperties
      <4>2. Len(cut) # 0
        BY <1>1, EmptySeq
      <4>3. Len(Tail(x) \o cut) # 0
        BY <4>1, <4>2
      <4> QED BY <2>2, <4>3, EmptySeq
    <3>2. k + 1 # Len(e)
      <4>1. Rem(e, k + 1, FALSE, Tail(y)) /\ FALSE \in BOOLEAN
        BY <2>10
      <4>2. Tail(y) = <<>> <=> k + 1 = Len(e)
        BY <1>3, <4>1, RemEnds
      <4> QED BY <3>1, <4>2
    <3>3. c # FEND /\ c # FMID
      BY <2>3, <2>10, <3>2
    <3>4. f.waiting => c = FSSTR
      BY <1>1, <1>3, <2>3, <2>10
    <3>5. g = Store(f, <<c>>)
      BY <1>0, <1>2, <1>8, <2>10, <3>3, <3>4 DEF TerminalStep
    <3> QED BY <1>2, <2>8, <2>10, <3>5
  <2> QED BY <2>4, <2>7, <2>9, <2>10
(* What was left of the earlier packet is over: the packet sent starts. *)
<1>9. CASE ~Full(f) /\ x = <<>>
  <2>1. k # 0 /\ k # Len(e) /\ k \in 1..(Len(e) - 1)
    <3>1. k # 0 /\ k \in 0..Len(e) /\ k # Len(e)
      BY <1>0, <1>1, <1>3, <1>6, <1>9, RemEnds
    <3> QED BY <1>3, <3>1
  <2>2. w = Rest("terminal", sent, 0)
    BY <1>1, <1>4, <1>9, ConcatEmptySeq
  <2>3. Rem(sent, 0, FALSE, w) /\ w \in Seq(Value) /\ w # <<>>
    <3>1. 0 \in 0..Len(sent) /\ 0 # Len(sent)
      BY <1>4
    <3>2. Rem(sent, 0, FALSE, w)
      BY <2>2, <3>1 DEF Rem
    <3> QED BY <1>4, <3>1, <3>2, RemEnds
  <2>4. Head(w) = sent[0 + 1] /\ Rem(sent, 0 + 1, FALSE, Tail(w))
    <3>1. /\ 0 \in 0..(Len(sent) - 1)
          /\ \/ ~FALSE /\ Head(w) = FMID /\ 0 # 0 /\ Rem(sent, 0, TRUE, Tail(w))
             \/ /\ ~FALSE /\ Head(w) = sent[0 + 1] /\ Head(w) # FMID /\ Rem(sent, 0 + 1, FALSE, Tail(w))
                /\ Head(w) = FEND <=> 0 + 1 = Len(sent)
             \/ FALSE /\ Head(w) = sent[0 + 1] /\ 0 + 1 < Len(sent) /\ Rem(sent, 0 + 1, FALSE, Tail(w))
      <4>1. FALSE \in BOOLEAN
        OBVIOUS
      <4>2. Advances(sent, 0, FALSE, w)
        BY <1>4, <2>3, <4>1, Advance, Zenon
      <4> QED BY <4>2 DEF Advances
    <3> QED BY <3>1
  <2>5. c = FSSTR /\ c # FEND /\ c # FMID /\ c \in Value /\ c = sent[1] /\ Rem(sent, 1, FALSE, Tail(w))
    <3>1. 0 + 1 = 1
      OBVIOUS
    <3>2. FSSTR # FEND /\ FSSTR # FMID /\ FSSTR \in Value
      BY DEF FSSTR, FEND, FMID, Value
    <3> QED BY <1>2, <1>4, <2>4, <3>1, <3>2
  <2>6. g = Store(f, <<c>>)
    BY <1>0, <1>1, <1>2, <1>9, <2>1, <2>5 DEF TerminalStep
  <2>7. g \in Filter /\ g.buffer = f.buffer \o <<c>> /\ ~g.waiting /\ g.escape = FALSE /\ ~g.completed
    <3>1. g \in Filter /\ g.buffer = f.buffer \o <<c>> /\ ~g.waiting /\ ~g.escape /\ g.completed = f.completed
      BY <1>9, <2>5, <2>6, StoreOne
    <3> QED BY <1>0, <3>1 DEF Filter
  <2>8. g.buffer \o SubSeq(sent, 1 + 1, Len(sent)) = SubSeq(e, 1, k) \o sent
    <3>1. 0 \in 0..(Len(sent) - 1) /\ 0 + 1 = 1
      BY <1>4
    <3>2. (f.buffer \o <<sent[0 + 1]>>) \o SubSeq(sent, (0 + 1) + 1, Len(sent))
             = f.buffer \o SubSeq(sent, 0 + 1, Len(sent))
      BY <1>0, <1>4, <3>1, ByteBetween
    <3>3. SubSeq(sent, 1, Len(sent)) = sent
      BY <1>4, SubSeqFull
    <3> QED BY <1>1, <2>5, <2>7, <3>1, <3>2, <3>3
  <2>9. Refused(SubSeq(e, 1, k) \o sent)
    BY <1>1, <2>1, GlueRefused
  <2>10. Upon(sent, sent, 1, Tail(w), Tail(w)) /\ 1 # Len(sent)
    <3>1. 1 # Len(sent)
      <4>1. Len(sent) \in Nat /\ Len(sent) >= 7
        BY <1>4
      <4>2. \A i \in Nat : i >= 7 => 1 # i
        OBVIOUS
      <4> QED BY <4>1, <4>2
    <3>2. Upon(sent, sent, 1, Tail(w), Tail(w))
      BY DEF Upon
    <3> QED BY <3>1, <3>2
  <2>11. Gathers(sent, g, Tail(w))
    <3>1. Rem(sent, 1, g.escape, Tail(w))
      BY <2>5, <2>7
    <3>2. Harmless(sent, g.buffer \o SubSeq(sent, 1 + 1, Len(sent)))
      BY <2>8, <2>9 DEF Harmless
    <3> QED BY <2>7, <2>10, <3>1, <3>2 DEF Gathers
  <2> QED BY <1>2, <2>7, <2>11 DEF Within
<1> QED BY <1>7, <1>8, <1>9

LEMMA WithinStep ==
    ASSUME NEW sent, NEW s, Framed(sent, s), NEW f, NEW w, w # <<>>, Within(sent, f, w)
    PROVE  Within(sent, TerminalStep(f, Head(w)), Tail(w))
<1>1. f \in Filter
  BY DEF Within
<1>2. CASE Waits(sent, f, w)
  BY <1>1, <1>2, WithinWaits
<1>3. CASE Gathers(sent, f, w)
  BY <1>1, <1>3, WithinGathers
<1>4. CASE Glued(sent, f, w)
  <2>1. ASSUME f.waiting PROVE f.buffer = <<>>
    <3>1. PICK e, q, k, x, cut : CutAt(sent, f, w, e, q, k, x, cut)
      BY <1>4 DEF Glued
    <3>2. k = 0 /\ f.buffer = SubSeq(e, 1, k)
      BY <2>1, <3>1 DEF CutAt
    <3>3. SubSeq(e, 1, 0) = <<>>
      <4>1. 1 \in Int /\ 0 \in Int /\ 0 < 1
        OBVIOUS
      <4> QED BY <4>1, SubSeqEmpty
    <3> QED BY <3>2, <3>3
  <2> QED BY <1>1, <1>4, <2>1, WithinGlued
<1>5. CASE Done(sent, f, w)
  <2>1. TerminalStep(f, Head(w)) = f
    BY <1>5 DEF Done, TerminalStep
  <2>2. Anywhere(sent, Tail(w))
    BY <1>5, AnywhereTail DEF Done
  <2> QED BY <1>1, <1>5, <2>1, <2>2 DEF Within, Done
<1>6. CASE Stuck(f)
  <2>1. TerminalStep(f, Head(w)) = f
    BY <1>6 DEF Stuck, TerminalStep
  <2> QED BY <1>1, <1>6, <2>1 DEF Within
<1> QED BY <1>2, <1>3, <1>4, <1>5, <1>6 DEF Within

LEMMA FeedWithin ==
    ASSUME protocol = "terminal", NEW sent, NEW s, Framed(sent, s),
           NEW w \in Seq(Value), Within(sent, filter, w), NEW n \in 1..Len(w)
    PROVE  Within(sent, Feed(SubSeq(w, 1, n)), SubSeq(w, n + 1, Len(w)))
<1>1. n \in Nat /\ n \in 0..n
  <2>1. Len(w) \in Nat
    BY LenProperties
  <2> QED BY <2>1
<1>2. PICK a : /\ a[0] = filter /\ Feed(SubSeq(w, 1, n)) = a[n]
               /\ \A k \in 0..(n - 1) :
                     LET v == SubSeq(w, k + 1, Len(w))
                     IN  /\ v \in Seq(Value) /\ v # <<>>
                         /\ a[k + 1] = Step(a[k], Head(v))
                         /\ Tail(v) = SubSeq(w, (k + 1) + 1, Len(w))
  BY FeedAlong
<1> DEFINE S == {k \in 0..n : Within(sent, a[k], SubSeq(w, k + 1, Len(w)))}
<1>3. 0 \in S
  <2>1. SubSeq(w, 0 + 1, Len(w)) = w
    BY SubSeqFull
  <2>2. 0 \in 0..n
    BY <1>1
  <2> QED BY <1>2, <2>1, <2>2
<1>4. \A k \in 0..(n - 1) : k \in S => k + 1 \in S
  <2> SUFFICES ASSUME NEW k \in 0..(n - 1), k \in S PROVE k + 1 \in S
    OBVIOUS
  <2>1. PICK v : v = SubSeq(w, k + 1, Len(w))
    OBVIOUS
  <2>2. /\ v \in Seq(Value) /\ v # <<>>
        /\ a[k + 1] = Step(a[k], Head(v))
        /\ Tail(v) = SubSeq(w, (k + 1) + 1, Len(w))
    BY <1>2, <2>1
  <2>3. Within(sent, a[k], v)
    BY <2>1
  <2>4. Within(sent, TerminalStep(a[k], Head(v)), Tail(v))
    BY <2>2, <2>3, WithinStep
  <2>5. Step(a[k], Head(v)) = TerminalStep(a[k], Head(v))
    BY DEF Step
  <2>6. k + 1 \in 0..n
    BY <1>1
  <2> QED BY <2>2, <2>4, <2>5, <2>6
<1> HIDE DEF S
<1>5. \A k \in 0..n : k \in S
  BY <1>1, <1>3, <1>4, UpTo
<1> QED BY <1>1, <1>2, <1>5 DEF S

(* The inductive invariant of OnlyWhatWasSent, for the terminal. *)
OnlyInv ==
    protocol = "terminal" => /\ \E r : Framed(packet, r)
                             /\ state = Listening => Within(packet, filter, wire)

TerminalOnlyWhatWasSent == protocol = "terminal" => OnlyWhatWasSent

LEMMA DeliverOnly ==
    ASSUME FoundInv, OnlyInv, Deliver
    PROVE  OnlyInv' /\ TerminalOnlyWhatWasSent'
<1>1. protocol' = protocol /\ packet' = packet /\ state = Listening
  BY DEF Deliver
<1>2. SUFFICES ASSUME protocol = "terminal" PROVE OnlyInv' /\ TerminalOnlyWhatWasSent'
  BY <1>1 DEF OnlyInv, TerminalOnlyWhatWasSent
<1>3. PICK r : Framed(packet, r)
  BY <1>2 DEF OnlyInv
<1>4. Within(packet, filter, wire) /\ wire \in Seq(Value)
  BY <1>1, <1>2 DEF OnlyInv, FoundInv
<1>5. PICK n \in 1..Len(wire) :
         /\ wire' = SubSeq(wire, n + 1, Len(wire))
         /\ terminal_feed(SubSeq(wire, 1, n))
  BY <1>2 DEF Deliver
<1>6. PICK f, b : f = Feed(SubSeq(wire, 1, n)) /\ b = f.buffer
  OBVIOUS
<1>7. Within(packet, f, wire')
  BY <1>2, <1>3, <1>4, <1>5, <1>6, FeedWithin
<1> DEFINE foreign == Len(b) < 4 \/ b[3] # ADDR \/ b[4] # CODE
<1>8. /\ filter' = IF f.completed /\ foreign THEN Fresh ELSE f
      /\ state' = IF ~f.completed \/ foreign THEN Listening
                  ELSE IF Len(b) < 7 THEN Failed("WRONG_ANSWER")
                  ELSE IF SubSeq(b, Len(b) - 2, Len(b) - 1) # checksum_calc(b)
                       THEN Failed("PACKET_CRC_ERROR")
                  ELSE Reply(b[2], SubSeq(b, 5, Len(b) - 3))
  BY <1>5, <1>6 DEF terminal_feed
<1>9. Failed("WRONG_ANSWER").result # "SUCCESS" /\ Failed("PACKET_CRC_ERROR").result # "SUCCESS"
      /\ Listening.result = "NONE"
  BY DEF Failed, Listening
<1>10. CASE ~f.completed
  <2>1. filter' = f /\ state' = Listening
    BY <1>8, <1>10
  <2> QED BY <1>1, <1>3, <1>7, <2>1 DEF OnlyInv, TerminalOnlyWhatWasSent, OnlyWhatWasSent, Listening
<1>11. CASE f.completed /\ foreign
  <2>1. filter' = Fresh /\ state' = Listening
    BY <1>8, <1>11
  <2>2. Anywhere(packet, wire')
    <3>1. Done(packet, f, wire')
      BY <1>7, <1>11 DEF Within, Waits, Gathers, Glued, Stuck
    <3> QED BY <3>1 DEF Done
  <2>3. Within(packet, Fresh, wire')
    <3>1. Fresh \in Filter
      BY EmptySeq DEF Fresh, Filter
    <3>2. Waits(packet, Fresh, wire')
      BY <2>2 DEF Waits, Fresh
    <3> QED BY <3>1, <3>2 DEF Within
  <2> QED BY <1>1, <1>3, <2>1, <2>3 DEF OnlyInv, TerminalOnlyWhatWasSent, OnlyWhatWasSent, Listening
<1>12. CASE f.completed /\ ~foreign
  <2>1. Harmless(packet, b)
    <3>1. Done(packet, f, wire')
      BY <1>7, <1>12 DEF Within, Waits, Gathers, Glued, Stuck
    <3> QED BY <1>6, <3>1 DEF Done
  <2>2. \/ state' = Failed("WRONG_ANSWER")
        \/ state' = Failed("PACKET_CRC_ERROR")
        \/ /\ state' = Reply(b[2], SubSeq(b, 5, Len(b) - 3)) /\ ~(Len(b) < 7)
           /\ SubSeq(b, Len(b) - 2, Len(b) - 1) = checksum_calc(b)
    BY <1>8, <1>12
  <2>3. state' # Listening
    BY <2>2 DEF Failed, Reply, Listening
  <2>4. CASE state' = Failed("WRONG_ANSWER") \/ state' = Failed("PACKET_CRC_ERROR")
    <3>1. state'.result # "SUCCESS"
      BY <1>9, <2>4
    <3> QED BY <1>1, <1>3, <2>3, <3>1 DEF OnlyInv, TerminalOnlyWhatWasSent, OnlyWhatWasSent
  <2>5. CASE /\ state' = Reply(b[2], SubSeq(b, 5, Len(b) - 3)) /\ ~(Len(b) < 7)
             /\ SubSeq(b, Len(b) - 2, Len(b) - 1) = checksum_calc(b)
    <3>1. ~Refused(b)
      BY <1>12, <2>5 DEF Refused
    <3>2. b = packet
      BY <2>1, <3>1 DEF Harmless
    <3>3. state' = Sent'
      BY <1>1, <1>2, <2>5, <3>2 DEF Sent
    <3> QED BY <1>1, <1>3, <2>3, <3>3 DEF OnlyInv, TerminalOnlyWhatWasSent, OnlyWhatWasSent
  <2> QED BY <2>2, <2>4, <2>5
<1> QED BY <1>10, <1>11, <1>12

(* The beginning: what is left of an earlier packet. *)
LEMMA LeftWithin ==
    ASSUME NEW sent, NEW s, Framed(sent, s), NEW e, NEW q, Framed(e, q), Repeats(Total(q)),
           NEW l \in Pieces(Rest("terminal", e, 0))
    PROVE  Within(sent, Fresh, l \o Rest("terminal", sent, 0))
<1>1. PICK y, w : y = Rest("terminal", e, 0) /\ w = l \o Rest("terminal", sent, 0)
  OBVIOUS
<1>2. Shape("terminal", e) /\ Len(e) \in Nat
  <2>1. Shape("terminal", e)
    BY FramedShape
  <2> QED BY <2>1 DEF Shape
<1>3. y \in Seq(Value) /\ Len(y) \in Nat /\ \A i \in 1..Len(y) : y[i] \in Value
  <2>1. 0 \in 0..Len(e)
    BY <1>2
  <2> QED BY <1>1, <1>2, <2>1, RestIs, LenProperties, ElementOfSeq
<1>4. Fresh \in Filter /\ Fresh.waiting /\ ~Fresh.completed /\ Fresh.escape = FALSE /\ Fresh.buffer = <<>>
  BY EmptySeq DEF Fresh, Filter
<1>5. CASE \E i \in 2..Len(y) : l = SubSeq(y, i, Len(y))
  <2>1. PICK i \in 2..Len(y) : l = SubSeq(y, i, Len(y))
    BY <1>5
  <2>2. i \in 1..Len(y) /\ i # 1
    BY <1>3
  <2>3. PICK k, esc : PartLeft(e, k, esc, SubSeq(y, i, Len(y)), i # 1)
    BY <1>1, <1>2, <2>2, EndRem
  <2>4. esc \in BOOLEAN /\ Rem(e, k, esc, l) /\ k # 0
    BY <2>1, <2>2, <2>3 DEF PartLeft
  <2>5. Upon(sent, e, k, l, w)
    BY <1>1, <2>4 DEF Upon
  <2>6. Anywhere(sent, w)
    BY <2>4, <2>5 DEF Anywhere
  <2>7. Waits(sent, Fresh, w)
    BY <1>4, <2>6 DEF Waits
  <2> QED BY <1>1, <1>4, <2>7 DEF Within
<1>6. CASE \E i \in 1..(Len(y) - 1) : l = SubSeq(y, 1, i)
  <2>1. PICK i \in 1..(Len(y) - 1) : l = SubSeq(y, 1, i)
    BY <1>6
  <2>2. PICK cut : cut = SubSeq(y, i + 1, Len(y))
    OBVIOUS
  <2>3. l \in Seq(Value) /\ Len(l) # 0
    <3>1. i \in Nat /\ 1 <= i /\ \A j \in 1..i : j \in 1..Len(y)
      BY <1>3
    <3>2. \A j \in 1..i : y[j] \in Value
      BY <1>3, <3>1
    <3>3. l \in Seq(Value) /\ Len(l) = IF 1 <= i THEN i - 1 + 1 ELSE 0
      BY <2>1, <3>1, <3>2, SubSeqProperties
    <3> QED BY <3>1, <3>3
  <2>4. cut \in Seq(Value) /\ Len(cut) # 0
    <3>1. i + 1 \in Int /\ Len(y) \in Int /\ i + 1 <= Len(y) /\ \A j \in (i + 1)..Len(y) : j \in 1..Len(y)
      BY <1>3
    <3>2. \A j \in (i + 1)..Len(y) : y[j] \in Value
      BY <1>3, <3>1
    <3>3. cut \in Seq(Value) /\ Len(cut) = IF i + 1 <= Len(y) THEN Len(y) - (i + 1) + 1 ELSE 0
      BY <2>2, <3>1, <3>2, SubSeqProperties
    <3> QED BY <3>1, <3>3
  <2>5. l \o cut = y
    <3>1. 1 \in 1..Len(y) + 1 /\ i \in 1 - 1..Len(y) /\ Len(y) \in i..Len(y)
      BY <1>3
    <3>2. SubSeq(y, 1, i) \o SubSeq(y, i + 1, Len(y)) = SubSeq(y, 1, Len(y))
      BY <1>3, <3>1, ConcatAdjacentSubSeq
    <3>3. SubSeq(y, 1, Len(y)) = y
      BY <1>3, SubSeqFull
    <3> QED BY <2>1, <2>2, <3>2, <3>3
  <2>6. Rem(e, 0, FALSE, l \o cut)
    <3>1. 0 \in 0..Len(e)
      BY <1>2
    <3> QED BY <1>1, <2>5, <3>1 DEF Rem
  <2>7. SubSeq(e, 1, 0) = <<>>
    <3>1. 1 \in Int /\ 0 \in Int /\ 0 < 1
      OBVIOUS
    <3> QED BY <3>1, SubSeqEmpty
  <2>8. l # <<>> /\ cut # <<>>
    BY <2>3, <2>4, EmptySeq
  <2>9. CutAt(sent, Fresh, w, e, q, 0, l, cut)
    BY <1>1, <1>4, <2>3, <2>4, <2>6, <2>7, <2>8 DEF CutAt
  <2>10. Glued(sent, Fresh, w)
    BY <1>4, <2>9 DEF Glued
  <2> QED BY <1>1, <1>4, <2>10 DEF Within
<1> QED BY <1>1, <1>5, <1>6 DEF Pieces

(* The earlier packet: of one byte again and again. *)
LEMMA LongerIs ==
    ASSUME NEW x \in Byte
    PROVE  \E q : Framed(TerminalPacket(Longer(x)), q) /\ Repeats(Total(q))
<1>1. PICK n \in Nat : n = MaxData + 1 /\ n <= 256 /\ n \in 0..256
  <2>1. MaxData \in 0..255
    BY FramingAssumption DEF Byte
  <2>2. \A i \in 0..255 : i + 1 \in Nat /\ i + 1 <= 256 /\ i + 1 \in 0..256
    OBVIOUS
  <2> QED BY <2>1, <2>2
<1>2. Longer(x) \in [1..n -> Byte] /\ Longer(x) = [i \in 1..n |-> x]
  BY <1>1 DEF Longer
<1>3. Longer(x) \in Seq(Byte) /\ Len(Longer(x)) = n
  BY <1>2, FunctionIsSeq
<1>4. Total(Longer(x)) = n * x
  <2>1. x \in Nat
    BY DEF Byte
  <2> QED BY <1>2, <2>1, TotalOfSame
<1>5. PICK q : q = <<FACK, ADDR, CODE>> \o Longer(x)
  OBVIOUS
<1>6. Framed(TerminalPacket(Longer(x)), q) /\ Total(q) = 115 + Total(Longer(x))
  BY <1>1, <1>3, <1>5, PacketFramed
<1>7. Repeats(Total(q))
  BY <1>1, <1>4, <1>6 DEF Repeats
<1> QED BY <1>6, <1>7

LEMMA InitOnly == Init => OnlyInv /\ TerminalOnlyWhatWasSent
<1> SUFFICES ASSUME Init, protocol = "terminal" PROVE OnlyInv /\ TerminalOnlyWhatWasSent
  BY DEF OnlyInv, TerminalOnlyWhatWasSent
<1>1. filter = Fresh /\ state = Listening /\ TerminalBytes \subseteq Byte
  BY FramingAssumption DEF Init
<1>2. PICK data \in SeqOf(TerminalBytes, MaxData) :
         LET p == TerminalPacket(data)
         IN  Carries("terminal", p, terminal_bytestaff(p),
                     {terminal_bytestaff(TerminalPacket(Longer(x))) : x \in TerminalBytes})
  <2>1. "subway" # "terminal"
    OBVIOUS
  <2> QED BY <2>1 DEF Init, Carries
<1>3. PICK p, Earlier : /\ p = TerminalPacket(data)
                        /\ Earlier = {terminal_bytestaff(TerminalPacket(Longer(x))) : x \in TerminalBytes}
  OBVIOUS
<1>4. PICK r : Framed(p, r)
  <2>1. data \in Seq(Byte) /\ Len(data) <= MaxData
    BY <1>1, DataIs
  <2>2. Len(data) <= 256
    <3>1. MaxData \in Nat /\ MaxData <= 256
      BY FramingAssumption DEF Byte
    <3>2. Len(data) \in Nat
      BY <2>1, LenProperties
    <3> QED BY <2>1, <3>1, <3>2
  <2> QED BY <1>3, <2>1, <2>2, PacketFramed
<1>5. packet = p
  BY <1>2, <1>3 DEF Carries
<1>6. \A z : Shape("terminal", z) => terminal_bytestaff(z) = Rest("terminal", z, 0)
  <2> TAKE z
  <2> HAVE Shape("terminal", z)
  <2>1. Stuffed("terminal", z) = terminal_bytestaff(z)
    BY DEF Stuffed
  <2> QED BY <2>1, RestIs
<1>7. PICK left \in {<<>>} \cup UNION {Pieces(e) : e \in Earlier} : wire = left \o terminal_bytestaff(p)
  BY <1>2, <1>3 DEF Carries
<1>8. Shape("terminal", p) /\ Len(p) \in Nat /\ terminal_bytestaff(p) = Rest("terminal", p, 0)
  <2>1. Shape("terminal", p)
    BY <1>4, FramedShape
  <2> QED BY <1>6, <2>1 DEF Shape
<1>9. CASE left = <<>>
  <2>1. Rest("terminal", p, 0) \in Seq(Value) /\ 0 \in 0..Len(p)
    <3>1. 0 \in 0..Len(p)
      BY <1>8
    <3> QED BY <1>8, <3>1, RestIs
  <2>2. wire = Rest("terminal", p, 0)
    BY <1>7, <1>8, <1>9, <2>1, ConcatEmptySeq
  <2>3. Rem(p, 0, FALSE, wire) /\ Upon(p, p, 0, wire, wire)
    BY <2>1, <2>2 DEF Rem, Upon
  <2>4. Anywhere(p, wire)
    BY <1>4, <2>3 DEF Anywhere
  <2>5. Within(p, Fresh, wire)
    BY <2>4, EmptySeq DEF Within, Waits, Fresh, Filter
  <2> QED BY <1>1, <1>4, <1>5, <2>5 DEF OnlyInv, TerminalOnlyWhatWasSent, OnlyWhatWasSent
<1>10. CASE \E e \in Earlier : left \in Pieces(e)
  <2>1. PICK x \in TerminalBytes : left \in Pieces(terminal_bytestaff(TerminalPacket(Longer(x))))
    BY <1>3, <1>10
  <2>2. PICK z : z = TerminalPacket(Longer(x))
    OBVIOUS
  <2>3. PICK q : Framed(z, q) /\ Repeats(Total(q))
    BY <1>1, <2>2, LongerIs
  <2>4. left \in Pieces(Rest("terminal", z, 0))
    <3>1. Shape("terminal", z)
      BY <2>3, FramedShape
    <3> QED BY <1>6, <2>1, <2>2, <3>1
  <2>5. Within(p, Fresh, left \o Rest("terminal", p, 0))
    BY <1>4, <2>3, <2>4, LeftWithin
  <2>6. Within(packet, filter, wire)
    BY <1>1, <1>5, <1>7, <1>8, <2>5
  <2> QED BY <1>1, <1>4, <1>5, <2>6 DEF OnlyInv, TerminalOnlyWhatWasSent, OnlyWhatWasSent
<1> QED BY <1>7, <1>9, <1>10

(* What can be passed on instead: the bytes of a cut packet and of the one *)
(* after it, when the CRC of the subway protocol does not tell them from a *)
(* packet.                                                                 *)
Collision ==
    /\ protocol = "subway" /\ ~clean
    /\ filter.buffer # packet /\ Enough(filter.buffer) /\ crc_check(filter.buffer)

OnlyOrCollision == OnlyWhatWasSent \/ Collision

LEMMA DeliverSubway ==
    ASSUME FoundInv, Deliver, protocol = "subway"
    PROVE  OnlyOrCollision'
<1>1. protocol' = protocol /\ packet' = packet /\ clean' = clean
  BY DEF Deliver
<1>2. WellFormed("subway", packet)
  BY DEF FoundInv
<1>3. FoundWithItsLastByte'
  BY DeliverFound
<1>4. CASE clean
  <2>1. OnlyWhatWasSent'
    <3>2. state' = Listening \/ state' = Sent' \/ state' = Failed("PACKET_CRC_ERROR")
      BY <1>1, <1>3, <1>4 DEF FoundWithItsLastByte, Listening, Failed
    <3>3. Failed("PACKET_CRC_ERROR").result # "SUCCESS"
      BY DEF Failed
    <3> QED BY <3>2, <3>3 DEF OnlyWhatWasSent, Listening
  <2> QED BY <2>1 DEF OnlyOrCollision
<1>5. CASE ~clean
  <2>1. PICK n \in 1..Len(wire) : subway_feed(SubSeq(wire, 1, n))
    BY DEF Deliver
  <2>2. PICK f, b : f = Feed(SubSeq(wire, 1, n)) /\ b = f.buffer
    OBVIOUS
  <2>3. /\ filter' = f
        /\ state' = IF ~Enough(b) THEN Listening
                    ELSE IF crc_check(b) THEN Reply(b[3], SubSeq(b, 5, 4 + b[4]))
                    ELSE Failed("PACKET_CRC_ERROR")
    BY <2>1, <2>2 DEF subway_feed
  <2>4. CASE state' = Listening \/ state' = Failed("PACKET_CRC_ERROR")
    <3>1. Failed("PACKET_CRC_ERROR").result # "SUCCESS"
      BY DEF Failed
    <3> QED BY <2>4, <3>1 DEF OnlyOrCollision, OnlyWhatWasSent, Listening
  <2>5. CASE state' = Reply(b[3], SubSeq(b, 5, 4 + b[4])) /\ Enough(b) /\ crc_check(b)
    <3>1. CASE b = packet
      <4>1. 4 + packet[4] = Len(packet) - 2
        BY <1>2, SubwayVerdict
      <4>2. state' = Sent'
        BY <1>1, <2>5, <3>1, <4>1 DEF Sent, Reply
      <4> QED BY <4>2 DEF OnlyOrCollision, OnlyWhatWasSent
    <3>2. CASE b # packet
      <4>1. filter'.buffer = b
        BY <2>2, <2>3
      <4>2. Collision'
        BY <1>1, <1>5, <2>5, <3>2, <4>1 DEF Collision, Enough, crc_check, full_size
      <4> QED BY <4>2 DEF OnlyOrCollision
    <3> QED BY <3>1, <3>2
  <2> QED BY <2>3, <2>4, <2>5
<1> QED BY <1>4, <1>5

(* OnlyWhatWasSent of Framing: whatever is left of an earlier packet       *)
(* before it and however the line cuts it, what feed of TerminalProtocol   *)
(* passes on is what was sent, since the sum tells packets glued together  *)
(* and pieces of them from a packet.  So does feed of SubwayProtocol,      *)
(* except that a cut packet is told from a packet by the CRC alone.        *)
THEOREM FramingOnlyWhatWasSent == Spec => [](OnlyWhatWasSent \/ Collision)
<1> DEFINE Inv == FoundInv /\ OnlyInv /\ OnlyOrCollision
<1>1. Init => Inv
  <2>1. Init => OnlyWhatWasSent
    BY DEF Init, OnlyWhatWasSent, Listening
  <2> QED BY <2>1, InitFound, InitOnly DEF OnlyOrCollision
<1>2. Inv /\ [Next]_vars => Inv'
  <2> SUFFICES ASSUME Inv, [Next]_vars PROVE Inv'
    OBVIOUS
  <2>1. CASE Deliver
    <3>1. FoundInv' /\ OnlyInv' /\ TerminalOnlyWhatWasSent'
      BY <2>1, DeliverFound, DeliverOnly
    <3>2. protocol' = protocol /\ protocol \in {"subway", "terminal"}
      BY <2>1 DEF Deliver, FoundInv
    <3>3. CASE protocol = "terminal"
      BY <3>1, <3>2, <3>3 DEF TerminalOnlyWhatWasSent, OnlyOrCollision
    <3>4. CASE protocol = "subway"
      BY <2>1, <3>1, <3>4, DeliverSubway
    <3> QED BY <3>2, <3>3, <3>4
  <2>2. CASE UNCHANGED vars
    BY <2>2 DEF vars, FoundInv, OnlyInv, OnlyOrCollision, Collision, Enough, crc_check, full_size,
                OnlyWhatWasSent, Sent, Reply, Listening
  <2> QED BY <2>1, <2>2 DEF Next
<1>3. Inv => OnlyWhatWasSent \/ Collision
  BY DEF OnlyOrCollision
<1> QED BY <1>1, <1>2, <1>3, PTL DEF Spec

(* OnlyWhatWasSent itself, where no CRC is needed: for the terminal protocol *)
(* behind anything, and for the subway protocol behind the end of a packet   *)
(* with no start byte in it.                                                 *)
THEOREM FramingNeedsNoCrc == Spec => [](protocol = "terminal" \/ clean => OnlyWhatWasSent)
<1>1. ~(protocol = "terminal" \/ clean) \/ ~Collision
  BY DEF Collision
<1>2. OnlyWhatWasSent \/ Collision => (protocol = "terminal" \/ clean => OnlyWhatWasSent)
  BY <1>1
<1> QED BY <1>2, FramingOnlyWhatWasSent, PTL
=============================================================================
