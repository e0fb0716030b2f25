--------------------------- MODULE PipelineProofs ---------------------------
(***************************************************************************)
(* Theorems about the descrambling pipeline: only null packets are dropped, *)
(* nothing is lost on the ways back to the scrambled stream that the       *)
(* pipeline promises, nothing comes out twice, and the start timeout and   *)
(* the pauses of the stream bound how long it is held back.                *)
(***************************************************************************)
EXTENDS Pipeline, SeqLemmas, FiniteSetTheorems

-----------------------------------------------------------------------------
(* drop_null_packets()                                                      *)

\* What the loop has done after each pass, for the first n passes.
Passes(packets, n, f) ==
    f = [i \in 0..n |-> IF i = 0 THEN [start |-> -1, out |-> <<>>]
                        ELSE DropPass(packets, f[i - 1], i - 1)]

LEMMA LoopFromPasses ==
  ASSUME NEW packets, \E f : Passes(packets, Len(packets), f)
  PROVE  \E f : Passes(packets, Len(packets), f) /\ DropLoop(packets) = f[Len(packets)]
<1> DEFINE r == CHOOSE f : f = [i \in 0..Len(packets) |->
                                  IF i = 0 THEN [start |-> -1, out |-> <<>>]
                                  ELSE DropPass(packets, f[i - 1], i - 1)]
<1>1. DropLoop(packets) = r[Len(packets)]
  BY Zenon DEF DropLoop
<1>2. Passes(packets, Len(packets), r)
  BY Zenon DEF Passes
<1>3. QED
  BY <1>1, <1>2, Zenon

LEMMA PassesExist ==
  ASSUME NEW packets, NEW n \in Nat
  PROVE  \E f : Passes(packets, n, f)
<1> DEFINE T == {m \in Nat : \E f : Passes(packets, m, f)}
<1>1. 0 \in T
  <2> DEFINE f == [i \in 0..0 |-> [start |-> -1, out |-> <<>>]]
  <2>1. \A i \in 0..0 : i = 0
    OBVIOUS
  <2>2. Passes(packets, 0, f)
    BY <2>1 DEF Passes
  <2>3. QED
    BY <2>2
<1>2. ASSUME NEW m \in Nat, m \in T PROVE m + 1 \in T
  <2>1. PICK f : Passes(packets, m, f)
    BY <1>2
  <2> DEFINE g == [i \in 0..(m + 1) |-> IF i <= m THEN f[i] ELSE DropPass(packets, f[m], m)]
  <2>2. /\ m + 1 \in 0..(m + 1) /\ m \in 0..(m + 1) /\ (m + 1) - 1 = m
        /\ ~(m + 1 <= m) /\ m <= m
    OBVIOUS
  <2>3. g[m + 1] = DropPass(packets, g[m], m)
    BY <2>2, Zenon
  <2>4. ASSUME NEW i \in 0..(m + 1), i # 0 PROVE g[i] = DropPass(packets, g[i - 1], i - 1)
    <3>1. CASE i = m + 1
      BY <2>2, <2>3, <3>1, Zenon
    <3>2. CASE i # m + 1
      <4>1. i \in 0..m /\ i - 1 \in 0..m /\ i - 1 \in 0..(m + 1) /\ i <= m /\ i - 1 <= m
        BY <2>4, <3>2
      <4>2. f[i] = DropPass(packets, f[i - 1], i - 1)
        BY <2>1, <2>4, <4>1, Zenon DEF Passes
      <4>3. g[i] = f[i] /\ g[i - 1] = f[i - 1]
        BY <4>1, Zenon
      <4>4. QED
        BY <4>2, <4>3, Zenon
    <3>3. QED
      BY <3>1, <3>2
  <2>5. ASSUME NEW i \in 0..(m + 1), i = 0 PROVE g[i] = [start |-> -1, out |-> <<>>]
    <3>1. i <= m /\ i \in 0..m
      BY <2>5
    <3>2. f[i] = [start |-> -1, out |-> <<>>]
      BY <2>1, <2>5, <3>1, Zenon DEF Passes
    <3>3. QED
      BY <3>1, <3>2, Zenon
  <2>6. g = [i \in 0..(m + 1) |-> g[i]]
    OBVIOUS
  <2> HIDE DEF g
  <2>7. Passes(packets, m + 1, g)
    BY <2>4, <2>5, <2>6, Zenon DEF Passes
  <2>8. QED
    BY <2>7
<1>3. Nat \subseteq T
  <2> HIDE DEF T
  <2>1. QED
    BY <1>1, <1>2, NumberInduction
<1>4. QED
  BY <1>3

-----------------------------------------------------------------------------
(* The chunks of a stream                                                   *)

\* The new packets among the first i of a chunk.
Count(new, i) == Cardinality({j \in 1..i : new[j]})

\* A chunk behind the packets up to from, and the new packets among its first i.
Chunk(new, n, from) == [i \in 1..n |-> IF new[i] THEN from + Count(new, i) ELSE 0]
Numbers(from, m) == [k \in 1..m |-> from + k]

LEMMA CountStep ==
  ASSUME NEW n \in Nat, NEW new \in [1..n -> BOOLEAN], NEW i \in 0..n
  PROVE  /\ Count(new, 0) = 0
         /\ Count(new, i) \in Nat
         /\ i < n => Count(new, i + 1) = Count(new, i) + (IF new[i + 1] THEN 1 ELSE 0)
<1> DEFINE S == {j \in 1..i : new[j]}
<1>1. Count(new, 0) = 0
  <2>1. {j \in 1..0 : new[j]} = {}
    OBVIOUS
  <2>2. QED
    BY <2>1, FS_EmptySet DEF Count
<1>2. IsFiniteSet(S) /\ Cardinality(S) \in Nat
  <2>1. IsFiniteSet(1..i)
    BY FS_Interval
  <2>2. S \in SUBSET (1..i)
    OBVIOUS
  <2> HIDE DEF S
  <2>3. QED
    BY <2>1, <2>2, FS_Subset, FS_CardinalityType
<1>3. ASSUME i < n
      PROVE  Count(new, i + 1) = Count(new, i) + (IF new[i + 1] THEN 1 ELSE 0)
  <2>1. i + 1 \notin S
    OBVIOUS
  <2>2. 1..(i + 1) = (1..i) \cup {i + 1}
    OBVIOUS
  <2>3. CASE new[i + 1]
    <3>1. {j \in 1..(i + 1) : new[j]} = S \cup {i + 1}
      BY <2>2, <2>3
    <3> HIDE DEF S
    <3>2. Cardinality(S \cup {i + 1}) = Cardinality(S) + 1
      BY <1>2, <2>1, FS_AddElement
    <3>3. QED
      BY <2>3, <3>1, <3>2, Zenon DEF Count, S
  <2>4. CASE ~new[i + 1]
    <3>1. {j \in 1..(i + 1) : new[j]} = S
      BY <2>2, <2>4
    <3>2. Count(new, i + 1) = Cardinality(S) /\ Count(new, i) = Cardinality(S)
      BY <3>1, Zenon DEF Count
    <3> HIDE DEF S
    <3>3. QED
      BY <1>2, <2>4, <3>2
  <2>5. QED
    BY <2>3, <2>4
<1>4. QED
  BY <1>1, <1>2, <1>3 DEF Count

LEMMA ChunkTyped ==
  ASSUME NEW n \in Nat, NEW new \in [1..n -> BOOLEAN], NEW from \in Nat
  PROVE  /\ Chunk(new, n, from) \in Seq(Nat)
         /\ Len(Chunk(new, n, from)) = n
         /\ DOMAIN Chunk(new, n, from) = 1..n
         /\ \A i \in 1..n : Chunk(new, n, from)[i] = IF new[i] THEN from + Count(new, i) ELSE 0
<1>1. \A i \in 1..n : Count(new, i) \in Nat
  BY CountStep
<1>2. Chunk(new, n, from) \in [1..n -> Nat]
  BY <1>1 DEF Chunk
<1>3. QED
  BY <1>2 DEF Chunk

LEMMA NumbersTyped ==
  ASSUME NEW from \in Nat, NEW m \in Nat
  PROVE  /\ Numbers(from, m) \in Seq(Nat) /\ Len(Numbers(from, m)) = m
         /\ \A k \in 1..m : Numbers(from, m)[k] = from + k
<1>1. Numbers(from, m) \in [1..m -> Nat]
  BY DEF Numbers
<1>2. QED
  BY <1>1 DEF Numbers

LEMMA NumbersJoin ==
  ASSUME NEW from \in Nat, NEW p \in Nat, NEW q \in Nat
  PROVE  /\ Numbers(from, p) \in Seq(Nat) /\ Len(Numbers(from, p)) = p
         /\ Numbers(from, p) \o Numbers(from + p, q) = Numbers(from, p + q)
<1> DEFINE a == Numbers(from, p)
           b == Numbers(from + p, q)
           c == Numbers(from, p + q)
<1>2. /\ a \in Seq(Nat) /\ Len(a) = p /\ \A k \in 1..p : a[k] = from + k
      /\ b \in Seq(Nat) /\ Len(b) = q /\ \A k \in 1..q : b[k] = from + p + k
      /\ c \in Seq(Nat) /\ Len(c) = p + q /\ \A k \in 1..(p + q) : c[k] = from + k
  <2>1. from + p \in Nat /\ p + q \in Nat
    OBVIOUS
  <2>2. a \in Seq(Nat) /\ Len(a) = p /\ \A k \in 1..p : a[k] = from + k
    BY NumbersTyped
  <2>3. b \in Seq(Nat) /\ Len(b) = q /\ \A k \in 1..q : b[k] = from + p + k
    BY <2>1, NumbersTyped, Zenon
  <2>4. c \in Seq(Nat) /\ Len(c) = p + q /\ \A k \in 1..(p + q) : c[k] = from + k
    BY <2>1, NumbersTyped, Zenon
  <2>5. QED
    BY <2>2, <2>3, <2>4
<1> HIDE DEF a, b, c
<1>3. /\ a \o b \in Seq(Nat) /\ Len(a \o b) = p + q
      /\ \A k \in 1..(p + q) : (a \o b)[k] = IF k <= p THEN a[k] ELSE b[k - p]
  BY <1>2, ConcatProperties
<1>4. \A k \in 1..(p + q) : (a \o b)[k] = c[k]
  <2> TAKE k \in 1..(p + q)
  <2>1. CASE k <= p
    BY <1>2, <1>3, <2>1
  <2>2. CASE ~(k <= p)
    <3>1. k - p \in 1..q /\ from + p + (k - p) = from + k
      BY <2>2
    <3>2. QED
      BY <1>2, <1>3, <2>2, <3>1
  <2>3. QED
    BY <2>1, <2>2
<1>5. a \o b = c
  BY <1>2, <1>3, <1>4, SeqEqual
<1>6. QED
  BY <1>2, <1>5 DEF a, b, c

\* A run of new packets behind the first a of a chunk.
AllNew(new, a, i) ==
    \A j \in (a + 1)..i : new[j] /\ Count(new, j) = Count(new, a) + (j - a)

LEMMA RunOfNew ==
  ASSUME NEW n \in Nat, NEW new \in [1..n -> BOOLEAN], NEW from \in Nat,
         NEW a \in 0..n, NEW i \in a..n, AllNew(new, a, i)
  PROVE  /\ Count(new, i) = Count(new, a) + (i - a)
         /\ Numbers(from, Count(new, a)) \o SubSeq(Chunk(new, n, from), a + 1, i)
              = Numbers(from, Count(new, i))
<1> DEFINE ch == Chunk(new, n, from)
           sub == SubSeq(ch, a + 1, i)
           c == Count(new, a)
           b == Numbers(from + c, i - a)
<1>1. c \in Nat /\ i - a \in Nat /\ from + c \in Nat /\ i \in Int /\ a + 1 \in Int
  <2>1. c \in Nat
    BY CountStep
  <2> HIDE DEF c
  <2>2. QED
    BY <2>1
<1>2. Count(new, i) = c + (i - a)
  <2> HIDE DEF c
  <2>1. CASE i = a
    BY <1>1, <2>1 DEF c
  <2>2. CASE i # a
    <3>1. i \in (a + 1)..i
      BY <2>2
    <3>2. QED
      BY <3>1 DEF AllNew, c
  <2>3. QED
    BY <2>1, <2>2
<1>3. /\ ch \in Seq(Nat)
      /\ \A j \in 1..n : ch[j] \in Nat
      /\ \A j \in 1..n : ch[j] = IF new[j] THEN from + Count(new, j) ELSE 0
  <2>1. /\ ch \in Seq(Nat) /\ Len(ch) = n
        /\ \A j \in 1..n : ch[j] = IF new[j] THEN from + Count(new, j) ELSE 0
    BY ChunkTyped
  <2> HIDE DEF ch
  <2>2. \A j \in 1..n : ch[j] \in Nat
    BY <2>1, ElementOfSeq
  <2>3. QED
    BY <2>1, <2>2
<1>4. \A j \in (a + 1)..i : ch[j] = from + c + (j - a)
  <2> TAKE j \in (a + 1)..i
  <2>1. j \in 1..n /\ new[j] /\ Count(new, j) = c + (j - a)
    BY DEF AllNew
  <2>2. ch[j] = from + Count(new, j)
    BY <1>3, <2>1, Zenon
  <2> HIDE DEF ch, c
  <2>3. QED
    BY <1>1, <2>1, <2>2
<1>5. b \in Seq(Nat) /\ Len(b) = i - a /\ \A k \in 1..(i - a) : b[k] = from + c + k
  BY <1>1, NumbersTyped, Zenon
<1>6. /\ sub \in Seq(Nat)
      /\ Len(sub) = IF a + 1 <= i THEN i - (a + 1) + 1 ELSE 0
      /\ \A k \in 1..(i - (a + 1) + 1) : sub[k] = ch[a + 1 + k - 1]
  <2>1. \A j \in (a + 1)..i : ch[j] \in Nat
    <3>1. \A j \in (a + 1)..i : j \in 1..n
      OBVIOUS
    <3>2. QED
      BY <1>3, <3>1, Zenon
  <2> HIDE DEF ch, c
  <2>2. QED
    BY <1>1, <1>3, <2>1, SubSeqProperties
<1> HIDE DEF ch, sub, b
<1>7. sub = b
  <2>1. Len(sub) = i - a
    BY <1>1, <1>6
  <2>2. \A k \in 1..Len(sub) : sub[k] = b[k]
    <3> TAKE k \in 1..Len(sub)
    <3>1. k \in 1..(i - a) /\ k \in 1..(i - (a + 1) + 1) /\ a + 1 + k - 1 \in (a + 1)..i
          /\ (a + 1 + k - 1) - a = k
      BY <1>1, <2>1
    <3>2. sub[k] = from + c + k
      BY <1>4, <1>6, <3>1
    <3>3. QED
      BY <1>5, <3>1, <3>2, Zenon
  <2>3. QED
    BY <1>5, <1>6, <2>1, <2>2, SeqEqual
<1>8. Numbers(from, c) \o b = Numbers(from, c + (i - a))
  BY <1>1, NumbersJoin DEF b
<1>9. QED
  BY <1>2, <1>7, <1>8, Zenon DEF sub, ch

\* What the loop has found in the first i packets of a chunk: outside a run of
\* new packets, all of them have been copied; in a run, those before it.
LoopInv(new, from, i, r) ==
    \E start \in -1..i, out \in Seq(Nat) :
       /\ r = [start |-> start, out |-> out]
       /\ start = -1 => out = Numbers(from, Count(new, i))
       /\ start # -1 => out = Numbers(from, Count(new, start)) /\ AllNew(new, start, i)

LEMMA LoopStep ==
  ASSUME NEW n \in Nat, NEW new \in [1..n -> BOOLEAN], NEW from \in Nat,
         NEW i \in 0..n, i < n, NEW r, LoopInv(new, from, i, r)
  PROVE  LoopInv(new, from, i + 1, DropPass(Chunk(new, n, from), r, i))
<1> DEFINE ch == Chunk(new, n, from)
           next == DropPass(ch, r, i)
<1>1. PICK start \in -1..i, out \in Seq(Nat) :
        /\ r = [start |-> start, out |-> out]
        /\ start = -1 => out = Numbers(from, Count(new, i))
        /\ start # -1 => out = Numbers(from, Count(new, start)) /\ AllNew(new, start, i)
  BY DEF LoopInv
<1>2. /\ i + 1 \in 1..n /\ Count(new, i) \in Nat
      /\ Count(new, i + 1) = Count(new, i) + (IF new[i + 1] THEN 1 ELSE 0)
  BY CountStep
<1>3. ch[i + 1] = IF new[i + 1] THEN from + Count(new, i + 1) ELSE 0
  BY <1>2, ChunkTyped, Zenon
<1>4. ch[i + 1] # 0 <=> new[i + 1]
  BY <1>2, <1>3
<1>5. /\ ch[i + 1] # 0 =>
            next = [start |-> IF start = -1 THEN i ELSE start, out |-> out]
      /\ ch[i + 1] = 0 =>
            next = [start |-> -1, out |-> IF start = -1 THEN out
                                          ELSE out \o SubSeq(ch, start + 1, i)]
  <2>1. r.start = start /\ r.out = out
    BY <1>1
  <2> HIDE DEF ch
  <2>2. ch[i + 1] # 0 => next = [r EXCEPT !.start = IF @ = -1 THEN i ELSE @]
    BY Zenon DEF DropPass
  <2>3. ch[i + 1] # 0 => next = [start |-> IF start = -1 THEN i ELSE start, out |-> out]
    BY <1>1, <2>2
  <2>4. ch[i + 1] = 0 =>
            next = [start |-> -1, out |-> IF start = -1 THEN out
                                          ELSE out \o SubSeq(ch, start + 1, i)]
    BY <2>1, Zenon DEF DropPass
  <2>5. QED
    BY <2>3, <2>4
<1> HIDE DEF ch, next
<1>6. CASE new[i + 1] /\ start = -1
  <2>1. next = [start |-> i, out |-> out] /\ i \in -1..(i + 1) /\ i # -1
    BY <1>4, <1>5, <1>6
  <2>2. AllNew(new, i, i + 1)
    BY <1>2, <1>6 DEF AllNew
  <2>3. out = Numbers(from, Count(new, i))
    BY <1>1, <1>6
  <2>4. QED
    BY <2>1, <2>2, <2>3, Zenon DEF LoopInv, next, ch
<1>7. CASE new[i + 1] /\ start # -1
  <2>1. next = [start |-> start, out |-> out] /\ start \in -1..(i + 1)
    BY <1>4, <1>5, <1>7
  <2>2. start \in 0..n /\ i \in start..n /\ AllNew(new, start, i) /\ start \in Int
    BY <1>1, <1>7
  <2>3. Count(new, i) = Count(new, start) + (i - start) /\ Count(new, start) \in Nat
    <3>1. Count(new, i) = Count(new, start) + (i - start)
      BY <2>2, RunOfNew
    <3>2. Count(new, start) \in Nat
      BY <2>2, CountStep
    <3>3. QED
      BY <3>1, <3>2
  <2>4. ASSUME NEW j \in (start + 1)..(i + 1)
        PROVE  new[j] /\ Count(new, j) = Count(new, start) + (j - start)
    <3>1. CASE j = i + 1
      BY <1>2, <1>7, <2>2, <2>3, <3>1
    <3>2. CASE j # i + 1
      <4>1. j \in (start + 1)..i
        BY <2>2, <3>2
      <4>2. QED
        BY <2>2, <4>1, Zenon DEF AllNew
    <3>3. QED
      BY <3>1, <3>2
  <2>5. AllNew(new, start, i + 1)
    BY <2>4, Zenon DEF AllNew
  <2>6. out = Numbers(from, Count(new, start))
    BY <1>1, <1>7
  <2>7. QED
    BY <1>7, <2>1, <2>5, <2>6, Zenon DEF LoopInv, next, ch
<1>8. CASE ~new[i + 1]
  <2>1. Count(new, i + 1) = Count(new, i)
    BY <1>2, <1>8
  <2>2. PICK all : /\ next = [start |-> -1, out |-> all]
                   /\ all = IF start = -1 THEN out ELSE out \o SubSeq(ch, start + 1, i)
    BY <1>4, <1>5, <1>8
  <2>3. all = Numbers(from, Count(new, i))
    <3>1. CASE start = -1
      BY <1>1, <2>2, <3>1
    <3>2. CASE start # -1
      <4>1. start \in 0..n /\ i \in start..n /\ AllNew(new, start, i)
        BY <1>1, <3>2
      <4>2. Numbers(from, Count(new, start)) \o SubSeq(ch, start + 1, i)
              = Numbers(from, Count(new, i))
        BY <4>1, RunOfNew DEF ch
      <4>3. QED
        BY <1>1, <2>2, <3>2, <4>2
    <3>3. QED
      BY <3>1, <3>2
  <2>4. all \in Seq(Nat)
    BY <1>2, <2>3, NumbersTyped
  <2>5. -1 \in -1..(i + 1)
    OBVIOUS
  <2>6. QED
    BY <2>1, <2>2, <2>3, <2>4, <2>5, Zenon DEF LoopInv, next, ch
<1>9. QED
  BY <1>6, <1>7, <1>8

\* drop_null_packets() keeps the new packets, in their order, and nothing else.
LEMMA OnlyNewKept ==
  ASSUME NEW n \in Nat, NEW new \in [1..n -> BOOLEAN], NEW from \in Nat
  PROVE  DropNullPackets(Chunk(new, n, from)) = Numbers(from, Count(new, n))
<1> DEFINE ch == Chunk(new, n, from)
<1>1. ch \in Seq(Nat) /\ Len(ch) = n
  BY ChunkTyped
<1> HIDE DEF ch
<1>2. PICK f : Passes(ch, n, f) /\ DropLoop(ch) = f[n]
  BY <1>1, PassesExist, LoopFromPasses
<1> DEFINE T == {i \in Nat : i <= n => LoopInv(new, from, i, f[i])}
<1>3. 0 \in T
  <2>1. 0 \in 0..n
    OBVIOUS
  <2>2. f[0] = [start |-> -1, out |-> <<>>]
    BY <1>2, <2>1, Zenon DEF Passes
  <2>3. Count(new, 0) = 0
    BY CountStep, <2>1
  <2>4. Numbers(from, 0) = <<>>
    BY DEF Numbers
  <2>5. -1 \in -1..0 /\ <<>> \in Seq(Nat)
    OBVIOUS
  <2>6. LoopInv(new, from, 0, f[0])
    BY <2>2, <2>3, <2>4, <2>5, Zenon DEF LoopInv
  <2>7. QED
    BY <2>6
<1>4. ASSUME NEW i \in Nat, i \in T PROVE i + 1 \in T
  <2>1. SUFFICES ASSUME i + 1 <= n PROVE LoopInv(new, from, i + 1, f[i + 1])
    OBVIOUS
  <2>2. /\ i \in 0..n /\ i < n /\ i <= n /\ i + 1 \in 0..n
        /\ i + 1 # 0 /\ (i + 1) - 1 = i
    BY <2>1
  <2>3. f[i + 1] = DropPass(ch, f[i], i)
    BY <1>2, <2>2, Zenon DEF Passes
  <2>4. LoopInv(new, from, i, f[i])
    BY <1>4, <2>2
  <2>5. QED
    BY <2>2, <2>3, <2>4, LoopStep DEF ch
<1>5. n \in T
  <2> HIDE DEF T
  <2>1. QED
    BY <1>3, <1>4, NumberInduction
<1>6. LoopInv(new, from, n, DropLoop(ch))
  BY <1>2, <1>5
<1>7. PICK start \in -1..n, out \in Seq(Nat) :
        /\ DropLoop(ch) = [start |-> start, out |-> out]
        /\ start = -1 => out = Numbers(from, Count(new, n))
        /\ start # -1 => out = Numbers(from, Count(new, start)) /\ AllNew(new, start, n)
  BY <1>6, Zenon DEF LoopInv
<1>8. DropLoop(ch).start = start /\ DropLoop(ch).out = out
  BY <1>7
<1>9. DropNullPackets(ch) = IF start = 0 THEN ch
                            ELSE IF start = -1 THEN out
                            ELSE out \o SubSeq(ch, start + 1, n)
  BY <1>1, <1>8, Zenon DEF DropNullPackets
<1>10. CASE start = -1
  BY <1>7, <1>9, <1>10 DEF ch
<1>11. CASE start # -1
  <2>1. start \in 0..n /\ n \in start..n /\ AllNew(new, start, n)
    BY <1>7, <1>11
  <2>2. out \o SubSeq(ch, start + 1, n) = Numbers(from, Count(new, n))
    <3>1. Numbers(from, Count(new, start)) \o SubSeq(Chunk(new, n, from), start + 1, n)
            = Numbers(from, Count(new, n))
      BY <2>1, RunOfNew
    <3>2. QED
      BY <1>7, <1>11, <3>1, Zenon DEF ch
  <2>3. CASE start = 0
    <3>1. Count(new, 0) = 0
      BY <2>1, CountStep
    <3>2. out = <<>>
      BY <1>7, <2>3, <3>1 DEF Numbers
    <3>3. SubSeq(ch, 1, n) = ch
      BY <1>1, SubSeqFull
    <3>4. <<>> \o ch = ch
      BY <1>1, ConcatEmptySeq
    <3>5. QED
      BY <1>9, <2>2, <2>3, <3>2, <3>3, <3>4 DEF ch
  <2>4. CASE start # 0
    BY <1>9, <1>11, <2>2, <2>4 DEF ch
  <2>5. QED
    BY <2>3, <2>4
<1>12. QED
  BY <1>10, <1>11

\* The greatest of a set of numbers, where it has one.
LEMMA MaxOf ==
  ASSUME NEW S \in SUBSET Int, NEW m \in S, \A x \in S : m >= x
  PROVE  Max(S) = m
<1> DEFINE x == Max(S)
<1>1. x \in S /\ \A y \in S : x >= y
  BY Zenon DEF Max
<1> HIDE DEF x
<1>2. x \in Int /\ m \in Int /\ m >= x /\ x >= m
  BY <1>1
<1>3. x = m
  BY <1>2
<1>4. QED
  BY <1>3 DEF x

\* None of the first k new packets is behind the last of them.
LEMMA NewestBounds ==
  ASSUME NEW n \in Nat, NEW new \in [1..n -> BOOLEAN], NEW k \in 0..n
  PROVE  /\ \A j \in 1..k : Count(new, j) <= Count(new, k)
         /\ Count(new, k) = 0 \/ \E j \in 1..k : new[j] /\ Count(new, j) = Count(new, k)
<1> DEFINE T == {i \in Nat : i <= n =>
                     /\ \A j \in 1..i : Count(new, j) <= Count(new, i)
                     /\ Count(new, i) = 0 \/ \E j \in 1..i : new[j] /\ Count(new, j) = Count(new, i)}
<1>1. 0 \in T
  <2>1. 0 \in 0..n /\ 1..0 = {}
    OBVIOUS
  <2>2. Count(new, 0) = 0
    BY <2>1, CountStep
  <2>3. QED
    BY <2>1, <2>2
<1>2. ASSUME NEW i \in Nat, i \in T PROVE i + 1 \in T
  <2>1. SUFFICES ASSUME i + 1 <= n
                 PROVE  /\ \A j \in 1..(i + 1) : Count(new, j) <= Count(new, i + 1)
                        /\ \/ Count(new, i + 1) = 0
                           \/ \E j \in 1..(i + 1) : new[j] /\ Count(new, j) = Count(new, i + 1)
    OBVIOUS
  <2>2. i \in 0..n /\ i < n /\ i <= n
    BY <2>1
  <2>3. /\ Count(new, i) \in Nat
        /\ Count(new, i + 1) = Count(new, i) + (IF new[i + 1] THEN 1 ELSE 0)
    BY <2>2, CountStep
  <2>4. /\ \A j \in 1..i : Count(new, j) <= Count(new, i)
        /\ Count(new, i) = 0 \/ \E j \in 1..i : new[j] /\ Count(new, j) = Count(new, i)
    BY <1>2, <2>2
  <2>5. \A j \in 1..i : j \in 0..n /\ j \in 1..(i + 1)
    BY <2>2
  <2>6. \A j \in 1..i : Count(new, j) \in Nat
    BY <2>5, CountStep
  <2>7. \A j \in 1..(i + 1) : j \in 1..i \/ j = i + 1
    OBVIOUS
  <2>8. i + 1 \in 1..(i + 1)
    OBVIOUS
  <2>9. CASE new[i + 1]
    <3>1. Count(new, i + 1) = Count(new, i) + 1
      BY <2>3, <2>9
    <3>2. QED
      BY <2>3, <2>4, <2>6, <2>7, <2>8, <2>9, <3>1
  <2>10. CASE ~new[i + 1]
    <3>1. Count(new, i + 1) = Count(new, i)
      BY <2>3, <2>10
    <3>2. QED
      BY <2>3, <2>4, <2>5, <2>7, <3>1
  <2>11. QED
    BY <2>9, <2>10
<1>3. k \in T
  <2> HIDE DEF T
  <2>1. QED
    BY <1>1, <1>2, NumberInduction
<1>4. QED
  BY <1>3

\* The newest packet of a chunk is the last of its new packets.
LEMMA NewestPacket ==
  ASSUME NEW n \in Nat, NEW new \in [1..n -> BOOLEAN], NEW from \in Nat
  PROVE  Max(ToSet(Chunk(new, n, from)) \cup {from}) = from + Count(new, n)
<1>1. /\ \A j \in 1..n : Count(new, j) <= Count(new, n)
      /\ Count(new, n) = 0 \/ \E j \in 1..n : new[j] /\ Count(new, j) = Count(new, n)
  <2>1. n \in 0..n
    OBVIOUS
  <2>2. QED
    BY <2>1, NewestBounds
<1>2. /\ \A j \in 1..n : Count(new, j) \in Nat
      /\ Count(new, n) \in Nat
  BY CountStep
<1> DEFINE ch == Chunk(new, n, from)
           S == ToSet(ch) \cup {from}
<1>3. DOMAIN ch = 1..n /\ \A j \in 1..n : ch[j] = IF new[j] THEN from + Count(new, j) ELSE 0
  BY ChunkTyped
<1> HIDE DEF ch
<1>4. S = {ch[j] : j \in 1..n} \cup {from}
  BY <1>3 DEF ToSet
<1> HIDE DEF S
<1>5. \A x \in S : x \in Int /\ from + Count(new, n) >= x
  BY <1>1, <1>2, <1>3, <1>4
<1>6. from + Count(new, n) \in S
  <2>1. CASE Count(new, n) = 0
    BY <1>4, <2>1
  <2>2. CASE \E j \in 1..n : new[j] /\ Count(new, j) = Count(new, n)
    <3>1. PICK j \in 1..n : new[j] /\ Count(new, j) = Count(new, n)
      BY <2>2
    <3>2. ch[j] = from + Count(new, n)
      BY <1>3, <3>1
    <3>3. QED
      BY <1>4, <3>2
  <2>3. QED
    BY <1>1, <2>1, <2>2
<1>7. Max(S) = from + Count(new, n)
  BY <1>5, <1>6, MaxOf
<1>8. QED
  BY <1>7 DEF S, ch

-----------------------------------------------------------------------------
(* Packets in order                                                         *)

Received == 0..MaxPackets

Rising(s) == \A i, j \in DOMAIN s : i < j /\ s[j] # 0 => s[i] < s[j]
UpTo(s, n) == \A i \in DOMAIN s : s[i] <= n

\* Null packets, and packets that come after from, up to to.
Follows(s, from, to) ==
    /\ Rising(s)
    /\ \A i \in DOMAIN s : s[i] = 0 \/ (from < s[i] /\ s[i] <= to)

LEMMA RisingJoin ==
  ASSUME NEW s \in Seq(Received), NEW p \in Seq(Received),
         NEW from \in Received, NEW to \in Received, from <= to,
         Rising(s), UpTo(s, from), Follows(p, from, to)
  PROVE  Rising(s \o p) /\ UpTo(s \o p, to)
<1> DEFINE u == s \o p
<1>1. /\ u \in Seq(Received) /\ Len(u) = Len(s) + Len(p)
      /\ \A i \in 1..(Len(s) + Len(p)) : u[i] = IF i <= Len(s) THEN s[i] ELSE p[i - Len(s)]
  BY ConcatProperties
<1>2. /\ Len(s) \in Nat /\ Len(p) \in Nat /\ from \in Nat /\ to \in Nat
      /\ DOMAIN s = 1..Len(s) /\ DOMAIN p = 1..Len(p)
  BY LenProperties, PipelineAssumption DEF Received
<1> HIDE DEF u
<1>3. DOMAIN u = 1..(Len(s) + Len(p))
  BY <1>1, LenProperties
<1>4. /\ \A i \in 1..Len(s) : s[i] \in Nat
      /\ \A i \in 1..Len(p) : p[i] \in Nat
  <2>1. Received \subseteq Nat
    BY PipelineAssumption DEF Received
  <2>2. QED
    BY <2>1, ElementOfSeq
<1>5. ASSUME NEW i \in 1..(Len(s) + Len(p))
      PROVE  /\ i <= Len(s) => i \in 1..Len(s) /\ u[i] = s[i] /\ u[i] <= from
             /\ ~(i <= Len(s)) =>
                   /\ i - Len(s) \in 1..Len(p) /\ u[i] = p[i - Len(s)]
                   /\ u[i] = 0 \/ (from < u[i] /\ u[i] <= to)
             /\ u[i] \in Nat
  <2>1. CASE i <= Len(s)
    <3>1. i \in 1..Len(s) /\ u[i] = s[i]
      BY <1>1, <1>2, <2>1
    <3>2. s[i] <= from
      BY <1>2, <3>1 DEF UpTo
    <3>3. QED
      BY <1>4, <2>1, <3>1, <3>2
  <2>2. CASE ~(i <= Len(s))
    <3>1. i - Len(s) \in 1..Len(p) /\ u[i] = p[i - Len(s)]
      BY <1>1, <1>2, <2>2
    <3>2. p[i - Len(s)] = 0 \/ (from < p[i - Len(s)] /\ p[i - Len(s)] <= to)
      BY <1>2, <3>1 DEF Follows
    <3>3. QED
      BY <1>4, <2>2, <3>1, <3>2
  <2>3. QED
    BY <2>1, <2>2
<1>6. \A i \in DOMAIN u : u[i] <= to
  BY <1>2, <1>3, <1>5
<1>7. ASSUME NEW i \in DOMAIN u, NEW j \in DOMAIN u, i < j, u[j] # 0 PROVE u[i] < u[j]
  <2>1. i \in 1..(Len(s) + Len(p)) /\ j \in 1..(Len(s) + Len(p))
    BY <1>3
  <2>2. CASE j <= Len(s)
    <3>1. i <= Len(s)
      BY <1>2, <1>7, <2>1, <2>2
    <3>2. i \in DOMAIN s /\ j \in DOMAIN s /\ u[i] = s[i] /\ u[j] = s[j]
      BY <1>2, <1>5, <2>1, <2>2, <3>1
    <3>3. QED
      BY <1>7, <3>2 DEF Rising
  <2>3. CASE i <= Len(s) /\ ~(j <= Len(s))
    <3>1. u[i] <= from /\ from < u[j] /\ u[i] \in Nat /\ u[j] \in Nat
      BY <1>5, <1>7, <2>1, <2>3
    <3>2. QED
      BY <1>2, <3>1
  <2>4. CASE ~(i <= Len(s)) /\ ~(j <= Len(s))
    <3>1. /\ i - Len(s) \in DOMAIN p /\ j - Len(s) \in DOMAIN p
          /\ u[i] = p[i - Len(s)] /\ u[j] = p[j - Len(s)]
      BY <1>2, <1>5, <2>1, <2>4
    <3>2. i - Len(s) < j - Len(s)
      BY <1>2, <1>7, <2>1
    <3>3. QED
      BY <1>7, <3>1, <3>2 DEF Rising, Follows
  <2>5. CASE ~(i <= Len(s)) /\ j <= Len(s)
    BY <1>2, <1>7, <2>1, <2>5
  <2>6. QED
    BY <2>2, <2>3, <2>4, <2>5
<1>8. QED
  BY <1>6, <1>7 DEF Rising, UpTo, u

LEMMA RisingPart ==
  ASSUME NEW s \in Seq(Received), NEW t \in Seq(Received), NEW n,
         Rising(s \o t), UpTo(s \o t, n)
  PROVE  Rising(s) /\ UpTo(s, n)
<1> DEFINE u == s \o t
<1>1. /\ u \in Seq(Received) /\ Len(u) = Len(s) + Len(t)
      /\ \A i \in 1..(Len(s) + Len(t)) : u[i] = IF i <= Len(s) THEN s[i] ELSE t[i - Len(s)]
  BY ConcatProperties
<1>2. Len(s) \in Nat /\ Len(t) \in Nat /\ DOMAIN s = 1..Len(s)
  BY LenProperties
<1> HIDE DEF u
<1>3. DOMAIN u = 1..(Len(s) + Len(t))
  BY <1>1, LenProperties
<1>4. \A i \in DOMAIN s : i \in DOMAIN u /\ u[i] = s[i]
  BY <1>1, <1>2, <1>3
<1>5. Rising(u) /\ UpTo(u, n)
  BY DEF u
<1>6. QED
  BY <1>4, <1>5 DEF Rising, UpTo

\* The packets of a chunk come in order, behind all that came before.
LEMMA ChunkFollows ==
  ASSUME NEW n \in Nat, NEW new \in [1..n -> BOOLEAN], NEW from \in Nat
  PROVE  Follows(Chunk(new, n, from), from, from + Count(new, n))
<1> DEFINE ch == Chunk(new, n, from)
<1>1. DOMAIN ch = 1..n /\ \A j \in 1..n : ch[j] = IF new[j] THEN from + Count(new, j) ELSE 0
  BY ChunkTyped
<1> HIDE DEF ch
<1>2. ASSUME NEW j \in 1..n
      PROVE  /\ Count(new, j) \in Nat
             /\ Count(new, j) <= Count(new, n)
             /\ \A i \in 1..(j - 1) : Count(new, i) \in Nat /\ Count(new, i) <= Count(new, j - 1)
             /\ new[j] => Count(new, j) = Count(new, j - 1) + 1
             /\ Count(new, j - 1) \in Nat
  <2>1. /\ n \in 0..n /\ j \in 0..n /\ j - 1 \in 0..n /\ j - 1 < n /\ (j - 1) + 1 = j
        /\ \A i \in 1..(j - 1) : i \in 0..n
    OBVIOUS
  <2>2. Count(new, n) \in Nat /\ Count(new, j) \in Nat /\ Count(new, j - 1) \in Nat
        /\ \A i \in 1..(j - 1) : Count(new, i) \in Nat
    BY <2>1, CountStep
  <2>3. Count(new, j) = Count(new, j - 1) + (IF new[j] THEN 1 ELSE 0)
    BY <2>1, CountStep
  <2>4. Count(new, j) <= Count(new, n)
    BY <2>1, NewestBounds
  <2>5. \A i \in 1..(j - 1) : Count(new, i) <= Count(new, j - 1)
    BY <2>1, NewestBounds
  <2>6. new[j] => Count(new, j) = Count(new, j - 1) + 1
    BY <2>3
  <2>7. QED
    BY <2>2, <2>4, <2>5, <2>6
<1>3. Count(new, n) \in Nat
  BY CountStep
<1>4. ASSUME NEW j \in 1..n
      PROVE  ch[j] = 0 \/ (from < ch[j] /\ ch[j] <= from + Count(new, n))
  <2>1. CASE new[j]
    <3>1. /\ ch[j] = from + Count(new, j) /\ Count(new, j) = Count(new, j - 1) + 1
          /\ Count(new, j - 1) \in Nat /\ Count(new, j) <= Count(new, n)
      BY <1>1, <1>2, <2>1
    <3>2. QED
      BY <1>3, <3>1
  <2>2. CASE ~new[j]
    BY <1>1, <2>2
  <2>3. QED
    BY <2>1, <2>2
<1>5. ASSUME NEW i \in 1..n, NEW j \in 1..n, i < j, ch[j] # 0 PROVE ch[i] < ch[j]
  <2>1. new[j] /\ ch[j] = from + Count(new, j)
    BY <1>1, <1>5
  <2>2. i \in 1..(j - 1)
    BY <1>5
  <2>3. /\ Count(new, j) = Count(new, j - 1) + 1 /\ Count(new, j - 1) \in Nat
        /\ Count(new, i) \in Nat /\ Count(new, i) <= Count(new, j - 1)
    BY <1>2, <2>1, <2>2
  <2>4. ch[i] = from + Count(new, i) \/ ch[i] = 0
    BY <1>1
  <2>5. QED
    BY <2>1, <2>3, <2>4
<1>6. QED
  BY <1>1, <1>4, <1>5 DEF Follows, Rising, ch

LEMMA NumbersFollow ==
  ASSUME NEW from \in Nat, NEW m \in Nat
  PROVE  Follows(Numbers(from, m), from, from + m)
<1> DEFINE s == Numbers(from, m)
<1>1. DOMAIN s = 1..m /\ \A k \in 1..m : s[k] = from + k
  BY NumbersTyped, LenProperties DEF Numbers
<1> HIDE DEF s
<1>2. QED
  BY <1>1 DEF Follows, Rising, s

-----------------------------------------------------------------------------
(* What handle() gives to process()                                         *)

\* process() is called with packets of the stream, and without --keep-null with
\* exactly the new ones.
Handled(packets) ==
    /\ packets \in Seq(Received)
    /\ ~finished
    /\ sent' \in Received
    /\ sent <= sent'
    /\ Follows(packets, sent, sent')
    /\ ~keepNull => packets = Numbers(sent, sent' - sent)
    /\ fed' = fed \o packets
    /\ began' = IF began = -1 THEN now ELSE began
    /\ last' = now
    /\ UNCHANGED <<options, now, finished, pause>>

Stages(packets) ==
    \/ PassThrough(packets)
    \/ Produce(packets)
    \/ HoldBack(packets)
    \/ StartTimesOut(packets)
    \/ Fail(packets)

LEMMA ProcessHandles ==
  ASSUME sent \in Received, keepNull \in BOOLEAN, Process
  PROVE  \E packets : Handled(packets) /\ Stages(packets)
<1>1. PICK chunk \in Chunks :
        /\ Call(chunk, IF keepNull THEN chunk ELSE DropNullPackets(chunk))
        /\ Stages(IF keepNull THEN chunk ELSE DropNullPackets(chunk))
  BY Zenon DEF Process, Stages
<1> DEFINE packets == IF keepNull THEN chunk ELSE DropNullPackets(chunk)
<1>2. Call(chunk, packets) /\ Stages(packets)
  BY <1>1, Zenon
<1>3. PICK n \in 1..MaxChunk : \E new \in [1..n -> BOOLEAN] :
        chunk = [i \in DOMAIN new |->
                   IF new[i] THEN sent + Cardinality({j \in 1..i : new[j]}) ELSE 0]
  BY DEF Chunks
<1>4. PICK new \in [1..n -> BOOLEAN] :
        chunk = [i \in DOMAIN new |->
                   IF new[i] THEN sent + Cardinality({j \in 1..i : new[j]}) ELSE 0]
  BY <1>3
<1>5. n \in Nat /\ n \in 0..n /\ sent \in Nat /\ MaxPackets \in Nat
  BY PipelineAssumption DEF Received
<1>6. chunk = Chunk(new, n, sent)
  <2>1. DOMAIN new = 1..n
    OBVIOUS
  <2>2. QED
    BY <1>4, <2>1, Zenon DEF Chunk, Count
<1> DEFINE m == Count(new, n)
<1>7. m \in Nat
  BY <1>5, CountStep
<1> HIDE DEF m, packets
<1>8. Max(ToSet(chunk) \cup {sent}) = sent + m
  BY <1>5, <1>6, NewestPacket DEF m
<1>9. sent' = sent + m /\ sent + m <= MaxPackets
  BY <1>2, <1>8 DEF Call
<1>10. ASSUME ~keepNull PROVE packets = Numbers(sent, m)
  BY <1>5, <1>6, <1>10, OnlyNewKept DEF packets, m
<1>11. packets \in Seq(Received)
  <2>1. CASE keepNull
    <3>1. packets = chunk
      BY <2>1 DEF packets
    <3>2. /\ chunk \in Seq(Nat) /\ Len(chunk) = n
          /\ \A i \in 1..n : chunk[i] = IF new[i] THEN sent + Count(new, i) ELSE 0
      BY <1>5, <1>6, ChunkTyped
    <3>3. ASSUME NEW i \in 1..n PROVE chunk[i] \in Received
      <4>1. chunk[i] \in Nat
        BY <3>2, ElementOfSeq
      <4>2. chunk[i] <= sent + m
        <5>1. Count(new, i) \in Nat
          BY <1>5, CountStep
        <5>2. Count(new, i) <= m
          BY <1>5, NewestBounds DEF m
        <5>3. chunk[i] = sent + Count(new, i) \/ chunk[i] = 0
          BY <3>2
        <5> HIDE DEF m
        <5>4. QED
          BY <1>5, <1>7, <5>1, <5>2, <5>3
      <4>3. QED
        BY <1>5, <1>7, <1>9, <4>1, <4>2 DEF Received
    <3>4. QED
      BY <3>1, <3>2, <3>3
  <2>2. CASE ~keepNull
    <3>1. \A k \in 1..m : Numbers(sent, m)[k] = sent + k
      BY <1>5, <1>7, NumbersTyped
    <3>2. Numbers(sent, m) \in Seq(Nat) /\ Len(Numbers(sent, m)) = m
      BY <1>5, <1>7, NumbersTyped
    <3>3. \A k \in 1..m : sent + k \in Received
      BY <1>5, <1>7, <1>9 DEF Received
    <3>4. QED
      BY <1>10, <2>2, <3>1, <3>2, <3>3
  <2>3. QED
    BY <2>1, <2>2
<1>12. sent' - sent = m /\ sent <= sent' /\ sent' \in Received
  BY <1>5, <1>7, <1>9 DEF Received
<1>13. Follows(packets, sent, sent')
  <2>1. CASE keepNull
    <3>1. packets = Chunk(new, n, sent)
      BY <1>6, <2>1 DEF packets
    <3>2. QED
      BY <1>5, <1>9, <3>1, ChunkFollows DEF m
  <2>2. CASE ~keepNull
    BY <1>5, <1>7, <1>9, <1>10, <2>2, NumbersFollow
  <2>3. QED
    BY <2>1, <2>2
<1>14. Handled(packets)
  BY <1>2, <1>10, <1>11, <1>12, <1>13, Zenon DEF Call, Handled
<1>15. QED
  BY <1>2, <1>14 DEF packets

-----------------------------------------------------------------------------
(* The descrambler                                                          *)

LEMMA ReceivedSince == \A a, b \in Received : a <= b => b - a \in Nat
BY DEF Received

\* What has been received can be given out as it is; descrambling it changes
\* what it is, and nothing else.
LEMMA DescrambledTyped ==
  ASSUME NEW s \in Seq(Received)
  PROVE  /\ s \in Seq(Packet) /\ Plain(s) = s
         /\ Descrambled(s) \in Seq(Packet) /\ Plain(Descrambled(s)) = s
<1>1. MaxPackets \in Nat
  BY PipelineAssumption
<1>2. /\ Len(s) \in Nat /\ DOMAIN s = 1..Len(s) /\ s = [i \in 1..Len(s) |-> s[i]]
      /\ \A i \in 1..Len(s) : s[i] \in Received
  BY ElementOfSeq
<1>3. ASSUME NEW x \in Received
      PROVE  x \in Packet /\ -x \in Packet /\ ~(x < 0) /\ (IF -x < 0 THEN -(-x) ELSE -x) = x
  BY <1>1 DEF Received, Packet
<1>4. s \in Seq(Packet)
  BY <1>2, <1>3
<1>5. Plain(s) = [i \in 1..Len(s) |-> s[i]]
  BY <1>2, <1>3 DEF Plain
<1>6. /\ Descrambled(s) \in [1..Len(s) -> Packet]
      /\ \A i \in 1..Len(s) : Descrambled(s)[i] = -s[i]
  BY <1>2, <1>3 DEF Descrambled
<1>7. Descrambled(s) \in Seq(Packet) /\ DOMAIN Descrambled(s) = 1..Len(s)
  BY <1>2, <1>6
<1>8. Plain(Descrambled(s)) = [i \in 1..Len(s) |-> s[i]]
  <2> DEFINE d == Descrambled(s)
  <2>1. \A i \in 1..Len(s) : (IF d[i] < 0 THEN -d[i] ELSE d[i]) = s[i]
    BY <1>2, <1>3, <1>6
  <2>2. DOMAIN d = 1..Len(s)
    BY <1>7
  <2> HIDE DEF d
  <2>3. Plain(d) = [i \in 1..Len(s) |-> s[i]]
    BY <2>1, <2>2 DEF Plain
  <2>4. QED
    BY <2>3 DEF d
<1>9. QED
  BY <1>2, <1>4, <1>5, <1>7, <1>8

LEMMA PlainTyped ==
  ASSUME NEW s \in Seq(Packet)
  PROVE  /\ Plain(s) \in Seq(Received) /\ Len(Plain(s)) = Len(s)
         /\ \A i \in 1..Len(s) : Plain(s)[i] = IF s[i] < 0 THEN -s[i] ELSE s[i]
<1>1. /\ Len(s) \in Nat /\ DOMAIN s = 1..Len(s) /\ MaxPackets \in Nat
      /\ \A i \in 1..Len(s) : s[i] \in Packet
  BY ElementOfSeq, PipelineAssumption
<1>2. \A x \in Packet : (IF x < 0 THEN -x ELSE x) \in Received
  BY <1>1 DEF Received, Packet
<1>3. Plain(s) = [i \in 1..Len(s) |-> IF s[i] < 0 THEN -s[i] ELSE s[i]]
  BY <1>1 DEF Plain
<1>4. Plain(s) \in [1..Len(s) -> Received]
  BY <1>1, <1>2, <1>3
<1>5. QED
  BY <1>1, <1>3, <1>4

LEMMA PlainConcat ==
  ASSUME NEW s \in Seq(Packet), NEW t \in Seq(Packet)
  PROVE  Plain(s \o t) = Plain(s) \o Plain(t)
<1> DEFINE u == s \o t
           v == Plain(s) \o Plain(t)
<1>1. /\ u \in Seq(Packet) /\ Len(u) = Len(s) + Len(t)
      /\ \A i \in 1..(Len(s) + Len(t)) : u[i] = IF i <= Len(s) THEN s[i] ELSE t[i - Len(s)]
  BY ConcatProperties
<1>2. /\ Plain(s) \in Seq(Received) /\ Len(Plain(s)) = Len(s)
      /\ \A i \in 1..Len(s) : Plain(s)[i] = IF s[i] < 0 THEN -s[i] ELSE s[i]
      /\ Plain(t) \in Seq(Received) /\ Len(Plain(t)) = Len(t)
      /\ \A i \in 1..Len(t) : Plain(t)[i] = IF t[i] < 0 THEN -t[i] ELSE t[i]
  BY PlainTyped
<1>3. /\ v \in Seq(Received) /\ Len(v) = Len(s) + Len(t)
      /\ \A i \in 1..(Len(s) + Len(t)) :
            v[i] = IF i <= Len(s) THEN Plain(s)[i] ELSE Plain(t)[i - Len(s)]
  <2> DEFINE p == Plain(s)
             q == Plain(t)
  <2>1. p \in Seq(Received) /\ q \in Seq(Received) /\ Len(p) = Len(s) /\ Len(q) = Len(t)
    BY <1>2
  <2> HIDE DEF p, q
  <2>2. /\ p \o q \in Seq(Received) /\ Len(p \o q) = Len(p) + Len(q)
        /\ \A i \in 1..(Len(p) + Len(q)) :
              (p \o q)[i] = IF i <= Len(p) THEN p[i] ELSE q[i - Len(p)]
    BY <2>1, ConcatProperties
  <2>3. QED
    BY <2>1, <2>2, Zenon DEF p, q
<1> HIDE DEF u, v
<1>4. /\ Plain(u) \in Seq(Received) /\ Len(Plain(u)) = Len(u)
      /\ \A i \in 1..Len(u) : Plain(u)[i] = IF u[i] < 0 THEN -u[i] ELSE u[i]
  BY <1>1, PlainTyped
<1>5. \A i \in 1..Len(Plain(u)) : Plain(u)[i] = v[i]
  <2> SUFFICES ASSUME NEW i \in 1..(Len(s) + Len(t)) PROVE Plain(u)[i] = v[i]
    BY <1>1, <1>4
  <2>1. Len(s) \in Nat /\ Len(t) \in Nat
    BY LenProperties
  <2>2. CASE i <= Len(s)
    <3>1. i \in 1..Len(s) /\ i \in 1..Len(u)
      BY <1>1, <2>1, <2>2
    <3>2. QED
      BY <1>1, <1>2, <1>3, <1>4, <2>2, <3>1
  <2>3. CASE ~(i <= Len(s))
    <3>1. i - Len(s) \in 1..Len(t) /\ i \in 1..Len(u)
      BY <1>1, <2>1, <2>3
    <3>2. u[i] = t[i - Len(s)] /\ v[i] = Plain(t)[i - Len(s)]
      BY <1>1, <1>3, <2>3
    <3>3. QED
      BY <1>2, <1>4, <3>1, <3>2
  <2>4. QED
    BY <2>2, <2>3
<1>6. Plain(u) = v
  BY <1>1, <1>3, <1>4, <1>5, SeqEqual
<1>7. QED
  BY <1>6 DEF u, v

\* A part of what is held is descrambled, the rest is not: it is all there.
LEMMA PartlyDescrambled ==
  ASSUME NEW s \in Seq(Received), NEW k \in 0..Len(s)
  PROVE  LET a == Descrambled(SubSeq(s, 1, k))
             b == SubSeq(s, k + 1, Len(s))
         IN  /\ a \in Seq(Packet) /\ b \in Seq(Received) /\ Plain(a) \o b = s
             /\ a \o b \in Seq(Packet) /\ Plain(a \o b) = s
<1> DEFINE a == Descrambled(SubSeq(s, 1, k))
           b == SubSeq(s, k + 1, Len(s))
<1>1. /\ SubSeq(s, 1, k) \in Seq(Received) /\ b \in Seq(Received)
      /\ SubSeq(s, 1, k) \o b = s
  BY SplitSeq
<1>2. /\ a \in Seq(Packet) /\ Plain(a) = SubSeq(s, 1, k)
      /\ b \in Seq(Packet) /\ Plain(b) = b
  BY <1>1, DescrambledTyped
<1>3. a \o b \in Seq(Packet) /\ Plain(a \o b) = Plain(a) \o Plain(b)
  BY <1>2, PlainConcat, ConcatProperties
<1>4. QED
  BY <1>1, <1>2, <1>3

-----------------------------------------------------------------------------
(* The inductive invariant                                                  *)

FlagsOK ==
    /\ faults \in FaultSets
    /\ keepNull \in KeepNulls
    /\ descrambling \in BOOLEAN
    /\ producing \in BOOLEAN
    /\ finished \in BOOLEAN

\* What is held is as it was received: the library descrambles on the way out.
DataOK ==
    /\ held \in Seq(Received)
    /\ now \in 0..MaxTime
    /\ first \in -1..now
    /\ sent \in Received
    /\ fed \in Seq(Received)
    /\ given \in Seq(Packet)
    /\ clear \in Seq(Received)
    /\ began \in -1..now
    /\ last \in 0..now
    /\ pause \in 0..now

\* The descrambler holds packets, and after the fallback there is none.
HeldInv == IF descrambling THEN clear = <<>> ELSE held = <<>>

\* Until the first output, the start timeout runs from the first packets on.
TimeoutInv ==
    descrambling /\ ~producing /\ StartTimeout > 0 =>
       /\ first = began
       /\ began # -1 => last - began < StartTimeout

\* No time without a call is longer than the longest one.
PauseInv == IF began = -1 THEN held = <<>> ELSE now - last <= pause

\* What comes out is in the order of the stream, and what is held follows it.
OrderInv ==
    "get" \notin faults =>
       Rising(Plain(given) \o held) /\ UpTo(Plain(given) \o held, sent)

Inv ==
    /\ FlagsOK
    /\ DataOK
    /\ HeldInv
    /\ TimeoutInv
    /\ PauseInv
    /\ OrderInv
    /\ OnlyNullsAreDropped
    /\ NothingLostAsPromised
    /\ PassedThroughWhole

LEMMA InvInit == Init => Inv
<1> SUFFICES ASSUME Init PROVE Inv
  OBVIOUS
<1> USE PipelineAssumption DEF Init
<1>1. FlagsOK
  BY Zenon DEF FlagsOK
<1>2. DataOK
  BY DEF DataOK, Received
<1>3. HeldInv /\ TimeoutInv /\ PauseInv
  BY Zenon DEF HeldInv, TimeoutInv, PauseInv
<1>4. OnlyNullsAreDropped
  BY DEF OnlyNullsAreDropped
<1>5. <<>> \in Seq(Received) /\ <<>> \in Seq(Packet)
  OBVIOUS
<1>6. Plain(<<>>) = <<>> /\ <<>> \o <<>> = <<>>
  BY <1>5, DescrambledTyped, ConcatEmptySeq
<1>7. NothingLostAsPromised
  BY <1>6, Zenon DEF NothingLostAsPromised, NothingLost
<1>8. PassedThroughWhole
  BY <1>5, SuffixOfConcat, Zenon DEF PassedThroughWhole
<1>9. OrderInv
  <2>1. DOMAIN <<>> = {}
    OBVIOUS
  <2>2. Rising(<<>>) /\ UpTo(<<>>, sent)
    BY <2>1, Zenon DEF Rising, UpTo
  <2>3. QED
    BY <1>6, <2>2, Zenon DEF OrderInv
<1>10. QED
  BY <1>1, <1>2, <1>3, <1>4, <1>7, <1>8, <1>9 DEF Inv

\* A chunk of new packets that is not empty is not the end of what is held.
LEMMA NotHeldYet ==
  ASSUME DataOK, ~keepNull, OnlyNullsAreDropped, NothingLost,
         NEW m \in Nat, IsSuffix(Numbers(sent, m), held)
  PROVE  m = 0
<1> SUFFICES ASSUME m # 0 PROVE FALSE
  OBVIOUS
<1> DEFINE p == Numbers(sent, m)
           g == Plain(given)
<1>1. sent \in Nat
  BY DEF DataOK, Received
<1>2. p \in Seq(Nat) /\ Len(p) = m /\ p[m] = sent + m
  BY <1>1, NumbersTyped
<1>3. g \in Seq(Received) /\ held \in Seq(Received) /\ held \in Seq(Nat)
  <2>1. held \in Seq(Received)
    BY DEF DataOK
  <2>2. Received \subseteq Nat
    BY DEF Received
  <2>3. held \in Seq(Nat)
    BY <2>1, <2>2, SeqOfSubset, Zenon
  <2>4. g \in Seq(Received)
    BY PlainTyped DEF DataOK
  <2>5. QED
    BY <2>1, <2>3, <2>4
<1>4. fed = [i \in 1..sent |-> i]
  BY DEF OnlyNullsAreDropped
<1>5. g \o held = fed
  BY DEF NothingLost
<1>6. /\ Len(p) <= Len(held)
      /\ \A i \in 1..Len(p) : p[(Len(p) - i) + 1] = held[(Len(held) - i) + 1]
  <2>1. IsSuffix(p, held)
    OBVIOUS
  <2> HIDE DEF p
  <2>2. p \in Seq(Nat) /\ held \in Seq(Nat)
    BY <1>2, <1>3
  <2> DEFINE T == Nat
  <2>3. p \in Seq(T) /\ held \in Seq(T)
    BY <2>2
  <2> HIDE DEF T
  <2>4. QED
    BY <2>1, <2>3, SuffixMeans
<1> HIDE DEF p, g
<1>7. Len(held) \in Nat /\ Len(g) \in Nat
  BY <1>3, LenProperties
<1>8. p[m] = held[Len(held)] /\ Len(held) > 0
  <2>1. p[(m - 1) + 1] = held[(Len(held) - 1) + 1]
    BY <1>2, <1>6
  <2>2. (m - 1) + 1 = m /\ (Len(held) - 1) + 1 = Len(held) /\ Len(held) > 0
    BY <1>2, <1>6, <1>7
  <2>3. QED
    BY <2>1, <2>2
<1>9. /\ Len(fed) = Len(g) + Len(held)
      /\ \A i \in 1..(Len(g) + Len(held)) :
            fed[i] = IF i <= Len(g) THEN g[i] ELSE held[i - Len(g)]
  BY <1>3, <1>5, ConcatProperties
<1>10. fed[Len(g) + Len(held)] = held[Len(held)]
  <2>1. /\ Len(g) + Len(held) \in 1..(Len(g) + Len(held)) /\ ~(Len(g) + Len(held) <= Len(g))
        /\ Len(g) + Len(held) - Len(g) = Len(held)
    BY <1>7, <1>8
  <2>2. QED
    BY <1>9, <2>1
<1>11. Len(fed) = sent
  BY <1>1, <1>4
<1>12. fed[sent] = sent
  <2>1. sent \in 1..sent
    BY <1>1, <1>7, <1>8, <1>9, <1>11
  <2>2. QED
    BY <1>4, <2>1
<1>13. held[Len(held)] = sent
  BY <1>9, <1>10, <1>11, <1>12
<1>14. QED
  BY <1>1, <1>2, <1>8, <1>13

\* All that is held and the chunk behind it, each of them or neither.
OnceAtMost(s, packets) ==
    s = held \o packets \/ s = held \/ s = packets \/ s = <<>>

\* Whatever fails, the stream that is passed on ends with the chunk; as long as
\* withdraw() and get() work, it has all that was held before the chunk, and as
\* long as get() works, it has nothing twice.
LEMMA FailureGivesOut ==
  ASSUME Inv, NEW packets, Handled(packets), Fail(packets)
  PROVE  \E out \in Seq(Packet) :
            /\ FallBack(out, packets)
            /\ IsSuffix(packets, out)
            /\ Promised => out = held \o packets
            /\ "get" \notin faults => OnceAtMost(out, packets)
<1> DEFINE all == held \o packets
           Partly(k) == Descrambled(SubSeq(all, 1, k)) \o SubSeq(all, k + 1, Len(all))
<1>1. PICK pending \in Withdrawn(LeftByFailure(packets), <<>>) :
        FallBack(WithChunk(pending, packets), packets)
  BY Zenon DEF Fail
<1>2. packets \in Seq(Received) /\ held \in Seq(Received) /\ all \in Seq(Received)
  BY ConcatProperties DEF Inv, DataOK, Handled
<1>3. packets \in Seq(Packet) /\ held \in Seq(Packet) /\ all \in Seq(Packet)
  BY <1>2, DescrambledTyped
<1>4. \/ pending = <<>> /\ "withdraw" \in faults
      \/ pending = all
      \/ pending = held
      \/ "get" \in faults /\ \E k \in 0..Len(all) : pending = Partly(k)
  BY <1>1, Zenon DEF Withdrawn, LeftByFailure
<1> HIDE DEF all
<1>5. ASSUME NEW k \in 0..Len(all) PROVE Partly(k) \in Seq(Packet)
  BY <1>2, PartlyDescrambled
<1>6. pending \in Seq(Packet)
  <2>1. <<>> \in Seq(Packet)
    OBVIOUS
  <2>2. QED
    BY <1>3, <1>4, <1>5, <2>1, Zenon
<1> DEFINE out == WithChunk(pending, packets)
<1>7. CASE IsSuffix(packets, pending)
  <2>1. out = pending
    BY <1>7, Zenon DEF WithChunk
  <2>2. ASSUME Promised PROVE pending = all
    <3>1. pending = all \/ pending = held
      BY <1>4, <2>2, Zenon DEF Promised
    <3>2. ASSUME pending = held PROVE held = all
      <4>1. ~keepNull /\ OnlyNullsAreDropped /\ NothingLost
        BY <2>2, Zenon DEF Promised, Inv, NothingLostAsPromised
      <4>2. packets = Numbers(sent, sent' - sent) /\ sent' - sent \in Nat
        <5>1. packets = Numbers(sent, sent' - sent)
          BY <4>1, Zenon DEF Handled
        <5>2. sent \in Received /\ sent' \in Received /\ sent <= sent'
          BY Zenon DEF Handled, Inv, DataOK
        <5>3. sent' - sent \in Nat
          BY <5>2, ReceivedSince, Zenon
        <5>4. QED
          BY <5>1, <5>3
      <4>3. IsSuffix(Numbers(sent, sent' - sent), held)
        BY <1>7, <3>2, <4>2
      <4>4. sent' - sent = 0
        BY <4>1, <4>2, <4>3, NotHeldYet, Zenon DEF Inv
      <4>5. packets = <<>>
        BY <4>2, <4>4 DEF Numbers
      <4>6. QED
        BY <1>2, <4>5, ConcatEmptySeq DEF all
    <3>3. QED
      BY <3>1, <3>2
  <2>3. "get" \notin faults => OnceAtMost(out, packets)
    BY <1>4, <2>1, Zenon DEF OnceAtMost, all
  <2>4. QED
    BY <1>1, <1>6, <1>7, <2>1, <2>2, <2>3 DEF all
<1>8. CASE ~IsSuffix(packets, pending)
  <2>1. out = pending \o packets
    BY <1>8, Zenon DEF WithChunk
  <2>2. out \in Seq(Packet) /\ IsSuffix(packets, out)
    BY <1>3, <1>6, <2>1, SuffixOfConcat, ConcatProperties
  <2>3. pending # all
    BY <1>2, <1>8, SuffixOfConcat DEF all
  <2>4. Promised => pending = held
    BY <1>4, <2>3, Zenon DEF Promised
  <2>5. "get" \notin faults => OnceAtMost(out, packets)
    <3>1. <<>> \o packets = packets
      BY <1>2, ConcatEmptySeq
    <3>2. QED
      BY <1>4, <2>1, <2>3, <3>1, Zenon DEF OnceAtMost
  <2>6. QED
    BY <1>1, <2>1, <2>2, <2>4, <2>5
<1>9. QED
  BY <1>7, <1>8

-----------------------------------------------------------------------------
(* process()                                                                *)

\* What process() returns, and what becomes of it.
Returns(packets, out) ==
    /\ given' = given \o out
    /\ held' \in Seq(Received)
    /\ Promised => Plain(out) \o held' = held \o packets
    /\ "get" \notin faults => OnceAtMost(Plain(out) \o held', packets)
    /\ IF descrambling' THEN clear' = <<>> ELSE held' = <<>>
    /\ \/ clear' = <<>>
       \/ clear' = clear \o packets /\ out = packets
       \/ clear' = packets /\ IsSuffix(packets, out)

LEMMA ProcessReturns ==
  ASSUME Inv, NEW packets, Handled(packets), Stages(packets)
  PROVE  \E out \in Seq(Packet) : Returns(packets, out)
<1> DEFINE all == held \o packets
<1>1. packets \in Seq(Received) /\ held \in Seq(Received) /\ all \in Seq(Received)
      /\ given \in Seq(Packet)
  BY ConcatProperties DEF Inv, DataOK, Handled
<1>2. /\ packets \in Seq(Packet) /\ Plain(packets) = packets
      /\ all \in Seq(Packet) /\ Plain(all) = all
  BY <1>1, DescrambledTyped
<1>3. <<>> \in Seq(Packet) /\ <<>> \in Seq(Received) /\ Plain(<<>>) = <<>>
  <2>1. <<>> \in Seq(Packet) /\ <<>> \in Seq(Received)
    OBVIOUS
  <2>2. QED
    BY <2>1, DescrambledTyped, Zenon
<1>4. packets \o <<>> = packets /\ <<>> \o packets = packets /\ <<>> \o all = all
      /\ all \o <<>> = all /\ given \o <<>> = given
  BY <1>1, ConcatEmptySeq
<1>5. CASE PassThrough(packets)
  <2>1. held = <<>> /\ ~descrambling
    BY <1>5, Zenon DEF PassThrough, Inv, HeldInv
  <2>2. Returns(packets, packets)
    BY <1>2, <1>3, <1>4, <1>5, <2>1, Zenon DEF Returns, PassThrough, OnceAtMost
  <2>3. QED
    BY <1>2, <2>2
<1>6. CASE Produce(packets)
  <2>1. PICK k \in 1..Len(all) :
          /\ given' = given \o Descrambled(SubSeq(all, 1, k))
          /\ held' = SubSeq(all, k + 1, Len(all))
    BY <1>6, Zenon DEF Produce
  <2>2. clear = <<>> /\ clear' = clear /\ descrambling' = descrambling /\ descrambling
    BY <1>6, Zenon DEF Produce, Inv, HeldInv
  <2> DEFINE a == Descrambled(SubSeq(all, 1, k))
             b == SubSeq(all, k + 1, Len(all))
  <2>3. a \in Seq(Packet) /\ b \in Seq(Received) /\ Plain(a) \o b = all
    <3>1. k \in 0..Len(all)
      BY <1>1, LenProperties
    <3> HIDE DEF all
    <3>2. QED
      BY <1>1, <3>1, PartlyDescrambled
  <2>4. Returns(packets, a)
    BY <2>1, <2>2, <2>3, Zenon DEF Returns, OnceAtMost
  <2>5. QED
    BY <2>3, <2>4
<1>7. CASE HoldBack(packets)
  <2>1. clear = <<>> /\ clear' = clear /\ descrambling' = descrambling /\ descrambling
        /\ held' = all /\ given' = given
    BY <1>7, Zenon DEF HoldBack, Inv, HeldInv
  <2>2. Returns(packets, <<>>)
    BY <1>1, <1>3, <1>4, <2>1, Zenon DEF Returns, OnceAtMost
  <2>3. QED
    BY <1>3, <2>2
<1>8. CASE StartTimesOut(packets)
  <2>1. PICK pending \in Withdrawn({all}, packets) : FallBack(pending, packets)
    BY <1>8, Zenon DEF StartTimesOut
  <2>2. pending = all \/ (pending = packets /\ "withdraw" \in faults)
    BY <2>1, Zenon DEF Withdrawn
  <2>3. pending \in Seq(Packet)
    BY <1>2, <2>2, Zenon
  <2>4. IsSuffix(packets, pending)
    BY <1>1, <2>2, SuffixOfConcat
  <2>5. Promised => pending = all
    BY <2>2, Zenon DEF Promised
  <2>6. OnceAtMost(Plain(pending) \o <<>>, packets)
    BY <1>2, <1>4, <2>2, Zenon DEF OnceAtMost
  <2>7. Returns(packets, pending)
    BY <1>2, <1>3, <1>4, <2>1, <2>4, <2>5, <2>6, Zenon DEF Returns, FallBack
  <2>8. QED
    BY <2>3, <2>7
<1>9. CASE Fail(packets)
  <2>1. PICK out \in Seq(Packet) :
          /\ FallBack(out, packets)
          /\ IsSuffix(packets, out)
          /\ Promised => out = all
          /\ "get" \notin faults => OnceAtMost(out, packets)
    BY <1>9, FailureGivesOut
  <2>2. ASSUME "get" \notin faults PROVE OnceAtMost(Plain(out) \o <<>>, packets)
    <3>1. held \in Seq(Packet) /\ Plain(held) = held /\ held \o <<>> = held
          /\ <<>> \o <<>> = <<>>
      BY <1>1, <1>3, DescrambledTyped, ConcatEmptySeq
    <3>2. Plain(out) = out /\ out \o <<>> = out
      BY <1>2, <1>3, <1>4, <2>1, <2>2, <3>1, Zenon DEF OnceAtMost
    <3>3. QED
      BY <2>1, <2>2, <3>2, Zenon
  <2>3. Returns(packets, out)
    BY <1>2, <1>3, <1>4, <2>1, <2>2, Zenon DEF Returns, FallBack
  <2>4. QED
    BY <2>3
<1>10. QED
  BY <1>5, <1>6, <1>7, <1>8, <1>9 DEF Stages

LEMMA FlagsStep == FlagsOK /\ [Next]_vars => FlagsOK'
<1> SUFFICES ASSUME FlagsOK, [Next]_vars PROVE FlagsOK'
  OBVIOUS
<1> USE DEF FlagsOK, options, history
<1>1. CASE Process
  BY <1>1, Zenon DEF Process, Call, PassThrough, Produce, HoldBack, StartTimesOut, Fail, FallBack
<1>2. CASE Finish \/ Tick \/ UNCHANGED vars
  BY <1>2, Zenon DEF Finish, Tick, vars
<1>3. QED
  BY <1>1, <1>2 DEF Next

LEMMA TimeoutStep ==
  ASSUME Inv, NEW packets, Handled(packets), Stages(packets)
  PROVE  /\ TimeoutInv'
         /\ first' \in -1..now' /\ began' \in -1..now' /\ last' \in 0..now'
         /\ pause' \in 0..now' /\ PauseInv'
<1> USE PipelineAssumption
<1>1. /\ now \in Nat /\ first \in -1..now /\ began \in -1..now /\ pause \in 0..now
      /\ now' = now /\ last' = now /\ pause' = pause
      /\ began' = IF began = -1 THEN now ELSE began
  BY DEF Inv, DataOK, Handled, options
<1>2. began' \in -1..now' /\ last' \in 0..now' /\ pause' \in 0..now' /\ PauseInv'
  BY <1>1 DEF PauseInv
<1>3. CASE HoldBack(packets)
  <2>1. UNCHANGED <<descrambling, producing>> /\ descrambling
    BY <1>3, Zenon DEF HoldBack
  <2>2. /\ producing \/ StartTimeout = 0 \/ first = -1 \/ now - first < StartTimeout
        /\ first' = IF ~producing /\ StartTimeout > 0 /\ first = -1 THEN now ELSE first
    BY <1>3, Zenon DEF HoldBack
  <2>3. first' \in -1..now'
    BY <1>1, <2>2
  <2>4. ASSUME ~producing, StartTimeout > 0
        PROVE  first' = began' /\ last' - began' < StartTimeout
    <3>1. first = began
      BY <2>1, <2>4, Zenon DEF Inv, TimeoutInv
    <3>2. /\ first = -1 \/ now - first < StartTimeout
          /\ first' = IF first = -1 THEN now ELSE first
      BY <2>2, <2>4
    <3>3. QED
      BY <1>1, <2>4, <3>1, <3>2
  <2>5. TimeoutInv'
    BY <2>1, <2>4, Zenon DEF TimeoutInv
  <2>6. QED
    BY <1>2, <2>3, <2>5
<1>4. CASE PassThrough(packets) \/ Produce(packets) \/ StartTimesOut(packets) \/ Fail(packets)
  <2>1. first' = first /\ (~descrambling' \/ producing')
    <3>1. CASE PassThrough(packets) \/ Produce(packets)
      <4>1. CASE PassThrough(packets)
        BY <4>1 DEF PassThrough
      <4>2. CASE Produce(packets)
        <5>1. first' = first /\ producing' = TRUE
          BY <4>2, Zenon DEF Produce
        <5>2. QED
          BY <5>1
      <4>3. QED
        BY <3>1, <4>1, <4>2
    <3>2. CASE StartTimesOut(packets)
      BY <3>2, Zenon DEF StartTimesOut, FallBack
    <3>3. CASE Fail(packets)
      BY <3>3, Zenon DEF Fail, FallBack
    <3>4. QED
      BY <1>4, <3>1, <3>2, <3>3
  <2>2. QED
    BY <1>1, <1>2, <2>1 DEF TimeoutInv
<1>5. QED
  BY <1>3, <1>4 DEF Stages

\* None of this brings packets out of their order.
LEMMA OrderStep ==
  ASSUME Inv, OrderInv, NEW packets, Handled(packets), NEW out \in Seq(Packet),
         Returns(packets, out)
  PROVE  OrderInv'
<1> SUFFICES ASSUME "get" \notin faults'
             PROVE  /\ Rising(Plain(given') \o held')
                    /\ UpTo(Plain(given') \o held', sent')
  BY Zenon DEF OrderInv
<1> DEFINE g == Plain(given)
           o == Plain(out)
           h == held'
           r == o \o h
<1>1. /\ "get" \notin faults /\ given' = given \o out /\ OnceAtMost(r, packets)
      /\ packets \in Seq(Received) /\ held \in Seq(Received) /\ h \in Seq(Received)
      /\ given \in Seq(Packet) /\ sent \in Received /\ sent' \in Received /\ sent <= sent'
      /\ Follows(packets, sent, sent')
  BY Zenon DEF Handled, Returns, Inv, DataOK, options
<1>2. g \in Seq(Received) /\ o \in Seq(Received)
  BY <1>1, PlainTyped
<1>3. Rising(g \o held) /\ UpTo(g \o held, sent)
  BY <1>1, Zenon DEF OrderInv
<1>4. Plain(given') = g \o o
  BY <1>1, PlainConcat
<1> HIDE DEF g, o, h
<1>5. \A a, b, c \in Seq(Received) : (a \o b) \o c = a \o (b \o c)
  BY AllConcatAssociative
<1>6. r \in Seq(Received) /\ g \o held \in Seq(Received)
  BY <1>1, <1>2, ConcatProperties
<1>7. Plain(given') \o h = g \o r
  <2>1. (g \o o) \o h = g \o (o \o h)
    BY <1>1, <1>2, <1>5, Zenon
  <2>2. QED
    BY <1>4, <2>1
<1>8. (g \o held) \o packets = g \o (held \o packets)
  BY <1>1, <1>2, <1>5, Zenon
<1> HIDE DEF r
<1>9. Rising(g) /\ UpTo(g, sent)
  BY <1>1, <1>2, <1>3, RisingPart
<1>10. ASSUME NEW s, Rising(s), UpTo(s, sent), s \in Seq(Received)
       PROVE  /\ Rising(s) /\ UpTo(s, sent')
              /\ Rising(s \o packets) /\ UpTo(s \o packets, sent')
  <2>1. Rising(s \o packets) /\ UpTo(s \o packets, sent')
    BY <1>1, <1>10, RisingJoin
  <2>2. QED
    BY <1>1, <1>10, <2>1, RisingPart
<1>11. Rising(g \o r) /\ UpTo(g \o r, sent')
  <2>1. CASE r = held \o packets
    BY <1>3, <1>6, <1>8, <1>10, <2>1, Zenon
  <2>2. CASE r = held
    BY <1>3, <1>6, <1>10, <2>2, Zenon
  <2>3. CASE r = packets
    BY <1>2, <1>9, <1>10, <2>3, Zenon
  <2>4. CASE r = <<>>
    <3>1. g \o r = g
      BY <1>2, <2>4, ConcatEmptySeq
    <3>2. QED
      BY <1>2, <1>9, <1>10, <3>1, Zenon
  <2>5. QED
    BY <1>1, <2>1, <2>2, <2>3, <2>4, Zenon DEF OnceAtMost
<1>12. QED
  BY <1>7, <1>11 DEF h

LEMMA ProcessStep == Inv /\ Process /\ FlagsOK' => Inv'
<1> SUFFICES ASSUME Inv, Process, FlagsOK' PROVE Inv'
  OBVIOUS
<1>1. sent \in Received /\ keepNull \in BOOLEAN
  BY PipelineAssumption DEF Inv, DataOK, FlagsOK
<1>2. PICK packets : Handled(packets) /\ Stages(packets)
  BY <1>1, ProcessHandles
<1>3. PICK out \in Seq(Packet) : Returns(packets, out)
  BY <1>2, ProcessReturns
<1>4. /\ packets \in Seq(Received) /\ held \in Seq(Received) /\ clear \in Seq(Received)
      /\ given \in Seq(Packet) /\ fed \in Seq(Received) /\ held' \in Seq(Received)
  BY <1>2, <1>3 DEF Handled, Inv, DataOK, Returns
<1>5. packets \in Seq(Packet) /\ clear \in Seq(Packet)
  BY <1>4, DescrambledTyped
<1>6. given' = given \o out /\ given' \in Seq(Packet) /\ Plain(given') = Plain(given) \o Plain(out)
  BY <1>3, <1>4, PlainConcat, ConcatProperties DEF Returns
<1>7. fed' = fed \o packets /\ fed' \in Seq(Received)
  BY <1>2, <1>4, ConcatProperties DEF Handled
<1>8. clear' \in Seq(Received)
  <2>1. clear' \in {<<>>, clear \o packets, packets}
    BY <1>3, Zenon DEF Returns
  <2>2. <<>> \in Seq(Received) /\ clear \o packets \in Seq(Received)
    BY <1>4, ConcatProperties
  <2>3. QED
    BY <1>4, <2>1, <2>2, Zenon
<1>9. DataOK'
  <2>1. /\ first' \in -1..now' /\ began' \in -1..now' /\ last' \in 0..now'
        /\ pause' \in 0..now' /\ sent' \in Received /\ now' \in 0..MaxTime
    BY <1>2, TimeoutStep DEF Handled, Inv, DataOK
  <2>2. QED
    BY <1>4, <1>6, <1>7, <1>8, <2>1, Zenon DEF DataOK
<1>10. HeldInv' /\ TimeoutInv' /\ PauseInv' /\ OrderInv'
  <2>1. HeldInv' /\ TimeoutInv' /\ PauseInv'
    BY <1>2, <1>3, TimeoutStep, Zenon DEF HeldInv, Returns
  <2>2. OrderInv'
    BY <1>2, <1>3, OrderStep DEF Inv
  <2>3. QED
    BY <2>1, <2>2
<1>11. UNCHANGED <<keepNull, faults, finished>>
  BY <1>2, Zenon DEF Handled, options
<1>12. OnlyNullsAreDropped'
  <2> SUFFICES ASSUME ~keepNull PROVE fed' = [i \in 1..sent' |-> i]
    BY <1>11, Zenon DEF OnlyNullsAreDropped
  <2>1. fed = [i \in 1..sent |-> i] /\ packets = Numbers(sent, sent' - sent)
    BY <1>2, Zenon DEF Inv, OnlyNullsAreDropped, Handled
  <2>2. sent \in Nat /\ sent' \in Nat /\ sent' - sent \in Nat
    <3>1. sent \in Received /\ sent' \in Received /\ sent <= sent'
      BY <1>1, <1>2, Zenon DEF Handled
    <3>2. Received \subseteq Nat
      BY DEF Received
    <3>3. QED
      BY <3>1, <3>2, ReceivedSince, Zenon
  <2>3. \A m \in Nat : [i \in 1..m |-> i] = Numbers(0, m)
    BY DEF Numbers
  <2>4. Numbers(0, sent) \o Numbers(0 + sent, sent' - sent) = Numbers(0, sent + (sent' - sent))
    BY <2>2, NumbersJoin
  <2>5. 0 + sent = sent /\ sent + (sent' - sent) = sent'
    <3>1. \A a, b \in Nat : 0 + a = a /\ a + (b - a) = b
      OBVIOUS
    <3>2. QED
      BY <2>2, <3>1, Zenon
  <2>6. QED
    BY <1>7, <2>1, <2>2, <2>3, <2>4, <2>5, Zenon
<1>13. NothingLostAsPromised'
  <2> SUFFICES ASSUME Promised PROVE Plain(given') \o held' = fed'
    BY <1>11, Zenon DEF NothingLostAsPromised, NothingLost, Promised
  <2>1. Plain(given) \o held = fed /\ Plain(out) \o held' = held \o packets
    BY <1>3, Zenon DEF Inv, NothingLostAsPromised, NothingLost, Returns
  <2>2. Plain(given) \in Seq(Received) /\ Plain(out) \in Seq(Received)
    BY <1>4, PlainTyped
  <2> DEFINE g == Plain(given)
             o == Plain(out)
             h == held'
  <2>3. g \in Seq(Received) /\ o \in Seq(Received) /\ h \in Seq(Received)
    BY <1>4, <2>2
  <2> HIDE DEF g, o, h
  <2>4. (g \o o) \o h = g \o (o \o h) /\ (g \o held) \o packets = g \o (held \o packets)
    <3>1. packets \in Seq(Received) /\ held \in Seq(Received)
      BY <1>4
    <3>2. \A a, b, c \in Seq(Received) : (a \o b) \o c = a \o (b \o c)
      BY AllConcatAssociative
    <3>3. (g \o o) \o h = g \o (o \o h)
      BY <2>3, <3>2, Zenon
    <3>4. (g \o held) \o packets = g \o (held \o packets)
      BY <2>3, <3>1, <3>2, Zenon
    <3>5. QED
      BY <3>3, <3>4
  <2> USE DEF g, o, h
  <2>5. QED
    BY <1>6, <1>7, <2>1, <2>4, Zenon
<1>14. PassedThroughWhole'
  <2>1. CASE clear' = <<>>
    <3>1. <<>> \in Seq(Packet) /\ given' \o <<>> = given'
      BY <1>6, ConcatEmptySeq
    <3>2. IsSuffix(<<>>, given' \o <<>>)
      BY <1>6, <3>1, SuffixOfConcat
    <3>3. QED
      BY <2>1, <3>1, <3>2, Zenon DEF PassedThroughWhole
  <2>2. CASE clear' = clear \o packets /\ out = packets
    <3>1. IsSuffix(clear, given)
      BY Zenon DEF Inv, PassedThroughWhole
    <3>2. IsSuffix(clear \o packets, given \o packets)
      BY <1>4, <1>5, <3>1, SuffixGrows
    <3>3. QED
      BY <1>6, <2>2, <3>2, Zenon DEF PassedThroughWhole
  <2>3. CASE clear' = packets /\ IsSuffix(packets, out)
    <3>1. IsSuffix(packets, given \o out)
      BY <1>4, <1>5, <2>3, SuffixBehind
    <3>2. QED
      BY <1>6, <2>3, <3>1, Zenon DEF PassedThroughWhole
  <2>4. QED
    BY <1>3, <2>1, <2>2, <2>3, Zenon DEF Returns
<1>15. QED
  BY <1>9, <1>10, <1>12, <1>13, <1>14, Zenon DEF Inv

-----------------------------------------------------------------------------
(* finish()                                                                 *)

\* What flush() leaves undone comes out as it is.
LEMMA FlushGivesAll ==
  ASSUME DataOK, NEW tail \in Flushed
  PROVE  /\ tail \in Seq(Packet)
         /\ Promised => Plain(tail) = held
         /\ Plain(tail) = held \/ Plain(tail) = <<>>
<1> DEFINE Partly(k) == Descrambled(SubSeq(held, 1, k)) \o SubSeq(held, k + 1, Len(held))
<1>1. \/ tail = Descrambled(held)
      \/ \E k \in 0..Len(held) : tail = Partly(k)
      \/ tail = <<>> /\ "withdraw" \in faults
  BY Zenon DEF Flushed, Withdrawn
<1>2. held \in Seq(Received)
  BY DEF DataOK
<1>3. CASE tail = Descrambled(held)
  BY <1>2, <1>3, DescrambledTyped
<1>4. CASE \E k \in 0..Len(held) : tail = Partly(k)
  <2>1. PICK k \in 0..Len(held) : tail = Partly(k)
    BY <1>4
  <2>2. Partly(k) \in Seq(Packet) /\ Plain(Partly(k)) = held
    BY <1>2, PartlyDescrambled
  <2> HIDE DEF Partly
  <2>3. QED
    BY <2>1, <2>2
<1>5. CASE tail = <<>> /\ "withdraw" \in faults
  <2>1. <<>> \in Seq(Packet)
    OBVIOUS
  <2>2. ~Promised
    BY <1>5, Zenon DEF Promised
  <2>3. Plain(<<>>) = <<>>
    <3>1. <<>> \in Seq(Received)
      OBVIOUS
    <3>2. QED
      BY <3>1, DescrambledTyped, Zenon
  <2>4. QED
    BY <1>5, <2>1, <2>2, <2>3, Zenon
<1>6. QED
  BY <1>1, <1>3, <1>4, <1>5

\* What finish() returns.
LEMMA FinishReturns ==
  ASSUME Inv, Finish
  PROVE  \E tail \in Seq(Packet) :
            /\ given' = given \o tail
            /\ Promised => Plain(tail) = held
            /\ Plain(tail) = held \/ Plain(tail) = <<>>
            /\ ~descrambling => tail = <<>>
<1>1. CASE descrambling
  <2>1. PICK tail \in Flushed : given' = given \o tail
    BY <1>1, Zenon DEF Finish
  <2>2. /\ tail \in Seq(Packet)
        /\ Promised => Plain(tail) = held
        /\ Plain(tail) = held \/ Plain(tail) = <<>>
    BY FlushGivesAll DEF Inv
  <2>3. QED
    BY <1>1, <2>1, <2>2
<1>2. CASE ~descrambling
  <2>1. given' = given /\ held = <<>>
    BY <1>2, Zenon DEF Finish, Inv, HeldInv
  <2>2. <<>> \in Seq(Packet) /\ <<>> \in Seq(Received)
    OBVIOUS
  <2>3. Plain(<<>>) = <<>>
    BY <2>2, DescrambledTyped, Zenon
  <2>4. given \o <<>> = given
    BY ConcatEmptySeq DEF Inv, DataOK
  <2>5. QED
    BY <1>2, <2>1, <2>2, <2>3, <2>4, Zenon
<1>3. QED
  BY <1>1, <1>2

LEMMA FinishStep == Inv /\ Finish /\ FlagsOK' => Inv'
<1> SUFFICES ASSUME Inv, Finish, FlagsOK' PROVE Inv'
  OBVIOUS
<1>1. PICK tail \in Seq(Packet) :
        /\ given' = given \o tail
        /\ Promised => Plain(tail) = held
        /\ Plain(tail) = held \/ Plain(tail) = <<>>
        /\ ~descrambling => tail = <<>>
  BY FinishReturns
<1>2. /\ held' = <<>>
      /\ UNCHANGED <<faults, keepNull, descrambling, first, producing, now, sent, fed, clear,
                     began, last, pause>>
  BY Zenon DEF Finish, options
<1>3. /\ held \in Seq(Received) /\ clear \in Seq(Received)
      /\ given \in Seq(Packet) /\ fed \in Seq(Received) /\ <<>> \in Seq(Received)
  BY DEF Inv, DataOK
<1>4. given' \in Seq(Packet) /\ Plain(given') = Plain(given) \o Plain(tail)
  BY <1>1, <1>3, PlainConcat, ConcatProperties
<1>5. DataOK'
  BY <1>2, <1>3, <1>4, Zenon DEF Inv, DataOK
<1>6. HeldInv' /\ TimeoutInv' /\ PauseInv' /\ OnlyNullsAreDropped'
  BY <1>2, Zenon DEF Inv, HeldInv, TimeoutInv, PauseInv, OnlyNullsAreDropped
<1>7. NothingLostAsPromised'
  <2> SUFFICES ASSUME Promised PROVE Plain(given') \o held' = fed'
    BY <1>2, Zenon DEF NothingLostAsPromised, NothingLost, Promised
  <2>1. Plain(given') = fed'
    BY <1>1, <1>2, <1>4, Zenon DEF Inv, NothingLostAsPromised, NothingLost
  <2>2. fed' \o <<>> = fed'
    BY <1>2, <1>3, ConcatEmptySeq
  <2>3. QED
    BY <1>2, <2>1, <2>2, Zenon
<1>8. PassedThroughWhole'
  <2>1. CASE descrambling
    <3>1. clear' = <<>>
      BY <1>2, <2>1, Zenon DEF Inv, HeldInv
    <3>2. <<>> \in Seq(Packet) /\ given' \o <<>> = given'
      BY <1>4, ConcatEmptySeq
    <3>3. IsSuffix(<<>>, given' \o <<>>)
      BY <1>4, <3>2, SuffixOfConcat
    <3>4. QED
      BY <3>1, <3>2, <3>3, Zenon DEF PassedThroughWhole
  <2>2. CASE ~descrambling
    <3>1. given \o <<>> = given
      BY <1>3, ConcatEmptySeq
    <3>2. given' = given
      BY <1>1, <2>2, <3>1, Zenon
    <3>3. QED
      BY <1>2, <3>2, Zenon DEF Inv, PassedThroughWhole
  <2>3. QED
    BY <2>1, <2>2
<1>9. OrderInv'
  <2> SUFFICES ASSUME "get" \notin faults
               PROVE  /\ Rising(Plain(given') \o held')
                      /\ UpTo(Plain(given') \o held', sent')
    BY <1>2, Zenon DEF OrderInv
  <2> DEFINE g == Plain(given)
  <2>1. g \in Seq(Received)
    BY <1>3, PlainTyped
  <2>2. Rising(g \o held) /\ UpTo(g \o held, sent)
    BY Zenon DEF Inv, OrderInv
  <2> HIDE DEF g
  <2>3. Rising(g) /\ UpTo(g, sent)
    BY <1>3, <2>1, <2>2, RisingPart
  <2>4. g \o <<>> = g
    BY <2>1, ConcatEmptySeq
  <2>5. Plain(given') = g \o held \/ Plain(given') = g
    BY <1>1, <1>4, <2>4, Zenon DEF g
  <2>6. (g \o held) \o <<>> = g \o held
    <3>1. g \o held \in Seq(Received)
      BY <1>3, <2>1, ConcatProperties
    <3>2. QED
      BY <3>1, ConcatEmptySeq
  <2>7. QED
    BY <1>2, <2>2, <2>3, <2>4, <2>5, <2>6, Zenon
<1>10. QED
  BY <1>5, <1>6, <1>7, <1>8, <1>9, Zenon DEF Inv

LEMMA InvStep == Inv /\ [Next]_vars => Inv'
<1> SUFFICES ASSUME Inv, [Next]_vars PROVE Inv'
  OBVIOUS
<1>1. FlagsOK'
  BY FlagsStep DEF Inv
<1>2. CASE Process
  BY <1>1, <1>2, ProcessStep
<1>3. CASE Finish
  BY <1>1, <1>3, FinishStep
<1>4. CASE Tick \/ UNCHANGED vars
  <2>1. /\ UNCHANGED <<faults, keepNull, descrambling, held, first, producing, sent, fed,
                       given, clear, began, last>>
        /\ \/ now' = now /\ pause' = pause
           \/ /\ now < MaxTime /\ now' = now + 1
              /\ pause' = IF began # -1 /\ now' - last > pause THEN now' - last ELSE pause
    BY <1>4, Zenon DEF Tick, vars, options, history
  <2>2. DataOK'
    <3>1. now' \in 0..MaxTime /\ first' \in -1..now' /\ began' \in -1..now' /\ last' \in 0..now'
          /\ pause' \in 0..now'
      BY <2>1, PipelineAssumption DEF Inv, DataOK
    <3>2. QED
      BY <2>1, <3>1, Zenon DEF Inv, DataOK
  <2>3. HeldInv' /\ TimeoutInv' /\ OnlyNullsAreDropped' /\ OrderInv'
    BY <2>1, Zenon DEF Inv, HeldInv, TimeoutInv, OnlyNullsAreDropped, OrderInv
  <2>4. NothingLostAsPromised' /\ PassedThroughWhole'
    BY <2>1, Zenon DEF Inv, NothingLostAsPromised, NothingLost, Promised, PassedThroughWhole
  <2>5. PauseInv'
    <3>1. now \in Int /\ last \in Int /\ pause \in Int
      BY DEF Inv, DataOK
    <3>2. CASE began = -1
      BY <2>1, <3>2, Zenon DEF Inv, PauseInv
    <3>3. CASE began # -1
      <4>1. now - last <= pause /\ began' = began /\ last' = last
        BY <2>1, <3>3, Zenon DEF Inv, PauseInv
      <4>2. now' - last <= pause'
        BY <2>1, <3>1, <3>3, <4>1
      <4>3. QED
        BY <3>3, <4>1, <4>2, Zenon DEF PauseInv
    <3>4. QED
      BY <3>2, <3>3
  <2>6. QED
    BY <1>1, <2>2, <2>3, <2>4, <2>5, Zenon DEF Inv
<1>5. QED
  BY <1>2, <1>3, <1>4 DEF Next

-----------------------------------------------------------------------------
(* What the pipeline promises                                               *)

LEMMA Invariant == Spec => []Inv
<1>1. Init => Inv
  BY InvInit
<1>2. Inv /\ [Next]_vars => Inv'
  BY InvStep
<1>3. QED
  BY <1>1, <1>2, PTL DEF Spec

\* Every variable has its type: in particular, packets are descrambled once at
\* most, and the start of the timeout is never in the future.
THEOREM PipelineTyped == Spec => []TypeOK
<1>1. ASSUME Inv PROVE TypeOK
  <2>1. held \in Seq(Packet)
    BY <1>1, DescrambledTyped DEF Inv, DataOK
  <2>2. QED
    BY <1>1, <2>1, Zenon DEF Inv, FlagsOK, DataOK, TypeOK, Received
<1>2. QED
  BY <1>1, Invariant, PTL

\* Without --keep-null, for chunks of every length and nulls anywhere in them,
\* process() gets all packets but the nulls: what drop_null_packets() copies in
\* runs is what it was given without them.
THEOREM PipelineOnlyNullsDropped == Spec => []OnlyNullsAreDropped
BY Invariant, PTL DEF Inv

\* Nothing is lost on the ways back to the scrambled stream as long as get()
\* and withdraw() work and null packets are dropped: the chunk of which nobody
\* knows whether the library has kept it comes out exactly once.
THEOREM PipelineLosesNothing == Spec => []NothingLostAsPromised
BY Invariant, PTL DEF Inv

\* From the fallback on, the stream comes out whole, whatever call has failed.
THEOREM PipelinePassesWhole == Spec => []PassedThroughWhole
BY Invariant, PTL DEF Inv

\* At any time, packets that nothing has come out of have been held for less
\* than the start timeout and the longest pause between two chunks together: the
\* timeout runs from the first chunk, no later one starts it anew, and the first
\* one to come after it ends the hold.
THEOREM PipelineHoldIsBounded == Spec => []HoldIsBounded
<1>1. ASSUME Inv PROVE HoldIsBounded
  <2> SUFFICES ASSUME held # <<>>, ~producing, StartTimeout > 0
               PROVE  now - began < StartTimeout + pause
    BY Zenon DEF HoldIsBounded
  <2>1. descrambling /\ began # -1
    BY <1>1, Zenon DEF Inv, HeldInv, PauseInv
  <2>2. last - began < StartTimeout /\ now - last <= pause
    BY <1>1, <2>1, Zenon DEF Inv, TimeoutInv, PauseInv
  <2>3. /\ now \in Int /\ last \in Int /\ began \in Int /\ pause \in Int
        /\ StartTimeout \in Int
    BY <1>1, PipelineAssumption DEF Inv, DataOK
  <2>4. QED
    BY <2>2, <2>3
<1>2. QED
  BY <1>1, Invariant, PTL

\* As long as get() works, and however put(), withdraw() and flush() fail, with
\* null packets or without: the packets come out in their order and none of them
\* twice, for every length of the stream and of its chunks.
THEOREM PipelineNothingTwice == Spec => []NothingTwice
<1>1. Inv => NothingTwice
  BY Zenon DEF Inv, OrderInv, Rising, NothingTwice
<1>2. QED
  BY <1>1, Invariant, PTL

-----------------------------------------------------------------------------
(* The pipeline as a stage of a recording                                   *)

LEMMA WholeIsPrefix ==
  ASSUME NEW S, NEW s \in Seq(S)
  PROVE  IsPrefix(s, s)
BY DEF IsPrefix

LEMMA StageStep ==
  ASSUME Inv, Inv', [Next]_vars
  PROVE  [Stage!Move \/ Stage!End]_Stage!relayVars
<1>1. UNCHANGED options
  <2>1. CASE Process
    BY <2>1, Zenon DEF Process, Call
  <2>2. CASE Finish \/ Tick \/ UNCHANGED vars
    BY <2>2, Zenon DEF Finish, Tick, vars
  <2>3. QED
    BY <2>1, <2>2 DEF Next
<1>2. Promised' = Promised
  BY <1>1, Zenon DEF Promised, options
<1>3. CASE ~Promised
  <2>1. UNCHANGED Stage!relayVars
    BY <1>2, <1>3 DEF Stage!relayVars
  <2>2. QED
    BY <2>1
<1>4. CASE Promised /\ Process
  <2>1. sent \in Received /\ keepNull \in BOOLEAN
    BY PipelineAssumption DEF Inv, DataOK, FlagsOK
  <2>2. PICK packets : Handled(packets) /\ Stages(packets)
    BY <1>4, <2>1, ProcessHandles
  <2>3. PICK out \in Seq(Packet) : Returns(packets, out)
    BY <2>2, ProcessReturns
  <2>4. /\ packets \in Seq(Received) /\ fed \in Seq(Received) /\ given \in Seq(Packet)
        /\ given' \in Seq(Packet) /\ held' \in Seq(Received)
        /\ fed' = fed \o packets /\ given' = given \o out /\ ~finished /\ finished' = finished
    BY <2>2, <2>3, Zenon DEF Inv, DataOK, Handled, Returns
  <2>5. IsPrefix(fed, fed')
    BY <2>4, PrefixOfConcat
  <2>6. /\ Plain(given) \in Seq(Received) /\ Plain(out) \in Seq(Received)
        /\ Plain(given') \in Seq(Received)
    BY <2>4, PlainTyped
  <2>7. Plain(given') = Plain(given) \o Plain(out)
    BY <2>4, PlainConcat
  <2>8. IsPrefix(Plain(given), Plain(given'))
    BY <2>6, <2>7, PrefixOfConcat
  <2>9. fed' = Plain(given') \o held'
    BY <1>2, <1>4, Zenon DEF Inv, NothingLostAsPromised, NothingLost
  <2>10. IsPrefix(Plain(given'), fed')
    <3> DEFINE g == Plain(given')
               h == held'
    <3>1. g \in Seq(Received) /\ h \in Seq(Received)
      BY <2>4, <2>6
    <3> HIDE DEF g, h
    <3>2. IsPrefix(g, g \o h)
      BY <3>1, PrefixOfConcat
    <3>3. QED
      BY <2>9, <3>2, Zenon DEF g, h
  <2>11. Stage!Move
    BY <1>2, <1>4, <2>4, <2>5, <2>8, <2>10, Zenon DEF Stage!Move, Stage!IsPrefix, IsPrefix
  <2>12. QED
    BY <2>11
<1>5. CASE Promised /\ Finish
  <2>1. /\ ~finished /\ finished' = TRUE /\ held' = <<>> /\ fed' = fed
    BY <1>5, Zenon DEF Finish
  <2>2. Plain(given') \o <<>> = fed'
    BY <1>2, <1>5, <2>1, Zenon DEF Inv, NothingLostAsPromised, NothingLost
  <2>3. Plain(given') \in Seq(Received)
    BY PlainTyped DEF Inv, DataOK
  <2>4. Plain(given') \o <<>> = Plain(given')
    <3> DEFINE g == Plain(given')
    <3> HIDE DEF g
    <3>1. g \o <<>> = g
      BY <2>3, ConcatEmptySeq DEF g
    <3>2. QED
      BY <3>1 DEF g
  <2>5. Plain(given') = fed
    BY <2>1, <2>2, <2>4, Zenon
  <2>6. Stage!End
    BY <1>2, <1>5, <2>1, <2>5, Zenon DEF Stage!End
  <2>7. QED
    BY <2>6
<1>6. CASE Tick \/ UNCHANGED vars
  <2>1. UNCHANGED <<fed, given, finished>>
    BY <1>6, Zenon DEF Tick, vars, history
  <2>2. UNCHANGED Stage!relayVars
    BY <1>2, <2>1, Zenon DEF Stage!relayVars
  <2>3. QED
    BY <2>2
<1>7. QED
  BY <1>3, <1>4, <1>5, <1>6 DEF Next

\* As long as get() and withdraw() work and null packets are dropped, the
\* pipeline is a stage that keeps the promise Recording builds on: the packets
\* come out in order, descrambled or not, and all of them with finish().
THEOREM PipelineIsRelay == Spec => ImplementsRelay
<1>1. Init => Stage!RelayInit
  <2> SUFFICES ASSUME Init PROVE Stage!RelayInit
    OBVIOUS
  <2>1. <<>> \in Seq(Received)
    OBVIOUS
  <2>2. Plain(<<>>) = <<>>
    BY <2>1, DescrambledTyped, Zenon
  <2>3. fed = <<>> /\ given = <<>> /\ finished = FALSE
    BY Zenon DEF Init
  <2>4. QED
    BY <2>2, <2>3, Zenon DEF Stage!RelayInit
<1>2. Inv /\ Inv' /\ [Next]_vars => [Stage!Move \/ Stage!End]_Stage!relayVars
  BY StageStep
<1>3. QED
  BY <1>1, <1>2, Invariant, PTL DEF Spec, ImplementsRelay, Stage!RelaySpec
=============================================================================
