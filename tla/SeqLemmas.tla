------------------------------ MODULE SeqLemmas ------------------------------
(***************************************************************************)
(* Facts about sequences that the proofs about queues and buffers share,   *)
(* and the least number of a set, which proofs by induction start from.    *)
(***************************************************************************)
EXTENDS Integers, Sequences, SequencesExt, SequenceTheorems,
        WellFoundedInduction, TLAPS

\* A sequence over a set is one over every larger set.
LEMMA SeqOfSubset ==
  ASSUME NEW S, NEW T, S \subseteq T, NEW s \in Seq(S)
  PROVE  s \in Seq(T)
<1>1. Len(s) \in Nat /\ DOMAIN s = 1..Len(s) /\ s = [i \in 1..Len(s) |-> s[i]]
      /\ \A i \in 1..Len(s) : s[i] \in S
  BY ElementOfSeq
<1>2. s \in [1..Len(s) -> T]
  BY <1>1
<1>3. QED
  BY <1>1, <1>2

\* What is left of a sequence behind its first k elements.
LEMMA CutSeq ==
  ASSUME NEW S, NEW s \in Seq(S), NEW k \in 0..Len(s)
  PROVE  /\ SubSeq(s, k + 1, Len(s)) \in Seq(S)
         /\ Len(SubSeq(s, k + 1, Len(s))) = Len(s) - k
         /\ \A j \in 1..(Len(s) - k) : SubSeq(s, k + 1, Len(s))[j] = s[k + j]
<1>1. Len(s) \in Nat /\ \A i \in 1..Len(s) : s[i] \in S
  BY LenProperties
<1>2. \A i \in (k + 1)..Len(s) : s[i] \in S
  BY <1>1
<1>3. k + 1 \in Int /\ Len(s) \in Int
  BY <1>1
<1>4. /\ SubSeq(s, k + 1, Len(s)) \in Seq(S)
      /\ Len(SubSeq(s, k + 1, Len(s))) = IF k + 1 <= Len(s) THEN Len(s) - (k + 1) + 1 ELSE 0
      /\ \A j \in 1..(Len(s) - (k + 1) + 1) :
            SubSeq(s, k + 1, Len(s))[j] = s[k + 1 + j - 1]
  BY <1>2, <1>3, SubSeqProperties
<1>5. ASSUME NEW j \in 1..(Len(s) - k) PROVE SubSeq(s, k + 1, Len(s))[j] = s[k + j]
  <2>1. j \in 1..(Len(s) - (k + 1) + 1) /\ k + 1 + j - 1 = k + j
    BY <1>1
  <2>2. QED
    BY <1>4, <2>1
<1>6. QED
  BY <1>1, <1>4, <1>5

\* A sequence cut in two is the concatenation of the parts.
LEMMA SplitSeq ==
  ASSUME NEW S, NEW s \in Seq(S), NEW k \in 0..Len(s)
  PROVE  /\ SubSeq(s, 1, k) \in Seq(S)
         /\ SubSeq(s, k + 1, Len(s)) \in Seq(S)
         /\ SubSeq(s, 1, k) \o SubSeq(s, k + 1, Len(s)) = s
         /\ Len(SubSeq(s, 1, k)) = k
<1>1. Len(s) \in Nat /\ \A i \in 1..Len(s) : s[i] \in S
  BY LenProperties
<1>2. SubSeq(s, 1, k) \in Seq(S) /\ Len(SubSeq(s, 1, k)) = k
  <2>1. \A i \in 1..k : s[i] \in S
    BY <1>1
  <2>2. 1 \in Int /\ k \in Int
    OBVIOUS
  <2>3. QED
    BY <2>1, <2>2, SubSeqProperties
<1>3. SubSeq(s, k + 1, Len(s)) \in Seq(S)
  <2>1. \A i \in (k + 1)..Len(s) : s[i] \in S
    BY <1>1
  <2>2. k + 1 \in Int /\ Len(s) \in Int
    BY <1>1
  <2>3. QED
    BY <2>1, <2>2, SubSeqProperties
<1>4. SubSeq(s, 1, k) \o SubSeq(s, k + 1, Len(s)) = SubSeq(s, 1, Len(s))
  <2>1. 1 \in 1..(Len(s) + 1) /\ k \in (1 - 1)..Len(s) /\ Len(s) \in k..Len(s)
    BY <1>1
  <2>2. QED
    BY <2>1, ConcatAdjacentSubSeq
<1>5. QED
  BY <1>2, <1>3, <1>4, SubSeqFull

\* Moving the head of one queue to the end of the buffer before it does not
\* change what the two hold.
LEMMA MoveHead ==
  ASSUME NEW S, NEW s \in Seq(S), NEW q \in Seq(S), q # <<>>
  PROVE  /\ Append(s, Head(q)) \in Seq(S)
         /\ Tail(q) \in Seq(S)
         /\ Append(s, Head(q)) \o Tail(q) = s \o q
<1>1. Head(q) \in S /\ Tail(q) \in Seq(S) /\ Append(s, Head(q)) \in Seq(S)
  BY HeadTailProperties, AppendProperties
<1>2. <<Head(q)>> \in Seq(S)
  BY <1>1
<1>3. Append(s, Head(q)) = s \o <<Head(q)>>
  BY <1>1, AppendIsConcat
<1>4. (s \o <<Head(q)>>) \o Tail(q) = s \o (<<Head(q)>> \o Tail(q))
  BY <1>1, <1>2, ConcatAssociative
<1>5. <<Head(q)>> \o Tail(q) = q
  <2> DEFINE r == <<Head(q)>> \o Tail(q)
  <2>1. /\ r \in Seq(S)
        /\ Len(r) = Len(<<Head(q)>>) + Len(Tail(q))
        /\ \A i \in 1..(Len(<<Head(q)>>) + Len(Tail(q))) :
              r[i] = IF i <= Len(<<Head(q)>>) THEN <<Head(q)>>[i]
                                              ELSE Tail(q)[i - Len(<<Head(q)>>)]
    BY <1>1, <1>2, ConcatProperties
  <2>2. Len(<<Head(q)>>) = 1 /\ <<Head(q)>>[1] = q[1]
    OBVIOUS
  <2>3. /\ Len(Tail(q)) = Len(q) - 1
        /\ \A i \in 1..Len(Tail(q)) : Tail(q)[i] = q[i + 1]
    BY HeadTailProperties
  <2>4. Len(q) \in Nat
    BY LenProperties
  <2>5. Len(r) = Len(q)
    BY <2>1, <2>2, <2>3, <2>4
  <2>6. \A i \in 1..Len(r) : r[i] = q[i]
    <3>1. SUFFICES ASSUME NEW i \in 1..Len(q) PROVE r[i] = q[i]
      BY <2>5
    <3>2. r[i] = IF i <= 1 THEN q[1] ELSE Tail(q)[i - 1]
      BY <2>1, <2>2, <2>3, <2>4, <3>1
    <3>3. CASE i = 1
      BY <3>2, <3>3
    <3>4. CASE i # 1
      BY <2>3, <2>4, <3>2, <3>4
    <3>5. QED
      BY <3>3, <3>4
  <2> HIDE DEF r
  <2>7. r = q
    BY <2>1, <2>5, <2>6, SeqEqual
  <2>8. QED
    BY <2>7 DEF r
<1>6. QED
  BY <1>1, <1>3, <1>4, <1>5

\* Associativity as one formula, for the provers to instantiate.
LEMMA AllConcatAssociative ==
  ASSUME NEW S
  PROVE  \A a, b, c \in Seq(S) : (a \o b) \o c = a \o (b \o c)
BY ConcatAssociative

\* Appending to the last queue of a chain appends to the chain.
LEMMA ConcatAppend ==
  ASSUME NEW S, NEW s \in Seq(S), NEW q \in Seq(S), NEW e \in S
  PROVE  s \o Append(q, e) = Append(s \o q, e)
<1>1. <<e>> \in Seq(S) /\ s \o q \in Seq(S)
  BY ConcatProperties
<1>2. Append(q, e) = q \o <<e>> /\ Append(s \o q, e) = (s \o q) \o <<e>>
  BY <1>1, AppendIsConcat
<1>3. QED
  BY <1>1, <1>2, ConcatAssociative

\* A sequence is a prefix of each of its extensions.
LEMMA PrefixOfConcat ==
  ASSUME NEW S, NEW s \in Seq(S), NEW t \in Seq(S)
  PROVE  IsPrefix(s, s \o t)
<1> DEFINE u == s \o t
<1>1. /\ u \in Seq(S) /\ Len(u) = Len(s) + Len(t)
      /\ \A i \in 1..(Len(s) + Len(t)) :
            u[i] = IF i <= Len(s) THEN s[i] ELSE t[i - Len(s)]
  BY ConcatProperties
<1>2. Len(s) \in Nat /\ Len(t) \in Nat
  BY LenProperties
<1>3. SubSeq(s, 1, Len(s)) = s
  BY SubSeqFull
<1>4. SubSeq(u, 1, Len(s)) \in Seq(S) /\ Len(SubSeq(u, 1, Len(s))) = Len(s)
  <2>1. Len(s) \in 0..Len(u)
    BY <1>1, <1>2
  <2> HIDE DEF u
  <2>2. QED
    BY <1>1, <2>1, SplitSeq
<1>5. \A i \in 1..Len(s) : SubSeq(u, 1, Len(s))[i] = u[i]
  <2>1. \A i \in 1..Len(s) : u[i] \in S
    BY <1>1, <1>2, ElementOfSeq
  <2>2. 1 \in Int /\ Len(s) \in Int
    BY <1>2
  <2> HIDE DEF u
  <2>3. \A i \in 1..(Len(s) - 1 + 1) : SubSeq(u, 1, Len(s))[i] = u[1 + i - 1]
    BY <2>1, <2>2, SubSeqProperties
  <2>4. QED
    BY <1>2, <2>3
<1> HIDE DEF u
<1>6. \A i \in 1..Len(s) : SubSeq(u, 1, Len(s))[i] = s[i]
  BY <1>1, <1>2, <1>5
<1>7. SubSeq(u, 1, Len(s)) = s
  BY <1>4, <1>6, SeqEqual
<1>8. IsPrefix(s, u)
  BY <1>1, <1>2, <1>3, <1>7 DEF IsPrefix
<1>9. QED
  BY <1>8 DEF u

-----------------------------------------------------------------------------

\* A suffix agrees with the sequence, counted from the end.
LEMMA SuffixMeans ==
  ASSUME NEW S, NEW s \in Seq(S), NEW t \in Seq(S)
  PROVE  IsSuffix(s, t) <=>
            /\ Len(s) <= Len(t)
            /\ \A i \in 1..Len(s) : s[(Len(s) - i) + 1] = t[(Len(t) - i) + 1]
<1>1. ASSUME NEW x \in Seq(S)
      PROVE  /\ Reverse(x) \in Seq(S) /\ Len(Reverse(x)) = Len(x)
             /\ \A i \in 1..Len(x) : Reverse(x)[i] = x[(Len(x) - i) + 1]
  <2>1. Len(x) \in Nat /\ \A i \in 1..Len(x) : x[i] \in S
    BY ElementOfSeq
  <2>2. \A i \in 1..Len(x) : (Len(x) - i) + 1 \in 1..Len(x)
    BY <2>1
  <2>3. Reverse(x) \in [1..Len(x) -> S]
    BY <2>1, <2>2 DEF Reverse
  <2>4. QED
    BY <2>1, <2>3 DEF Reverse
<1> DEFINE a == Reverse(s)
           b == Reverse(t)
<1>2. /\ a \in Seq(S) /\ Len(a) = Len(s)
      /\ \A i \in 1..Len(s) : a[i] = s[(Len(s) - i) + 1]
      /\ b \in Seq(S) /\ Len(b) = Len(t)
      /\ \A i \in 1..Len(t) : b[i] = t[(Len(t) - i) + 1]
  BY <1>1
<1>3. Len(s) \in Nat /\ Len(t) \in Nat
  BY LenProperties
<1> HIDE DEF a, b
<1>4. SubSeq(a, 1, Len(a)) = a
  BY <1>2, SubSeqFull
<1>5. ASSUME Len(s) <= Len(t)
      PROVE  /\ SubSeq(b, 1, Len(a)) \in Seq(S) /\ Len(SubSeq(b, 1, Len(a))) = Len(s)
             /\ \A i \in 1..Len(s) : SubSeq(b, 1, Len(a))[i] = b[i]
  <2>1. Len(a) \in 0..Len(b) /\ 1 \in Int /\ Len(a) \in Int
    BY <1>2, <1>3, <1>5
  <2>2. SubSeq(b, 1, Len(a)) \in Seq(S) /\ Len(SubSeq(b, 1, Len(a))) = Len(a)
    BY <1>2, <2>1, SplitSeq
  <2>3. \A i \in 1..Len(a) : b[i] \in S
    BY <1>2, <1>3, <2>1, ElementOfSeq
  <2>4. \A i \in 1..(Len(a) - 1 + 1) : SubSeq(b, 1, Len(a))[i] = b[1 + i - 1]
    BY <2>1, <2>3, SubSeqProperties
  <2>5. QED
    BY <1>2, <1>3, <2>2, <2>4
<1>6. ASSUME Len(s) <= Len(t)
      PROVE  a = SubSeq(b, 1, Len(a)) <=> \A i \in 1..Len(s) : a[i] = b[i]
  <2>1. ASSUME \A i \in 1..Len(s) : a[i] = b[i] PROVE a = SubSeq(b, 1, Len(a))
    <3> DEFINE c == SubSeq(b, 1, Len(a))
    <3>1. c \in Seq(S) /\ Len(c) = Len(a) /\ \A i \in 1..Len(a) : a[i] = c[i]
      BY <1>2, <1>5, <1>6, <2>1
    <3> HIDE DEF c
    <3>2. a = c
      BY <1>2, <3>1, SeqEqual
    <3>3. QED
      BY <3>2 DEF c
  <2>2. ASSUME a = SubSeq(b, 1, Len(a)) PROVE \A i \in 1..Len(s) : a[i] = b[i]
    BY <1>5, <1>6, <2>2
  <2>3. QED
    BY <2>1, <2>2
<1>7. IsSuffix(s, t) <=> Len(s) <= Len(t) /\ a = SubSeq(b, 1, Len(a))
  BY <1>2, <1>4, Zenon DEF IsSuffix, IsPrefix, a, b
<1>8. ASSUME Len(s) <= Len(t), NEW i \in 1..Len(s)
      PROVE  a[i] = s[(Len(s) - i) + 1] /\ b[i] = t[(Len(t) - i) + 1]
  <2>1. i \in 1..Len(t)
    BY <1>3, <1>8
  <2>2. QED
    BY <1>2, <2>1
<1>9. QED
  BY <1>6, <1>7, <1>8

\* What a sequence ends with, the longer sequence ends with, too.
LEMMA SuffixBehind ==
  ASSUME NEW S, NEW r \in Seq(S), NEW s \in Seq(S), NEW t \in Seq(S), IsSuffix(s, t)
  PROVE  IsSuffix(s, r \o t)
<1> DEFINE u == r \o t
<1>1. /\ u \in Seq(S) /\ Len(u) = Len(r) + Len(t)
      /\ \A i \in 1..(Len(r) + Len(t)) :
            u[i] = IF i <= Len(r) THEN r[i] ELSE t[i - Len(r)]
  BY ConcatProperties
<1>2. Len(r) \in Nat /\ Len(s) \in Nat /\ Len(t) \in Nat
  BY LenProperties
<1> HIDE DEF u
<1>3. /\ Len(s) <= Len(t)
      /\ \A i \in 1..Len(s) : s[(Len(s) - i) + 1] = t[(Len(t) - i) + 1]
  BY SuffixMeans
<1>4. ASSUME NEW i \in 1..Len(s) PROVE u[(Len(u) - i) + 1] = t[(Len(t) - i) + 1]
  <2>1. /\ (Len(u) - i) + 1 \in 1..(Len(r) + Len(t)) /\ ~((Len(u) - i) + 1 <= Len(r))
        /\ (Len(u) - i) + 1 - Len(r) = (Len(t) - i) + 1
    BY <1>1, <1>2, <1>3
  <2>2. QED
    BY <1>1, <2>1
<1>5. Len(s) <= Len(u)
  BY <1>1, <1>2, <1>3
<1>6. IsSuffix(s, u)
  <2>1. \A i \in 1..Len(s) : s[(Len(s) - i) + 1] = u[(Len(u) - i) + 1]
    BY <1>3, <1>4
  <2>2. QED
    BY <1>1, <1>5, <2>1, SuffixMeans, Zenon
<1>7. QED
  BY <1>6 DEF u

\* Every sequence ends with itself, and so with the second of its two parts.
LEMMA SuffixOfConcat ==
  ASSUME NEW S, NEW r \in Seq(S), NEW s \in Seq(S)
  PROVE  IsSuffix(s, s) /\ IsSuffix(s, r \o s)
<1>1. Len(s) \in Nat
  BY LenProperties
<1>2. IsSuffix(s, s)
  BY <1>1, SuffixMeans
<1>3. QED
  BY <1>2, SuffixBehind

\* A suffix grows with the sequence.
LEMMA SuffixGrows ==
  ASSUME NEW S, NEW s \in Seq(S), NEW t \in Seq(S), NEW u \in Seq(S), IsSuffix(s, t)
  PROVE  IsSuffix(s \o u, t \o u)
<1> DEFINE a == s \o u
           b == t \o u
<1>1. /\ a \in Seq(S) /\ Len(a) = Len(s) + Len(u)
      /\ \A i \in 1..(Len(s) + Len(u)) :
            a[i] = IF i <= Len(s) THEN s[i] ELSE u[i - Len(s)]
      /\ b \in Seq(S) /\ Len(b) = Len(t) + Len(u)
      /\ \A i \in 1..(Len(t) + Len(u)) :
            b[i] = IF i <= Len(t) THEN t[i] ELSE u[i - Len(t)]
  BY ConcatProperties
<1>2. Len(s) \in Nat /\ Len(t) \in Nat /\ Len(u) \in Nat
  BY LenProperties
<1> HIDE DEF a, b
<1>3. /\ Len(s) <= Len(t)
      /\ \A i \in 1..Len(s) : s[(Len(s) - i) + 1] = t[(Len(t) - i) + 1]
  BY SuffixMeans
<1>4. ASSUME NEW i \in 1..Len(a) PROVE a[(Len(a) - i) + 1] = b[(Len(b) - i) + 1]
  <2> DEFINE p == (Len(a) - i) + 1
             q == (Len(b) - i) + 1
  <2>1. p \in 1..(Len(s) + Len(u)) /\ q \in 1..(Len(t) + Len(u))
    BY <1>1, <1>2, <1>3
  <2>2. CASE i <= Len(u)
    <3>1. /\ ~(p <= Len(s)) /\ ~(q <= Len(t)) /\ p - Len(s) = q - Len(t)
      BY <1>1, <1>2, <2>2
    <3> HIDE DEF p, q
    <3>2. a[p] = u[p - Len(s)] /\ b[q] = u[q - Len(t)]
      BY <1>1, <2>1, <3>1
    <3>3. a[p] = b[q]
      BY <3>1, <3>2
    <3>4. QED
      BY <3>3 DEF p, q
  <2>3. CASE ~(i <= Len(u))
    <3> DEFINE j == i - Len(u)
    <3>1. /\ j \in 1..Len(s) /\ p <= Len(s) /\ q <= Len(t)
          /\ p = (Len(s) - j) + 1 /\ q = (Len(t) - j) + 1
      BY <1>1, <1>2, <1>3, <2>3
    <3> HIDE DEF p, q, j
    <3>2. a[p] = s[p] /\ b[q] = t[q]
      BY <1>1, <2>1, <3>1
    <3>3. s[p] = t[q]
      BY <1>3, <3>1
    <3>4. a[p] = b[q]
      BY <3>2, <3>3
    <3>5. QED
      BY <3>4 DEF p, q
  <2>4. QED
    BY <2>2, <2>3
<1>5. Len(a) <= Len(b)
  BY <1>1, <1>2, <1>3
<1>6. IsSuffix(a, b)
  BY <1>1, <1>4, <1>5, SuffixMeans
<1>7. QED
  BY <1>6 DEF a, b

-----------------------------------------------------------------------------

\* A set of numbers has a least one.  The theorem of the library about
\* well-founded relations takes no operator, and so serves where its induction
\* rules, which do, cannot be used.
LEMMA LeastNumber ==
  ASSUME NEW T, T \subseteq Nat, T # {}
  PROVE  \E x \in T : \A y \in T : x <= y
<1>1. IsWellFoundedOn(OpToRel(<, Nat), Nat)
  BY NatLessThanWellFounded
<1>2. PICK x \in T : \A y \in T : ~(<<y, x>> \in OpToRel(<, Nat))
  BY <1>1, WFMin, Zenon
<1>3. \A y \in T : ~(y < x)
  <2> TAKE y \in T
  <2>1. y \in Nat /\ x \in Nat
    OBVIOUS
  <2>2. y < x => <<y, x>> \in OpToRel(<, Nat)
    BY <2>1 DEF OpToRel
  <2>3. QED
    BY <1>2, <2>2, Zenon
<1>4. QED
  BY <1>3

\* What holds of 0, and of n + 1 whenever it holds of n, holds of all numbers.
LEMMA NumberInduction ==
  ASSUME NEW T, 0 \in T, \A n \in Nat : n \in T => n + 1 \in T
  PROVE  Nat \subseteq T
<1> SUFFICES ASSUME ~(Nat \subseteq T) PROVE FALSE
  OBVIOUS
<1> DEFINE Out == Nat \ T
<1>1. Out \subseteq Nat /\ Out # {}
  OBVIOUS
<1>2. PICK x \in Out : \A y \in Out : x <= y
  <2> HIDE DEF Out
  <2>1. QED
    BY <1>1, LeastNumber
<1>3. x \in Nat /\ x # 0 /\ x \notin T
  OBVIOUS
<1>4. x - 1 \in Nat /\ (x - 1) + 1 = x /\ ~(x <= x - 1)
  BY <1>3
<1>5. x - 1 \in T
  BY <1>2, <1>4
<1>6. QED
  BY <1>3, <1>4, <1>5

\* A bounded set of numbers has a greatest one.
LEMMA GreatestNumber ==
  ASSUME NEW T, NEW n \in Nat, T \subseteq 0..n, T # {}
  PROVE  \E x \in T : \A y \in T : x >= y
<1> DEFINE Below == {k \in Nat : \A y \in T : y <= k}
<1>1. n \in Below
  OBVIOUS
<1>2. PICK k \in Below : \A j \in Below : k <= j
  <2>1. Below \subseteq Nat /\ Below # {}
    BY <1>1
  <2> HIDE DEF Below
  <2>2. QED
    BY <2>1, LeastNumber
<1>3. k \in T
  <2> SUFFICES ASSUME k \notin T PROVE FALSE
    OBVIOUS
  <2>1. PICK t : t \in T
    OBVIOUS
  <2>2. \A y \in T : y <= k - 1
    BY <1>2
  <2>3. k - 1 \in Nat
    BY <1>2, <2>1, <2>2
  <2>4. k - 1 \in Below
    BY <2>2, <2>3
  <2>5. QED
    BY <1>2, <2>4
<1>4. \A y \in T : k >= y
  BY <1>2
<1>5. QED
  BY <1>3, <1>4
=============================================================================
