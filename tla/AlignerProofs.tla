---------------------------- MODULE AlignerProofs ----------------------------
(***************************************************************************)
(* Proofs about PacketAligner: types, the account of every byte, the bound *)
(* on what waits, whole packets, and that the cut into chunks makes no     *)
(* difference, for every packet size, confirmation and stream.             *)
(***************************************************************************)
EXTENDS PacketAligner, SeqLemmas, TLAPS

-----------------------------------------------------------------------------
(* Arithmetic                                                               *)

LEMMA DivBounds ==
  ASSUME NEW n \in Nat, NEW d \in Nat \ {0}
  PROVE  /\ n \div d \in Nat
         /\ (n \div d) * d <= n
         /\ n < (n \div d) * d + d
  OBVIOUS

LEMMA ProductInNat ==
  ASSUME NEW a \in Nat, NEW b \in Nat
  PROVE  a * b \in Nat
  OBVIOUS

\* Fewer packets take less room.
LEMMA FewerPackets ==
  ASSUME NEW a \in Nat, NEW b \in Nat, NEW d \in Nat, a < b
  PROVE  a * d + d <= b * d
  OBVIOUS

LEMMA ModIs ==
  ASSUME NEW d \in Nat \ {0}, NEW q \in Nat, NEW r \in 0..(d - 1)
  PROVE  (q * d + r) % d = r
  OBVIOUS

LEMMA WholeMod ==
  ASSUME NEW n \in Nat, NEW d \in Nat \ {0}
  PROVE  (n * d) % d = 0
<1>1. 0 \in 0..(d - 1) /\ n * d \in Nat
  BY ProductInNat
<1>2. (n * d + 0) % d = 0
  BY <1>1, ModIs
<1>3. n * d + 0 = n * d
  BY <1>1
<1>4. QED
  BY <1>2, <1>3

\* The first byte of a packet within n packets is the first of the n.
LEMMA WithinPackets ==
  ASSUME NEW n \in Nat, NEW k \in Nat, NEW d \in Nat \ {0}, k * d + 1 <= n * d
  PROVE  k < n
<1> DEFINE kd == k * d  nd == n * d
<1>1. kd \in Nat /\ nd \in Nat /\ kd + 1 <= nd
  BY ProductInNat
<1>2. n < k => nd + d <= kd
  BY FewerPackets
<1>3. n = k => nd = kd
  OBVIOUS
<1> HIDE DEF kd, nd
<1>4. QED
  BY <1>1, <1>2, <1>3

LEMMA DivMod ==
  ASSUME NEW a \in Nat, NEW d \in Nat \ {0}
  PROVE  a \div d \in Nat /\ a % d \in 0..(d - 1) /\ a = (a \div d) * d + (a % d)
  OBVIOUS

LEMMA Distribute ==
  ASSUME NEW a \in Nat, NEW b \in Nat, NEW d \in Nat
  PROVE  (a + b) * d = a * d + b * d
  OBVIOUS

\* Whole packets in front do not change where a byte lies in its packet.
LEMMA ModShift ==
  ASSUME NEW a \in Nat, NEW b \in Nat, NEW d \in Nat \ {0}, a % d = 0
  PROVE  (a + b) % d = b % d
<1> DEFINE q == a \div d  t == b \div d  r == b % d
<1>1. q \in Nat /\ a = q * d
  BY DivMod
<1>2. t \in Nat /\ r \in 0..(d - 1) /\ b = t * d + r
  BY DivMod
<1> HIDE DEF q, t, r
<1>3. a + b = (q + t) * d + r
  BY <1>1, <1>2, Distribute
<1>4. ((q + t) * d + r) % d = r
  <2>1. q + t \in Nat
    BY <1>1, <1>2
  <2>2. QED
    BY <1>2, <2>1, ModIs
<1>5. QED
  BY <1>3, <1>4 DEF r

\* The first bytes of the packets.
LEMMA FirstByte ==
  ASSUME NEW d \in Nat \ {0}, NEW j \in Nat \ {0}, j % d = 1 % d
  PROVE  \E k \in Nat : j = k * d + 1
<1>1. CASE d = 1
  <2>1. j - 1 \in Nat /\ j = (j - 1) * d + 1
    BY <1>1
  <2>2. QED
    BY <2>1
<1>2. CASE d # 1
  <2>1. 1 % d = 1
    BY <1>2
  <2>2. j = (j \div d) * d + 1 /\ j \div d \in Nat
    BY <2>1, DivMod
  <2>3. QED
    BY <2>2
<1>3. QED
  BY <1>1, <1>2
-----------------------------------------------------------------------------
(* Lengths                                                                  *)

\* What is kept from offset p on, and what is cut before it.
LEMMA KeepLength ==
  ASSUME NEW s \in Seq(Byte), NEW p \in 0..Len(s)
  PROVE  /\ SubSeq(s, p + 1, Len(s)) \in Seq(Byte)
         /\ Len(SubSeq(s, p + 1, Len(s))) = Len(s) - p
<1> DEFINE head == SubSeq(s, 1, p)  tail == SubSeq(s, p + 1, Len(s))
<1>1. head \in Seq(Byte) /\ tail \in Seq(Byte) /\ head \o tail = s /\ Len(head) = p
  BY SplitSeq
<1>2. Len(head \o tail) = Len(head) + Len(tail)
  BY <1>1, ConcatProperties
<1>3. Len(tail) \in Nat /\ Len(s) \in Nat
  BY <1>1, LenProperties
<1> HIDE DEF head, tail
<1>4. Len(tail) = Len(s) - p
  BY <1>1, <1>2, <1>3
<1>5. QED
  BY <1>1, <1>4 DEF head, tail

LEMMA CutBytes ==
  ASSUME NEW s \in Seq(Byte), NEW p \in 0..Len(s), NEW q \in p..Len(s)
  PROVE  /\ SubSeq(s, p + 1, q) \in Seq(Byte)
         /\ Len(SubSeq(s, p + 1, q)) = q - p
         /\ \A j \in 1..(q - p) : SubSeq(s, p + 1, q)[j] = s[p + j]
<1>1. Len(s) \in Nat /\ \A i \in 1..Len(s) : s[i] \in Byte
  BY LenProperties
<1>2. \A i \in (p + 1)..q : s[i] \in Byte
  BY <1>1
<1>3. p + 1 \in Int /\ q \in Int
  BY <1>1
<1>4. /\ SubSeq(s, p + 1, q) \in Seq(Byte)
      /\ Len(SubSeq(s, p + 1, q)) = IF p + 1 <= q THEN q - (p + 1) + 1 ELSE 0
      /\ \A j \in 1..(q - (p + 1) + 1) : SubSeq(s, p + 1, q)[j] = s[p + 1 + j - 1]
  BY <1>2, <1>3, SubSeqProperties
<1>5. ASSUME NEW j \in 1..(q - p) PROVE SubSeq(s, p + 1, q)[j] = s[p + j]
  <2>1. j \in 1..(q - (p + 1) + 1) /\ p + 1 + j - 1 = p + j
    BY <1>1
  <2>2. QED
    BY <1>4, <2>1
<1>6. QED
  BY <1>1, <1>4, <1>5

\* The elements of a concatenation, from its two parts.
LEMMA ConcatBytes ==
  ASSUME NEW s \in Seq(Byte), NEW t \in Seq(Byte)
  PROVE  /\ \A i \in 1..Len(s) : (s \o t)[i] = s[i]
         /\ \A j \in 1..Len(t) : (s \o t)[Len(s) + j] = t[j]
<1>1. Len(s) \in Nat /\ Len(t) \in Nat
  BY LenProperties
<1>2. \A i \in 1..(Len(s) + Len(t)) :
        (s \o t)[i] = IF i <= Len(s) THEN s[i] ELSE t[i - Len(s)]
  BY ConcatProperties
<1>3. ASSUME NEW i \in 1..Len(s) PROVE (s \o t)[i] = s[i]
  BY <1>1, <1>2
<1>4. ASSUME NEW j \in 1..Len(t) PROVE (s \o t)[Len(s) + j] = t[j]
  <2>1. PICK k \in 1..(Len(s) + Len(t)) : k = Len(s) + j
    BY <1>1
  <2>2. ~(k <= Len(s)) /\ k - Len(s) = j
    BY <1>1, <2>1
  <2>3. (s \o t)[k] = t[j]
    BY <1>2, <2>2
  <2>4. QED
    BY <2>1, <2>3
<1>5. QED
  BY <1>3, <1>4

-----------------------------------------------------------------------------
(* The invariant                                                            *)

\* Between the calls of feed(), it starts at the front of what it has kept.
AtFront == ~busy => pos = 0

AlignerInv == TypeOK /\ Accounted /\ AtFront /\ PendingIsBounded

\* The lengths that the account is made of are numbers.
LEMMA LengthsInNat ==
  ASSUME TypeOK
  PROVE  /\ Len(data) \in Nat /\ Len(fed) \in Nat /\ Len(emitted) \in Nat
         /\ pos \in Nat /\ pos <= Len(data) /\ skipped \in Nat /\ syncLosses \in Nat
         /\ PacketSize \in Nat /\ PacketSize > 0 /\ SyncConfirm \in Nat /\ SyncConfirm > 0
BY AlignerAssumption, LenProperties DEF TypeOK

LEMMA ChunkForm ==
  ASSUME NEW chunk \in Chunks
  PROVE  \E k \in 0..MaxChunk : \E s \in SUBSET (1..k) :
            chunk = [i \in 1..k |-> IF i \in s THEN Len(fed) + i ELSE -(Len(fed) + i)]
<1> DEFINE n == Len(fed)
           Bytes(k, s) == [i \in 1..k |-> IF i \in s THEN n + i ELSE -(n + i)]
           Of(k) == {Bytes(k, s) : s \in SUBSET (1..k)}
           sizes == {k \in 0..MaxChunk : n + k <= MaxBytes}
<1>1. chunk \in UNION {Of(k) : k \in sizes}
  BY DEF Chunks
<1>2. PICK k \in sizes : chunk \in Of(k)
  <2> HIDE DEF Of, sizes
  <2> QED
    BY <1>1
<1>3. PICK s \in SUBSET (1..k) : chunk = Bytes(k, s)
  BY <1>2
<1>4. k \in 0..MaxChunk
  BY <1>2
<1>5. QED
  BY <1>3, <1>4

LEMMA ChunkTyped ==
  ASSUME NEW chunk \in Chunks, Len(fed) \in Nat
  PROVE  chunk \in Seq(Byte)
<1>1. PICK k \in 0..MaxChunk : \E s \in SUBSET (1..k) :
        chunk = [i \in 1..k |-> IF i \in s THEN Len(fed) + i ELSE -(Len(fed) + i)]
  BY ChunkForm
<1>2. PICK s \in SUBSET (1..k) :
        chunk = [i \in 1..k |-> IF i \in s THEN Len(fed) + i ELSE -(Len(fed) + i)]
  BY <1>1
<1>3. k \in Nat
  BY <1>1, AlignerAssumption
<1>4. chunk \in [1..k -> Byte]
  BY <1>2, <1>3 DEF Byte
<1>5. QED
  BY <1>3, <1>4, SeqDef

LEMMA FeedStep ==
  ASSUME AlignerInv, NEW chunk \in Chunks, Feed(chunk)
  PROVE  AlignerInv'
<1>1. /\ TypeOK /\ Accounted
  BY DEF AlignerInv
<1>2. chunk \in Seq(Byte) /\ Len(chunk) \in Nat
  BY <1>1, LengthsInNat, ChunkTyped, LenProperties
<1>3. data \in Seq(Byte) /\ fed \in Seq(Byte)
  BY <1>1 DEF TypeOK
<1>4. /\ data' \in Seq(Byte) /\ Len(data') = Len(data) + Len(chunk)
      /\ fed' \in Seq(Byte) /\ Len(fed') = Len(fed) + Len(chunk)
  BY <1>2, <1>3, ConcatProperties DEF Feed
<1>5. /\ busy' = TRUE
      /\ UNCHANGED <<pos, locked, syncLosses, skipped, emitted>>
  BY Zenon DEF Feed
<1>6. TypeOK'
  BY <1>1, <1>2, <1>4, <1>5, LengthsInNat DEF TypeOK
<1>7. Accounted'
  BY <1>1, <1>2, <1>4, <1>5, LengthsInNat DEF Accounted
<1>8. AtFront' /\ PendingIsBounded'
  BY <1>5, Zenon DEF AtFront, PendingIsBounded
<1>9. QED
  BY <1>6, <1>7, <1>8, Zenon DEF AlignerInv

LEMMA FindStep ==
  ASSUME AlignerInv, Find
  PROVE  AlignerInv'
<1>1. /\ TypeOK /\ Accounted
  BY DEF AlignerInv
<1>2. PICK i \in Candidates : skipped' = skipped + (i - pos) /\ pos' = i
  BY DEF Find
<1>3. PacketSize * (SyncConfirm - 1) \in Nat
  BY <1>1, LengthsInNat, ProductInNat
<1>4. i \in pos..Len(data)
  BY <1>1, <1>2, <1>3, LengthsInNat DEF Candidates
<1>5. UNCHANGED <<data, syncLosses, fed, emitted>>
  BY DEF Find
<1>6. TypeOK'
  <2>1. busy' \in BOOLEAN /\ locked' \in BOOLEAN
    BY <1>1, Zenon DEF Find, TypeOK
  <2>2. /\ data' \in Seq(Byte) /\ pos' \in 0..Len(data') /\ skipped' \in Nat
        /\ syncLosses' \in Nat /\ fed' \in Seq(Byte) /\ emitted' \in Seq(Byte)
    BY <1>1, <1>2, <1>4, <1>5, LengthsInNat DEF TypeOK
  <2>3. QED
    BY <2>1, <2>2, Zenon DEF TypeOK
<1>7. Accounted'
  <2>1. /\ Len(fed') = Len(fed) /\ Len(emitted') = Len(emitted)
        /\ Len(data') = Len(data) /\ syncLosses' = syncLosses
    BY <1>5
  <2>2. skipped' = skipped + (i - pos) /\ pos' = i /\ i \in Int
    BY <1>1, <1>2, <1>4, LengthsInNat
  <2>3. Len(fed) = Len(emitted) + skipped + syncLosses + Len(data) - pos
    BY <1>1 DEF Accounted
  <2>4. /\ Len(data) \in Int /\ Len(fed) \in Int /\ Len(emitted) \in Int
        /\ pos \in Int /\ skipped \in Int /\ syncLosses \in Int
    BY <1>1, LengthsInNat
  <2>5. QED
    BY <2>1, <2>2, <2>3, <2>4 DEF Accounted
<1>8. AtFront' /\ PendingIsBounded'
  <2>1. busy'
    BY <1>1, Zenon DEF Find, TypeOK
  <2>2. QED
    BY <2>1, Zenon DEF AtFront, PendingIsBounded
<1>9. QED
  BY <1>6, <1>7, <1>8, Zenon DEF AlignerInv

\* Keep(p) drops the p bytes in front.
LEMMA KeepStep ==
  ASSUME TypeOK, NEW p \in 0..Len(data), Keep(p)
  PROVE  data' \in Seq(Byte) /\ Len(data') = Len(data) - p /\ pos' = 0 /\ busy' = FALSE
<1>1. data \in Seq(Byte)
  BY DEF TypeOK
<1>2. data' = SubSeq(data, p + 1, Len(data))
  BY Zenon DEF Keep
<1>3. pos' = 0 /\ busy' = FALSE
  BY Zenon DEF Keep
<1>4. data' \in Seq(Byte) /\ Len(data') = Len(data) - p
  BY <1>1, <1>2, KeepLength
<1>5. QED
  BY <1>3, <1>4, Zenon

\* A call that ends leaves the rest; the account has to change by what it says.
LEMMA ReturnStep ==
  ASSUME AlignerInv, NEW p \in pos..Len(data), Keep(p),
         UNCHANGED <<syncLosses, fed>>,
         emitted' \in Seq(Byte), skipped' \in Nat, locked' \in BOOLEAN,
         Len(emitted') + skipped' = Len(emitted) + skipped + (p - pos),
         Len(data) - p < IF locked' THEN PacketSize ELSE PacketSize * SyncConfirm + 1
  PROVE  AlignerInv'
<1>1. TypeOK /\ Accounted
  BY DEF AlignerInv
<1>2. p \in 0..Len(data)
  BY <1>1, LengthsInNat
<1>3. data' \in Seq(Byte) /\ Len(data') = Len(data) - p /\ pos' = 0 /\ busy' = FALSE
  BY <1>1, <1>2, KeepStep
<1>4. /\ data' \in Seq(Byte) /\ pos' \in 0..Len(data') /\ skipped' \in Nat
      /\ syncLosses' \in Nat /\ fed' \in Seq(Byte) /\ emitted' \in Seq(Byte)
  BY <1>1, <1>2, <1>3, LengthsInNat DEF TypeOK
<1>5. TypeOK'
  BY <1>3, <1>4, Zenon DEF TypeOK
<1>6. Accounted'
  <2>1. Len(emitted') \in Nat
    BY LenProperties
  <2>2. pos' = 0 /\ Len(data') = Len(data) - p /\ p \in Int
    BY <1>1, <1>2, <1>3, LengthsInNat
  <2>3. Len(fed') = Len(fed) /\ syncLosses' = syncLosses
    OBVIOUS
  <2>4. Len(fed) = Len(emitted) + skipped + syncLosses + Len(data) - pos
    BY <1>1 DEF Accounted
  <2>5. /\ Len(data) \in Int /\ Len(fed) \in Int /\ Len(emitted) \in Int
        /\ pos \in Int /\ skipped \in Int /\ syncLosses \in Int /\ skipped' \in Int
    BY <1>1, LengthsInNat
  <2>6. Len(emitted') + skipped' = Len(emitted) + skipped + (p - pos)
    OBVIOUS
  <2>7. QED
    BY <2>1, <2>2, <2>3, <2>4, <2>5, <2>6 DEF Accounted
<1>7. AtFront'
  BY <1>3, Zenon DEF AtFront
<1>8. PendingIsBounded'
  BY <1>3 DEF PendingIsBounded
<1>9. QED
  BY <1>5, <1>6, <1>7, <1>8, Zenon DEF AlignerInv

LEMMA FindNothingStep ==
  ASSUME AlignerInv, FindNothing
  PROVE  AlignerInv'
<1> DEFINE tail == Len(data) - PacketSize * SyncConfirm
           keep == IF tail > pos THEN tail ELSE pos
<1>1. TypeOK
  BY DEF AlignerInv
<1>2. Keep(keep) /\ skipped' = skipped + (keep - pos)
  BY DEF FindNothing
<1>3. PacketSize * SyncConfirm \in Nat
  BY <1>1, LengthsInNat, ProductInNat
<1>4. keep \in pos..Len(data) /\ Len(data) - keep < PacketSize * SyncConfirm + 1
  BY <1>1, <1>3, LengthsInNat
<1>5. UNCHANGED <<syncLosses, fed>> /\ emitted' = emitted
  BY DEF FindNothing
<1>6. ~locked' /\ locked' \in BOOLEAN
  BY <1>1, Zenon DEF FindNothing, TypeOK
<1> HIDE DEF keep
<1>7. emitted' \in Seq(Byte) /\ skipped' \in Nat
  BY <1>1, <1>2, <1>4, <1>5, LengthsInNat DEF TypeOK
<1>8. Len(emitted') + skipped' = Len(emitted) + skipped + (keep - pos)
  BY <1>1, <1>2, <1>4, <1>5, LengthsInNat
<1>9. Len(data) - keep < IF locked' THEN PacketSize ELSE PacketSize * SyncConfirm + 1
  BY <1>4, <1>6
<1>10. QED
  BY <1>2, <1>4, <1>5, <1>6, <1>7, <1>8, <1>9, ReturnStep

\* Whole packets from pos on lie inside the data.
LEMMA PacketsInside ==
  ASSUME TypeOK, NEW n \in 0..Count
  PROVE  /\ Count \in Nat
         /\ pos + n * PacketSize \in pos..Len(data)
         /\ Len(data) - (pos + Count * PacketSize) < PacketSize
<1>1. Len(data) - pos \in Nat /\ PacketSize \in Nat \ {0} /\ pos \in Nat /\ Len(data) \in Nat
  BY LengthsInNat
<1>2. /\ Count \in Nat /\ Count * PacketSize <= Len(data) - pos
      /\ Len(data) - pos < Count * PacketSize + PacketSize
  BY <1>1, DivBounds DEF Count
<1>3. n * PacketSize \in Nat /\ n * PacketSize <= Count * PacketSize /\ Count * PacketSize \in Nat
  <2>1. n \in Nat
    BY <1>2
  <2>2. n * PacketSize \in Nat /\ Count * PacketSize \in Nat
    BY <1>1, <1>2, <2>1, ProductInNat
  <2>3. CASE n = Count
    BY <2>2, <2>3
  <2>4. CASE n < Count
    <3>1. n * PacketSize + PacketSize <= Count * PacketSize
      BY <1>1, <1>2, <2>1, <2>4, FewerPackets
    <3>2. QED
      BY <1>1, <2>2, <3>1
  <2>5. QED
    BY <1>2, <2>1, <2>3, <2>4
<1>4. QED
  BY <1>1, <1>2, <1>3

\* Returning n packets adds their bytes to what has been returned.
LEMMA EmitStep ==
  ASSUME TypeOK, NEW n \in 0..Count, emitted' = emitted \o Packets(n)
  PROVE  /\ emitted' \in Seq(Byte)
         /\ Len(emitted') = Len(emitted) + n * PacketSize
<1>1. /\ pos + n * PacketSize \in pos..Len(data) /\ pos \in 0..Len(data)
      /\ data \in Seq(Byte) /\ emitted \in Seq(Byte)
  BY PacketsInside DEF TypeOK
<1>2. Packets(n) \in Seq(Byte) /\ Len(Packets(n)) = (pos + n * PacketSize) - pos
  <2> DEFINE q == pos + n * PacketSize
  <2>1. q \in pos..Len(data) /\ Packets(n) = SubSeq(data, pos + 1, q)
    BY <1>1 DEF Packets
  <2>2. SUFFICES Packets(n) \in Seq(Byte) /\ Len(Packets(n)) = q - pos
    OBVIOUS
  <2> HIDE DEF q
  <2>3. QED
    BY <1>1, <2>1, CutBytes
<1>3. /\ emitted \o Packets(n) \in Seq(Byte)
      /\ Len(emitted \o Packets(n)) = Len(emitted) + Len(Packets(n))
  BY <1>1, <1>2, ConcatProperties
<1>4. n * PacketSize \in Nat /\ pos \in Nat
  <2>1. n \in Nat
    BY PacketsInside
  <2>2. QED
    BY <2>1, LengthsInNat, ProductInNat
<1>5. Len(Packets(n)) = n * PacketSize
  BY <1>2, <1>4
<1>6. QED
  BY <1>3, <1>5

LEMMA CutAllStep ==
  ASSUME AlignerInv, CutAll
  PROVE  AlignerInv'
<1> DEFINE p == pos + Count * PacketSize
<1>1. TypeOK
  BY DEF AlignerInv
<1>2. Count \in Nat /\ Count \in 0..Count
  <2>1. Len(data) - pos \in Nat /\ PacketSize \in Nat \ {0}
    BY <1>1, LengthsInNat
  <2>2. QED
    BY <2>1, DivBounds DEF Count
<1>3. Keep(p) /\ emitted' = emitted \o Packets(Count)
  BY DEF CutAll
<1>4. /\ UNCHANGED <<syncLosses, fed>> /\ skipped' = skipped
  BY DEF CutAll
<1>5. locked' /\ locked' \in BOOLEAN
  BY <1>1, Zenon DEF CutAll, TypeOK
<1>6. /\ p \in pos..Len(data)
      /\ Len(data) - p < PacketSize
  BY <1>1, <1>2, PacketsInside
<1>7. /\ emitted' \in Seq(Byte)
      /\ Len(emitted') = Len(emitted) + Count * PacketSize
  BY <1>1, <1>2, <1>3, EmitStep
<1>8. skipped' \in Nat
  BY <1>1, <1>4, LengthsInNat
<1>9. Len(emitted') + skipped' = Len(emitted) + skipped + (p - pos)
  <2>1. Count * PacketSize \in Nat
    BY <1>1, <1>2, LengthsInNat, ProductInNat
  <2>2. /\ Len(emitted) \in Nat /\ pos \in Nat /\ skipped \in Nat
    BY <1>1, LengthsInNat
  <2>3. QED
    BY <1>4, <1>7, <2>1, <2>2
<1> HIDE DEF p
<1>10. Len(data) - p < IF locked' THEN PacketSize ELSE PacketSize * SyncConfirm + 1
  BY <1>5, <1>6
<1>11. QED
  BY <1>3, <1>4, <1>5, <1>6, <1>7, <1>8, <1>9, <1>10, ReturnStep

LEMMA LoseSyncStep ==
  ASSUME AlignerInv, LoseSync
  PROVE  AlignerInv'
<1>1. TypeOK /\ Accounted
  BY DEF AlignerInv
<1> DEFINE len(n) == n * PacketSize
<1>2. PICK good \in 0..(Count - 1) :
        /\ emitted' = emitted \o Packets(good)
        /\ pos' = pos + len(good) + 1
  BY DEF LoseSync
<1>3. /\ syncLosses' = syncLosses + 1
      /\ UNCHANGED <<data, skipped, fed>>
  BY DEF LoseSync
<1>4. Count \in Nat /\ good \in Nat /\ good < Count
  <2>1. Len(data) - pos \in Nat /\ PacketSize \in Nat \ {0}
    BY <1>1, LengthsInNat
  <2>2. Count \in Nat
    BY <2>1, DivBounds DEF Count
  <2>3. QED
    BY <1>2, <2>2
<1>5. emitted' \in Seq(Byte) /\ Len(emitted') = Len(emitted) + len(good)
  <2>1. good \in 0..Count
    BY <1>4
  <2>2. QED
    BY <1>1, <1>2, <2>1, EmitStep
<1>6. len(good) \in Nat /\ len(Count) \in Nat
  BY <1>1, <1>4, LengthsInNat, ProductInNat
<1>7. len(good) + PacketSize <= len(Count)
  BY <1>1, <1>4, LengthsInNat, FewerPackets
<1>8. pos + len(Count) \in pos..Len(data)
  BY <1>1, <1>4, PacketsInside
<1> HIDE DEF len
<1>9. pos' \in 0..Len(data)
  <2>1. /\ pos \in Nat /\ Len(data) \in Nat
        /\ PacketSize \in Nat /\ PacketSize > 0
    BY <1>1, LengthsInNat
  <2>2. QED
    BY <1>2, <1>6, <1>7, <1>8, <2>1
<1>10. busy' /\ busy' \in BOOLEAN /\ locked' \in BOOLEAN
  BY <1>1, Zenon DEF LoseSync, TypeOK
<1>11. TypeOK'
  <2>1. /\ data' \in Seq(Byte) /\ pos' \in 0..Len(data') /\ skipped' \in Nat
        /\ syncLosses' \in Nat /\ fed' \in Seq(Byte)
    BY <1>1, <1>3, <1>9 DEF TypeOK
  <2>2. QED
    BY <1>5, <1>10, <2>1, Zenon DEF TypeOK
<1>12. Accounted'
  <2>1. /\ Len(fed') = Len(fed) /\ skipped' = skipped /\ Len(data') = Len(data)
        /\ syncLosses' = syncLosses + 1
    BY <1>3
  <2>2. PICK g \in Int : Len(emitted') = Len(emitted) + g /\ pos' = pos + g + 1
    BY <1>2, <1>5, <1>6
  <2>3. Len(fed) = Len(emitted) + skipped + syncLosses + Len(data) - pos
    BY <1>1 DEF Accounted
  <2>4. /\ Len(data) \in Int /\ Len(fed) \in Int /\ Len(emitted) \in Int
        /\ pos \in Int /\ skipped \in Int /\ syncLosses \in Int
    BY <1>1, LengthsInNat
  <2>5. QED
    BY <2>1, <2>2, <2>3, <2>4 DEF Accounted
<1>13. AtFront' /\ PendingIsBounded'
  BY <1>10, Zenon DEF AtFront, PendingIsBounded
<1>14. QED
  BY <1>11, <1>12, <1>13, Zenon DEF AlignerInv

LEMMA AlignerStep == AlignerInv /\ [Next]_vars => AlignerInv'
<1> SUFFICES ASSUME AlignerInv, [Next]_vars PROVE AlignerInv'
  OBVIOUS
<1>1. ASSUME NEW chunk \in Chunks, Feed(chunk) PROVE AlignerInv'
  BY <1>1, FeedStep
<1>2. CASE Find
  BY <1>2, FindStep
<1>3. CASE FindNothing
  BY <1>3, FindNothingStep
<1>4. CASE CutAll
  BY <1>4, CutAllStep
<1>5. CASE LoseSync
  BY <1>5, LoseSyncStep
<1>6. CASE UNCHANGED vars
  <2>1. /\ data' = data /\ pos' = pos /\ busy' = busy /\ locked' = locked
        /\ syncLosses' = syncLosses /\ skipped' = skipped
        /\ fed' = fed /\ emitted' = emitted
    BY <1>6, Zenon DEF vars
  <2>2. TypeOK' /\ Accounted'
    BY <2>1, Zenon DEF AlignerInv, TypeOK, Accounted
  <2>3. AtFront' /\ PendingIsBounded'
    BY <2>1, Zenon DEF AlignerInv, AtFront, PendingIsBounded
  <2>4. QED
    BY <2>2, <2>3, Zenon DEF AlignerInv
<1>7. QED
  BY <1>1, <1>2, <1>3, <1>4, <1>5, <1>6 DEF Next

LEMMA AlignerInit == Init => AlignerInv
<1> SUFFICES ASSUME Init PROVE AlignerInv
  OBVIOUS
<1>1. /\ data = <<>> /\ pos = 0 /\ fed = <<>> /\ emitted = <<>>
      /\ skipped = 0 /\ syncLosses = 0
  BY DEF Init
<1>2. busy = FALSE /\ locked = FALSE
  BY Zenon DEF Init
<1>3. <<>> \in Seq(Byte) /\ Len(<<>>) = 0
  BY EmptySeq
<1>4. TypeOK
  <2>1. pos \in 0..Len(data) /\ skipped \in Nat /\ syncLosses \in Nat
    BY <1>1, <1>3
  <2>2. busy \in BOOLEAN /\ locked \in BOOLEAN
    BY <1>2, Zenon
  <2>3. QED
    BY <1>1, <1>3, <2>1, <2>2, Zenon DEF TypeOK
<1>5. Accounted
  BY <1>1, <1>3 DEF Accounted
<1>6. AtFront
  BY <1>1, Zenon DEF AtFront
<1>7. PendingIsBounded
  <2>1. PacketSize * SyncConfirm \in Nat
    BY AlignerAssumption, ProductInNat
  <2>2. QED
    BY <1>1, <1>3, <2>1, AlignerAssumption DEF PendingIsBounded
<1>8. QED
  BY <1>4, <1>5, <1>6, <1>7, Zenon DEF AlignerInv

LEMMA AlignerInvariant == Spec => []AlignerInv
  BY AlignerInit, AlignerStep, PTL DEF Spec

-----------------------------------------------------------------------------

\* The state of the aligner keeps its types; feed() never goes on behind the
\* end of the data.
THEOREM AlignerTyped == Spec => []TypeOK
<1>1. AlignerInv => TypeOK
  BY DEF AlignerInv
<1>2. QED
  BY <1>1, AlignerInvariant, PTL

\* feed() accounts for every byte: returned, skipped, stepped over by a loss of
\* sync, or still waiting.
THEOREM AlignerAccounts == Spec => []Accounted
<1>1. AlignerInv => Accounted
  BY DEF AlignerInv
<1>2. QED
  BY <1>1, AlignerInvariant, PTL

\* _pending stays bounded between the calls of feed(), in sync or out of it.
THEOREM AlignerBounded == Spec => []PendingIsBounded
<1>1. AlignerInv => PendingIsBounded
  BY DEF AlignerInv
<1>2. QED
  BY <1>1, AlignerInvariant, PTL

-----------------------------------------------------------------------------
(* What is returned                                                         *)

\* What waits is the end of the stream, byte by byte.
DataIsTail ==
    \A i \in 1..Len(data) : Position(data[i]) = Len(fed) - Len(data) + i

\* The position in the stream that feed() has reached.
Reached == Len(fed) - Len(data) + pos

LEMMA PositionIsInt ==
  ASSUME NEW b \in Int
  PROVE  Position(b) \in Int
BY DEF Position

\* What has been returned lies before it.
Behind == \A i \in 1..Len(emitted) : Position(emitted[i]) <= Reached

StreamInv == DataIsTail /\ Behind /\ WholePackets

\* The bytes that are returned, and where they lie in the stream.
LEMMA EmittedBytes ==
  ASSUME TypeOK, DataIsTail, NEW n \in 0..Count, emitted' = emitted \o Packets(n)
  PROVE  /\ Len(emitted') = Len(emitted) + n * PacketSize
         /\ n * PacketSize \in Nat /\ n \in Nat
         /\ \A i \in 1..Len(emitted) : emitted'[i] = emitted[i]
         /\ \A j \in 1..(n * PacketSize) :
               /\ emitted'[Len(emitted) + j] = data[pos + j]
               /\ Position(emitted'[Len(emitted) + j]) = Reached + j
<1> DEFINE w == n * PacketSize
<1>1. w \in Nat /\ pos + w \in pos..Len(data) /\ n \in Nat
  <2>1. n \in Nat
    BY PacketsInside
  <2>2. QED
    BY <2>1, LengthsInNat, ProductInNat, PacketsInside
<1>2. Packets(n) = SubSeq(data, pos + 1, pos + w)
  BY DEF Packets
<1>3. Len(emitted') = Len(emitted) + w
  BY EmitStep
<1> HIDE DEF w
<1>4. /\ data \in Seq(Byte) /\ emitted \in Seq(Byte) /\ Len(data) \in Nat
      /\ pos \in Nat /\ Len(emitted) \in Nat /\ Len(fed) \in Nat
  BY LengthsInNat DEF TypeOK
<1>5. /\ Packets(n) \in Seq(Byte) /\ Len(Packets(n)) = w
      /\ \A j \in 1..w : Packets(n)[j] = data[pos + j]
  <2>1. PICK q \in pos..Len(data) : q = pos + w
    BY <1>1
  <2>2. pos \in 0..Len(data) /\ q - pos = w
    BY <1>1, <1>4, <2>1
  <2>3. /\ SubSeq(data, pos + 1, q) \in Seq(Byte)
        /\ Len(SubSeq(data, pos + 1, q)) = q - pos
        /\ \A j \in 1..(q - pos) : SubSeq(data, pos + 1, q)[j] = data[pos + j]
    BY <1>4, <2>2, CutBytes
  <2>4. Packets(n) = SubSeq(data, pos + 1, q)
    BY <1>2, <2>1
  <2>5. QED
    BY <2>2, <2>3, <2>4
<1>6. /\ \A i \in 1..Len(emitted) : emitted'[i] = emitted[i]
      /\ \A j \in 1..w : emitted'[Len(emitted) + j] = Packets(n)[j]
  BY <1>4, <1>5, ConcatBytes
<1>7. ASSUME NEW j \in 1..w
      PROVE  /\ emitted'[Len(emitted) + j] = data[pos + j]
             /\ Position(emitted'[Len(emitted) + j]) = Reached + j
  <2>1. emitted'[Len(emitted) + j] = data[pos + j]
    BY <1>5, <1>6
  <2>2. Position(data[pos + j]) = Len(fed) - Len(data) + (pos + j)
    <3>1. pos + j \in 1..Len(data)
      BY <1>1, <1>4
    <3>2. QED
      BY <3>1 DEF DataIsTail
  <2>3. Len(fed) - Len(data) + (pos + j) = Reached + j
    BY <1>1, <1>4 DEF Reached
  <2>4. QED
    BY <2>1, <2>2, <2>3
<1>8. QED
  BY <1>1, <1>3, <1>6, <1>7 DEF w

\* Packets that start with a sync byte and lie behind all that has been returned
\* may be returned next.
LEMMA EmittedWhole ==
  ASSUME TypeOK, StreamInv, NEW n \in 0..Count, emitted' = emitted \o Packets(n),
         \A k \in 0..(n - 1) : StartsWithSync(k)
  PROVE  /\ WholePackets'
         /\ \A i \in 1..Len(emitted') : Position(emitted'[i]) <= Reached + n * PacketSize
<1> DEFINE w == n * PacketSize  L == Len(emitted)  P == PacketSize
<1>1. /\ Len(emitted') = L + w /\ w \in Nat /\ n \in Nat
      /\ \A i \in 1..L : emitted'[i] = emitted[i]
      /\ \A j \in 1..w : /\ emitted'[L + j] = data[pos + j]
                         /\ Position(emitted'[L + j]) = Reached + j
  BY EmittedBytes DEF StreamInv
<1>2. /\ L \in Nat /\ P \in Nat \ {0} /\ pos \in Nat /\ Reached \in Int
      /\ emitted' \in Seq(Byte) /\ DOMAIN emitted' = 1..(L + w)
      /\ DOMAIN emitted = 1..L
  <2>1. emitted' \in Seq(Byte) /\ emitted \in Seq(Byte)
    BY EmitStep DEF TypeOK
  <2>2. DOMAIN emitted' = 1..Len(emitted') /\ DOMAIN emitted = 1..Len(emitted)
    BY <2>1, LenProperties
  <2>3. L \in Nat /\ P \in Nat \ {0} /\ pos \in Nat /\ Reached \in Int
    BY LengthsInNat DEF Reached
  <2>4. QED
    BY <1>1, <2>1, <2>2, <2>3
<1>3. /\ L % P = 0
      /\ \A i \in 1..L :
            /\ i % P = 1 % P => IsSync(emitted[i])
            /\ i > 1 => IF i % P = 1 % P
                          THEN Position(emitted[i]) > Position(emitted[i - 1])
                          ELSE Position(emitted[i]) = Position(emitted[i - 1]) + 1
      /\ \A i \in 1..L : Position(emitted[i]) <= Reached
  BY <1>2 DEF StreamInv, WholePackets, Behind
<1>4. \A j \in Nat : (L + j) % P = j % P
  BY <1>2, <1>3, ModShift
<1>5. (L + w) % P = 0
  <2>1. w % P = 0
    BY <1>1, <1>2, WholeMod
  <2>2. QED
    BY <1>1, <1>4, <2>1
<1>6. ASSUME NEW j \in 1..w, j % P = 1 % P
      PROVE  IsSync(data[pos + j])
  <2>1. PICK k \in Nat : j = k * P + 1
    <3>1. j \in Nat \ {0}
      BY <1>1
    <3>2. QED
      BY <1>2, <1>6, <3>1, FirstByte
  <2>2. k < n
    <3>1. k * P + 1 <= n * P
      BY <1>1, <2>1
    <3>2. QED
      BY <1>1, <1>2, <3>1, WithinPackets
  <2>3. StartsWithSync(k)
    BY <1>1, <2>2
  <2>4. pos + k * P + 1 = pos + j
    <3>1. k * P \in Nat
      BY <1>2, ProductInNat
    <3>2. QED
      BY <1>2, <2>1, <3>1
  <2>5. QED
    BY <2>3, <2>4 DEF StartsWithSync
<1> HIDE DEF w, L
<1>7. \A i \in 1..(L + w) : i % P = 1 % P => IsSync(emitted'[i])
  <2>1. ASSUME NEW i \in 1..(L + w), i % P = 1 % P PROVE IsSync(emitted'[i])
    <3>1. CASE i <= L
      BY <1>1, <1>2, <1>3, <2>1, <3>1
    <3>2. CASE ~(i <= L)
      <4>1. PICK j \in 1..w : i = L + j
        <5>1. i - L \in 1..w /\ i = L + (i - L)
          BY <1>1, <1>2, <3>2
        <5>2. QED
          BY <5>1
      <4>2. j % P = 1 % P
        BY <1>4, <2>1, <4>1
      <4>3. QED
        BY <1>1, <1>6, <4>1, <4>2
    <3>3. QED
      BY <3>1, <3>2
  <2>2. QED
    BY <2>1
<1>8. \A i \in 1..(L + w) :
        i > 1 => IF i % P = 1 % P
                   THEN Position(emitted'[i]) > Position(emitted'[i - 1])
                   ELSE Position(emitted'[i]) = Position(emitted'[i - 1]) + 1
  <2>1. SUFFICES ASSUME NEW i \in 1..(L + w), i > 1
                 PROVE  IF i % P = 1 % P
                          THEN Position(emitted'[i]) > Position(emitted'[i - 1])
                          ELSE Position(emitted'[i]) = Position(emitted'[i - 1]) + 1
    OBVIOUS
  <2>2. CASE i <= L
    <3>1. i \in 1..L /\ i - 1 \in 1..L
      BY <1>1, <1>2, <2>1, <2>2
    <3>2. emitted'[i] = emitted[i] /\ emitted'[i - 1] = emitted[i - 1]
      BY <1>1, <3>1
    <3>3. QED
      BY <1>3, <2>1, <3>1, <3>2
  <2>3. CASE i = L + 1
    <3>1. 1 \in 1..w /\ L \in 1..L
      BY <1>1, <1>2, <2>1, <2>3
    <3>2. Position(emitted'[i]) = Reached + 1
      BY <1>1, <2>3, <3>1
    <3>3. Position(emitted'[i - 1]) <= Reached
      <4>1. i - 1 = L /\ emitted'[L] = emitted[L]
        BY <1>1, <1>2, <2>3, <3>1
      <4>2. Position(emitted[L]) <= Reached
        BY <1>3, <3>1
      <4>3. QED
        BY <4>1, <4>2
    <3>4. i % P = 1 % P
      BY <1>4, <2>3
    <3>5. Position(emitted'[i - 1]) \in Int
      <4>1. i - 1 \in 1..(L + w)
        BY <1>1, <1>2, <2>1
      <4>2. emitted'[i - 1] \in Int
        BY <1>1, <1>2, <4>1, ElementOfSeq DEF Byte, L
      <4>3. QED
        BY <4>2, PositionIsInt
    <3>6. Position(emitted'[i]) > Position(emitted'[i - 1])
      <4>1. PICK x \in Int : x = Position(emitted'[i - 1])
        BY <3>5
      <4>2. x <= Reached /\ Reached \in Int
        BY <1>2, <3>3, <4>1
      <4>3. Reached + 1 > x
        BY <4>2
      <4>4. QED
        BY <3>2, <4>1, <4>3
    <3>7. QED
      BY <3>4, <3>6, Zenon
  <2>4. CASE i > L + 1
    <3>1. PICK j \in 2..w : i = L + j
      <4>1. i - L \in 2..w /\ i = L + (i - L)
        BY <1>1, <1>2, <2>1, <2>4
      <4>2. QED
        BY <4>1
    <3>2. j \in 1..w /\ j - 1 \in 1..w /\ i - 1 = L + (j - 1)
      BY <1>1, <1>2, <3>1
    <3>3. /\ Position(emitted'[i]) = Reached + j
          /\ Position(emitted'[i - 1]) = Reached + (j - 1)
      BY <1>1, <3>1, <3>2
    <3>4. QED
      BY <1>2, <3>2, <3>3
  <2>5. QED
    BY <1>1, <1>2, <2>1, <2>2, <2>3, <2>4
<1>9. \A i \in 1..(L + w) : Position(emitted'[i]) <= Reached + w
  <2>1. SUFFICES ASSUME NEW i \in 1..(L + w) PROVE Position(emitted'[i]) <= Reached + w
    OBVIOUS
  <2>2. CASE i <= L
    <3>1. i \in 1..L
      BY <1>1, <1>2, <2>2
    <3>2. emitted'[i] = emitted[i] /\ Position(emitted[i]) <= Reached
      BY <1>1, <1>3, <3>1
    <3>3. Position(emitted'[i]) \in Int
      <4>1. emitted'[i] \in Int
        BY <1>1, <1>2, ElementOfSeq DEF Byte, L
      <4>2. QED
        BY <4>1, PositionIsInt
    <3>4. QED
      BY <1>1, <1>2, <3>2, <3>3
  <2>3. CASE ~(i <= L)
    <3>1. PICK j \in 1..w : i = L + j
      <4>1. i - L \in 1..w /\ i = L + (i - L)
        BY <1>1, <1>2, <2>3
      <4>2. QED
        BY <4>1
    <3>2. Position(emitted'[i]) = Reached + j
      BY <1>1, <3>1
    <3>3. QED
      BY <1>1, <1>2, <3>2
  <2>4. QED
    BY <2>2, <2>3
<1>10. QED
  BY <1>1, <1>2, <1>5, <1>7, <1>8, <1>9 DEF WholePackets, w, L

\* Dropping bytes in front leaves the end of the stream.
LEMMA KeepTail ==
  ASSUME TypeOK, DataIsTail, NEW p \in pos..Len(data), Keep(p), UNCHANGED fed
  PROVE  DataIsTail' /\ Reached' = Len(fed) - Len(data) + p
<1>1. /\ data \in Seq(Byte) /\ Len(data) \in Nat /\ Len(fed) \in Nat
      /\ p \in 0..Len(data) /\ p \in Nat
  BY LengthsInNat DEF TypeOK
<1>2. Len(data') = Len(data) - p /\ pos' = 0
  BY <1>1, KeepStep
<1>3. \A j \in 1..(Len(data) - p) : data'[j] = data[p + j]
  <2>1. data' = SubSeq(data, p + 1, Len(data))
    BY Zenon DEF Keep
  <2>2. Len(data) \in p..Len(data)
    BY <1>1
  <2>3. QED
    BY <1>1, <2>1, <2>2, CutBytes
<1>4. ASSUME NEW i \in 1..Len(data')
      PROVE  Position(data'[i]) = Len(fed') - Len(data') + i
  <2>1. p + i \in 1..Len(data) /\ i \in 1..(Len(data) - p)
    BY <1>1, <1>2
  <2>2. Position(data[p + i]) = Len(fed) - Len(data) + (p + i)
    BY <2>1 DEF DataIsTail
  <2>3. Position(data'[i]) = Len(fed) - Len(data) + (p + i)
    BY <1>3, <2>1, <2>2
  <2>4. Len(fed') = Len(fed) /\ i \in Int
    BY <2>1
  <2>5. Len(fed) - Len(data) + (p + i) = Len(fed') - Len(data') + i
    BY <1>1, <1>2, <2>4
  <2>6. QED
    BY <2>3, <2>5
<1>5. Reached' = Len(fed) - Len(data) + p
  <2>1. Len(fed') = Len(fed)
    OBVIOUS
  <2>2. QED
    BY <1>1, <1>2, <2>1 DEF Reached
<1>6. QED
  BY <1>4, <1>5 DEF DataIsTail

\* What has been returned stays whole and behind as long as feed() goes on.
LEMMA NothingEmitted ==
  ASSUME TypeOK, StreamInv, UNCHANGED emitted, Reached' \in Int, Reached' >= Reached
  PROVE  WholePackets' /\ Behind'
<1>1. WholePackets'
  BY DEF StreamInv, WholePackets
<1>2. ASSUME NEW i \in 1..Len(emitted) PROVE Position(emitted[i]) <= Reached'
  <2>1. emitted[i] \in Int
    BY ElementOfSeq DEF TypeOK, Byte
  <2>2. PICK x \in Int : x = Position(emitted[i])
    BY <2>1, PositionIsInt
  <2>3. x <= Reached /\ Reached \in Int
    BY <2>2, LengthsInNat DEF StreamInv, Behind, Reached
  <2>4. x <= Reached'
    BY <2>3
  <2>5. QED
    BY <2>2, <2>4
<1>3. QED
  BY <1>1, <1>2 DEF Behind

LEMMA StreamFeed ==
  ASSUME TypeOK, StreamInv, NEW chunk \in Chunks, Feed(chunk)
  PROVE  StreamInv'
<1>1. chunk \in Seq(Byte) /\ Len(chunk) \in Nat
  BY LengthsInNat, ChunkTyped, LenProperties
<1>2. /\ data \in Seq(Byte) /\ fed \in Seq(Byte)
      /\ Len(data) \in Nat /\ Len(fed) \in Nat /\ pos \in Nat
  BY LengthsInNat DEF TypeOK
<1>3. data' = data \o chunk /\ fed' = fed \o chunk /\ pos' = pos /\ emitted' = emitted
  BY DEF Feed
<1>4. Len(data') = Len(data) + Len(chunk) /\ Len(fed') = Len(fed) + Len(chunk)
  BY <1>1, <1>2, <1>3, ConcatProperties
<1>5. Reached' = Reached /\ Reached' \in Int
  BY <1>1, <1>2, <1>3, <1>4 DEF Reached
<1>6. \A j \in 1..Len(chunk) : Position(chunk[j]) = Len(fed) + j
  <2>1. PICK k \in 0..MaxChunk : \E s \in SUBSET (1..k) :
          chunk = [i \in 1..k |-> IF i \in s THEN Len(fed) + i ELSE -(Len(fed) + i)]
    BY ChunkForm
  <2>2. PICK s \in SUBSET (1..k) :
          chunk = [i \in 1..k |-> IF i \in s THEN Len(fed) + i ELSE -(Len(fed) + i)]
    BY <2>1
  <2>3. k \in Nat
    BY <2>1, AlignerAssumption
  <2>4. DOMAIN chunk = 1..Len(chunk) /\ DOMAIN chunk = 1..k
    BY <1>1, <2>2, LenProperties
  <2>5. ASSUME NEW j \in 1..Len(chunk) PROVE Position(chunk[j]) = Len(fed) + j
    <3>1. j \in 1..k /\ Len(fed) + j > 0
      BY <1>2, <2>3, <2>4
    <3>2. chunk[j] = IF j \in s THEN Len(fed) + j ELSE -(Len(fed) + j)
      BY <2>2, <3>1
    <3>3. QED
      BY <1>2, <3>1, <3>2 DEF Position
  <2>6. QED
    BY <2>5
<1>7. /\ \A i \in 1..Len(data) : data'[i] = data[i]
      /\ \A j \in 1..Len(chunk) : data'[Len(data) + j] = chunk[j]
  BY <1>1, <1>2, <1>3, ConcatBytes
<1>8. ASSUME NEW i \in 1..Len(data')
      PROVE  Position(data'[i]) = Len(fed') - Len(data') + i
  <2>1. Len(fed') - Len(data') + i = Len(fed) - Len(data) + i
    BY <1>1, <1>2, <1>4
  <2>2. CASE i <= Len(data)
    <3>1. i \in 1..Len(data)
      BY <1>1, <1>2, <1>4, <2>2
    <3>2. Position(data[i]) = Len(fed) - Len(data) + i
      BY <3>1 DEF StreamInv, DataIsTail
    <3>3. QED
      BY <1>7, <2>1, <3>1, <3>2
  <2>3. CASE ~(i <= Len(data))
    <3>1. PICK j \in 1..Len(chunk) : i = Len(data) + j
      <4>1. i - Len(data) \in 1..Len(chunk) /\ i = Len(data) + (i - Len(data))
        BY <1>1, <1>2, <1>4, <2>3
      <4>2. QED
        BY <4>1
    <3>2. Position(data'[i]) = Len(fed) + j
      BY <1>6, <1>7, <3>1
    <3>3. Len(fed) + j = Len(fed) - Len(data) + i
      BY <1>1, <1>2, <3>1
    <3>4. QED
      BY <2>1, <3>2, <3>3
  <2>4. QED
    BY <2>2, <2>3
<1>9. WholePackets' /\ Behind'
  <2>1. Reached' >= Reached
    BY <1>5
  <2>2. QED
    BY <1>3, <1>5, <2>1, NothingEmitted
<1>10. QED
  BY <1>8, <1>9 DEF StreamInv, DataIsTail

LEMMA StreamStep == TypeOK /\ StreamInv /\ [Next]_vars => StreamInv'
<1> SUFFICES ASSUME TypeOK, StreamInv, [Next]_vars PROVE StreamInv'
  OBVIOUS
<1>0. /\ pos \in Nat /\ Len(data) \in Nat /\ Len(fed) \in Nat /\ pos <= Len(data)
      /\ PacketSize \in Nat
  BY LengthsInNat
<1>1. ASSUME NEW chunk \in Chunks, Feed(chunk) PROVE StreamInv'
  BY <1>1, StreamFeed
<1>2. CASE Find
  <2>1. PICK i \in Candidates : pos' = i
    BY <1>2 DEF Find
  <2>2. UNCHANGED <<data, fed, emitted>>
    BY <1>2 DEF Find
  <2>3. PacketSize * (SyncConfirm - 1) \in Nat
    BY LengthsInNat, ProductInNat
  <2>4. i \in Int /\ i >= pos
    BY <1>0, <2>1, <2>3 DEF Candidates
  <2>5. Reached' \in Int /\ Reached' >= Reached
    <3>1. Len(fed') = Len(fed) /\ Len(data') = Len(data)
      BY <2>2
    <3>2. QED
      BY <1>0, <2>1, <2>4, <3>1 DEF Reached
  <2>6. DataIsTail'
    BY <2>2 DEF StreamInv, DataIsTail
  <2>7. QED
    BY <2>2, <2>5, <2>6, NothingEmitted DEF StreamInv
<1>3. CASE FindNothing
  <2> DEFINE tail == Len(data) - PacketSize * SyncConfirm
             keep == IF tail > pos THEN tail ELSE pos
  <2>1. Keep(keep) /\ UNCHANGED fed /\ UNCHANGED emitted
    BY <1>3 DEF FindNothing
  <2>2. PacketSize * SyncConfirm \in Nat
    BY LengthsInNat, ProductInNat
  <2>3. keep \in pos..Len(data)
    BY <1>0, <2>2
  <2> HIDE DEF keep
  <2>4. DataIsTail' /\ Reached' = Len(fed) - Len(data) + keep
    BY <2>1, <2>3, KeepTail DEF StreamInv
  <2>5. Reached' \in Int /\ Reached' >= Reached
    BY <1>0, <2>3, <2>4 DEF Reached
  <2>6. QED
    BY <2>1, <2>4, <2>5, NothingEmitted DEF StreamInv
<1>4. CASE CutAll
  <2> DEFINE p == pos + Count * PacketSize
  <2>1. /\ Keep(p) /\ UNCHANGED fed /\ emitted' = emitted \o Packets(Count)
        /\ \A k \in 0..(Count - 1) : StartsWithSync(k)
    BY <1>4 DEF CutAll
  <2>2. Count \in Nat /\ Count \in 0..Count
    <3>1. Len(data) - pos \in Nat /\ PacketSize \in Nat \ {0}
      BY LengthsInNat
    <3>2. QED
      BY <3>1, DivBounds DEF Count
  <2>3. p \in pos..Len(data) /\ Reached + Count * PacketSize = Len(fed) - Len(data) + p
    <3>1. Count * PacketSize \in Nat
      BY <1>0, <2>2, ProductInNat
    <3>2. QED
      BY <1>0, <2>2, <3>1, PacketsInside DEF Reached
  <2>4. /\ WholePackets'
        /\ \A i \in 1..Len(emitted') : Position(emitted'[i]) <= Reached + Count * PacketSize
    BY <2>1, <2>2, EmittedWhole
  <2> HIDE DEF p
  <2>5. DataIsTail' /\ Reached' = Len(fed) - Len(data) + p
    BY <2>1, <2>3, KeepTail DEF StreamInv
  <2>6. Behind'
    BY <2>3, <2>4, <2>5 DEF Behind
  <2>7. QED
    BY <2>4, <2>5, <2>6 DEF StreamInv
<1>5. CASE LoseSync
  <2> DEFINE len(n) == n * PacketSize
  <2>1. PICK good \in 0..(Count - 1) :
          /\ \A k \in 0..(good - 1) : StartsWithSync(k)
          /\ emitted' = emitted \o Packets(good)
          /\ pos' = pos + len(good) + 1
    BY <1>5 DEF LoseSync
  <2>2. UNCHANGED <<data, fed>>
    BY <1>5 DEF LoseSync
  <2>3. good \in Nat /\ good \in 0..Count /\ len(good) \in Nat
    <3>1. Len(data) - pos \in Nat /\ PacketSize \in Nat \ {0}
      BY LengthsInNat
    <3>2. Count \in Nat
      BY <3>1, DivBounds DEF Count
    <3>3. good \in Nat /\ good \in 0..Count
      BY <2>1, <3>2
    <3>4. QED
      BY <1>0, <3>3, ProductInNat
  <2>4. /\ WholePackets'
        /\ \A i \in 1..Len(emitted') : Position(emitted'[i]) <= Reached + len(good)
    BY <2>1, <2>3, EmittedWhole
  <2>5. emitted' \in Seq(Byte)
    BY <2>1, <2>3, EmitStep
  <2> HIDE DEF len
  <2>6. Reached' = Reached + len(good) + 1 /\ Reached \in Int
    <3>1. Len(fed') = Len(fed) /\ Len(data') = Len(data)
      BY <2>2
    <3>2. QED
      BY <1>0, <2>1, <2>3, <3>1 DEF Reached
  <2>7. ASSUME NEW i \in 1..Len(emitted') PROVE Position(emitted'[i]) <= Reached'
    <3>1. emitted'[i] \in Int
      BY <2>5, ElementOfSeq DEF Byte
    <3>2. PICK x \in Int : x = Position(emitted'[i])
      BY <3>1, PositionIsInt
    <3>3. x <= Reached + len(good)
      BY <2>4, <3>2
    <3>4. x <= Reached'
      BY <2>3, <2>6, <3>2, <3>3
    <3>5. QED
      BY <3>2, <3>4
  <2>8. DataIsTail'
    BY <2>2 DEF StreamInv, DataIsTail
  <2>9. QED
    BY <2>4, <2>7, <2>8 DEF StreamInv, Behind
<1>6. CASE UNCHANGED vars
  <2>1. UNCHANGED <<data, fed, pos, emitted>>
    BY <1>6 DEF vars
  <2>2. QED
    BY <2>1 DEF StreamInv, DataIsTail, Behind, Reached, WholePackets
<1>7. QED
  BY <1>1, <1>2, <1>3, <1>4, <1>5, <1>6 DEF Next

\* What feed() returns are whole packets of the stream, each starting with a
\* sync byte, in their order and none twice, however the stream is cut into
\* chunks and wherever sync is lost.
THEOREM AlignerWholePackets == Spec => []WholePackets
<1>1. Init => StreamInv
  <2> SUFFICES ASSUME Init PROVE StreamInv
    OBVIOUS
  <2>1. data = <<>> /\ emitted = <<>>
    BY DEF Init
  <2>2. Len(data) = 0 /\ Len(emitted) = 0 /\ DOMAIN emitted = {}
    BY <2>1
  <2>3. Len(emitted) % PacketSize = 0
    BY <2>2, AlignerAssumption
  <2>4. QED
    BY <2>2, <2>3 DEF StreamInv, DataIsTail, Behind, WholePackets
<1>2. StreamInv => WholePackets
  BY DEF StreamInv
<1>3. QED
  BY <1>1, <1>2, StreamStep, AlignerTyped, PTL DEF Spec

-----------------------------------------------------------------------------
(* The reference is defined                                                 *)

\* What comes out from each position on, for the positions from a on.
RunsFrom(s, a, f) ==
    f = [x \in (a..(Len(s) + 1)) \X BOOLEAN |-> AlignedFrom(s, f, x[1], x[2])]

LEMMA RunsValue ==
  ASSUME NEW s \in Seq(Byte), NEW a \in Nat, NEW f, RunsFrom(s, a, f),
         NEW i \in a..(Len(s) + 1), NEW b \in BOOLEAN
  PROVE  f[<<i, b>>] = AlignedFrom(s, f, i, b)
<1>1. <<i, b>> \in (a..(Len(s) + 1)) \X BOOLEAN
  OBVIOUS
<1>2. <<i, b>>[1] = i /\ <<i, b>>[2] = b
  OBVIOUS
<1>3. QED
  BY <1>1, <1>2, Zenon DEF RunsFrom

LEMMA RunsHold ==
  ASSUME NEW s \in Seq(Byte), NEW a \in Nat, NEW f, NEW g,
         f = [x \in (a..(Len(s) + 1)) \X BOOLEAN |-> g[x]],
         \A i \in a..(Len(s) + 1), b \in BOOLEAN : f[<<i, b>>] = AlignedFrom(s, f, i, b)
  PROVE  RunsFrom(s, a, f)
<1> DEFINE D == (a..(Len(s) + 1)) \X BOOLEAN
<1>1. ASSUME NEW x \in D PROVE f[x] = AlignedFrom(s, f, x[1], x[2])
  <2>1. PICK i \in a..(Len(s) + 1), b \in BOOLEAN : x = <<i, b>>
    OBVIOUS
  <2>2. x[1] = i /\ x[2] = b
    BY <2>1
  <2>3. QED
    BY <2>1, <2>2, Zenon
<1>2. f = [x \in D |-> f[x]]
  BY Zenon
<1> HIDE DEF D
<1>3. f = [x \in D |-> AlignedFrom(s, f, x[1], x[2])]
  BY <1>1, <1>2, Zenon
<1>4. QED
  BY <1>3, Zenon DEF D, RunsFrom

\* It looks only at what is behind.
LEMMA LooksBehind ==
  ASSUME NEW s, NEW f, NEW g, NEW i, NEW b \in BOOLEAN,
         ~(i + PacketSize - 1 > Len(s)) => f[<<i + PacketSize, TRUE>>] = g[<<i + PacketSize, TRUE>>],
         ~(i + PacketSize - 1 > Len(s)) => f[<<i + 1, FALSE>>] = g[<<i + 1, FALSE>>],
         ~(i + (SyncConfirm - 1) * PacketSize > Len(s)) => f[<<i + 1, FALSE>>] = g[<<i + 1, FALSE>>],
         ~b => f[<<i, TRUE>>] = g[<<i, TRUE>>]
  PROVE  AlignedFrom(s, f, i, b) = AlignedFrom(s, g, i, b)
<1>1. CASE b
  BY <1>1, Zenon DEF AlignedFrom
<1>2. CASE ~b
  BY <1>2, Zenon DEF AlignedFrom
<1>3. QED
  BY <1>1, <1>2

\* Positions that are looked at lie in the stream.
LEMMA InStream ==
  ASSUME NEW n \in Nat, NEW i \in Nat
  PROVE  /\ PacketSize \in Nat /\ (SyncConfirm - 1) * PacketSize \in Nat
         /\ ~(i + PacketSize - 1 > n) => i <= n /\ i + PacketSize <= n + 1 /\ i + PacketSize >= i + 1
         /\ ~(i + (SyncConfirm - 1) * PacketSize > n) => i <= n
<1>1. PacketSize \in Nat /\ PacketSize > 0 /\ SyncConfirm - 1 \in Nat
  BY AlignerAssumption
<1>2. (SyncConfirm - 1) * PacketSize \in Nat
  BY <1>1, ProductInNat
<1>3. QED
  BY <1>1, <1>2

LEMMA RunsExist ==
  ASSUME NEW s \in Seq(Byte)
  PROVE  \E f : RunsFrom(s, 1, f)
<1> DEFINE n == Len(s)
           T == {m \in Nat : m <= n => \E f : RunsFrom(s, (n + 1) - m, f)}
<1>1. n \in Nat
  BY LenProperties
<1> HIDE DEF n
<1>2. 0 \in T
  <2> DEFINE f == [x \in ((n + 1)..(n + 1)) \X BOOLEAN |-> <<>>]
             g == [x \in {} |-> <<>>]
  <2>1. ASSUME NEW i \in (n + 1)..(n + 1), NEW b \in BOOLEAN
        PROVE  f[<<i, b>>] = AlignedFrom(s, f, i, b)
    <3>1. f[<<i, b>>] = <<>>
      BY <1>1
    <3>2. i + PacketSize - 1 > n /\ i + (SyncConfirm - 1) * PacketSize > n
      <4>1. i \in Nat /\ ~(i <= n)
        BY <1>1
      <4>2. ~(~(i + PacketSize - 1 > n)) /\ ~(~(i + (SyncConfirm - 1) * PacketSize > n))
        BY <1>1, <4>1, InStream
      <4>3. QED
        BY <4>2
    <3> HIDE DEF f
    <3>3. QED
      BY <3>1, <3>2, Zenon DEF AlignedFrom, n
  <2>2. f = [x \in ((n + 1)..(n + 1)) \X BOOLEAN |-> f[x]]
    OBVIOUS
  <2>3. n + 1 \in Nat /\ (n + 1) - 0 = n + 1
    BY <1>1
  <2> HIDE DEF f
  <2>4. RunsFrom(s, n + 1, f)
    BY <2>1, <2>2, <2>3, RunsHold DEF n
  <2>5. QED
    BY <2>3, <2>4
<1>3. ASSUME NEW m \in Nat, m \in T PROVE m + 1 \in T
  <2> SUFFICES ASSUME m + 1 <= n PROVE \E g : RunsFrom(s, (n + 1) - (m + 1), g)
    OBVIOUS
  <2> DEFINE a == (n + 1) - m
             c == a - 1
  <2>1. a \in Nat /\ c \in Nat /\ c + 1 = a /\ (n + 1) - (m + 1) = c /\ a <= n + 1 /\ m <= n
    BY <1>1, <1>3
  <2>2. PICK f : RunsFrom(s, a, f)
    BY <1>3, <2>1
  <2> HIDE DEF a, c
  <2> DEFINE vt == AlignedFrom(s, f, c, TRUE)
             vf == IF c + (SyncConfirm - 1) * PacketSize > n THEN <<>>
                   ELSE IF Confirms(s, c) THEN vt ELSE f[<<c + 1, FALSE>>]
             g == [x \in (c..(n + 1)) \X BOOLEAN |->
                     IF x[1] >= a THEN f[x] ELSE IF x[2] THEN vt ELSE vf]
  <2>3. ASSUME NEW i \in a..(n + 1), NEW b \in BOOLEAN PROVE g[<<i, b>>] = f[<<i, b>>]
    <3> HIDE DEF vt, vf
    <3>1. <<i, b>> \in (c..(n + 1)) \X BOOLEAN
      BY <1>1, <2>1
    <3>2. <<i, b>>[1] = i /\ i >= a
      BY <1>1, <2>1
    <3>3. QED
      BY <3>1, <3>2, Zenon
  <2>4. g[<<c, TRUE>>] = vt /\ g[<<c, FALSE>>] = vf
    <3> HIDE DEF vt, vf
    <3>0. c \in c..(n + 1) /\ TRUE \in BOOLEAN /\ FALSE \in BOOLEAN
      BY <1>1, <2>1
    <3>1. <<c, TRUE>> \in (c..(n + 1)) \X BOOLEAN /\ <<c, FALSE>> \in (c..(n + 1)) \X BOOLEAN
      BY <3>0
    <3>2. /\ <<c, TRUE>>[1] = c /\ <<c, FALSE>>[1] = c /\ ~(c >= a)
          /\ <<c, TRUE>>[2] = TRUE /\ <<c, FALSE>>[2] = FALSE
      BY <2>1
    <3>3. QED
      BY <3>1, <3>2, Zenon
  <2>5. g = [x \in (c..(n + 1)) \X BOOLEAN |-> g[x]]
    BY Zenon
  <2> HIDE DEF g
  <2>6. ASSUME NEW i \in c..(n + 1)
        PROVE  /\ ~(i + PacketSize - 1 > Len(s)) => f[<<i + PacketSize, TRUE>>] = g[<<i + PacketSize, TRUE>>]
               /\ ~(i + PacketSize - 1 > Len(s)) => f[<<i + 1, FALSE>>] = g[<<i + 1, FALSE>>]
               /\ ~(i + (SyncConfirm - 1) * PacketSize > Len(s)) => f[<<i + 1, FALSE>>] = g[<<i + 1, FALSE>>]
    <3>1. i \in Nat
      BY <1>1, <2>1
    <3>2. /\ PacketSize \in Nat
          /\ ~(i + PacketSize - 1 > n) => i <= n /\ i + PacketSize <= n + 1 /\ i + PacketSize >= i + 1
          /\ ~(i + (SyncConfirm - 1) * PacketSize > n) => i <= n
      BY <1>1, <3>1, InStream
    <3>3. ~(i + PacketSize - 1 > n) => i + PacketSize \in a..(n + 1) /\ i + 1 \in a..(n + 1)
      BY <1>1, <2>1, <3>1, <3>2
    <3>4. ~(i + (SyncConfirm - 1) * PacketSize > n) => i + 1 \in a..(n + 1)
      BY <1>1, <2>1, <3>1, <3>2
    <3>5. QED
      BY <2>3, <3>3, <3>4, Zenon DEF n
  <2>7. ASSUME NEW i \in c..(n + 1), NEW b \in BOOLEAN PROVE g[<<i, b>>] = AlignedFrom(s, g, i, b)
    <3>1. CASE i >= a
      <4>1. i \in a..(n + 1)
        BY <1>1, <2>1, <3>1
      <4>2. g[<<i, b>>] = f[<<i, b>>] /\ g[<<i, TRUE>>] = f[<<i, TRUE>>]
        BY <2>3, <4>1, Zenon
      <4>3. f[<<i, b>>] = AlignedFrom(s, f, i, b)
        BY <2>1, <2>2, <4>1, RunsValue DEF n
      <4>4. AlignedFrom(s, f, i, b) = AlignedFrom(s, g, i, b)
        BY <2>6, <4>2, LooksBehind, Zenon
      <4>5. QED
        BY <4>2, <4>3, <4>4, Zenon
    <3>2. CASE ~(i >= a)
      <4>1. i = c
        BY <1>1, <2>1, <3>2
      <4>2. CASE b = TRUE
        <5>1. AlignedFrom(s, f, c, TRUE) = AlignedFrom(s, g, c, TRUE)
          BY <2>6, <4>1, LooksBehind, Zenon
        <5>2. QED
          BY <2>4, <4>1, <4>2, <5>1, Zenon
      <4>3. CASE b = FALSE
        <5>1. ~(c + (SyncConfirm - 1) * PacketSize > n) => f[<<c + 1, FALSE>>] = g[<<c + 1, FALSE>>]
          BY <2>6, <4>1, Zenon DEF n
        <5>2. vf = AlignedFrom(s, g, c, FALSE)
          <6> HIDE DEF vt
          <6>1. QED
            BY <2>4, <5>1, Zenon DEF AlignedFrom, n
        <5>3. QED
          BY <2>4, <4>1, <4>3, <5>2, Zenon
      <4>4. QED
        BY <4>2, <4>3
    <3>3. QED
      BY <3>1, <3>2
  <2>8. RunsFrom(s, c, g)
    BY <2>1, <2>5, <2>7, RunsHold DEF n
  <2>9. QED
    BY <2>1, <2>8
<1>4. Nat \subseteq T
  <2> HIDE DEF T
  <2>1. QED
    BY <1>2, <1>3, NumberInduction
<1>5. n \in T
  <2> HIDE DEF T
  <2>1. QED
    BY <1>1, <1>4
<1>6. (n + 1) - n = 1 /\ n <= n
  BY <1>1
<1>7. \E f : RunsFrom(s, (n + 1) - n, f)
  BY <1>5, <1>6
<1>8. QED
  BY <1>6, <1>7

-----------------------------------------------------------------------------
(* What the reference says                                                  *)

From(s) ==
    CHOOSE f : f = [x \in (1..(Len(s) + 1)) \X BOOLEAN |-> AlignedFrom(s, f, x[1], x[2])]

\* What comes out of the stream s from position i on.
Out(s, i, aligned) == From(s)[<<i, aligned>>]

\* A confirmation at i lies inside of s.
Fits(s, i) == ~(i + (SyncConfirm - 1) * PacketSize > Len(s))

LEMMA AlignedIsOut ==
  ASSUME NEW s
  PROVE  Aligned(s) = Out(s, 1, FALSE)
BY Zenon DEF Aligned, Out, From

LEMMA OutValue ==
  ASSUME NEW s \in Seq(Byte), NEW i \in 1..(Len(s) + 1), NEW b \in BOOLEAN
  PROVE  Out(s, i, b) = AlignedFrom(s, From(s), i, b)
<1>1. PICK f : f = [x \in (1..(Len(s) + 1)) \X BOOLEAN |-> AlignedFrom(s, f, x[1], x[2])]
  BY RunsExist, Zenon DEF RunsFrom
<1>2. RunsFrom(s, 1, From(s))
  BY <1>1, Zenon DEF From, RunsFrom
<1>3. QED
  BY <1>2, RunsValue DEF Out

\* Aligned, whole packets come out up to one that does not start with a sync byte.
LEMMA OutAligned ==
  ASSUME NEW s \in Seq(Byte), NEW i \in 1..(Len(s) + 1)
  PROVE  Out(s, i, TRUE) = IF i + PacketSize - 1 > Len(s) THEN <<>>
                           ELSE IF IsSync(s[i])
                             THEN SubSeq(s, i, i + PacketSize - 1) \o Out(s, i + PacketSize, TRUE)
                             ELSE Out(s, i + 1, FALSE)
<1>1. Out(s, i, TRUE) = AlignedFrom(s, From(s), i, TRUE)
  BY OutValue
<1>2. QED
  BY <1>1, Zenon DEF AlignedFrom, Out

\* Not aligned, the next confirmation is looked for.
LEMMA OutSearching ==
  ASSUME NEW s \in Seq(Byte), NEW i \in 1..(Len(s) + 1)
  PROVE  Out(s, i, FALSE) = IF ~Fits(s, i) THEN <<>>
                            ELSE IF Confirms(s, i) THEN Out(s, i, TRUE) ELSE Out(s, i + 1, FALSE)
<1>1. Out(s, i, FALSE) = AlignedFrom(s, From(s), i, FALSE)
  BY OutValue
<1>2. QED
  BY <1>1, Zenon DEF AlignedFrom, Out, Fits

LEMMA OutTyped ==
  ASSUME NEW s \in Seq(Byte)
  PROVE  \A i \in 1..(Len(s) + 1), b \in BOOLEAN : Out(s, i, b) \in Seq(Byte)
<1> DEFINE n == Len(s)
           T == {m \in Nat : \A i \in 1..(n + 1), b \in BOOLEAN : i + m >= n + 1 => Out(s, i, b) \in Seq(Byte)}
<1>1. n \in Nat /\ <<>> \in Seq(Byte)
  BY LenProperties, EmptySeq
<1> HIDE DEF n
<1>2. ASSUME NEW m \in Nat, NEW i \in 1..(n + 1), i + m >= n + 1,
             \A j \in 1..(n + 1), b \in BOOLEAN : j > i => Out(s, j, b) \in Seq(Byte)
      PROVE  Out(s, i, TRUE) \in Seq(Byte) /\ Out(s, i, FALSE) \in Seq(Byte)
  <2>1. i \in Nat /\ i >= 1
    BY <1>1
  <2>2. /\ PacketSize \in Nat
        /\ ~(i + PacketSize - 1 > n) => i <= n /\ i + PacketSize <= n + 1 /\ i + PacketSize >= i + 1
        /\ Fits(s, i) => i <= n
    BY <1>1, <2>1, InStream DEF Fits, n
  <2>3. Out(s, i, TRUE) \in Seq(Byte)
    <3>1. CASE i + PacketSize - 1 > n
      BY <1>1, <3>1, OutAligned DEF n
    <3>2. CASE ~(i + PacketSize - 1 > n)
      <4>1. /\ i + PacketSize \in 1..(n + 1) /\ i + PacketSize > i
            /\ i + 1 \in 1..(n + 1) /\ i + 1 > i
        BY <1>1, <2>1, <2>2, <3>2
      <4>2. Out(s, i + PacketSize, TRUE) \in Seq(Byte) /\ Out(s, i + 1, FALSE) \in Seq(Byte)
        BY <1>2, <4>1, Zenon
      <4>3. SubSeq(s, i, i + PacketSize - 1) \in Seq(Byte)
        <5>1. \A k \in i..(i + PacketSize - 1) : s[k] \in Byte
          BY <1>1, <2>1, <2>2, <3>2, ElementOfSeq DEF n
        <5>2. QED
          BY <2>1, <2>2, <5>1, SubSeqProperties
      <4>4. SubSeq(s, i, i + PacketSize - 1) \o Out(s, i + PacketSize, TRUE) \in Seq(Byte)
        BY <4>2, <4>3, ConcatProperties
      <4>5. Out(s, i, TRUE) = IF IsSync(s[i])
                                THEN SubSeq(s, i, i + PacketSize - 1) \o Out(s, i + PacketSize, TRUE)
                                ELSE Out(s, i + 1, FALSE)
        BY <3>2, OutAligned, Zenon DEF n
      <4>6. QED
        BY <4>2, <4>4, <4>5, Zenon
    <3>3. QED
      BY <3>1, <3>2
  <2>4. Out(s, i, FALSE) \in Seq(Byte)
    <3>1. CASE ~Fits(s, i)
      BY <1>1, <3>1, OutSearching, Zenon DEF n
    <3>2. CASE Fits(s, i)
      <4>1. i + 1 \in 1..(n + 1) /\ i + 1 > i
        BY <1>1, <2>1, <2>2, <3>2
      <4>2. Out(s, i + 1, FALSE) \in Seq(Byte)
        BY <1>2, <4>1, Zenon
      <4>3. QED
        BY <2>3, <3>2, <4>2, OutSearching, Zenon DEF n
    <3>3. QED
      BY <3>1, <3>2
  <2>5. QED
    BY <2>3, <2>4
<1>3. 0 \in T
  <2>1. ASSUME NEW i \in 1..(n + 1), i + 0 >= n + 1
        PROVE  Out(s, i, TRUE) \in Seq(Byte) /\ Out(s, i, FALSE) \in Seq(Byte)
    <3>1. \A j \in 1..(n + 1) : ~(j > i)
      BY <1>1, <2>1
    <3>2. 0 \in Nat
      OBVIOUS
    <3>3. QED
      BY <1>2, <2>1, <3>1, <3>2, Zenon
  <2>2. QED
    BY <2>1
<1>4. ASSUME NEW m \in Nat, m \in T PROVE m + 1 \in T
  <2>1. \A j \in 1..(n + 1), b \in BOOLEAN : j + m >= n + 1 => Out(s, j, b) \in Seq(Byte)
    BY <1>4
  <2>2. ASSUME NEW i \in 1..(n + 1), i + (m + 1) >= n + 1
        PROVE  Out(s, i, TRUE) \in Seq(Byte) /\ Out(s, i, FALSE) \in Seq(Byte)
    <3>1. \A j \in 1..(n + 1) : j > i => j + m >= n + 1
      BY <1>1, <2>2
    <3>2. m + 1 \in Nat
      OBVIOUS
    <3>3. QED
      BY <1>2, <2>1, <2>2, <3>1, <3>2, Zenon
  <2>3. \A i \in 1..(n + 1), b \in BOOLEAN : i + (m + 1) >= n + 1 => Out(s, i, b) \in Seq(Byte)
    BY <2>2, Zenon
  <2>4. m + 1 \in Nat
    OBVIOUS
  <2>5. QED
    BY <2>3, <2>4
<1>5. Nat \subseteq T
  <2> HIDE DEF T
  <2>1. QED
    BY <1>3, <1>4, NumberInduction
<1>6. \A i \in 1..(n + 1) : i + n >= n + 1
  BY <1>1
<1>7. n \in T
  <2> HIDE DEF T
  <2>1. QED
    BY <1>1, <1>5
<1>8. QED
  BY <1>6, <1>7 DEF n

\* Where nothing is confirmed the search goes on.
LEMMA OutSkips ==
  ASSUME NEW s \in Seq(Byte), NEW j \in 1..(Len(s) + 1), NEW i \in 1..j,
         \A k \in i..(j - 1) : Fits(s, k) /\ ~Confirms(s, k)
  PROVE  Out(s, i, FALSE) = Out(s, j, FALSE)
<1> DEFINE T == {m \in Nat : \A h \in i..j : h + m = j => Out(s, h, FALSE) = Out(s, j, FALSE)}
<1>1. j \in Nat /\ i \in Nat /\ j >= i /\ i >= 1 /\ Len(s) \in Nat
  BY LenProperties
<1>2. 0 \in T
  <2>1. \A h \in i..j : h + 0 = j => h = j
    BY <1>1
  <2>2. QED
    BY <2>1
<1>3. ASSUME NEW m \in Nat, m \in T PROVE m + 1 \in T
  <2>1. ASSUME NEW h \in i..j, h + (m + 1) = j
        PROVE  Out(s, h, FALSE) = Out(s, j, FALSE)
    <3>1. h \in i..(j - 1) /\ h \in 1..(Len(s) + 1) /\ h + 1 \in i..j /\ (h + 1) + m = j
      BY <1>1, <2>1
    <3>2. Out(s, h, FALSE) = Out(s, h + 1, FALSE)
      BY <3>1, OutSearching, Zenon
    <3>3. Out(s, h + 1, FALSE) = Out(s, j, FALSE)
      BY <1>3, <3>1
    <3>4. QED
      BY <3>2, <3>3
  <2>2. m + 1 \in Nat
    OBVIOUS
  <2>3. QED
    BY <2>1, <2>2, Zenon
<1>4. j - i \in T
  <2>1. Nat \subseteq T
    <3> HIDE DEF T
    <3>1. QED
      BY <1>2, <1>3, NumberInduction
  <2> HIDE DEF T
  <2>2. QED
    BY <1>1, <2>1
<1>5. i \in i..j /\ i + (j - i) = j
  BY <1>1
<1>6. QED
  BY <1>4, <1>5

\* Where nothing is confirmed any more nothing comes out.
LEMMA OutEnds ==
  ASSUME NEW s \in Seq(Byte), NEW i \in 1..(Len(s) + 1),
         \A k \in i..Len(s) : Fits(s, k) => ~Confirms(s, k)
  PROVE  Out(s, i, FALSE) = <<>>
<1> DEFINE w == (SyncConfirm - 1) * PacketSize
           e == (Len(s) - w) + 1
           j == IF i <= e THEN e ELSE i
<1>1. Len(s) \in Nat /\ i \in Nat /\ i >= 1 /\ w \in Nat
  BY LenProperties, InStream
<1>2. \A k \in Nat : Fits(s, k) <=> k < e
  <2> HIDE DEF w
  <2>1. \A k \in Nat : ~(k + w > Len(s)) <=> k < e
    BY <1>1
  <2>2. QED
    BY <2>1, Zenon DEF Fits, w
<1> HIDE DEF w
<1>3. j \in 1..(Len(s) + 1) /\ i \in 1..j /\ j >= e
  BY <1>1
<1>4. \A k \in i..(j - 1) : k \in i..Len(s) /\ k \in Nat /\ k < e
  BY <1>1
<1> HIDE DEF e, j
<1>5. \A k \in i..(j - 1) : Fits(s, k) /\ ~Confirms(s, k)
  BY <1>2, <1>4, Zenon
<1>6. Out(s, i, FALSE) = Out(s, j, FALSE)
  BY <1>3, <1>5, OutSkips
<1>7. ~Fits(s, j)
  <2>1. e \in Int /\ j \in Nat /\ ~(j < e)
    BY <1>1, <1>3 DEF e
  <2>2. QED
    BY <1>2, <2>1, Zenon
<1>8. QED
  BY <1>3, <1>6, <1>7, OutSearching, Zenon

LEMMA BytesAssociate ==
  \A x, y, z \in Seq(Byte) : x \o (y \o z) = (x \o y) \o z
BY AllConcatAssociative

\* Whole packets that start with a sync byte come out one after the other.
LEMMA OutPackets ==
  ASSUME NEW s \in Seq(Byte), NEW g \in Nat, NEW i \in Nat \ {0}, i + g * PacketSize <= Len(s) + 1,
         \A k \in 0..(g - 1) : IsSync(s[i + k * PacketSize])
  PROVE  Out(s, i, TRUE) = SubSeq(s, i, (i + g * PacketSize) - 1) \o Out(s, i + g * PacketSize, TRUE)
<1> DEFINE len(m) == m * PacketSize
           P(m) == Out(s, i, TRUE) = SubSeq(s, i, (i + len(m)) - 1) \o Out(s, i + len(m), TRUE)
           T == {m \in Nat : m <= g => P(m)}
<1>1. Len(s) \in Nat /\ PacketSize \in Nat /\ PacketSize > 0
  BY LenProperties, AlignerAssumption
<1>2. \A m \in Nat : len(m) \in Nat
  BY <1>1, ProductInNat
<1>3. len(0) = 0
  BY <1>1
<1>4. \A m \in Nat : len(m + 1) = len(m) + PacketSize
  BY <1>1
<1>5. \A m \in Nat : m < g => len(m) + PacketSize <= len(g)
  BY <1>1, FewerPackets
<1>6. len(g) \in Nat /\ i + len(g) <= Len(s) + 1
  BY <1>2
<1>7. \A k \in 0..(g - 1) : IsSync(s[i + len(k)])
  OBVIOUS
<1>8. SUFFICES P(g)
  OBVIOUS
<1> HIDE DEF len
<1>9. 0 \in T
  <2>1. i + 0 = i /\ SubSeq(s, i, (i + 0) - 1) = <<>>
    BY SubSeqEmpty
  <2>2. Out(s, i, TRUE) \in Seq(Byte)
    <3>1. i \in 1..(Len(s) + 1)
      BY <1>1, <1>6
    <3>2. QED
      BY <3>1, OutTyped
  <2>3. <<>> \o Out(s, i, TRUE) = Out(s, i, TRUE)
    BY <2>2, ConcatEmptySeq
  <2>4. P(0)
    BY <1>3, <2>1, <2>3
  <2>5. QED
    BY <2>4
<1>10. ASSUME NEW m \in Nat, m \in T PROVE m + 1 \in T
  <2>12. m + 1 \in Nat
    OBVIOUS
  <2> SUFFICES ASSUME m + 1 <= g PROVE P(m + 1)
    BY <2>12
  <2> DEFINE j == i + len(m)
             e == j + PacketSize
             a == SubSeq(s, i, j - 1)
             b == SubSeq(s, j, e - 1)
             c == Out(s, e, TRUE)
  <2> HIDE DEF T, P
  <2>0. m + 1 <= g
    OBVIOUS
  <2>1. m \in Nat /\ m <= g /\ m < g /\ m \in 0..(g - 1)
    BY <2>0
  <2>2. Out(s, i, TRUE) = a \o Out(s, j, TRUE)
    BY <1>10, <2>1 DEF T, P
  <2> HIDE DEF a, b, c
  <2>3. /\ len(m) \in Nat /\ len(m) + PacketSize <= len(g)
        /\ len(m + 1) = len(m) + PacketSize /\ IsSync(s[j])
    BY <1>2, <1>4, <1>5, <1>7, <2>1
  <2>4. /\ j \in Nat /\ i <= j /\ e \in Nat /\ e <= Len(s) + 1 /\ e >= j + 1
        /\ j \in 1..(Len(s) + 1) /\ e \in 1..(Len(s) + 1)
        /\ ~(j + PacketSize - 1 > Len(s)) /\ e - 1 = j + PacketSize - 1
        /\ i + len(m + 1) = e
    <3>1. i \in Nat /\ i >= 1
      OBVIOUS
    <3>2. j \in Nat /\ i <= j /\ e \in Nat /\ e <= Len(s) + 1 /\ e >= j + 1
      BY <1>1, <1>6, <2>3, <3>1
    <3>3. i + len(m + 1) = e
      BY <1>1, <2>3, <3>1
    <3> HIDE DEF j
    <3>4. ~(j + PacketSize - 1 > Len(s)) /\ e - 1 = j + PacketSize - 1
      BY <1>1, <3>2
    <3> HIDE DEF e
    <3>5. j \in 1..(Len(s) + 1) /\ e \in 1..(Len(s) + 1)
      BY <1>1, <3>1, <3>2
    <3>6. QED
      BY <3>2, <3>3, <3>4, <3>5
  <2>5. Out(s, j, TRUE) = b \o c
    BY <2>3, <2>4, OutAligned DEF b, c
  <2> HIDE DEF j, e
  <2>6. a \o b = SubSeq(s, i, e - 1)
    <3>1. /\ i \in 1..(Len(s) + 1) /\ j - 1 \in (i - 1)..Len(s) /\ e - 1 \in (j - 1)..Len(s)
          /\ (j - 1) + 1 = j
      BY <1>1, <2>4
    <3>2. SubSeq(s, i, j - 1) \o SubSeq(s, (j - 1) + 1, e - 1) = SubSeq(s, i, e - 1)
      BY <3>1, ConcatAdjacentSubSeq
    <3>3. QED
      BY <3>1, <3>2 DEF a, b
  <2>7. a \in Seq(Byte) /\ b \in Seq(Byte) /\ c \in Seq(Byte)
    <3>1. (\A k \in i..(j - 1) : s[k] \in Byte) /\ (\A k \in j..(e - 1) : s[k] \in Byte)
      BY <1>1, <2>4, ElementOfSeq
    <3>2. i \in Int /\ j \in Int /\ j - 1 \in Int /\ e - 1 \in Int
      BY <2>4
    <3>3. a \in Seq(Byte)
      BY <3>1, <3>2, SubSeqProperties DEF a, b
    <3>4. b \in Seq(Byte)
      BY <3>1, <3>2, SubSeqProperties DEF a, b
    <3>5. c \in Seq(Byte)
      BY <2>4, OutTyped DEF c
    <3>6. QED
      BY <3>3, <3>4, <3>5
  <2> HIDE DEF a, b, c
  <2>8. a \o (b \o c) = (a \o b) \o c
    BY <2>7, BytesAssociate, Zenon
  <2>9. QED
    BY <2>2, <2>4, <2>5, <2>6, <2>8 DEF c, P
<1>11. g \in T /\ g <= g
  <2>1. Nat \subseteq T
    <3> HIDE DEF T
    <3>1. QED
      BY <1>9, <1>10, NumberInduction
  <2> HIDE DEF T
  <2>2. QED
    BY <2>1
<1>12. QED
  BY <1>11 DEF T

-----------------------------------------------------------------------------
(* Chunks                                                                   *)

\* What feed() works on is the end of the stream, byte for byte.
DataIsSuffix ==
  /\ Len(data) <= Len(fed)
  /\ \A i \in 1..Len(data) : data[i] = fed[(Len(fed) - Len(data)) + i]

\* The stream so far, and whatever may follow it.
Extends(t, s) == Len(t) >= Len(s) /\ \A i \in 1..Len(s) : t[i] = s[i]

\* Whatever follows, it is as if the reference had come to the same point.
Follows ==
  \A t \in Seq(Byte) : Extends(t, fed) => Aligned(t) = emitted \o Out(t, Reached + 1, locked)

\* Between the calls nothing more comes out of what has arrived.
Exhausted == ~busy => Out(fed, Reached + 1, locked) = <<>>

ChunksInv == DataIsSuffix /\ Follows /\ Exhausted

LEMMA ExtendsTyped ==
  ASSUME TypeOK, NEW t \in Seq(Byte), Extends(t, fed)
  PROVE  Len(t) \in Nat /\ Len(t) >= Len(fed) /\ \A i \in 1..(Len(fed) + 1) : i \in 1..(Len(t) + 1)
<1>1. Len(t) \in Nat /\ Len(fed) \in Nat /\ Len(t) >= Len(fed)
  BY LenProperties DEF TypeOK, Extends
<1>2. QED
  BY <1>1

LEMMA SameBytes ==
  ASSUME TypeOK, DataIsSuffix, NEW t \in Seq(Byte), Extends(t, fed), NEW i \in 1..Len(data)
  PROVE  data[i] = t[(Len(fed) - Len(data)) + i]
<1>1. (Len(fed) - Len(data)) + i \in 1..Len(fed)
  BY LengthsInNat DEF DataIsSuffix
<1>2. QED
  BY <1>1 DEF DataIsSuffix, Extends

\* The step that takes no bytes of the stream further than the reference.
LEMMA FollowsOn ==
  ASSUME TypeOK, DataIsSuffix, Follows, UNCHANGED fed, NEW e \in Seq(Byte), emitted' = emitted \o e,
         Reached' + 1 \in 1..(Len(fed) + 1), locked' \in BOOLEAN,
         \A t \in Seq(Byte) : Extends(t, fed) =>
            Out(t, Reached + 1, locked) = e \o Out(t, Reached' + 1, locked')
  PROVE  Follows'
<1>1. SUFFICES ASSUME NEW t \in Seq(Byte), Extends(t, fed)
               PROVE  Aligned(t) = emitted' \o Out(t, Reached' + 1, locked')
  BY DEF Follows
<1> DEFINE o == Out(t, Reached' + 1, locked')
<1>2. o \in Seq(Byte)
  <2>1. Reached' + 1 \in 1..(Len(t) + 1)
    <3>1. \A i \in 1..(Len(fed) + 1) : i \in 1..(Len(t) + 1)
      BY <1>1, ExtendsTyped
    <3>2. QED
      BY <3>1, Zenon
  <2>2. QED
    BY <2>1, OutTyped, Zenon
<1>3. Aligned(t) = emitted \o (e \o o)
  BY <1>1, Zenon DEF Follows
<1> HIDE DEF o
<1>4. emitted \in Seq(Byte)
  BY DEF TypeOK
<1>5. (emitted \o e) \o o = emitted \o (e \o o)
  BY <1>2, <1>4, ConcatAssociative
<1>6. QED
  BY <1>3, <1>5, Zenon DEF o

\* The distances of packets in a confirmation.
LEMMA WithinConfirmation ==
  ASSUME NEW k \in 0..(SyncConfirm - 1)
  PROVE  /\ k * PacketSize \in Nat /\ k * PacketSize <= (SyncConfirm - 1) * PacketSize
         /\ PacketSize * (SyncConfirm - 1) = (SyncConfirm - 1) * PacketSize
         /\ (SyncConfirm - 1) * PacketSize \in Nat
<1> DEFINE c == SyncConfirm - 1
<1>1. k \in Nat /\ c \in Nat /\ k <= c /\ PacketSize \in Nat
  BY AlignerAssumption
<1> HIDE DEF c
<1>2. k * PacketSize \in Nat /\ c * PacketSize \in Nat
  BY <1>1, ProductInNat
<1>3. PacketSize * c = c * PacketSize
  BY <1>1
<1>4. k < c => k * PacketSize + PacketSize <= c * PacketSize
  BY <1>1, FewerPackets
<1>5. k * PacketSize <= c * PacketSize
  <2>1. k = c => k * PacketSize = c * PacketSize
    OBVIOUS
  <2> DEFINE x == k * PacketSize  y == c * PacketSize
  <2>2. x \in Nat /\ y \in Nat /\ (k < c => x + PacketSize <= y) /\ (k = c => x = y)
    BY <1>2, <1>4, <2>1
  <2> HIDE DEF x, y
  <2>3. x <= y
    BY <1>1, <2>2
  <2>4. QED
    BY <2>3 DEF x, y
<1>6. QED
  BY <1>2, <1>3, <1>5 DEF c

LEMMA ConfirmationFits ==
  /\ PacketSize * (SyncConfirm - 1) = (SyncConfirm - 1) * PacketSize
  /\ (SyncConfirm - 1) * PacketSize \in Nat
  /\ PacketSize * SyncConfirm = (SyncConfirm - 1) * PacketSize + PacketSize
<1>1. 0 \in 0..(SyncConfirm - 1)
  BY AlignerAssumption
<1>2. PacketSize * SyncConfirm = (SyncConfirm - 1) * PacketSize + PacketSize
  BY AlignerAssumption
<1>3. QED
  BY <1>1, <1>2, WithinConfirmation

\* A sync byte is confirmed in the data where it is in the stream.
LEMMA SameConfirmed ==
  ASSUME TypeOK, DataIsSuffix, NEW t \in Seq(Byte), Extends(t, fed),
         NEW i \in Nat, i + PacketSize * (SyncConfirm - 1) < Len(data),
         NEW h, h = (Len(fed) - Len(data)) + i + 1
  PROVE  Fits(t, h) /\ (Confirmed(i) <=> Confirms(t, h))
<1> DEFINE w == (SyncConfirm - 1) * PacketSize
<1>1. /\ Len(data) \in Nat /\ Len(fed) \in Nat /\ Len(data) <= Len(fed) /\ w \in Nat
      /\ i + w < Len(data) /\ Len(t) \in Nat /\ Len(t) >= Len(fed)
  BY LengthsInNat, ConfirmationFits, ExtendsTyped DEF DataIsSuffix
<1> HIDE DEF w
<1>2. Fits(t, h)
  <2>1. ~(h + w > Len(t))
    BY <1>1
  <2>2. QED
    BY <2>1 DEF Fits, w
<1>3. ASSUME NEW k \in 0..(SyncConfirm - 1)
      PROVE  data[i + k * PacketSize + 1] = t[h + k * PacketSize]
  <2> DEFINE x == k * PacketSize
  <2>1. x \in Nat /\ x <= w
    BY WithinConfirmation DEF w
  <2> HIDE DEF x
  <2>2. i + x + 1 \in 1..Len(data) /\ (Len(fed) - Len(data)) + (i + x + 1) = h + x
    BY <1>1, <2>1
  <2>3. data[i + x + 1] = t[(Len(fed) - Len(data)) + (i + x + 1)]
    BY <2>2, SameBytes
  <2>4. QED
    BY <2>2, <2>3 DEF x
<1>4. Confirmed(i) <=> Confirms(t, h)
  BY <1>3, Zenon DEF Confirmed, Confirms
<1>5. QED
  BY <1>2, <1>4

\* What Keep(p) leaves is still the end of the stream.
LEMMA KeepSuffix ==
  ASSUME TypeOK, DataIsSuffix, NEW p \in pos..Len(data), Keep(p), UNCHANGED fed
  PROVE  DataIsSuffix' /\ Reached' = (Len(fed) - Len(data)) + p /\ ~busy'
         /\ Reached' + 1 \in 1..(Len(fed) + 1)
<1>1. /\ data \in Seq(Byte) /\ Len(data) \in Nat /\ Len(fed) \in Nat /\ Len(data) <= Len(fed)
      /\ p \in 0..Len(data) /\ p \in Nat
  BY LengthsInNat DEF TypeOK, DataIsSuffix
<1>2. Len(data') = Len(data) - p /\ pos' = 0 /\ busy' = FALSE /\ fed' = fed
  BY <1>1, KeepStep
<1>3. \A j \in 1..(Len(data) - p) : data'[j] = data[p + j]
  <2>1. data' = SubSeq(data, p + 1, Len(data))
    BY Zenon DEF Keep
  <2>2. Len(data) \in p..Len(data)
    BY <1>1
  <2>3. QED
    BY <1>1, <2>1, <2>2, CutBytes
<1>4. ASSUME NEW i \in 1..Len(data')
      PROVE  data'[i] = fed'[(Len(fed') - Len(data')) + i]
  <2>1. p + i \in 1..Len(data) /\ i \in 1..(Len(data) - p)
    BY <1>1, <1>2
  <2>2. data[p + i] = fed[(Len(fed) - Len(data)) + (p + i)]
    BY <2>1 DEF DataIsSuffix
  <2>3. data'[i] = fed[(Len(fed) - Len(data)) + (p + i)]
    BY <1>3, <2>1, <2>2
  <2>4. (Len(fed) - Len(data)) + (p + i) = (Len(fed) - Len(data')) + i
    BY <1>1, <1>2
  <2>5. QED
    BY <1>2, <2>3, <2>4
<1>5. Reached' = (Len(fed) - Len(data)) + p
  BY <1>1, <1>2 DEF Reached
<1>6. Len(data') <= Len(fed') /\ Reached' + 1 \in 1..(Len(fed) + 1)
  BY <1>1, <1>2, <1>5
<1>7. QED
  BY <1>2, <1>4, <1>5, <1>6 DEF DataIsSuffix

LEMMA ChunksFeed ==
  ASSUME TypeOK, ChunksInv, NEW chunk \in Chunks, Feed(chunk)
  PROVE  ChunksInv'
<1>1. chunk \in Seq(Byte) /\ Len(chunk) \in Nat
  BY LengthsInNat, ChunkTyped, LenProperties
<1>2. /\ data \in Seq(Byte) /\ fed \in Seq(Byte) /\ Len(data) <= Len(fed)
      /\ Len(data) \in Nat /\ Len(fed) \in Nat /\ pos \in Nat
  BY LengthsInNat DEF TypeOK, ChunksInv, DataIsSuffix
<1>3. data' = data \o chunk /\ fed' = fed \o chunk /\ pos' = pos /\ emitted' = emitted
  BY DEF Feed
<1>4. Len(data') = Len(data) + Len(chunk) /\ Len(fed') = Len(fed) + Len(chunk)
  BY <1>1, <1>2, <1>3, ConcatProperties
<1>5. Reached' = Reached
  BY <1>1, <1>2, <1>3, <1>4 DEF Reached
<1>6. /\ \A i \in 1..Len(data) : data'[i] = data[i]
      /\ \A j \in 1..Len(chunk) : data'[Len(data) + j] = chunk[j]
  BY <1>1, <1>2, <1>3, ConcatBytes
<1>7. /\ \A i \in 1..Len(fed) : fed'[i] = fed[i]
      /\ \A j \in 1..Len(chunk) : fed'[Len(fed) + j] = chunk[j]
  BY <1>1, <1>2, <1>3, ConcatBytes
<1>8. ASSUME NEW i \in 1..Len(data')
      PROVE  data'[i] = fed'[(Len(fed') - Len(data')) + i]
  <2>1. (Len(fed') - Len(data')) + i = (Len(fed) - Len(data)) + i
    BY <1>1, <1>2, <1>4
  <2>2. CASE i <= Len(data)
    <3>1. i \in 1..Len(data) /\ (Len(fed) - Len(data)) + i \in 1..Len(fed)
      BY <1>1, <1>2, <1>4, <2>2
    <3>2. data[i] = fed[(Len(fed) - Len(data)) + i]
      BY <3>1 DEF ChunksInv, DataIsSuffix
    <3>3. QED
      BY <1>6, <1>7, <2>1, <3>1, <3>2
  <2>3. CASE ~(i <= Len(data))
    <3>1. PICK j \in 1..Len(chunk) : i = Len(data) + j
      <4>1. i - Len(data) \in 1..Len(chunk) /\ i = Len(data) + (i - Len(data))
        BY <1>1, <1>2, <1>4, <2>3
      <4>2. QED
        BY <4>1
    <3>2. (Len(fed) - Len(data)) + i = Len(fed) + j
      BY <1>1, <1>2, <3>1
    <3>3. data'[i] = chunk[j] /\ fed'[Len(fed) + j] = chunk[j]
      BY <1>6, <1>7, <3>1
    <3>4. QED
      BY <2>1, <3>2, <3>3
  <2>4. QED
    BY <2>2, <2>3
<1>9. DataIsSuffix'
  <2>1. Len(data') <= Len(fed')
    BY <1>1, <1>2, <1>4
  <2>2. QED
    BY <1>8, <2>1 DEF DataIsSuffix
<1>10. Follows'
  <2>1. SUFFICES ASSUME NEW t \in Seq(Byte), Extends(t, fed')
                 PROVE  Aligned(t) = emitted' \o Out(t, Reached' + 1, locked')
    BY DEF Follows
  <2>2. Extends(t, fed)
    <3>1. Len(t) \in Nat /\ Len(t) >= Len(fed') /\ \A i \in 1..Len(fed') : t[i] = fed'[i]
      BY <2>1, LenProperties DEF Extends
    <3>2. Len(t) >= Len(fed) /\ \A i \in 1..Len(fed) : i \in 1..Len(fed')
      BY <1>1, <1>2, <1>4, <3>1
    <3>3. \A i \in 1..Len(fed) : t[i] = fed[i]
      BY <1>7, <3>1, <3>2
    <3>4. QED
      BY <3>2, <3>3 DEF Extends
  <2>3. locked' = locked
    BY DEF Feed
  <2>4. QED
    BY <1>3, <1>5, <2>2, <2>3, Zenon DEF ChunksInv, Follows
<1>11. Exhausted'
  BY Zenon DEF Feed, Exhausted
<1>12. QED
  BY <1>9, <1>10, <1>11 DEF ChunksInv

LEMMA FedExtends ==
  ASSUME TypeOK
  PROVE  fed \in Seq(Byte) /\ Extends(fed, fed)
BY LengthsInNat DEF TypeOK, Extends

\* Where feed() finds nothing, the reference finds nothing.
LEMMA SearchFollows ==
  ASSUME TypeOK, DataIsSuffix, NEW t \in Seq(Byte), Extends(t, fed), NEW p \in pos..Len(data),
         \A j \in pos..(p - 1) : j + PacketSize * (SyncConfirm - 1) < Len(data) /\ ~Confirmed(j)
  PROVE  Out(t, Reached + 1, FALSE) = Out(t, ((Len(fed) - Len(data)) + p) + 1, FALSE)
<1> DEFINE b == Len(fed) - Len(data)
           h == (b + p) + 1
           f == Reached + 1
<1>1. /\ Len(data) \in Nat /\ b \in Nat /\ pos \in Nat /\ p \in Nat /\ Reached = b + pos
      /\ b + Len(data) = Len(fed) /\ p <= Len(data) /\ pos <= p /\ Len(fed) \in Nat
      /\ Len(t) \in Nat /\ Len(t) >= Len(fed)
  BY LengthsInNat, ExtendsTyped DEF DataIsSuffix, Reached
<1> HIDE DEF b
<1>2. h \in 1..(Len(t) + 1) /\ f \in 1..h
  BY <1>1
<1>3. ASSUME NEW k \in f..(h - 1) PROVE Fits(t, k) /\ ~Confirms(t, k)
  <2> DEFINE j == (k - b) - 1
  <2>1. j \in pos..(p - 1) /\ j \in Nat /\ k = b + j + 1
    BY <1>1
  <2> HIDE DEF j
  <2>2. j + PacketSize * (SyncConfirm - 1) < Len(data) /\ ~Confirmed(j)
    BY <2>1
  <2>3. QED
    BY <2>1, <2>2, SameConfirmed DEF b
<1> HIDE DEF h, f
<1>4. Out(t, f, FALSE) = Out(t, h, FALSE)
  BY <1>2, <1>3, OutSkips
<1>5. QED
  BY <1>4 DEF h, f, b

LEMMA ChunksFind ==
  ASSUME TypeOK, ChunksInv, Find
  PROVE  ChunksInv'
<1>1. PICK i \in Candidates : /\ Confirmed(i) /\ pos' = i
                              /\ \A j \in pos..(i - 1) : ~Confirmed(j)
  BY DEF Find
<1>2. UNCHANGED <<data, fed>> /\ emitted' = emitted
  BY DEF Find
<1>3. locked = FALSE /\ locked' = TRUE /\ busy'
  BY Zenon DEF Find, TypeOK
<1>4. DataIsSuffix /\ Follows
  BY DEF ChunksInv
<1> DEFINE w == PacketSize * (SyncConfirm - 1)
           b == Len(fed) - Len(data)
<1>5. /\ Len(data) \in Nat /\ b \in Nat /\ pos \in Nat /\ w \in Nat
      /\ Len(fed) \in Nat /\ b + Len(data) = Len(fed)
  BY <1>4, LengthsInNat, ConfirmationFits DEF DataIsSuffix
<1>6. i \in Nat /\ i \in pos..Len(data) /\ i + w < Len(data) /\ \A j \in pos..(i - 1) : j + w < Len(data)
  <2>1. i \in pos..(Len(data) - w - 1)
    BY <1>1 DEF Candidates
  <2> HIDE DEF w
  <2>2. QED
    BY <1>5, <2>1
<1>7. Reached' = b + i
  <2>1. Len(data') = Len(data) /\ Len(fed') = Len(fed)
    BY <1>2
  <2>2. QED
    BY <1>1, <2>1 DEF Reached
<1> HIDE DEF w, b
<1>8. Reached' + 1 \in 1..(Len(fed) + 1)
  BY <1>5, <1>6, <1>7
<1>9. ASSUME NEW t \in Seq(Byte), Extends(t, fed)
      PROVE  Out(t, Reached + 1, locked) = <<>> \o Out(t, Reached' + 1, locked')
  <2> DEFINE h == Reached' + 1
  <2>1. h = b + i + 1 /\ h = (b + i) + 1
    BY <1>5, <1>6, <1>7
  <2>2. h \in 1..(Len(t) + 1)
    BY <1>8, <1>9, ExtendsTyped
  <2> HIDE DEF h
  <2>3. Out(t, Reached + 1, FALSE) = Out(t, h, FALSE)
    <3>1. Out(t, Reached + 1, FALSE) = Out(t, ((Len(fed) - Len(data)) + i) + 1, FALSE)
      BY <1>1, <1>4, <1>6, <1>9, SearchFollows DEF w
    <3>2. QED
      BY <2>1, <3>1 DEF b
  <2>4. Fits(t, h) /\ Confirms(t, h)
    BY <1>1, <1>4, <1>6, <1>9, <2>1, SameConfirmed DEF w, b
  <2>5. Out(t, h, FALSE) = Out(t, h, TRUE)
    BY <2>2, <2>4, OutSearching, Zenon
  <2>6. <<>> \o Out(t, h, TRUE) = Out(t, h, TRUE)
    <3>1. Out(t, h, TRUE) \in Seq(Byte)
      BY <2>2, OutTyped
    <3>2. QED
      BY <3>1, ConcatEmptySeq
  <2>7. QED
    BY <1>3, <2>3, <2>5, <2>6, Zenon DEF h
<1>10. DataIsSuffix'
  BY <1>2, <1>4 DEF DataIsSuffix
<1>11. Follows'
  <2>1. <<>> \in Seq(Byte) /\ emitted' = emitted \o <<>>
    BY <1>2, EmptySeq, ConcatEmptySeq DEF TypeOK
  <2>2. locked' \in BOOLEAN
    BY <1>3
  <2>3. QED
    BY <1>2, <1>4, <1>8, <1>9, <2>1, <2>2, FollowsOn
<1>12. Exhausted'
  BY <1>3, Zenon DEF Exhausted
<1>13. QED
  BY <1>10, <1>11, <1>12 DEF ChunksInv

LEMMA ChunksFindNothing ==
  ASSUME TypeOK, ChunksInv, FindNothing
  PROVE  ChunksInv'
<1> DEFINE w == PacketSize * (SyncConfirm - 1)
           tail == Len(data) - PacketSize * SyncConfirm
           keep == IF tail > pos THEN tail ELSE pos
           b == Len(fed) - Len(data)
<1>1. Keep(keep) /\ UNCHANGED fed /\ emitted' = emitted /\ \A i \in Candidates : ~Confirmed(i)
  BY DEF FindNothing
<1>2. locked = FALSE /\ locked' = FALSE
  BY Zenon DEF FindNothing, TypeOK
<1>3. DataIsSuffix /\ Follows
  BY DEF ChunksInv
<1>4. /\ Len(data) \in Nat /\ b \in Nat /\ pos \in Nat /\ pos <= Len(data) /\ w \in Nat
      /\ Len(fed) \in Nat /\ b + Len(data) = Len(fed) /\ PacketSize \in Nat
      /\ tail = Len(data) - (w + PacketSize)
  BY <1>3, LengthsInNat, ConfirmationFits DEF DataIsSuffix
<1>5. \A i \in Nat : i >= pos /\ i + w < Len(data) => i \in Candidates
  <2>1. Candidates = pos..(Len(data) - w - 1)
    BY DEF Candidates
  <2> HIDE DEF w
  <2>2. QED
    BY <1>4, <2>1
<1> HIDE DEF w, tail
<1>6. keep \in Nat /\ keep \in pos..Len(data) /\ \A j \in pos..(keep - 1) : j \in Nat /\ j + w < Len(data)
  BY <1>4
<1> HIDE DEF keep, b
<1>7. \A j \in pos..(keep - 1) : j + w < Len(data) /\ ~Confirmed(j)
  <2>1. \A j \in pos..(keep - 1) : j >= pos
    BY <1>4, <1>6
  <2>2. QED
    BY <1>1, <1>5, <1>6, <2>1, Zenon
<1>8. DataIsSuffix' /\ Reached' = b + keep /\ ~busy' /\ Reached' + 1 \in 1..(Len(fed) + 1)
  BY <1>1, <1>3, <1>6, KeepSuffix DEF b
<1>9. ASSUME NEW t \in Seq(Byte), Extends(t, fed)
      PROVE  Out(t, Reached + 1, locked) = <<>> \o Out(t, Reached' + 1, locked')
  <2> DEFINE h == Reached' + 1
  <2>1. h \in 1..(Len(t) + 1)
    BY <1>8, <1>9, ExtendsTyped
  <2>2. Out(t, Reached + 1, FALSE) = Out(t, h, FALSE)
    <3>1. Out(t, Reached + 1, FALSE) = Out(t, ((Len(fed) - Len(data)) + keep) + 1, FALSE)
      BY <1>3, <1>6, <1>7, <1>9, SearchFollows DEF w
    <3>2. QED
      BY <1>8, <3>1 DEF b
  <2> HIDE DEF h
  <2>3. <<>> \o Out(t, h, FALSE) = Out(t, h, FALSE)
    <3>1. Out(t, h, FALSE) \in Seq(Byte)
      BY <2>1, OutTyped
    <3>2. QED
      BY <3>1, ConcatEmptySeq
  <2>4. QED
    BY <1>2, <2>2, <2>3, Zenon DEF h
<1>10. Follows'
  <2>1. <<>> \in Seq(Byte) /\ emitted' = emitted \o <<>>
    BY <1>1, EmptySeq, ConcatEmptySeq DEF TypeOK
  <2>2. locked' \in BOOLEAN
    BY <1>2
  <2>3. QED
    BY <1>1, <1>3, <1>8, <1>9, <2>1, <2>2, FollowsOn
<1>11. Exhausted'
  <2> DEFINE h == Reached' + 1
  <2>1. ASSUME NEW k \in h..Len(fed), Fits(fed, k) PROVE ~Confirms(fed, k)
    <3> DEFINE i == (k - b) - 1
    <3>1. k + w <= Len(fed)
      <4>1. ~(k + w > Len(fed))
        BY <2>1, ConfirmationFits DEF Fits, w
      <4>2. k \in Int
        OBVIOUS
      <4>3. QED
        BY <1>4, <4>1, <4>2
    <3>2. i \in Nat /\ i >= pos /\ i + w < Len(data) /\ k = b + i + 1
      BY <1>4, <1>6, <1>8, <3>1
    <3> HIDE DEF i
    <3>3. ~Confirmed(i)
      BY <1>1, <1>5, <3>2
    <3>4. QED
      BY <1>3, <3>2, <3>3, FedExtends, SameConfirmed DEF w, b
  <2>2. h \in 1..(Len(fed) + 1) /\ fed \in Seq(Byte)
    BY <1>8, FedExtends
  <2> HIDE DEF h
  <2>3. Out(fed, h, FALSE) = <<>>
    BY <2>1, <2>2, OutEnds
  <2>4. QED
    BY <1>1, <1>2, <2>3, Zenon DEF Exhausted, h
<1>12. QED
  BY <1>8, <1>10, <1>11 DEF ChunksInv

\* What feed() cuts is what the reference cuts.
LEMMA CutFollows ==
  ASSUME TypeOK, DataIsSuffix, NEW t \in Seq(Byte), Extends(t, fed),
         NEW n \in 0..Count, \A k \in 0..(n - 1) : StartsWithSync(k)
  PROVE  Out(t, Reached + 1, TRUE) = Packets(n) \o Out(t, (Reached + n * PacketSize) + 1, TRUE)
<1> DEFINE b == Len(fed) - Len(data)
           f == Reached + 1
           len(m) == m * PacketSize
<1>1. /\ Len(data) \in Nat /\ b \in Nat /\ pos \in Nat /\ pos <= Len(data) /\ f = b + pos + 1
      /\ Len(fed) \in Nat /\ b + Len(data) = Len(fed) /\ Len(t) \in Nat /\ Len(t) >= Len(fed)
      /\ PacketSize \in Nat /\ PacketSize > 0
  BY LengthsInNat, ExtendsTyped DEF DataIsSuffix, Reached
<1>2. n \in Nat /\ pos + len(n) \in pos..Len(data)
  BY PacketsInside
<1>3. \A k \in 0..(n - 1) : len(k) \in Nat /\ len(k) + PacketSize <= len(n)
  BY <1>1, <1>2, ProductInNat, FewerPackets
<1>4. len(n) \in Nat
  BY <1>1, <1>2, ProductInNat
<1>5. \A k \in 0..(n - 1) : IsSync(data[pos + len(k) + 1])
  BY DEF StartsWithSync
<1>6. Packets(n) = SubSeq(data, pos + 1, pos + len(n))
  BY DEF Packets
<1> HIDE DEF len, b, f
<1>7. f \in Nat \ {0} /\ f + len(n) <= Len(t) + 1 /\ (Reached + len(n)) + 1 = f + len(n)
  BY <1>1, <1>2, <1>4 DEF f, b, Reached
<1>8. \A i \in 1..Len(data) : data[i] = t[b + i]
  BY SameBytes DEF b
<1>9. \A k \in 0..(n - 1) : IsSync(t[f + len(k)])
  <2> SUFFICES ASSUME NEW k \in 0..(n - 1) PROVE IsSync(t[f + len(k)])
    OBVIOUS
  <2>1. pos + len(k) + 1 \in 1..Len(data) /\ b + (pos + len(k) + 1) = f + len(k)
    <3>1. len(k) \in Nat /\ len(k) + PacketSize <= len(n)
      BY <1>3
    <3>2. QED
      BY <1>1, <1>2, <1>4, <3>1
  <2>2. data[pos + len(k) + 1] = t[f + len(k)]
    BY <1>8, <2>1
  <2>3. QED
    BY <1>5, <2>2
<1>10. Out(t, f, TRUE) = SubSeq(t, f, (f + len(n)) - 1) \o Out(t, f + len(n), TRUE)
  BY <1>2, <1>7, <1>9, OutPackets DEF len
<1>11. Packets(n) = SubSeq(t, f, (f + len(n)) - 1)
  <2> DEFINE u == SubSeq(t, (b + pos) + 1, b + pos + len(n))
             v == SubSeq(data, pos + 1, pos + len(n))
  <2>1. /\ v \in Seq(Byte) /\ Len(v) = len(n)
        /\ \A j \in 1..len(n) : v[j] = data[pos + j]
    <3> DEFINE q == pos + len(n)
    <3>1. pos \in 0..Len(data) /\ q \in pos..Len(data) /\ q - pos = len(n) /\ data \in Seq(Byte)
      BY <1>1, <1>2, <1>4 DEF TypeOK
    <3> HIDE DEF q
    <3>2. /\ SubSeq(data, pos + 1, q) \in Seq(Byte) /\ Len(SubSeq(data, pos + 1, q)) = q - pos
          /\ \A j \in 1..(q - pos) : SubSeq(data, pos + 1, q)[j] = data[pos + j]
      BY <3>1, CutBytes
    <3>3. QED
      BY <3>1, <3>2 DEF q
  <2>2. /\ u \in Seq(Byte) /\ Len(u) = len(n)
        /\ \A j \in 1..len(n) : u[j] = t[(b + pos) + j]
    <3> DEFINE p == b + pos
               q == p + len(n)
    <3>1. p \in 0..Len(t) /\ q \in p..Len(t) /\ q - p = len(n)
      BY <1>1, <1>2, <1>4
    <3> HIDE DEF p, q
    <3>2. /\ SubSeq(t, p + 1, q) \in Seq(Byte) /\ Len(SubSeq(t, p + 1, q)) = q - p
          /\ \A j \in 1..(q - p) : SubSeq(t, p + 1, q)[j] = t[p + j]
      BY <3>1, CutBytes
    <3>3. QED
      BY <3>1, <3>2 DEF p, q
  <2>3. ASSUME NEW j \in 1..len(n) PROVE u[j] = v[j]
    <3>1. pos + j \in 1..Len(data) /\ b + (pos + j) = (b + pos) + j
      BY <1>1, <1>2, <1>4
    <3>2. data[pos + j] = t[(b + pos) + j]
      BY <1>8, <3>1
    <3>3. QED
      BY <2>1, <2>2, <3>2
  <2> HIDE DEF u, v
  <2>4. u = v
    BY <2>1, <2>2, <2>3, SeqEqual
  <2>5. (b + pos) + 1 = f /\ b + pos + len(n) = (f + len(n)) - 1
    BY <1>1, <1>4
  <2>6. QED
    BY <1>6, <2>4, <2>5 DEF u, v
<1>12. QED
  BY <1>7, <1>10, <1>11 DEF f, len

LEMMA PacketsTyped ==
  ASSUME TypeOK, NEW n \in 0..Count
  PROVE  Packets(n) \in Seq(Byte)
<1> DEFINE q == pos + n * PacketSize
<1>1. q \in pos..Len(data) /\ pos \in 0..Len(data) /\ data \in Seq(Byte)
  BY PacketsInside DEF TypeOK
<1> HIDE DEF q
<1>2. SubSeq(data, pos + 1, q) \in Seq(Byte)
  BY <1>1, CutBytes
<1>3. QED
  BY <1>2 DEF Packets, q

LEMMA ChunksCutAll ==
  ASSUME TypeOK, ChunksInv, CutAll
  PROVE  ChunksInv'
<1> DEFINE w == Count * PacketSize
           p == pos + w
           b == Len(fed) - Len(data)
<1>1. /\ Keep(p) /\ UNCHANGED fed /\ emitted' = emitted \o Packets(Count)
      /\ \A k \in 0..(Count - 1) : StartsWithSync(k)
  BY DEF CutAll
<1>2. locked = TRUE /\ locked' = TRUE
  BY Zenon DEF CutAll, TypeOK
<1>3. DataIsSuffix /\ Follows
  BY DEF ChunksInv
<1>4. /\ Len(data) \in Nat /\ b \in Nat /\ pos \in Nat /\ pos <= Len(data) /\ Reached = b + pos
      /\ Len(fed) \in Nat /\ b + Len(data) = Len(fed) /\ PacketSize \in Nat
  BY <1>3, LengthsInNat DEF DataIsSuffix, Reached
<1>5. Count \in Nat /\ Count \in 0..Count
  <2>1. Len(data) - pos \in Nat /\ PacketSize \in Nat \ {0}
    BY LengthsInNat
  <2>2. QED
    BY <2>1, DivBounds DEF Count
<1>6. w \in Nat /\ p \in pos..Len(data) /\ Len(data) - p < PacketSize
  BY <1>4, <1>5, ProductInNat, PacketsInside
<1> HIDE DEF p
<1>7. DataIsSuffix' /\ Reached' = b + p /\ ~busy' /\ Reached' + 1 \in 1..(Len(fed) + 1)
  BY <1>1, <1>3, <1>6, KeepSuffix DEF b
<1> HIDE DEF b
<1>8. Reached' + 1 = (Reached + w) + 1
  <2> HIDE DEF w
  <2>1. QED
    BY <1>4, <1>6, <1>7 DEF p
<1>9. ASSUME NEW t \in Seq(Byte), Extends(t, fed)
      PROVE  Out(t, Reached + 1, locked) = Packets(Count) \o Out(t, Reached' + 1, locked')
  <2>1. Out(t, Reached + 1, TRUE) = Packets(Count) \o Out(t, (Reached + w) + 1, TRUE)
    BY <1>1, <1>3, <1>5, <1>9, CutFollows
  <2>2. QED
    BY <1>2, <1>8, <2>1
<1>10. Follows'
  <2>1. Packets(Count) \in Seq(Byte) /\ locked' \in BOOLEAN
    BY <1>2, <1>5, PacketsTyped
  <2>2. QED
    BY <1>1, <1>3, <1>7, <1>9, <2>1, FollowsOn
<1>11. Exhausted'
  <2> DEFINE h == Reached' + 1
  <2>1. h \in 1..(Len(fed) + 1) /\ fed \in Seq(Byte)
    BY <1>7, FedExtends
  <2>2. h + PacketSize - 1 > Len(fed)
    BY <1>4, <1>6, <1>7
  <2> HIDE DEF h
  <2>3. Out(fed, h, TRUE) = <<>>
    BY <2>1, <2>2, OutAligned
  <2>4. QED
    BY <1>1, <1>2, <2>3, Zenon DEF Exhausted, h
<1>12. QED
  BY <1>7, <1>10, <1>11 DEF ChunksInv

LEMMA ChunksLoseSync ==
  ASSUME TypeOK, ChunksInv, LoseSync
  PROVE  ChunksInv'
<1> DEFINE len(n) == n * PacketSize
           b == Len(fed) - Len(data)
<1>1. PICK good \in 0..(Count - 1) :
        /\ ~StartsWithSync(good)
        /\ \A k \in 0..(good - 1) : StartsWithSync(k)
        /\ emitted' = emitted \o Packets(good)
        /\ pos' = pos + len(good) + 1
  BY DEF LoseSync
<1>2. locked = TRUE /\ locked' = FALSE /\ busy'
  BY Zenon DEF LoseSync, TypeOK
<1>3. UNCHANGED <<data, fed>> /\ DataIsSuffix /\ Follows
  BY DEF LoseSync, ChunksInv
<1>4. /\ Len(data) \in Nat /\ b \in Nat /\ pos \in Nat /\ pos <= Len(data) /\ Reached = b + pos
      /\ Len(fed) \in Nat /\ b + Len(data) = Len(fed) /\ PacketSize \in Nat /\ PacketSize > 0
  BY <1>3, LengthsInNat DEF DataIsSuffix, Reached
<1>5. good \in Nat /\ good \in 0..Count /\ Count \in Nat /\ Count \in 0..Count /\ good < Count
  <2>1. Len(data) - pos \in Nat /\ PacketSize \in Nat \ {0}
    BY LengthsInNat
  <2>2. Count \in Nat
    BY <2>1, DivBounds DEF Count
  <2>3. QED
    BY <1>1, <2>2
<1>6. len(good) \in Nat /\ pos + len(good) + PacketSize <= Len(data)
  <2>1. len(good) \in Nat /\ len(Count) \in Nat /\ len(good) + PacketSize <= len(Count)
    BY <1>4, <1>5, ProductInNat, FewerPackets
  <2>2. pos + len(Count) \in pos..Len(data)
    BY <1>5, PacketsInside
  <2> HIDE DEF len
  <2>3. QED
    BY <1>4, <2>1, <2>2
<1>7. ~IsSync(data[pos + len(good) + 1])
  BY <1>1 DEF StartsWithSync
<1>8. Reached' = b + pos + len(good) + 1
  <2>1. Len(data') = Len(data) /\ Len(fed') = Len(fed)
    BY <1>3
  <2> HIDE DEF len
  <2>2. QED
    BY <1>1, <1>4, <1>6, <2>1 DEF Reached
<1>9. Reached' + 1 \in 1..(Len(fed) + 1)
  <2> HIDE DEF len, b
  <2>1. QED
    BY <1>4, <1>6, <1>8
<1>10. ASSUME NEW t \in Seq(Byte), Extends(t, fed)
       PROVE  Out(t, Reached + 1, locked) = Packets(good) \o Out(t, Reached' + 1, locked')
  <2> DEFINE h == (Reached + len(good)) + 1
  <2>1. Out(t, Reached + 1, TRUE) = Packets(good) \o Out(t, h, TRUE)
    BY <1>1, <1>3, <1>5, <1>10, CutFollows
  <2>2. Len(t) \in Nat /\ Len(t) >= Len(fed)
    BY <1>10, ExtendsTyped
  <2>3. \A i \in 1..Len(data) : data[i] = t[b + i]
    BY <1>3, <1>10, SameBytes
  <2> HIDE DEF len, b
  <2>4. /\ h \in 1..(Len(t) + 1) /\ ~(h + PacketSize - 1 > Len(t)) /\ h + 1 = Reached' + 1
        /\ pos + len(good) + 1 \in 1..Len(data) /\ b + (pos + len(good) + 1) = h
    <3>1. h \in Nat /\ h = b + pos + len(good) + 1 /\ h + PacketSize <= Len(fed) + 1
      BY <1>4, <1>6
    <3>2. h + 1 = Reached' + 1
      BY <1>8, <3>1
    <3>3. pos + len(good) + 1 \in 1..Len(data) /\ b + (pos + len(good) + 1) = h
      BY <1>4, <1>6, <3>1
    <3> HIDE DEF h
    <3>4. h \in Nat /\ h + PacketSize <= Len(t) + 1 /\ PacketSize \in Nat /\ PacketSize > 0
      <4>1. Len(fed) \in Nat /\ PacketSize \in Nat /\ PacketSize > 0
        BY <1>4
      <4>2. h \in Nat /\ h + PacketSize <= Len(fed) + 1
        BY <3>1
      <4>3. QED
        BY <2>2, <4>1, <4>2
    <3>5. h >= 1
      BY <1>4, <1>6, <3>1, SMTT(30)
    <3>6. h \in 1..(Len(t) + 1) /\ ~(h + PacketSize - 1 > Len(t))
      BY <2>2, <3>4, <3>5
    <3>7. QED
      BY <3>2, <3>3, <3>6
  <2>5. ~IsSync(t[h])
    <3>1. data[pos + len(good) + 1] = t[h]
      BY <2>3, <2>4
    <3>2. QED
      BY <1>7, <3>1
  <2> HIDE DEF h
  <2>6. Out(t, h, TRUE) = Out(t, h + 1, FALSE)
    BY <2>4, <2>5, OutAligned, Zenon
  <2>7. QED
    BY <1>2, <2>1, <2>4, <2>6
<1>11. DataIsSuffix'
  BY <1>3 DEF DataIsSuffix
<1>12. Follows'
  <2>1. Packets(good) \in Seq(Byte) /\ locked' \in BOOLEAN
    BY <1>2, <1>5, PacketsTyped
  <2>2. QED
    BY <1>1, <1>3, <1>9, <1>10, <2>1, FollowsOn
<1>13. Exhausted'
  BY <1>2, Zenon DEF Exhausted
<1>14. QED
  BY <1>11, <1>12, <1>13 DEF ChunksInv

LEMMA ChunksStep == TypeOK /\ ChunksInv /\ [Next]_vars => ChunksInv'
<1> SUFFICES ASSUME TypeOK, ChunksInv, [Next]_vars PROVE ChunksInv'
  OBVIOUS
<1>1. ASSUME NEW chunk \in Chunks, Feed(chunk) PROVE ChunksInv'
  BY <1>1, ChunksFeed
<1>2. CASE Find
  BY <1>2, ChunksFind
<1>3. CASE FindNothing
  BY <1>3, ChunksFindNothing
<1>4. CASE CutAll
  BY <1>4, ChunksCutAll
<1>5. CASE LoseSync
  BY <1>5, ChunksLoseSync
<1>6. CASE UNCHANGED vars
  <2>1. UNCHANGED <<data, pos, busy, locked, fed, emitted>>
    BY <1>6 DEF vars
  <2>2. QED
    BY <2>1, Zenon DEF ChunksInv, DataIsSuffix, Follows, Exhausted, Reached
<1>7. QED
  BY <1>1, <1>2, <1>3, <1>4, <1>5, <1>6 DEF Next

LEMMA ChunksInit == Init => ChunksInv
<1> SUFFICES ASSUME Init PROVE ChunksInv
  OBVIOUS
<1>1. data = <<>> /\ fed = <<>> /\ emitted = <<>> /\ pos = 0 /\ locked = FALSE
  BY DEF Init
<1>2. Len(<<>>) = 0 /\ <<>> \in Seq(Byte) /\ Len(data) = 0 /\ Len(fed) = 0
  BY <1>1, EmptySeq
<1>3. Reached = 0 /\ Reached + 1 = 1
  BY <1>1, <1>2 DEF Reached
<1>4. DataIsSuffix
  BY <1>2 DEF DataIsSuffix
<1>5. ASSUME NEW t \in Seq(Byte) PROVE Aligned(t) = emitted \o Out(t, Reached + 1, locked)
  <2>1. Len(t) \in Nat
    BY LenProperties
  <2>2. 1 \in 1..(Len(t) + 1)
    BY <2>1
  <2>3. Out(t, 1, FALSE) \in Seq(Byte)
    BY <2>2, OutTyped
  <2>4. <<>> \o Out(t, 1, FALSE) = Out(t, 1, FALSE)
    BY <2>3, ConcatEmptySeq
  <2>5. QED
    BY <1>1, <1>3, <2>4, AlignedIsOut
<1>6. Follows
  BY <1>5 DEF Follows
<1>7. Exhausted
  <2>1. fed \in Seq(Byte) /\ 1 \in 1..(Len(fed) + 1) /\ \A k \in 1..Len(fed) : FALSE
    BY <1>1, <1>2
  <2>2. Out(fed, 1, FALSE) = <<>>
    BY <2>1, OutEnds
  <2>3. QED
    BY <1>1, <1>3, <2>2 DEF Exhausted
<1>8. QED
  BY <1>4, <1>6, <1>7 DEF ChunksInv

\* How the stream is cut into chunks makes no difference: between the calls of
\* feed() exactly those bytes have been returned which one pass over the whole
\* stream finds, for any packet size, number of confirmations and stream.
THEOREM AlignerChunksDoNotMatter == Spec => []ChunksDoNotMatter
<1>1. TypeOK /\ ChunksInv => ChunksDoNotMatter
  <2> SUFFICES ASSUME TypeOK, ChunksInv, ~busy PROVE emitted = Aligned(fed)
    BY DEF ChunksDoNotMatter
  <2>1. Aligned(fed) = emitted \o Out(fed, Reached + 1, locked)
    BY FedExtends DEF ChunksInv, Follows
  <2>2. Out(fed, Reached + 1, locked) = <<>>
    BY Zenon DEF ChunksInv, Exhausted
  <2>3. emitted \o <<>> = emitted
    BY ConcatEmptySeq DEF TypeOK
  <2>4. QED
    BY <2>1, <2>2, <2>3
<1>2. QED
  BY <1>1, ChunksInit, ChunksStep, AlignerTyped, PTL DEF Spec
=============================================================================
