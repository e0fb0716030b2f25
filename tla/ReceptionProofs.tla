-------------------------- MODULE ReceptionProofs --------------------------
(***************************************************************************)
(* For every table, sizes, modulus and run of losses: the counts of the    *)
(* analyzer are true, sections come out in order and never twice, and a    *)
(* section of which every packet arrives comes out.                        *)
(*                                                                         *)
(* The invariants: LastInv, AirInv and SumInv tie the counters to the true *)
(* numbers of the packets; SectionsInv and DataInv are the types; OrderInv *)
(* says that the bytes held or coming lie in order behind what has been    *)
(* returned; ExpectInv says what the assembler holds of a section that is  *)
(* due, in each phase of _drain().                                         *)
(***************************************************************************)
EXTENDS Reception, SeqLemmas

-----------------------------------------------------------------------------
(* Differences of remainders                                                *)

LEMMA QuotientAndRest ==
  ASSUME NEW n \in Nat, NEW d \in Nat \ {0}
  PROVE  /\ n \div d \in Nat /\ n % d \in 0..(d - 1)
         /\ n = (n \div d) * d + (n % d)
OBVIOUS

LEMMA RestIs ==
  ASSUME NEW d \in Nat \ {0}, NEW q \in Int, NEW r \in 0..(d - 1)
  PROVE  (q * d + r) % d = r
OBVIOUS

LEMMA Shift ==
  ASSUME NEW a \in Int, NEW b \in Int, NEW d \in Int
  PROVE  a * d - b * d = (a - b) * d
OBVIOUS

\* The counters tell the distance of two packets as well as their numbers do.
LEMMA RestOfDifference ==
  ASSUME NEW a \in Nat, NEW b \in Nat, NEW d \in Nat \ {0}
  PROVE  ((b % d) - (a % d)) % d = (b - a) % d
<1> DEFINE q == a \div d  r == a % d  t == b \div d  s == b % d
<1>1. q \in Nat /\ r \in 0..(d - 1) /\ a = q * d + r
  BY QuotientAndRest
<1>2. t \in Nat /\ s \in 0..(d - 1) /\ b = t * d + s
  BY QuotientAndRest
<1> HIDE DEF q, r, t, s
<1>3. b - a = (t - q) * d + (s - r)
  <2> DEFINE x == q * d  y == t * d
  <2>1. x \in Int /\ y \in Int /\ y - x = (t - q) * d
    BY <1>1, <1>2, Shift
  <2>2. a = x + r /\ b = y + s
    BY <1>1, <1>2
  <2> HIDE DEF x, y
  <2>3. b - a = (y - x) + (s - r)
    BY <1>1, <1>2, <2>1, <2>2
  <2>4. QED
    BY <2>1, <2>3
<1>4. CASE s >= r
  <2>1. s - r \in 0..(d - 1) /\ t - q \in Int /\ 0 \in Int
    BY <1>1, <1>2, <1>4
  <2>2. (b - a) % d = s - r
    BY <1>3, <2>1, RestIs
  <2>3. (0 * d + (s - r)) % d = s - r
    BY <2>1, RestIs
  <2>4. 0 * d + (s - r) = s - r
    BY <2>1
  <2>5. QED
    BY <2>2, <2>3, <2>4 DEF r, s
<1>5. CASE s < r
  <2> DEFINE e == s - r + d
  <2>1. e \in 0..(d - 1) /\ t - q - 1 \in Int /\ -1 \in Int
    BY <1>1, <1>2, <1>5
  <2>2. (t - q) * d + (s - r) = (t - q - 1) * d + e
    <3> DEFINE k == t - q
    <3>1. k \in Int
      BY <1>1, <1>2
    <3> HIDE DEF k
    <3>2. k * d = (k - 1) * d + d
      BY <3>1
    <3>3. (k - 1) * d \in Int
      BY <3>1
    <3>4. QED
      BY <1>1, <1>2, <3>2, <3>3 DEF k
  <2>3. (-1) * d + e = s - r
    BY <1>1, <1>2
  <2> HIDE DEF e
  <2>4. (b - a) % d = e
    BY <1>3, <2>1, <2>2, RestIs
  <2>5. ((-1) * d + e) % d = e
    BY <2>1, RestIs
  <2>6. QED
    BY <2>3, <2>4, <2>5 DEF r, s
<1>6. QED
  BY <1>1, <1>2, <1>4, <1>5

-----------------------------------------------------------------------------
(* The invariant: the analyzer remembers, of each PID, the counter of the   *)
(* last good packet, and what is about to arrive carries the latest number. *)

Fields == {"pid", "num", "cc", "tei", "payload", "scrambled", "start", "room", "pre", "data"}

Genuine(p) ==
  /\ p.pid \in Pids
  /\ p.num = sent[p.pid]
  /\ p.cc = p.num % CcMod
  /\ p.payload => p.num # 0

AirInv == (\E S : air \in Seq(S)) /\ \A i \in 1..Len(air) : Genuine(air[i])

SentInv == sent \in [Pids -> Nat] /\ seen \in [Pids -> Nat] /\ \A pid \in Pids : seen[pid] <= sent[pid]

LastInv ==
  /\ lastCc \in [Pids -> Int]
  /\ \A pid \in Pids : lastCc[pid] = IF seen[pid] = 0 THEN -1 ELSE seen[pid] % CcMod

SumInv ==
  /\ packets \in Nat /\ tei \in Nat /\ null \in Nat /\ scrambled \in Nat
  /\ ccErrors \in Nat /\ breaks \in Nat /\ unseen \in Nat
  /\ ccErrors + unseen = breaks
  /\ tei + null + scrambled <= packets

Inv == AirInv /\ SentInv /\ LastInv /\ SumInv

LEMMA InvInit == Init => Inv
<1> SUFFICES ASSUME Init PROVE Inv
  OBVIOUS
<1>1. AirInv
  <2>1. air = <<>> /\ <<>> \in Seq({})
    BY DEF Init
  <2>2. QED
    BY <2>1 DEF AirInv
<1>2. SentInv
  BY DEF Init, SentInv
<1>3. LastInv
  BY DEF Init, AnalyzerInit, LastInv
<1>4. SumInv
  BY DEF Init, AnalyzerInit, SumInv
<1>5. QED
  BY <1>1, <1>2, <1>3, <1>4 DEF Inv

-----------------------------------------------------------------------------
(* A packet is sent                                                         *)

\* A packet as the broadcast makes it.
Made(p) ==
  /\ DOMAIN p = Fields
  /\ p.pid \in Pids
  /\ p.num = sent[p.pid] + (IF p.payload THEN 1 ELSE 0)
  /\ p.cc = p.num % CcMod

LEMMA HeaderMade ==
  ASSUME NEW pid \in Pids, NEW payload
  PROVE  Made(Header(pid, payload))
BY DEF Header, Made, Fields

LEMMA ArrivalKinds ==
  ASSUME NEW p, NEW copies \in Arrivals(p)
  PROVE  copies \in Seq({p, Errored(p)})
<1> DEFINE e == Errored(p)
<1>1. copies \in {<<>>, <<p>>, <<e>>, <<p, p>>, <<e, p>>}
  BY DEF Arrivals
<1> HIDE DEF e
<1> DEFINE T == {p, e}
<1>2. p \in T /\ e \in T
  OBVIOUS
<1> HIDE DEF T
<1>3. <<>> \in Seq(T) /\ <<p>> \in Seq(T) /\ <<e>> \in Seq(T)
  BY <1>2
<1>4. <<p, p>> \in Seq(T) /\ <<e, p>> \in Seq(T)
  BY <1>2
<1>5. copies \in Seq(T)
  BY <1>1, <1>3, <1>4
<1>6. QED
  BY <1>5 DEF T, e

LEMMA ErroredSame ==
  ASSUME NEW p, DOMAIN p = Fields
  PROVE  /\ Errored(p).pid = p.pid /\ Errored(p).num = p.num
         /\ Errored(p).cc = p.cc /\ Errored(p).payload = p.payload
BY DEF Errored, Fields

LEMMA TransmitKeeps ==
  ASSUME Inv, NEW p, NEW ends, NEW begun, NEW open, Made(p), Transmit(p, ends, begun, open)
  PROVE  Inv'
<1> USE DEF Inv
<1>1. PICK copies \in Arrivals(p) : air' = copies
  BY DEF Transmit
<1>2. sent' = [sent EXCEPT ![p.pid] = p.num] /\ seen' = seen
  BY DEF Transmit
<1>3. p.pid \in Pids /\ p.num \in Nat /\ p.num >= sent[p.pid] /\ (p.payload => p.num # 0)
  BY DEF Made, SentInv
<1>4. SentInv'
  BY <1>2, <1>3 DEF SentInv
<1>5. sent'[p.pid] = p.num
  BY <1>2, <1>3 DEF SentInv
<1>6. Genuine(p)'
  BY <1>3, <1>5 DEF Made, Genuine
<1>7. Genuine(Errored(p))'
  BY <1>3, <1>5, ErroredSame DEF Made, Genuine
<1>8. AirInv'
  <2>1. air' \in Seq({p, Errored(p)})
    BY <1>1, ArrivalKinds
  <2>2. \A i \in 1..Len(air') : air'[i] \in {p, Errored(p)}
    BY <2>1, ElementOfSeq
  <2>3. QED
    BY <1>6, <1>7, <2>1, <2>2 DEF AirInv
<1>9. LastInv' /\ SumInv'
  BY DEF Transmit, analyzerVars, counts, LastInv, SumInv
<1>10. QED
  BY <1>4, <1>8, <1>9

LEMMA BroadcastKeeps ==
  ASSUME Inv, Broadcast
  PROVE  Inv'
<1>0. SiPid \in Pids
  BY ReceptionAssumption
<1>1. CASE SendOther
  <2>1. PICK pid \in Pids, payload \in BOOLEAN, enc \in BOOLEAN :
            Transmit([Header(pid, payload) EXCEPT !.scrambled = enc], {}, {}, FALSE)
    BY <1>1 DEF SendOther
  <2> DEFINE h == Header(pid, payload)
  <2>2. Made(h)
    BY HeaderMade
  <2> HIDE DEF h
  <2>3. Made([h EXCEPT !.scrambled = enc])
    BY <2>2 DEF Made, Fields
  <2>4. QED
    BY <2>1, <2>3, TransmitKeeps DEF h
<1>2. CASE SendMore
  <2> DEFINE h == Header(SiPid, TRUE)
  <2>1. \E room, data, ends, open :
            Transmit([h EXCEPT !.room = room, !.data = data], ends, {}, open)
    BY <1>2 DEF SendMore
  <2>2. Made(h)
    BY <1>0, HeaderMade
  <2> HIDE DEF h
  <2>3. ASSUME NEW room, NEW data PROVE Made([h EXCEPT !.room = room, !.data = data])
    BY <2>2 DEF Made, Fields
  <2>4. QED
    BY <2>1, <2>3, TransmitKeeps
<1>3. CASE SendStart
  <2> DEFINE h == Header(SiPid, TRUE)
  <2>1. \E room, pre, data, ends, begun, open :
            Transmit([h EXCEPT !.start = TRUE, !.room = room, !.pre = pre, !.data = data],
                     ends, begun, open)
    BY <1>3 DEF SendStart
  <2>2. Made(h)
    BY <1>0, HeaderMade
  <2> HIDE DEF h
  <2>3. ASSUME NEW room, NEW pre, NEW data
        PROVE  Made([h EXCEPT !.start = TRUE, !.room = room, !.pre = pre, !.data = data])
    BY <2>2 DEF Made, Fields
  <2>4. QED
    BY <2>1, <2>3, TransmitKeeps
<1>4. QED
  BY <1>1, <1>2, <1>3 DEF Broadcast

-----------------------------------------------------------------------------
(* A packet arrives                                                         *)

Gap(a, n) == a > 0 /\ n > a + 1
Looks(a, n) == (n - a) % CcMod \in {0, 1}
One(b) == IF b THEN 1 ELSE 0

\* A packet behind a gap shows as a jump of the counter or looks right; any
\* other one does neither.
LEMMA GapOrJump ==
  ASSUME NEW a \in Nat, NEW n \in Nat, a <= n
  PROVE  One(Jump(IF a = 0 THEN -1 ELSE a % CcMod, n % CcMod)) + One(Gap(a, n) /\ Looks(a, n))
           = One(Gap(a, n))
<1> DEFINE k == (n - a) % CcMod
<1>0. CcMod \in Nat \ {0}
  BY AnalyzerAssumption
<1>1. k \in 0..(CcMod - 1)
  <2>1. n - a \in Nat
    OBVIOUS
  <2>2. QED
    BY <1>0, <2>1, QuotientAndRest
<1>2. CASE a = 0
  BY <1>2 DEF Jump, Gap, One
<1>3. CASE a # 0
  <2>1. a % CcMod \in Nat
    <3>1. a % CcMod \in 0..(CcMod - 1)
      BY <1>0, QuotientAndRest
    <3>2. QED
      BY <1>0, <3>1
  <2>2. ((n % CcMod) - (a % CcMod)) % CcMod = k
    BY <1>0, RestOfDifference
  <2>3. Jump(a % CcMod, n % CcMod) <=> k > 1
    BY <2>1, <2>2 DEF Jump
  <2>4. Looks(a, n) <=> k \in {0, 1}
    BY DEF Looks
  <2>5. CASE n > a + 1
    <3>1. Gap(a, n)
      BY <1>3, <2>5 DEF Gap
    <3>2. Looks(a, n) <=> ~(k > 1)
      BY <1>0, <1>1, <2>4
    <3>3. QED
      BY <1>3, <2>3, <3>1, <3>2 DEF One
  <2>6. CASE ~(n > a + 1)
    <3>1. ~Gap(a, n)
      BY <2>6 DEF Gap
    <3>2. n - a \in {0, 1}
      BY <2>6
    <3>3. (n - a) % CcMod <= 1
      <4>1. 0 % CcMod = 0
        BY <1>0
      <4>2. 1 % CcMod <= 1
        BY <1>0
      <4>3. QED
        BY <3>2, <4>1, <4>2
    <3>4. ~(k > 1)
      BY <1>0, <1>1, <3>3
    <3>5. QED
      BY <1>3, <2>3, <3>1, <3>4 DEF One
  <2>7. QED
    BY <2>5, <2>6
<1>4. QED
  BY <1>2, <1>3

\* A good packet is counted, and observed.
LEMMA GoodKeeps ==
  ASSUME SentInv, LastInv, SumInv, NEW p, Genuine(p), p.payload,
         lastCc' = [lastCc EXCEPT ![p.pid] = p.cc],
         ccErrors' = ccErrors + One(Jump(lastCc[p.pid], p.cc)),
         seen' = [seen EXCEPT ![p.pid] = p.num],
         breaks' = breaks + One(Gap(seen[p.pid], p.num)),
         unseen' = unseen + One(Gap(seen[p.pid], p.num) /\ Looks(seen[p.pid], p.num)),
         sent' = sent
  PROVE  /\ SentInv' /\ LastInv'
         /\ ccErrors' \in Nat /\ breaks' \in Nat /\ unseen' \in Nat
         /\ ccErrors' + unseen' = breaks'
<1> DEFINE a == seen[p.pid]  n == p.num
<1>1. /\ p.pid \in Pids /\ a \in Nat /\ n \in Nat /\ a <= n /\ n # 0
      /\ n = sent[p.pid] /\ p.cc = n % CcMod
  BY DEF Genuine, SentInv
<1>2. lastCc[p.pid] = IF a = 0 THEN -1 ELSE a % CcMod
  BY <1>1 DEF LastInv
<1>3. SentInv'
  BY <1>1 DEF SentInv
<1>4. n % CcMod \in Int
  <2>1. CcMod \in Nat \ {0}
    BY AnalyzerAssumption
  <2>2. n % CcMod \in 0..(CcMod - 1)
    BY <1>1, <2>1, QuotientAndRest
  <2>3. QED
    BY <2>1, <2>2
<1>5. LastInv'
  <2>1. lastCc' \in [Pids -> Int]
    BY <1>1, <1>4 DEF LastInv
  <2>2. ASSUME NEW pid \in Pids
        PROVE  lastCc'[pid] = IF seen'[pid] = 0 THEN -1 ELSE seen'[pid] % CcMod
    <3>1. CASE pid = p.pid
      <4>1. lastCc'[pid] = n % CcMod /\ seen'[pid] = n
        BY <1>1, <3>1 DEF LastInv, SentInv
      <4>2. QED
        BY <1>1, <4>1
    <3>2. CASE pid # p.pid
      <4>1. lastCc'[pid] = lastCc[pid] /\ seen'[pid] = seen[pid]
        BY <1>1, <3>2 DEF LastInv, SentInv
      <4>2. QED
        BY <4>1 DEF LastInv
    <3>3. QED
      BY <3>1, <3>2
  <2>3. QED
    BY <2>1, <2>2 DEF LastInv
<1>6. One(Jump(lastCc[p.pid], p.cc)) + One(Gap(a, n) /\ Looks(a, n)) = One(Gap(a, n))
  <2>1. One(Jump(IF a = 0 THEN -1 ELSE a % CcMod, n % CcMod)) + One(Gap(a, n) /\ Looks(a, n))
          = One(Gap(a, n))
    BY <1>1, GapOrJump
  <2>2. QED
    BY <1>1, <1>2, <2>1
<1>7. /\ One(Jump(lastCc[p.pid], p.cc)) \in Nat
      /\ One(Gap(a, n) /\ Looks(a, n)) \in Nat
      /\ One(Gap(a, n)) \in Nat
  BY DEF One
<1> DEFINE j == One(Jump(lastCc[p.pid], p.cc))  g == One(Gap(a, n))
           l == One(Gap(a, n) /\ Looks(a, n))
<1>8. /\ j \in Nat /\ g \in Nat /\ l \in Nat /\ j + l = g
      /\ ccErrors' = ccErrors + j /\ breaks' = breaks + g /\ unseen' = unseen + l
  BY <1>6, <1>7
<1> HIDE DEF j, g, l
<1>9. QED
  BY <1>3, <1>5, <1>8 DEF SumInv

LEMMA ReceiveKeeps ==
  ASSUME Inv, Receive
  PROVE  Inv'
<1> USE DEF Inv
<1> DEFINE p == Head(air)
<1>1. PICK S : air \in Seq(S)
  BY DEF AirInv
<1>2. /\ air # <<>> /\ air' = Tail(air) /\ sent' = sent
      /\ packets' = packets + 1 /\ Observe(p)
      /\ CountErrored(p) \/ CountNull(p) \/ CountOther(p)
  BY DEF Receive, Count
<1>3. Len(air) \in Nat /\ Len(air) >= 1 /\ p = air[1]
  BY <1>1, <1>2
<1>4. Genuine(p)
  BY <1>3 DEF AirInv
<1>5. AirInv'
  <2>1. /\ Tail(air) \in Seq(S) /\ Len(Tail(air)) = Len(air) - 1
        /\ \A i \in 1..(Len(air) - 1) : Tail(air)[i] = air[i + 1]
    BY <1>1, <1>2, <1>3
  <2>2. ASSUME NEW i \in 1..Len(air') PROVE Genuine(air[i])'
    <3>1. i + 1 \in 1..Len(air) /\ air'[i] = air[i + 1]
      BY <1>2, <1>3, <2>1
    <3>2. Genuine(air[i + 1])
      BY <3>1 DEF AirInv
    <3>3. QED
      BY <1>2, <3>1, <3>2 DEF Genuine
  <2>3. QED
    BY <1>2, <2>1, <2>2 DEF AirInv
<1> HIDE DEF p
<1>6. CASE CountErrored(p)
  <2>1. UNCHANGED <<seen, breaks, unseen, null, scrambled, ccErrors, lastCc>> /\ tei' = tei + 1
    BY <1>2, <1>6 DEF CountErrored, Observe
  <2>2. QED
    BY <1>2, <1>5, <2>1 DEF SentInv, LastInv, SumInv
<1>7. CASE CountNull(p)
  <2>1. UNCHANGED <<seen, breaks, unseen, tei, scrambled, ccErrors, lastCc>> /\ null' = null + 1
    BY <1>2, <1>7 DEF CountNull, Observe
  <2>2. QED
    BY <1>2, <1>5, <2>1 DEF SentInv, LastInv, SumInv
<1>8. CASE CountOther(p)
  <2>1. ~p.tei /\ p.pid # NullPid /\ UNCHANGED <<tei, null>>
    BY <1>8 DEF CountOther
  <2>2. scrambled' = scrambled \/ scrambled' = scrambled + 1
    BY <1>8 DEF CountOther, SumInv
  <2>3. /\ packets' \in Nat /\ tei' \in Nat /\ null' \in Nat /\ scrambled' \in Nat
        /\ tei' + null' + scrambled' <= packets'
    BY <1>2, <2>1, <2>2 DEF SumInv
  <2>4. CASE p.payload
    <3>1. /\ lastCc' = [lastCc EXCEPT ![p.pid] = p.cc]
          /\ ccErrors' = ccErrors + One(Jump(lastCc[p.pid], p.cc))
      BY <1>8, <2>4 DEF CountOther, One
    <3>2. /\ seen' = [seen EXCEPT ![p.pid] = p.num]
          /\ breaks' = breaks + One(Gap(seen[p.pid], p.num))
          /\ unseen' = unseen + One(Gap(seen[p.pid], p.num) /\ Looks(seen[p.pid], p.num))
      BY <1>2, <2>1, <2>4 DEF Observe, One, Gap, Looks
    <3>3. /\ SentInv' /\ LastInv'
          /\ ccErrors' \in Nat /\ breaks' \in Nat /\ unseen' \in Nat
          /\ ccErrors' + unseen' = breaks'
      BY <1>2, <1>4, <2>4, <3>1, <3>2, GoodKeeps
    <3>4. QED
      BY <1>5, <2>3, <3>3 DEF SumInv
  <2>5. CASE ~p.payload
    <3>1. UNCHANGED <<seen, breaks, unseen, ccErrors, lastCc>>
      BY <1>2, <1>8, <2>5 DEF CountOther, Observe
    <3>2. QED
      BY <1>2, <1>5, <2>3, <3>1 DEF SentInv, LastInv, SumInv
  <2>6. QED
    BY <2>4, <2>5
<1>9. QED
  BY <1>2, <1>6, <1>7, <1>8

LEMMA InvStep == Inv /\ [Next]_vars => Inv'
<1> SUFFICES ASSUME Inv, [Next]_vars PROVE Inv'
  OBVIOUS
<1>1. CASE Broadcast
  BY <1>1, BroadcastKeeps
<1>2. CASE Receive
  BY <1>2, ReceiveKeeps
<1>3. CASE Collect \/ UNCHANGED vars
  <2>1. /\ UNCHANGED <<packets, tei, null, scrambled, ccErrors, lastCc>>
        /\ UNCHANGED <<air, sent, seen, breaks, unseen>>
    BY <1>3 DEF Collect, vars, analyzerVars, counts, broadcastVars, historyVars
  <2>2. QED
    BY <2>1 DEF Inv, AirInv, Genuine, SentInv, LastInv, SumInv
<1>4. QED
  BY <1>1, <1>2, <1>3 DEF Next

\* cc_errors counts exactly the gaps that the counter can show, and the shares
\* of TsCounters stay below 100 %, for every modulus, any PIDs and whatever is
\* lost, errored or doubled: TsAnalyzer.update().
THEOREM ReceptionCountsAreTrue == Spec => []CountsAreTrue
<1>1. Inv => CountsAreTrue
  BY DEF Inv, SumInv, CountsAreTrue, PayloadPackets
<1>2. QED
  BY <1>1, InvInit, InvStep, PTL DEF Spec

-----------------------------------------------------------------------------
(* What the broadcast sends                                                 *)

LEMMA BytesTyped ==
  ASSUME NEW a \in Nat, NEW n \in Nat, NEW top \in Nat
  PROVE  /\ Bytes(a, n, top) \in Seq(Nat)
         /\ Len(Bytes(a, n, top)) = n
         /\ \A i \in 1..n : Bytes(a, n, top)[i] = IF a + i <= top THEN a + i ELSE 0
<1>1. \A i \in 1..n : (IF a + i <= top THEN a + i ELSE 0) \in Nat
  OBVIOUS
<1>2. QED
  BY <1>1 DEF Bytes

\* Sections one behind the other, up to position t.
Chain(S, t) ==
  /\ S \subseteq Section
  /\ t = 0 \/ \E s \in S : s.last = t
  /\ \A s \in S : s.last <= t
  /\ \A s \in S : s.first >= 1 /\ (s.last - s.first) + 1 \in SectionSizes
  /\ \A s, u \in S : s = u \/ s.last < u.first \/ u.last < s.first
  /\ \A s \in S : s.last = t \/ \E u \in S : u.first = s.last + 1

SectionsInv ==
  \E t \in Nat : Chain(sections, t) /\ at <= t /\ \A s \in sections : s.first <= at

LEMMA TopIs ==
  ASSUME NEW C, NEW t \in Nat, Chain(C, t)
  PROVE  Max({s.last : s \in C} \cup {0}) = t
<1> DEFINE S == {s.last : s \in C} \cup {0}
<1>1. S \subseteq Nat /\ t \in S /\ \A y \in S : t >= y
  BY DEF Chain, Section
<1>2. Max(S) \in S /\ \A y \in S : Max(S) >= y
  BY <1>1 DEF Max
<1>3. Max(S) \in Nat /\ Max(S) >= t /\ t >= Max(S)
  BY <1>1, <1>2, Zenon
<1>4. QED
  BY <1>3

LEMMA TopHolds ==
  ASSUME SectionsInv
  PROVE  /\ Top \in Nat /\ Chain(sections, Top) /\ at <= Top
         /\ \A s \in sections : s.first <= at
<1>1. PICK t \in Nat : Chain(sections, t) /\ at <= t /\ \A s \in sections : s.first <= at
  BY DEF SectionsInv
<1>2. Top = t
  BY <1>1, TopIs DEF Top
<1>3. QED
  BY <1>1, <1>2

LEMMA SizeTyped ==
  ASSUME NEW m \in SectionSizes
  PROVE  m \in Nat /\ m >= HeaderSize /\ m >= 1
BY ReceptionAssumption

\* A section begins behind the others.
LEMMA ChainGrows ==
  ASSUME NEW S, NEW t \in Nat, Chain(S, t), NEW m \in SectionSizes
  PROVE  Chain(S \cup {[first |-> t + 1, last |-> t + m]}, t + m)
<1> DEFINE n == [first |-> t + 1, last |-> t + m]
           R == S \cup {n}
<1>1. m \in Nat /\ m >= 1
  BY SizeTyped
<1>2. n \in Section /\ n.first = t + 1 /\ n.last = t + m
  BY <1>1 DEF Section
<1> HIDE DEF n
<1>3. \A s \in S : s.first \in Nat /\ s.last \in Nat /\ s.last <= t /\ s.first >= 1
        /\ (s.last - s.first) + 1 \in SectionSizes
  BY DEF Chain, Section
<1>4. R \subseteq Section
  BY <1>2 DEF Chain
<1>5. t + m = 0 \/ \E s \in R : s.last = t + m
  BY <1>2
<1>6. \A s \in R : s.last <= t + m
  BY <1>1, <1>2, <1>3
<1>7. \A s \in R : s.first >= 1 /\ (s.last - s.first) + 1 \in SectionSizes
  <2>1. (n.last - n.first) + 1 = m /\ n.first >= 1
    BY <1>1, <1>2
  <2>2. QED
    BY <1>3, <2>1
<1>8. \A s, u \in R : s = u \/ s.last < u.first \/ u.last < s.first
  <2>1. \A s \in S : s.last < n.first
    BY <1>2, <1>3
  <2>2. \A s, u \in S : s = u \/ s.last < u.first \/ u.last < s.first
    BY DEF Chain
  <2>3. QED
    BY <2>1, <2>2
<1>9. \A s \in R : s.last = t + m \/ \E u \in R : u.first = s.last + 1
  <2>1. \A s \in S : s.last = t \/ \E u \in S : u.first = s.last + 1
    BY DEF Chain
  <2>2. QED
    BY <1>2, <2>1
<1>10. Chain(R, t + m)
  BY <1>4, <1>5, <1>6, <1>7, <1>8, <1>9 DEF Chain
<1>11. QED
  BY <1>10 DEF n

LEMMA MinOfTwo ==
  ASSUME NEW a \in Nat, NEW b \in Nat
  PROVE  Min({a, b}) = IF a <= b THEN a ELSE b
<1>1. \E x \in {a, b} : \A y \in {a, b} : x <= y
  OBVIOUS
<1>2. Min({a, b}) \in {a, b} /\ \A y \in {a, b} : Min({a, b}) <= y
  BY <1>1 DEF Min
<1>3. QED
  BY <1>2

\* A packet with payload of the table.
SiPacket(p) ==
  /\ p \in Packet
  /\ p.pid = SiPid /\ p.payload /\ ~p.tei
  /\ p.num = sent[SiPid] + 1 /\ p.cc = (sent[SiPid] + 1) % CcMod

LEMMA HeaderTyped ==
  ASSUME sent \in [Pids -> Nat], NEW pid \in Pids, NEW payload \in BOOLEAN
  PROVE  /\ Header(pid, payload) \in Packet
         /\ Header(pid, payload).pid = pid
         /\ Header(pid, payload).payload = payload
         /\ Header(pid, payload).tei = FALSE
         /\ Header(pid, payload).start = FALSE
         /\ Header(pid, payload).pre = <<>>
         /\ Header(pid, payload).num = sent[pid] + (IF payload THEN 1 ELSE 0)
         /\ Header(pid, payload).cc = (sent[pid] + (IF payload THEN 1 ELSE 0)) % CcMod
<1> DEFINE n == sent[pid] + (IF payload THEN 1 ELSE 0)
           c == n % CcMod
           e == <<>>
<1>1. n \in Nat
  OBVIOUS
<1>2. CcMod \in Nat \ {0}
  BY AnalyzerAssumption
<1>3. c \in 0..(CcMod - 1)
  <2> HIDE DEF n
  <2>1. QED
    BY <1>1, <1>2, QuotientAndRest
<1>4. Header(pid, payload) =
        [pid |-> pid, num |-> n, cc |-> c, tei |-> FALSE, payload |-> payload,
         scrambled |-> FALSE, start |-> FALSE, room |-> 0, pre |-> e, data |-> e]
  BY DEF Header
<1>5. e \in Seq(Byte)
  BY DEF Byte
<1>6. 0 \in Nat
  OBVIOUS
<1> DEFINE h == Header(pid, payload)
<1> HIDE DEF n, c, e, h
<1>7. h = [pid |-> pid, num |-> n, cc |-> c, tei |-> FALSE, payload |-> payload,
           scrambled |-> FALSE, start |-> FALSE, room |-> 0, pre |-> e, data |-> e]
  BY <1>4 DEF h
<1>8. h \in Packet
  BY <1>1, <1>3, <1>5, <1>6, <1>7 DEF Packet
<1>9. /\ h.pid = pid /\ h.payload = payload /\ h.tei = FALSE /\ h.start = FALSE
      /\ h.pre = e /\ h.num = n /\ h.cc = c
  BY <1>7, Zenon
<1>10. QED
  BY <1>8, <1>9, Zenon DEF n, c, e, h

More(room, data) == [Header(SiPid, TRUE) EXCEPT !.room = room, !.data = data]
Start(room, pre, data) ==
  [Header(SiPid, TRUE) EXCEPT !.start = TRUE, !.room = room, !.pre = pre, !.data = data]
Other(pid, payload, enc) == [Header(pid, payload) EXCEPT !.scrambled = enc]

LEMMA MorePacket ==
  ASSUME sent \in [Pids -> Nat], NEW room \in Nat, NEW data \in Seq(Byte)
  PROVE  /\ SiPacket(More(room, data))
         /\ More(room, data).start = FALSE /\ More(room, data).room = room
         /\ More(room, data).pre = <<>> /\ More(room, data).data = data
<1> DEFINE h == Header(SiPid, TRUE)
           p == More(room, data)
<1>1. /\ h \in Packet /\ h.pid = SiPid /\ h.payload /\ h.tei = FALSE /\ h.start = FALSE
      /\ h.pre = <<>> /\ h.num = sent[SiPid] + 1 /\ h.cc = (sent[SiPid] + 1) % CcMod
  BY HeaderTyped, ReceptionAssumption, Zenon
<1> HIDE DEF h, p
<1>2. p = [h EXCEPT !.room = room, !.data = data]
  BY DEF h, p, More
<1>3. p \in Packet /\ p.room = room /\ p.data = data
      /\ p.pid = h.pid /\ p.payload = h.payload /\ p.tei = h.tei /\ p.start = h.start
      /\ p.pre = h.pre /\ p.num = h.num /\ p.cc = h.cc
  BY <1>1, <1>2 DEF Packet
<1>4. SiPacket(p) /\ p.start = FALSE /\ p.room = room /\ p.pre = <<>> /\ p.data = data
  BY <1>1, <1>3, Zenon DEF SiPacket
<1>5. QED
  BY <1>4, Zenon DEF p

LEMMA StartPacket ==
  ASSUME sent \in [Pids -> Nat], NEW room \in Nat, NEW pre \in Seq(Byte), NEW data \in Seq(Byte)
  PROVE  /\ SiPacket(Start(room, pre, data))
         /\ Start(room, pre, data).start /\ Start(room, pre, data).room = room
         /\ Start(room, pre, data).pre = pre /\ Start(room, pre, data).data = data
<1> DEFINE h == Header(SiPid, TRUE)
           p == Start(room, pre, data)
<1>1. /\ h \in Packet /\ h.pid = SiPid /\ h.payload /\ h.tei = FALSE
      /\ h.num = sent[SiPid] + 1 /\ h.cc = (sent[SiPid] + 1) % CcMod
  BY HeaderTyped, ReceptionAssumption, Zenon
<1> HIDE DEF h, p
<1>2. p = [h EXCEPT !.start = TRUE, !.room = room, !.pre = pre, !.data = data]
  BY DEF h, p, Start
<1>3. p \in Packet /\ p.room = room /\ p.data = data /\ p.start /\ p.pre = pre
      /\ p.pid = h.pid /\ p.payload = h.payload /\ p.tei = h.tei
      /\ p.num = h.num /\ p.cc = h.cc
  BY <1>1, <1>2 DEF Packet
<1>4. SiPacket(p) /\ p.start /\ p.room = room /\ p.pre = pre /\ p.data = data
  BY <1>1, <1>3, Zenon DEF SiPacket
<1>5. QED
  BY <1>4, Zenon DEF p

LEMMA OtherPacket ==
  ASSUME sent \in [Pids -> Nat], NEW pid \in Pids, NEW payload \in BOOLEAN, NEW enc \in BOOLEAN
  PROVE  /\ Other(pid, payload, enc) \in Packet
         /\ Other(pid, payload, enc).pid = pid /\ Other(pid, payload, enc).payload = payload
         /\ Other(pid, payload, enc).tei = FALSE
         /\ Other(pid, payload, enc).num = sent[pid] + (IF payload THEN 1 ELSE 0)
<1> DEFINE h == Header(pid, payload)
           p == Other(pid, payload, enc)
           n == sent[pid] + (IF payload THEN 1 ELSE 0)
<1>1. h \in Packet /\ h.pid = pid /\ h.payload = payload /\ h.tei = FALSE /\ h.num = n
  BY HeaderTyped, Zenon
<1> HIDE DEF h, n, p
<1>2. p = [h EXCEPT !.scrambled = enc]
  BY DEF h, p, Other
<1>3. p \in Packet /\ p.pid = h.pid /\ p.payload = h.payload /\ p.tei = h.tei /\ p.num = h.num
  BY <1>1, <1>2 DEF Packet
<1>4. p \in Packet /\ p.pid = pid /\ p.payload = payload /\ p.tei = FALSE /\ p.num = n
  BY <1>1, <1>3, Zenon
<1>5. QED
  BY <1>4, Zenon DEF n, p

-----------------------------------------------------------------------------
(* The air                                                                  *)

\* Copies with an error, and others which are all the same.
Alike(copies) == \A i \in 1..Len(copies) : copies[i].tei \/ copies[i] = Last(copies)

LEMMA ErroredTyped ==
  ASSUME NEW p \in Packet
  PROVE  Errored(p) \in Packet /\ Errored(p).tei
BY DEF Errored, Packet

LEMMA AirTyped ==
  ASSUME NEW p \in Packet, NEW copies \in Arrivals(p), ~p.tei
  PROVE  /\ copies \in Seq(Packet) /\ Alike(copies)
         /\ p \in ToSet(copies) <=> copies # <<>> /\ Last(copies) = p
         /\ ~(p \in ToSet(copies)) => copies = <<>> \/ Last(copies).tei
<1> DEFINE e == Errored(p)
<1>1. e \in Packet /\ e.tei /\ e # p
  BY ErroredTyped
<1>2. copies \in {<<>>, <<p>>, <<e>>, <<p, p>>, <<e, p>>}
  BY DEF Arrivals
<1> HIDE DEF e
<1>3. CASE copies = <<>>
  BY <1>3 DEF Alike, ToSet
<1>4. CASE copies = <<p>>
  BY <1>4 DEF Alike, ToSet, Last
<1>5. CASE copies = <<e>>
  BY <1>1, <1>5 DEF Alike, ToSet, Last
<1>6. CASE copies = <<p, p>>
  BY <1>6 DEF Alike, ToSet, Last
<1>7. CASE copies = <<e, p>>
  BY <1>1, <1>7 DEF Alike, ToSet, Last
<1>8. QED
  BY <1>2, <1>3, <1>4, <1>5, <1>6, <1>7

Fresh(p) == seen[SiPid] = 0 \/ (p.num - seen[SiPid]) % CcMod # 0

\* What is marked as due with a packet of the table.
Marks(p, here, ends, begun, open) ==
  /\ due' = due \cup {s \in ends : here /\ IF s \in begun THEN Fresh(p) ELSE whole}
  /\ whole' = (open /\ here /\ (IF begun # {} THEN Fresh(p) ELSE whole))

\* A packet is sent, and "here" tells whether it arrives.
Carried(p, here) ==
  /\ air = <<>> /\ draining = "no"
  /\ sent' = [sent EXCEPT ![p.pid] = p.num]
  /\ npackets < MaxPackets /\ npackets' = npackets + 1
  /\ ngap' = 0 \/ (ngap < MaxGap /\ ngap' = ngap + 1)
  /\ air' \in Seq(Packet) /\ Alike(air')
  /\ here => air' # <<>> /\ Last(air') = p
  /\ ~here => air' = <<>> \/ Last(air').tei
  /\ UNCHANGED <<analyzerVars, assemblerVars, seen, breaks, unseen, returned>>

LEMMA Transmitted ==
  ASSUME NEW p \in Packet, ~p.tei, NEW ends, NEW begun, NEW open,
         Transmit(p, ends, begun, open)
  PROVE  \E here \in BOOLEAN :
            /\ Carried(p, here)
            /\ IF p.pid = SiPid /\ p.payload THEN Marks(p, here, ends, begun, open)
                                             ELSE UNCHANGED <<due, whole>>
<1>1. /\ air = <<>> /\ draining = "no"
      /\ sent' = [sent EXCEPT ![p.pid] = p.num]
      /\ npackets < MaxPackets /\ npackets' = npackets + 1
      /\ UNCHANGED <<analyzerVars, assemblerVars, seen, breaks, unseen, returned>>
  BY Zenon DEF Transmit
<1>2. PICK copies \in Arrivals(p) :
        /\ air' = copies
        /\ IF copies = <<>> THEN ngap < MaxGap /\ ngap' = ngap + 1 ELSE ngap' = 0
        /\ IF p.pid = SiPid /\ p.payload THEN Marks(p, p \in ToSet(copies), ends, begun, open)
                                         ELSE UNCHANGED <<due, whole>>
  BY Zenon DEF Transmit, Marks, Fresh
<1>3. /\ copies \in Seq(Packet) /\ Alike(copies)
      /\ p \in ToSet(copies) <=> copies # <<>> /\ Last(copies) = p
      /\ ~(p \in ToSet(copies)) => copies = <<>> \/ Last(copies).tei
  BY AirTyped
<1> DEFINE here == p \in ToSet(copies)
<1>4. here \in BOOLEAN
  OBVIOUS
<1>5. Carried(p, here)
  BY <1>1, <1>2, <1>3, Zenon DEF Carried
<1>6. IF p.pid = SiPid /\ p.payload THEN Marks(p, here, ends, begun, open)
                                    ELSE UNCHANGED <<due, whole>>
  BY <1>2, Zenon
<1>7. QED
  BY <1>4, <1>5, <1>6, Zenon

LEMMA TableSent ==
  ASSUME NEW p \in Packet, ~p.tei, p.pid = SiPid, p.payload,
         NEW ends, NEW begun, NEW open, Transmit(p, ends, begun, open)
  PROVE  \E here \in BOOLEAN : Carried(p, here) /\ Marks(p, here, ends, begun, open)
BY Transmitted, Zenon

\* A section goes on.
SentMore(p, here, room) ==
  /\ SiPacket(p) /\ p.start = FALSE /\ p.room = room
  /\ p.pre = <<>> /\ p.data = Bytes(at, room, Top)
  /\ Carried(p, here)
  /\ at < Top
  /\ at' = (IF at + room <= Top THEN at + room ELSE Top)
  /\ sections' = sections
  /\ Marks(p, here, {s \in sections : s.last > at /\ s.last <= at'}, {}, at' < Top)

LEMMA MoreSent ==
  ASSUME sent \in [Pids -> Nat], at \in Nat, SectionsInv, SendMore
  PROVE  \E room \in {0, Room}, p \in Packet, here \in BOOLEAN : SentMore(p, here, room)
<1>1. Top \in Nat
  BY TopHolds
<1>2. PICK room \in {0, Room} :
        /\ at < Top
        /\ at' = Min({at + room, Top})
        /\ Transmit(More(room, Bytes(at, room, Top)),
                    {s \in sections : s.last > at /\ s.last <= Min({at + room, Top})}, {},
                    Min({at + room, Top}) < Top)
        /\ sections' = sections
  BY Zenon DEF SendMore, More
<1> DEFINE p == More(room, Bytes(at, room, Top))
           ends == {s \in sections : s.last > at /\ s.last <= at'}
<1>3. room \in Nat
  BY ReceptionAssumption
<1>4. Bytes(at, room, Top) \in Seq(Byte)
  BY <1>1, <1>3, BytesTyped DEF Byte
<1>5. /\ SiPacket(p)
      /\ p.start = FALSE /\ p.room = room /\ p.pre = <<>> /\ p.data = Bytes(at, room, Top)
  BY <1>3, <1>4, MorePacket, Zenon
<1>6. at' = (IF at + room <= Top THEN at + room ELSE Top)
  BY <1>1, <1>2, <1>3, MinOfTwo
<1>7. Transmit(p, ends, {}, at' < Top)
  BY <1>2, Zenon
<1> HIDE DEF p, ends
<1>8. p \in Packet /\ ~p.tei /\ p.pid = SiPid /\ p.payload
  BY <1>5 DEF SiPacket
<1>9. \E here \in BOOLEAN : Carried(p, here) /\ Marks(p, here, ends, {}, at' < Top)
  BY <1>7, <1>8, TableSent
<1>10. QED
  BY <1>2, <1>5, <1>6, <1>8, <1>9, Zenon DEF ends, SentMore

\* What begins in one packet, up to position top.
Begun(begun, top) ==
  \/ \E m \in SectionSizes :
        begun = {[first |-> Top + 1, last |-> Top + m]} /\ top = Top + m
  \/ \E m, k \in SectionSizes :
        /\ begun = {[first |-> Top + 1, last |-> Top + m],
                    [first |-> Top + m + 1, last |-> Top + m + k]}
        /\ top = Top + m + k

LEMMA BegunTop ==
  ASSUME Top \in Nat, NEW begun, NEW top, Begun(begun, top)
  PROVE  /\ Max({s.last : s \in begun}) = top /\ top \in Nat /\ top > Top
         /\ begun \subseteq Section /\ begun # {}
         /\ \A s \in begun : s.last <= top
<1> DEFINE S == {s.last : s \in begun}
<1>1. /\ top \in Nat /\ top > Top /\ S \subseteq Nat /\ top \in S
      /\ \A y \in S : top >= y
      /\ begun \subseteq Section /\ begun # {}
  <2>1. CASE \E m \in SectionSizes :
               begun = {[first |-> Top + 1, last |-> Top + m]} /\ top = Top + m
    <3>1. PICK m \in SectionSizes :
               begun = {[first |-> Top + 1, last |-> Top + m]} /\ top = Top + m
      BY <2>1
    <3>2. m \in Nat /\ m >= 1
      BY SizeTyped
    <3>3. S = {Top + m}
      BY <3>1
    <3>4. QED
      BY <3>1, <3>2, <3>3 DEF Section
  <2>2. CASE \E m, k \in SectionSizes :
               /\ begun = {[first |-> Top + 1, last |-> Top + m],
                           [first |-> Top + m + 1, last |-> Top + m + k]}
               /\ top = Top + m + k
    <3>1. PICK m \in SectionSizes, k \in SectionSizes :
               /\ begun = {[first |-> Top + 1, last |-> Top + m],
                           [first |-> Top + m + 1, last |-> Top + m + k]}
               /\ top = Top + m + k
      BY <2>2
    <3>2. m \in Nat /\ m >= 1 /\ k \in Nat /\ k >= 1
      BY SizeTyped
    <3>3. S = {Top + m, Top + m + k}
      BY <3>1
    <3>4. begun \subseteq Section /\ begun # {}
      BY <3>1, <3>2 DEF Section
    <3>5. QED
      BY <3>1, <3>2, <3>3, <3>4
  <2>3. QED
    BY <2>1, <2>2 DEF Begun
<1>2. Max(S) \in S /\ \A y \in S : Max(S) >= y
  BY <1>1 DEF Max
<1>3. Max(S) \in Nat /\ Max(S) >= top /\ top >= Max(S)
  BY <1>1, <1>2, Zenon
<1>4. Max(S) = top
  BY <1>1, <1>3
<1>5. QED
  BY <1>1, <1>4

\* One or two sections begin.
SentStart(p, here, begun, top) ==
  /\ SiPacket(p) /\ p.start /\ p.room = Room
  /\ Top + 1 <= at + (Room - 1)
  /\ p.pre = Bytes(at, Top - at, Top)
  /\ p.data = Bytes(Top, Room - 1 - (Top - at), top)
  /\ Carried(p, here)
  /\ Begun(begun, top)
  /\ \A s \in begun : s.first <= at + (Room - 1)
  /\ at' = (IF at + (Room - 1) <= top THEN at + (Room - 1) ELSE top)
  /\ sections' = sections \cup begun
  /\ Marks(p, here, {s \in sections \cup begun : s.last > at /\ s.last <= at'}, begun, at' < top)

LEMMA StartSent ==
  ASSUME sent \in [Pids -> Nat], at \in Nat, SectionsInv, SendStart
  PROVE  \E begun : \E p \in Packet, here \in BOOLEAN, top \in Nat :
            SentStart(p, here, begun, top)
<1>1. Top \in Nat /\ at <= Top
  BY TopHolds
<1> DEFINE Second(sizes) == IF Len(sizes) = 2
                       THEN {[first |-> Top + sizes[1] + 1, last |-> Top + sizes[1] + sizes[2]]}
                       ELSE {}
           Both(sizes) == {[first |-> Top + 1, last |-> Top + sizes[1]]} \cup Second(sizes)
           room == Room - 1
<1>2. PICK sizes \in [1..1 -> SectionSizes] \cup [1..2 -> SectionSizes] :
        /\ \A s \in Both(sizes) : s.first <= at + room
        /\ sections' = sections \cup Both(sizes)
        /\ at' = Min({at + room, Max({s.last : s \in Both(sizes)})})
        /\ Transmit(Start(Room, Bytes(at, Top - at, Top),
                         Bytes(Top, room - (Top - at), Max({s.last : s \in Both(sizes)}))),
                    {s \in sections \cup Both(sizes) :
                        s.last > at /\ s.last <= Min({at + room, Max({x.last : x \in Both(sizes)})})},
                    Both(sizes),
                    Min({at + room, Max({s.last : s \in Both(sizes)})})
                      < Max({s.last : s \in Both(sizes)}))
  BY Zenon DEF SendStart, Start
<1> DEFINE begun == Both(sizes)
           top == Max({s.last : s \in begun})
           p == Start(Room, Bytes(at, Top - at, Top), Bytes(Top, room - (Top - at), top))
           ends == {s \in sections \cup begun : s.last > at /\ s.last <= at'}
<1>3. /\ \A s \in begun : s.first <= at + room
      /\ sections' = sections \cup begun
      /\ at' = Min({at + room, top})
      /\ Transmit(p, ends, begun, at' < top)
  BY <1>2, Zenon
<1>4. [first |-> Top + 1, last |-> Top + sizes[1]] \in begun
  OBVIOUS
<1>5. \E t : Begun(begun, t)
  <2>1. CASE sizes \in [1..1 -> SectionSizes]
    <3>1. Len(sizes) = 1 /\ sizes[1] \in SectionSizes
      BY <2>1
    <3>2. begun = {[first |-> Top + 1, last |-> Top + sizes[1]]}
      BY <3>1
    <3>3. QED
      BY <3>1, <3>2, Zenon DEF Begun
  <2>2. CASE sizes \in [1..2 -> SectionSizes]
    <3>1. Len(sizes) = 2 /\ sizes[1] \in SectionSizes /\ sizes[2] \in SectionSizes
      BY <2>2
    <3>2. begun = {[first |-> Top + 1, last |-> Top + sizes[1]],
                   [first |-> Top + sizes[1] + 1, last |-> Top + sizes[1] + sizes[2]]}
      BY <3>1
    <3>3. QED
      BY <3>1, <3>2, Zenon DEF Begun
  <2>3. QED
    BY <2>1, <2>2
<1> HIDE DEF begun
<1>6. /\ Begun(begun, top) /\ top \in Nat /\ top > Top
  BY <1>1, <1>5, BegunTop
<1>7. Top + 1 <= at + room
  BY <1>3, <1>4
<1>8. room \in Nat /\ Top - at \in Nat /\ room - (Top - at) \in Nat
  BY <1>1, <1>7, ReceptionAssumption
<1> HIDE DEF top, p, ends, room
<1> DEFINE pre == Bytes(at, Top - at, Top)
           data == Bytes(Top, room - (Top - at), top)
<1>9. pre \in Seq(Byte) /\ data \in Seq(Byte)
  BY <1>1, <1>6, <1>8, BytesTyped DEF Byte
<1>10. p = Start(Room, pre, data)
  BY DEF p
<1> HIDE DEF pre, data
<1>11. /\ SiPacket(p) /\ p.start /\ p.room = Room /\ p.pre = pre /\ p.data = data
  <2>1. Room \in Nat
    BY ReceptionAssumption
  <2> DEFINE q == Start(Room, pre, data)
  <2>2. /\ SiPacket(q) /\ q.start /\ q.room = Room /\ q.pre = pre /\ q.data = data
    <3>1. pre \in Seq(Byte)
      BY <1>9
    <3>2. data \in Seq(Byte)
      BY <1>9
    <3>3. Room \in Nat
      BY <2>1
    <3>4. sent \in [Pids -> Nat]
      OBVIOUS
    <3>5. SiPacket(q)
      BY <3>1, <3>2, <3>3, StartPacket, Zenon
    <3>6. q.start
      BY <3>1, <3>2, <3>3, StartPacket, Zenon
    <3>7. q.room = Room
      BY <3>1, <3>2, <3>3, StartPacket, Zenon
    <3>8. q.pre = pre
      BY <3>1, <3>2, <3>3, StartPacket, Zenon
    <3>9. q.data = data
      BY <3>1, <3>2, <3>3, StartPacket, Zenon
    <3>10. QED
      BY <3>5, <3>6, <3>7, <3>8, <3>9, Zenon
  <2>3. QED
    BY <1>10, <2>2, Zenon
<1>12. at' = (IF at + room <= top THEN at + room ELSE top)
  BY <1>3, <1>6, <1>8, MinOfTwo
<1>13. p \in Packet /\ ~p.tei /\ p.pid = SiPid /\ p.payload
  BY <1>11 DEF SiPacket
<1>14. \E here \in BOOLEAN : Carried(p, here) /\ Marks(p, here, ends, begun, at' < top)
  BY <1>3, <1>13, TableSent
<1>15. PICK here \in BOOLEAN : Carried(p, here) /\ Marks(p, here, ends, begun, at' < top)
  BY <1>14
<1>16. ends = {s \in sections \cup begun : s.last > at /\ s.last <= at'}
  BY DEF ends
<1>17. room = Room - 1 /\ pre = Bytes(at, Top - at, Top) /\ data = Bytes(Top, room - (Top - at), top)
  BY DEF room, pre, data
<1>18. SentStart(p, here, begun, top)
  BY <1>3, <1>6, <1>7, <1>12, <1>11, <1>15, <1>16, <1>17, Zenon DEF SentStart
<1>19. QED
  BY <1>18, <1>6, <1>13, Zenon

\* Nothing for the assembler.
SentOther(p, here) ==
  /\ ~p.tei /\ ~(p.pid = SiPid /\ p.payload)
  /\ p.num = sent[p.pid] + (IF p.payload THEN 1 ELSE 0)
  /\ Carried(p, here)
  /\ UNCHANGED <<due, whole, sections, at>>

LEMMA OtherSent ==
  ASSUME sent \in [Pids -> Nat], SendOther
  PROVE  \E p \in Packet, here \in BOOLEAN : SentOther(p, here)
<1>1. PICK pid \in Pids, payload \in BOOLEAN, enc \in BOOLEAN :
        /\ pid # SiPid \/ ~payload
        /\ Transmit(Other(pid, payload, enc), {}, {}, FALSE)
        /\ UNCHANGED <<sections, at>>
  BY Zenon DEF SendOther, Other
<1> DEFINE p == Other(pid, payload, enc)
<1>2. /\ p \in Packet /\ p.pid = pid /\ p.payload = payload /\ p.tei = FALSE
      /\ p.num = sent[pid] + (IF payload THEN 1 ELSE 0)
  BY OtherPacket
<1>3. Transmit(p, {}, {}, FALSE)
  BY <1>1
<1> HIDE DEF p
<1>4. ~p.tei /\ ~(p.pid = SiPid /\ p.payload)
  BY <1>1, <1>2, Zenon
<1>5. PICK here \in BOOLEAN : Carried(p, here) /\ UNCHANGED <<due, whole>>
  BY <1>2, <1>3, <1>4, Transmitted, Zenon
<1>6. SentOther(p, here)
  BY <1>1, <1>2, <1>4, <1>5, Zenon DEF SentOther
<1>7. QED
  BY <1>2, <1>6, Zenon

-----------------------------------------------------------------------------
(* The sections, one behind the other                                       *)

\* The bytes of a section.
BytesOf(s) == [i \in 1..((s.last - s.first) + 1) |-> s.first + i - 1]

LEMMA BegunChain ==
  ASSUME SectionsInv, NEW begun, NEW top, Begun(begun, top)
  PROVE  Chain(sections \cup begun, top)
<1>1. Top \in Nat /\ Chain(sections, Top)
  BY TopHolds
<1>2. CASE \E m \in SectionSizes :
             begun = {[first |-> Top + 1, last |-> Top + m]} /\ top = Top + m
  <2>1. PICK m \in SectionSizes :
             begun = {[first |-> Top + 1, last |-> Top + m]} /\ top = Top + m
    BY <1>2
  <2>2. Chain(sections \cup {[first |-> Top + 1, last |-> Top + m]}, Top + m)
    BY <1>1, ChainGrows
  <2>3. QED
    BY <2>1, <2>2
<1>3. CASE \E m, k \in SectionSizes :
             /\ begun = {[first |-> Top + 1, last |-> Top + m],
                         [first |-> Top + m + 1, last |-> Top + m + k]}
             /\ top = Top + m + k
  <2>1. PICK m \in SectionSizes, k \in SectionSizes :
             /\ begun = {[first |-> Top + 1, last |-> Top + m],
                         [first |-> Top + m + 1, last |-> Top + m + k]}
             /\ top = Top + m + k
    BY <1>3
  <2> DEFINE t == Top + m
             C == sections \cup {[first |-> Top + 1, last |-> t]}
  <2>2. Chain(C, t)
    BY <1>1, ChainGrows
  <2>3. t \in Nat
    BY <1>1, SizeTyped
  <2>4. sections \cup begun = C \cup {[first |-> t + 1, last |-> t + k]} /\ top = t + k
    BY <2>1
  <2> HIDE DEF C, t
  <2>5. QED
    BY <2>2, <2>3, <2>4, ChainGrows
<1>4. QED
  BY <1>2, <1>3 DEF Begun

LEMMA StartGrows ==
  ASSUME SectionsInv, at \in Nat, NEW p, NEW here, NEW begun, NEW top, SentStart(p, here, begun, top)
  PROVE  /\ Chain(sections', top) /\ top \in Nat /\ Top' = top /\ top > Top
         /\ at' \in Nat /\ at <= at' /\ at' <= top
         /\ \A s \in sections' : s.first <= at'
         /\ begun \subseteq Section /\ begun # {}
<1>1. /\ Top \in Nat /\ at <= Top /\ Chain(sections, Top) /\ \A s \in sections : s.first <= at
  BY TopHolds
<1>2. /\ Begun(begun, top) /\ \A s \in begun : s.first <= at + (Room - 1)
      /\ at' = (IF at + (Room - 1) <= top THEN at + (Room - 1) ELSE top)
      /\ sections' = sections \cup begun
      /\ Top + 1 <= at + (Room - 1)
  BY Zenon DEF SentStart
<1>3. top \in Nat /\ top > Top /\ begun \subseteq Section /\ begun # {} /\ \A s \in begun : s.last <= top
  BY <1>1, <1>2, BegunTop
<1>4. Chain(sections', top)
  BY <1>2, BegunChain
<1>5. Top' = top
  BY <1>3, <1>4, TopIs DEF Top
<1>6. Room - 1 \in Nat
  BY ReceptionAssumption
<1>7. at' \in Nat /\ at <= at' /\ at' <= top
  BY <1>1, <1>2, <1>3, <1>6
<1>8. \A s \in sections' : s.first <= at'
  <2>1. \A s \in sections : s.first \in Nat /\ s.first <= at'
    BY <1>1, <1>7 DEF Chain, Section
  <2>2. ASSUME NEW s \in begun PROVE s.first <= at'
    <3>1. s.first \in Nat /\ s.last \in Nat /\ s.last <= top /\ s.first <= at + (Room - 1)
      BY <1>2, <1>3 DEF Section
    <3>2. s \in sections'
      BY <1>2
    <3>3. (s.last - s.first) + 1 \in SectionSizes
      BY <1>4, <3>2 DEF Chain
    <3>4. s.first <= s.last
      BY <3>1, <3>3, SizeTyped
    <3>5. QED
      BY <1>2, <1>3, <1>6, <3>1, <3>4
  <2>3. QED
    BY <1>2, <2>1, <2>2
<1>9. QED
  BY <1>3, <1>4, <1>5, <1>7, <1>8

LEMMA MoreGrows ==
  ASSUME SectionsInv, at \in Nat, NEW p, NEW here, NEW room \in {0, Room}, SentMore(p, here, room)
  PROVE  /\ Top \in Nat /\ Top' = Top /\ sections' = sections /\ at < Top
         /\ at' \in Nat /\ at <= at' /\ at' <= Top /\ at' <= at + room
         /\ room \in Nat
<1>1. Top \in Nat
  BY TopHolds
<1>2. /\ at < Top /\ at' = (IF at + room <= Top THEN at + room ELSE Top)
      /\ sections' = sections
  BY Zenon DEF SentMore
<1>3. room \in Nat
  BY ReceptionAssumption
<1>4. Top' = Top
  BY <1>2 DEF Top
<1>5. QED
  BY <1>1, <1>2, <1>3, <1>4

LEMMA SectionsStep ==
  ASSUME SectionsInv, at \in Nat, SentInv, Broadcast
  PROVE  SectionsInv' /\ at' \in Nat /\ sections \subseteq sections'
<1>0. sent \in [Pids -> Nat]
  BY DEF SentInv
<1>1. /\ Top \in Nat /\ at <= Top /\ Chain(sections, Top) /\ \A s \in sections : s.first <= at
  BY TopHolds
<1>2. CASE SendOther
  <2>1. UNCHANGED <<sections, at>>
    BY <1>2 DEF SendOther
  <2>2. QED
    BY <2>1 DEF SectionsInv, Chain
<1>3. CASE SendMore
  <2>1. PICK room \in {0, Room}, p \in Packet, here \in BOOLEAN : SentMore(p, here, room)
    BY <1>0, <1>3, MoreSent
  <2>2. /\ sections' = sections /\ at' \in Nat /\ at <= at' /\ at' <= Top
    BY <2>1, MoreGrows
  <2>3. \A s \in sections : s.first <= at'
    <3>1. \A s \in sections : s.first \in Nat
      BY <1>1 DEF Chain, Section
    <3>2. QED
      BY <1>1, <2>2, <3>1
  <2>4. QED
    BY <1>1, <2>2, <2>3, Zenon DEF SectionsInv
<1>4. CASE SendStart
  <2>1. PICK begun : \E p \in Packet, here \in BOOLEAN, top \in Nat : SentStart(p, here, begun, top)
    BY <1>0, <1>4, StartSent
  <2>2. PICK p \in Packet, here \in BOOLEAN, top \in Nat : SentStart(p, here, begun, top)
    BY <2>1
  <2>3. /\ Chain(sections', top) /\ top \in Nat /\ at' \in Nat /\ at' <= top
        /\ \A s \in sections' : s.first <= at'
    BY <2>2, StartGrows
  <2>4. sections \subseteq sections'
    BY <2>2 DEF SentStart
  <2>5. QED
    BY <2>3, <2>4, Zenon DEF SectionsInv
<1>5. QED
  BY <1>2, <1>3, <1>4 DEF Broadcast

-----------------------------------------------------------------------------
(* The types of what is sent and held                                       *)

DataInv ==
  /\ air \in Seq(Packet)
  /\ at \in Nat
  /\ npackets \in 0..MaxPackets
  /\ ngap \in 0..MaxGap
  /\ returned \in Nat
  /\ buf \in Seq(Nat)
  /\ behind \in Seq(Nat)
  /\ draining \in {"no", "before", "after"}
  /\ out \in Seq(Section)
  /\ due \subseteq sections

FlagInv ==
  /\ active \in BOOLEAN
  /\ whole \in BOOLEAN

\* A section of length n is taken from the front.
Taken(n) ==
  /\ draining # "no"
  /\ n \in Lengths(sections) /\ n \in 1..Len(buf)
  /\ Len(buf) >= HeaderSize /\ NotStuffing
  /\ buf' = SubSeq(buf, n + 1, Len(buf))
  /\ UNCHANGED <<active, cc, draining, behind>>
  /\ IF CrcRight(SubSeq(buf, 1, n), sections)
       THEN \E s \in sections : SubSeq(buf, 1, n) = BytesOf(s) /\ out' = Append(out, s)
       ELSE out' = out

LEMMA LengthsTyped ==
  ASSUME SectionsInv, NEW n \in Lengths(sections)
  PROVE  n \in Nat /\ n >= 1
<1>1. HeaderSize \in Nat /\ HeaderSize >= 1
  BY ReceptionAssumption
<1>2. \A s \in sections : (s.last - s.first) + 1 \in SectionSizes
  BY TopHolds DEF Chain
<1>3. CASE \E s \in sections : n = (s.last - s.first) + 1
  BY <1>2, <1>3, SizeTyped
<1>4. CASE n \in HeaderSize..MaxSection
  BY <1>1, <1>4, ReceptionAssumption
<1>5. QED
  BY <1>3, <1>4 DEF Lengths

\* The bytes of a section tell which one it is.
LEMMA TakenIs ==
  ASSUME SectionsInv, DataInv, NEW n \in 1..Len(buf), CrcRight(SubSeq(buf, 1, n), sections)
  PROVE  \E s \in sections :
            /\ SubSeq(buf, 1, n) = BytesOf(s)
            /\ [first |-> buf[1], last |-> buf[n]] = s
<1>1. PICK s \in sections : SubSeq(buf, 1, n) = BytesOf(s)
  BY DEF CrcRight, BytesOf
<1>2. buf \in Seq(Nat) /\ s \in Section /\ (s.last - s.first) + 1 \in SectionSizes
  BY TopHolds DEF DataInv, Chain
<1>3. s.first \in Nat /\ s.last \in Nat /\ (s.last - s.first) + 1 >= 1 /\ (s.last - s.first) + 1 \in Nat
  BY <1>2, SizeTyped DEF Section
<1>4. Len(SubSeq(buf, 1, n)) = n /\ \A i \in 1..n : SubSeq(buf, 1, n)[i] = buf[i]
  BY <1>2
<1>5. Len(BytesOf(s)) = (s.last - s.first) + 1
      /\ \A i \in 1..((s.last - s.first) + 1) : BytesOf(s)[i] = s.first + i - 1
  BY <1>3 DEF BytesOf
<1>6. n = (s.last - s.first) + 1
  BY <1>1, <1>4, <1>5
<1>7. buf[1] = s.first /\ buf[n] = s.last
  <2>1. 1 \in 1..n /\ n \in 1..n /\ n \in Nat
    BY <1>2
  <2>2. buf[1] = s.first + 1 - 1 /\ buf[n] = s.first + n - 1
    BY <1>1, <1>4, <1>5, <1>6, <2>1, Zenon
  <2>3. QED
    BY <1>3, <1>6, <2>2
<1>8. [first |-> buf[1], last |-> buf[n]] = s
  BY <1>2, <1>7 DEF Section
<1>9. QED
  BY <1>1, <1>8

LEMMA SectionTaken ==
  ASSUME SectionsInv, DataInv, DrainSection(sections)
  PROVE  \E n \in 1..Len(buf) : Taken(n)
<1>1. PICK n \in Lengths(sections) :
         /\ n <= Len(buf)
         /\ Take(n, sections)
         /\ buf' = SubSeq(buf, n + 1, Len(buf))
  BY DEF DrainSection
<1>2. n \in 1..Len(buf)
  <2>1. n \in Nat /\ n >= 1 /\ Len(buf) \in Nat
    BY LengthsTyped DEF DataInv
  <2>2. QED
    BY <1>1, <2>1
<1>3. CASE CrcRight(SubSeq(buf, 1, n), sections)
  <2>1. out' = Append(out, [first |-> buf[1], last |-> buf[n]])
    BY <1>1, <1>3 DEF Take
  <2>2. \E s \in sections : SubSeq(buf, 1, n) = BytesOf(s) /\ out' = Append(out, s)
    BY <1>2, <1>3, <2>1, TakenIs
  <2>3. QED
    BY <1>1, <1>2, <1>3, <2>2, Zenon DEF Taken, DrainSection
<1>4. CASE ~CrcRight(SubSeq(buf, 1, n), sections)
  <2>1. out' = out
    BY <1>1, <1>4, Zenon DEF Take
  <2>2. QED
    BY <1>1, <1>2, <1>4, <2>1, Zenon DEF Taken, DrainSection
<1>5. QED
  BY <1>3, <1>4

LEMMA RestTyped ==
  ASSUME NEW s \in Seq(Nat), NEW n \in 1..Len(s)
  PROVE  /\ SubSeq(s, n + 1, Len(s)) \in Seq(Nat)
         /\ Len(SubSeq(s, n + 1, Len(s))) = Len(s) - n
         /\ \A i \in 1..(Len(s) - n) : SubSeq(s, n + 1, Len(s))[i] = s[n + i]
<1>1. n \in 0..Len(s)
  OBVIOUS
<1>2. QED
  BY <1>1, CutSeq

LEMMA BroadcastTyped ==
  ASSUME SectionsInv, DataInv, FlagInv, SentInv, Broadcast
  PROVE  DataInv' /\ FlagInv'
<1>0. sent \in [Pids -> Nat] /\ at \in Nat
  BY DEF SentInv, DataInv
<1>1. SectionsInv' /\ at' \in Nat /\ sections \subseteq sections'
  BY <1>0, SectionsStep
<1>2. ASSUME NEW p, NEW here, Carried(p, here)
      PROVE  /\ air' \in Seq(Packet) /\ npackets' \in 0..MaxPackets /\ ngap' \in 0..MaxGap
             /\ UNCHANGED <<analyzerVars, assemblerVars, seen, breaks, unseen, returned>>
  BY <1>2, ReceptionAssumption DEF Carried, DataInv
<1>3. ASSUME NEW p, NEW here, NEW ends, NEW begun, NEW open \in BOOLEAN,
             Marks(p, here, ends, begun, open), ends \subseteq sections'
      PROVE  due' \subseteq sections'
  BY <1>1, <1>3 DEF Marks, DataInv
<1>4. ASSUME NEW p, NEW here, NEW ends, NEW begun, NEW open, Marks(p, here, ends, begun, open)
      PROVE  whole' \in BOOLEAN
  BY <1>4, Zenon DEF Marks
<1>5. /\ air' \in Seq(Packet) /\ npackets' \in 0..MaxPackets /\ ngap' \in 0..MaxGap
      /\ UNCHANGED <<analyzerVars, assemblerVars, seen, breaks, unseen, returned>>
      /\ whole' \in BOOLEAN /\ due' \subseteq sections'
  <2>1. CASE SendOther
    <3>1. PICK p \in Packet, here \in BOOLEAN : SentOther(p, here)
      BY <1>0, <2>1, OtherSent
    <3>2. Carried(p, here) /\ UNCHANGED <<due, whole, sections>>
      BY <3>1, Zenon DEF SentOther
    <3>3. whole' \in BOOLEAN /\ due' \subseteq sections'
      BY <3>2, Zenon DEF FlagInv, DataInv
    <3>4. QED
      BY <1>2, <3>2, <3>3
  <2>2. CASE SendMore
    <3>1. PICK room \in {0, Room}, p \in Packet, here \in BOOLEAN : SentMore(p, here, room)
      BY <1>0, <2>2, MoreSent
    <3> DEFINE ends == {s \in sections : s.last > at /\ s.last <= at'}
    <3>2. Carried(p, here) /\ Marks(p, here, ends, {}, at' < Top)
      BY <3>1, Zenon DEF SentMore
    <3>3. ends \subseteq sections' /\ (at' < Top) \in BOOLEAN
      BY <1>1
    <3> HIDE DEF ends
    <3>4. QED
      BY <1>2, <1>3, <1>4, <3>2, <3>3
  <2>3. CASE SendStart
    <3>1. PICK begun : \E p \in Packet, here \in BOOLEAN, top \in Nat : SentStart(p, here, begun, top)
      BY <1>0, <2>3, StartSent
    <3>2. PICK p \in Packet, here \in BOOLEAN, top \in Nat : SentStart(p, here, begun, top)
      BY <3>1
    <3> DEFINE ends == {s \in sections \cup begun : s.last > at /\ s.last <= at'}
    <3>3. Carried(p, here) /\ Marks(p, here, ends, begun, at' < top) /\ sections' = sections \cup begun
      BY <3>2, Zenon DEF SentStart
    <3>4. ends \subseteq sections' /\ (at' < top) \in BOOLEAN
      BY <3>3
    <3> HIDE DEF ends
    <3>5. QED
      BY <1>2, <1>3, <1>4, <3>3, <3>4
  <2>4. QED
    BY <2>1, <2>2, <2>3 DEF Broadcast
<1>6. DataInv'
  BY <1>1, <1>5, Zenon DEF DataInv, assemblerVars
<1>7. FlagInv'
  BY <1>5, Zenon DEF FlagInv, assemblerVars
<1>8. QED
  BY <1>6, <1>7

LEMMA ReceiveTyped ==
  ASSUME DataInv, FlagInv, Receive
  PROVE  DataInv' /\ FlagInv'
<1> DEFINE p == Head(air)
<1>1. /\ air # <<>> /\ draining = "no" /\ air' = Tail(air)
      /\ UNCHANGED <<sent, sections, at, npackets, ngap, whole, due, returned>>
      /\ IF p.pid = SiPid THEN Push(p) ELSE UNCHANGED assemblerVars
  BY Zenon DEF Receive
<1>2. p \in Packet /\ air' \in Seq(Packet)
  BY <1>1, HeadTailProperties DEF DataInv
<1> HIDE DEF p
<1>3. p.pre \in Seq(Nat) /\ p.data \in Seq(Nat)
  BY <1>2 DEF Packet, Byte
<1>4. buf \o p.pre \in Seq(Nat) /\ buf \o p.data \in Seq(Nat) /\ <<>> \in Seq(Nat)
  BY <1>3, ConcatProperties, EmptySeq DEF DataInv
<1>5. Collected(p) \in Seq(Nat) /\ Collecting(p) \in BOOLEAN
  <2>1. Collected(p) \in Seq(Nat)
    BY <1>4 DEF Collected, DataInv
  <2>2. Collecting(p) \in BOOLEAN
    BY Zenon DEF Collecting
  <2>3. QED
    BY <2>1, <2>2
<1>6. CASE UNCHANGED assemblerVars
  BY <1>1, <1>2, <1>6, Zenon DEF DataInv, FlagInv, assemblerVars
<1>7. CASE Push(p)
  <2>1. out' = <<>> /\ out' \in Seq(Section)
    BY <1>7 DEF Push
  <2>2. /\ buf' \in Seq(Nat) /\ active' \in BOOLEAN /\ behind' \in Seq(Nat)
        /\ draining' \in {"no", "before", "after"}
    <3>1. CASE PushIgnored(p)
      BY <3>1, Zenon DEF PushIgnored, DataInv, FlagInv
    <3>2. CASE PushNothing(p)
      BY <1>5, <3>2, Zenon DEF PushNothing, DataInv, FlagInv
    <3>3. CASE PushMore(p)
      BY <1>4, <3>3, Zenon DEF PushMore, DataInv, FlagInv
    <3>4. CASE PushStart(p)
      BY <1>3, <1>4, <3>4, Zenon DEF PushStart, DataInv, FlagInv
    <3>5. QED
      BY <1>7, <3>1, <3>2, <3>3, <3>4 DEF Push
  <2>3. QED
    BY <1>1, <1>2, <2>1, <2>2, Zenon DEF DataInv, FlagInv
<1>8. QED
  BY <1>1, <1>6, <1>7

\* What _drain() leaves and what it has found.
LEMMA DrainTyped ==
  ASSUME SectionsInv, DataInv, FlagInv, Drain(sections)
  PROVE  /\ buf' \in Seq(Nat) /\ active' \in BOOLEAN /\ behind' \in Seq(Nat)
         /\ draining' \in {"no", "before", "after"} /\ out' \in Seq(Section)
         /\ out' # out => \E s \in sections : out' = Append(out, s)
<1>1. CASE DrainSection(sections)
  <2>1. PICK n \in 1..Len(buf) : Taken(n)
    BY <1>1, SectionTaken
  <2>2. UNCHANGED <<active, draining, behind>> /\ buf' = SubSeq(buf, n + 1, Len(buf))
    BY <2>1, Zenon DEF Taken
  <2>3. buf' \in Seq(Nat)
    BY <2>2, RestTyped DEF DataInv
  <2>4. out' = out \/ \E s \in sections : out' = Append(out, s)
    BY <2>1, Zenon DEF Taken
  <2>5. out' \in Seq(Section)
    <3>1. sections \subseteq Section /\ out \in Seq(Section)
      BY TopHolds DEF Chain, DataInv
    <3>2. QED
      BY <2>4, <3>1, AppendProperties
  <2>6. active' \in BOOLEAN
    BY <2>2, Zenon DEF FlagInv
  <2>7. QED
    BY <2>2, <2>3, <2>4, <2>5, <2>6, Zenon DEF DataInv
<1>2. CASE DrainIncomplete(sections) \/ DrainStuffing(sections)
  <2>1. out' = out
    BY <1>2, Zenon DEF DrainIncomplete, DrainStuffing
  <2>2. PICK rest \in {buf, <<>>}, on \in {active, FALSE} : DrainReturns(rest, on)
    BY <1>2, Zenon DEF DrainIncomplete, DrainStuffing
  <2>3. <<>> \in Seq(Nat)
    BY EmptySeq
  <2>4. rest \in Seq(Nat) /\ on \in BOOLEAN
    BY <2>2, <2>3, Zenon DEF DataInv, FlagInv
  <2>5. buf' \in Seq(Nat) /\ behind' \in Seq(Nat) /\ draining' \in {"no", "before", "after"}
    BY <2>2, <2>3, <2>4, Zenon DEF DrainReturns, DataInv
  <2>6. active' \in BOOLEAN
    BY <2>2, <2>4, Zenon DEF DrainReturns
  <2>7. QED
    BY <2>1, <2>5, <2>6, Zenon DEF DataInv
<1>3. QED
  BY <1>1, <1>2 DEF Drain

LEMMA CollectTyped ==
  ASSUME SectionsInv, DataInv, FlagInv, Collect
  PROVE  DataInv' /\ FlagInv'
<1>1. /\ Drain(sections) /\ due' = due \ ToSet(out')
      /\ returned' = IF out' = out THEN returned ELSE Last(out').last
      /\ UNCHANGED <<analyzerVars, broadcastVars, seen, breaks, unseen, whole>>
  BY Zenon DEF Collect
<1>2. /\ buf' \in Seq(Nat) /\ active' \in BOOLEAN /\ behind' \in Seq(Nat)
      /\ draining' \in {"no", "before", "after"} /\ out' \in Seq(Section)
      /\ out' # out => \E s \in sections : out' = Append(out, s)
  BY <1>1, DrainTyped
<1>3. returned' \in Nat
  <2>1. CASE out' = out
    BY <1>1, <2>1, Zenon DEF DataInv
  <2>2. CASE out' # out
    <3>1. PICK s \in sections : out' = Append(out, s)
      BY <1>2, <2>2
    <3>2. s \in Section /\ out \in Seq(Section)
      BY TopHolds DEF Chain, DataInv
    <3>3. Last(out') = s
      BY <3>1, <3>2, AppendProperties DEF Last
    <3>4. QED
      BY <1>1, <2>2, <3>2, <3>3 DEF Section
  <2>3. QED
    BY <2>1, <2>2
<1>4. due' \subseteq sections
  BY <1>1 DEF DataInv
<1>5. UNCHANGED <<air, at, npackets, ngap, sections, whole>>
  BY <1>1, Zenon DEF broadcastVars
<1>6. QED
  BY <1>2, <1>3, <1>4, <1>5, Zenon DEF DataInv, FlagInv

-----------------------------------------------------------------------------
(* The packet that is coming                                                *)

Good(p) == p.pid = SiPid /\ p.payload /\ ~p.tei

\* A packet of the table that has not been received yet is in the air.
Coming == air # <<>> /\ seen[SiPid] # sent[SiPid] /\ Good(Last(air))

\* The assembler and the analyzer see the same counter on the table's PID.
CounterInv == cc = lastCc[SiPid] /\ Alike(air)

LEMMA SiPidTyped == SiPid \in Pids /\ SiPid # NullPid
BY ReceptionAssumption

LEMMA NowComing ==
  ASSUME SentInv, NEW p \in Packet, NEW here \in BOOLEAN, SiPacket(p), Carried(p, here)
  PROVE  /\ Coming' <=> here
         /\ here => Last(air') = p
         /\ sent'[SiPid] = sent[SiPid] + 1 /\ seen' = seen
<1>1. p.pid = SiPid /\ p.payload /\ ~p.tei /\ p.num = sent[SiPid] + 1
  BY DEF SiPacket
<1>2. /\ sent' = [sent EXCEPT ![SiPid] = p.num] /\ seen' = seen
      /\ here => air' # <<>> /\ Last(air') = p
      /\ ~here => air' = <<>> \/ Last(air').tei
  BY <1>1, Zenon DEF Carried
<1>3. sent'[SiPid] = sent[SiPid] + 1 /\ sent[SiPid] \in Nat /\ seen[SiPid] \in Nat
      /\ seen[SiPid] <= sent[SiPid]
  BY <1>1, <1>2, SiPidTyped DEF SentInv
<1>4. seen'[SiPid] # sent'[SiPid]
  BY <1>2, <1>3
<1>5. CASE here
  BY <1>1, <1>2, <1>3, <1>4, <1>5, Zenon DEF Coming, Good
<1>6. CASE ~here
  BY <1>2, <1>3, <1>6, Zenon DEF Coming, Good
<1>7. QED
  BY <1>5, <1>6

LEMMA NoneComing ==
  ASSUME SentInv, NEW p \in Packet, NEW here, SentOther(p, here)
  PROVE  ~Coming' /\ sent'[SiPid] = sent[SiPid] /\ seen' = seen
<1>1. /\ sent' = [sent EXCEPT ![p.pid] = p.num] /\ seen' = seen
      /\ ~(p.pid = SiPid /\ p.payload)
      /\ p.num = sent[p.pid] + (IF p.payload THEN 1 ELSE 0)
      /\ air' = <<>> \/ Last(air') = p \/ Last(air').tei
  BY Zenon DEF SentOther, Carried
<1>2. ~Coming'
  BY <1>1, Zenon DEF Coming, Good
<1>3. p.pid \in Pids /\ sent \in [Pids -> Nat]
  BY DEF Packet, SentInv
<1>4. sent'[SiPid] = sent[SiPid]
  <2>1. CASE p.pid = SiPid
    <3>1. ~p.payload
      BY <1>1, <2>1, Zenon
    <3>2. p.num = sent[SiPid]
      BY <1>1, <1>3, <2>1, <3>1
    <3>3. QED
      BY <1>1, <1>3, <2>1, <3>2
  <2>2. CASE p.pid # SiPid
    BY <1>1, <1>3, <2>2
  <2>3. QED
    BY <2>1, <2>2
<1>5. QED
  BY <1>1, <1>2, <1>4

LEMMA TailAlike ==
  ASSUME DataInv, Alike(air), air # <<>>
  PROVE  /\ Alike(Tail(air)) /\ Tail(air) \in Seq(Packet) /\ Head(air) \in Packet
         /\ Head(air).tei \/ Head(air) = Last(air)
         /\ Tail(air) # <<>> => Last(Tail(air)) = Last(air)
         /\ Tail(air) = <<>> => Head(air) = Last(air)
         /\ Head(air) = air[1] /\ 1 \in 1..Len(air)
<1>1. air \in Seq(Packet) /\ Len(air) \in Nat /\ Len(air) >= 1
  BY DEF DataInv
<1>2. /\ Tail(air) \in Seq(Packet) /\ Len(Tail(air)) = Len(air) - 1
      /\ \A i \in 1..(Len(air) - 1) : Tail(air)[i] = air[i + 1]
      /\ Head(air) = air[1] /\ Head(air) \in Packet
  BY <1>1
<1>3. Tail(air) # <<>> => Len(air) - 1 >= 1
  BY <1>1, <1>2
<1>4. Tail(air) # <<>> => Last(Tail(air)) = Last(air)
  BY <1>1, <1>2, <1>3 DEF Last
<1>5. Tail(air) = <<>> => Len(air) = 1
  BY <1>1, <1>2
<1>6. Head(air).tei \/ Head(air) = Last(air)
  <2>1. 1 \in 1..Len(air)
    BY <1>1
  <2>2. QED
    BY <1>2, <2>1, Zenon DEF Alike
<1>7. Alike(Tail(air))
  <2> SUFFICES ASSUME NEW i \in 1..Len(Tail(air))
               PROVE  Tail(air)[i].tei \/ Tail(air)[i] = Last(Tail(air))
    BY DEF Alike
  <2> DEFINE t == Tail(air)
             n == Len(t)
  <2>1. n = Len(air) - 1 /\ i \in 1..n /\ t \in Seq(Packet)
    BY <1>2
  <2> HIDE DEF n
  <2>2. i \in 1..(Len(air) - 1) /\ n >= 1
    BY <1>1, <2>1
  <2>3. t # <<>>
    <3> HIDE DEF t
    <3>1. QED
      BY <2>1, <2>2 DEF n
  <2>4. i + 1 \in 1..Len(air) /\ t[i] = air[i + 1]
    BY <1>1, <1>2, <2>2
  <2>5. QED
    BY <1>4, <2>3, <2>4, Zenon DEF Alike
<1>8. QED
  BY <1>1, <1>2, <1>4, <1>5, <1>6, <1>7 DEF Last

\* What is received is either the packet that was coming or changes nothing.
Arrives ==
  /\ Coming /\ ~Coming'
  /\ Good(Last(air)) /\ Push(Last(air))
  /\ seen'[SiPid] = sent[SiPid]

Passes ==
  /\ Coming' <=> Coming
  /\ Coming => Last(air') = Last(air)
  /\ UNCHANGED <<buf, active, cc, draining, behind>>
  /\ seen'[SiPid] = seen[SiPid]
  /\ out' = out \/ out' = <<>>

LEMMA ReceiveKinds ==
  ASSUME Inv, DataInv, CounterInv, Receive
  PROVE  /\ Arrives \/ Passes
         /\ CounterInv'
         /\ draining = "no" /\ UNCHANGED <<sent, sections, at, whole, due, returned>>
<1> DEFINE p == Head(air)
<1>1. /\ air # <<>> /\ draining = "no" /\ air' = Tail(air)
      /\ UNCHANGED <<sent, sections, at, whole, due, returned>>
      /\ Count(p) /\ Observe(p)
      /\ IF p.pid = SiPid THEN Push(p) ELSE UNCHANGED assemblerVars
  BY Zenon DEF Receive
<1>2. /\ Alike(air') /\ p \in Packet
      /\ p.tei \/ p = Last(air)
      /\ air' # <<>> => Last(air') = Last(air)
      /\ air' = <<>> => p = Last(air)
      /\ p = air[1] /\ 1 \in 1..Len(air)
  BY <1>1, TailAlike DEF CounterInv
<1>3. Genuine(p)
  BY <1>2 DEF Inv, AirInv
<1> HIDE DEF p
<1>4. seen \in [Pids -> Nat] /\ lastCc \in [Pids -> Int] /\ SiPid \in Pids /\ SiPid # NullPid
      /\ p.pid \in Pids
  BY <1>3, SiPidTyped DEF Inv, SentInv, LastInv, Genuine
<1>5. CASE ~Good(p)
  <2>1. p.pid # SiPid \/ ~p.payload \/ p.tei
    BY <1>5, Zenon DEF Good
  <2>2. seen'[SiPid] = seen[SiPid]
    BY <1>1, <1>4, <2>1 DEF Observe
  <2>3. lastCc'[SiPid] = lastCc[SiPid]
    BY <1>1, <1>4, <2>1 DEF Count, CountErrored, CountNull, CountOther
  <2>4. UNCHANGED <<buf, active, cc, draining, behind>> /\ (out' = out \/ out' = <<>>)
    <3>1. CASE p.pid # SiPid
      BY <1>1, <3>1, Zenon DEF assemblerVars
    <3>2. CASE p.pid = SiPid
      <4>1. Push(p) /\ Ignored(p)
        BY <1>1, <2>1, <3>2, Zenon DEF Ignored
      <4>2. PushIgnored(p) /\ out' = <<>>
        BY <4>1, Zenon DEF Push, PushNothing, PushMore, PushStart
      <4>3. QED
        BY <1>1, <4>2, Zenon DEF PushIgnored
    <3>3. QED
      BY <3>1, <3>2
  <2>5. CounterInv'
    BY <1>2, <2>3, <2>4 DEF CounterInv
  <2>6. Coming' <=> Coming
    <3>1. CASE air' = <<>>
      BY <1>2, <1>5, <3>1, Zenon DEF Coming
    <3>2. CASE air' # <<>>
      BY <1>1, <1>2, <2>2, <3>2, Zenon DEF Coming
    <3>3. QED
      BY <3>1, <3>2
  <2>7. Coming => Last(air') = Last(air)
    BY <1>2, <1>5, Zenon DEF Coming
  <2>8. QED
    BY <1>1, <2>2, <2>4, <2>5, <2>6, <2>7, Zenon DEF Passes
<1>6. CASE Good(p)
  <2>1. p.pid = SiPid /\ p.payload /\ ~p.tei
    BY <1>6, Zenon DEF Good
  <2>2. p = Last(air) /\ Push(p)
    BY <1>1, <1>2, <2>1, Zenon
  <2>3. /\ p.num = sent[SiPid] /\ p.cc = p.num % CcMod /\ p.num # 0
    BY <1>3, <2>1, Zenon DEF Genuine
  <2>4. seen'[SiPid] = sent[SiPid]
    <3>1. seen' = [seen EXCEPT ![SiPid] = sent[SiPid]]
      BY <1>1, <1>4, <2>1, <2>3, Zenon DEF Observe
    <3>2. QED
      BY <1>4, <3>1
  <2>5. lastCc'[SiPid] = p.cc
    <3>1. lastCc' = [lastCc EXCEPT ![SiPid] = p.cc]
      BY <1>1, <1>4, <2>1, Zenon DEF Count, CountErrored, CountNull, CountOther
    <3>2. QED
      BY <1>4, <3>1
  <2>6. ~Coming'
    BY <1>1, <2>4, Zenon DEF Coming
  <2>7. cc' = p.cc
    <3>1. CASE PushIgnored(p)
      <4>1. cc' = cc /\ p.cc = cc
        BY <2>1, <3>1, Zenon DEF PushIgnored, Ignored
      <4>2. QED
        BY <4>1
    <3>2. CASE PushNothing(p) \/ PushMore(p) \/ PushStart(p)
      BY <3>2, Zenon DEF PushNothing, PushMore, PushStart
    <3>3. QED
      BY <2>2, <3>1, <3>2 DEF Push
  <2>8. CounterInv'
    BY <1>2, <2>5, <2>7 DEF CounterInv
  <2>9. CASE Coming
    BY <1>1, <1>6, <2>2, <2>4, <2>6, <2>8, <2>9, Zenon DEF Arrives
  <2>10. CASE ~Coming
    <3>1. seen[SiPid] = sent[SiPid]
      BY <1>1, <1>6, <2>2, <2>10, Zenon DEF Coming
    <3>2. cc = p.cc
      <4>1. lastCc[SiPid] = seen[SiPid] % CcMod
        BY <1>4, <2>3, <3>1, Zenon DEF Inv, LastInv
      <4>2. QED
        BY <2>3, <3>1, <4>1, Zenon DEF CounterInv
    <3>3. p.cc >= 0
      <4>1. p.cc \in 0..(CcMod - 1)
        BY <1>2 DEF Packet
      <4>2. QED
        BY <4>1, AnalyzerAssumption
    <3>4. Ignored(p)
      BY <3>2, <3>3, Zenon DEF Ignored
    <3>5. PushIgnored(p) /\ out' = <<>>
      BY <2>2, <3>4, Zenon DEF Push, PushNothing, PushMore, PushStart
    <3>6. UNCHANGED <<buf, active, cc, draining, behind>>
      BY <2>2, <2>7, <3>2, <3>5, Zenon DEF PushIgnored
    <3>7. QED
      BY <1>1, <2>4, <2>6, <2>8, <2>10, <3>1, <3>5, <3>6, Zenon DEF Passes
  <2>11. QED
    BY <2>9, <2>10
<1>7. QED
  BY <1>5, <1>6

LEMMA CounterStep ==
  ASSUME Inv, DataInv, SectionsInv, CounterInv, [Next]_vars
  PROVE  CounterInv'
<1>1. CASE Receive
  BY <1>1, ReceiveKinds
<1>2. CASE Collect
  <2>1. UNCHANGED <<lastCc, air>> /\ Drain(sections)
    BY <1>2, Zenon DEF Collect, analyzerVars, broadcastVars
  <2>2. cc' = cc
    BY <2>1, Zenon DEF Drain, DrainSection, DrainIncomplete, DrainStuffing
  <2>3. QED
    BY <2>1, <2>2 DEF CounterInv
<1>3. CASE Broadcast
  <2>1. sent \in [Pids -> Nat] /\ at \in Nat
    BY DEF Inv, SentInv, DataInv
  <2>2. \E p, here : Carried(p, here)
    <3>1. CASE SendOther
      BY <2>1, <3>1, OtherSent DEF SentOther
    <3>2. CASE SendMore
      BY <2>1, <3>2, MoreSent DEF SentMore
    <3>3. CASE SendStart
      BY <2>1, <3>3, StartSent, Zenon DEF SentStart
    <3>4. QED
      BY <1>3, <3>1, <3>2, <3>3 DEF Broadcast
  <2>3. Alike(air') /\ UNCHANGED <<cc, lastCc>>
    BY <2>2, Zenon DEF Carried, analyzerVars, assemblerVars
  <2>4. QED
    BY <2>3 DEF CounterInv
<1>4. CASE UNCHANGED vars
  BY <1>4 DEF vars, analyzerVars, assemblerVars, broadcastVars, CounterInv
<1>5. QED
  BY <1>1, <1>2, <1>3, <1>4 DEF Next

-----------------------------------------------------------------------------
(* Bytes in the order in which they were sent, with stuffing between them   *)

\* Behind position n, up to position m.
Run(n, s, m) ==
  /\ \A i, j \in 1..Len(s) : i < j /\ s[i] # 0 /\ s[j] # 0 => s[i] < s[j]
  /\ \A i \in 1..Len(s) : (s[i] # 0 => n < s[i]) /\ s[i] <= m

Before(s, t) == \A i \in 1..Len(s), j \in 1..Len(t) : s[i] # 0 /\ t[j] # 0 => s[i] < t[j]

Runs(n, s, t, m) == Run(n, s, m) /\ Run(n, t, m) /\ Before(s, t)

LEMMA RunEmpty ==
  ASSUME NEW n \in Nat, NEW m \in Nat, NEW s
  PROVE  Run(n, <<>>, m) /\ Before(s, <<>>) /\ Before(<<>>, s)
BY DEF Run, Before

LEMMA RunWiden ==
  ASSUME NEW s \in Seq(Nat), NEW n \in Nat, NEW m \in Nat, NEW k \in Nat, NEW l \in Nat,
         Run(n, s, m), k <= n, m <= l
  PROVE  Run(k, s, l)
<1>1. Len(s) \in Nat /\ \A i \in 1..Len(s) : s[i] \in Nat
  OBVIOUS
<1>2. \A i \in 1..Len(s) : (s[i] # 0 => k < s[i]) /\ s[i] <= l
  BY <1>1 DEF Run
<1>3. QED
  BY <1>2 DEF Run

LEMMA RunBehind ==
  ASSUME NEW s \in Seq(Nat), NEW t \in Seq(Nat), NEW n \in Nat, NEW m \in Nat, NEW k \in Nat, NEW l \in Nat,
         Run(n, s, m), Run(k, t, l), n <= k, m <= k, m <= l
  PROVE  Runs(n, s, t, l)
<1>1. /\ Len(s) \in Nat /\ \A i \in 1..Len(s) : s[i] \in Nat
      /\ Len(t) \in Nat /\ \A i \in 1..Len(t) : t[i] \in Nat
  OBVIOUS
<1>2. Run(n, s, l) /\ Run(n, t, l)
  BY RunWiden
<1>3. Before(s, t)
  BY <1>1 DEF Run, Before
<1>4. QED
  BY <1>2, <1>3 DEF Runs

LEMMA JoinSeq ==
  ASSUME NEW s \in Seq(Nat), NEW t \in Seq(Nat)
  PROVE  /\ s \o t \in Seq(Nat) /\ Len(s \o t) = Len(s) + Len(t)
         /\ \A i \in 1..(Len(s) + Len(t)) :
               (s \o t)[i] = IF i <= Len(s) THEN s[i] ELSE t[i - Len(s)]
OBVIOUS

\* Whatever is in one of two parts is in the whole.
LEMMA JoinedFrom ==
  ASSUME NEW s \in Seq(Nat), NEW t \in Seq(Nat), NEW i \in 1..Len(s \o t)
  PROVE  \/ i \in 1..Len(s) /\ (s \o t)[i] = s[i]
         \/ i > Len(s) /\ i - Len(s) \in 1..Len(t) /\ (s \o t)[i] = t[i - Len(s)]
<1>1. Len(s) \in Nat /\ Len(t) \in Nat
  OBVIOUS
<1>2. i \in 1..(Len(s) + Len(t)) /\ (s \o t)[i] = IF i <= Len(s) THEN s[i] ELSE t[i - Len(s)]
  BY JoinSeq
<1>3. QED
  BY <1>1, <1>2

LEMMA RunJoin ==
  ASSUME NEW s \in Seq(Nat), NEW t \in Seq(Nat), NEW n \in Nat, NEW m \in Nat, Runs(n, s, t, m)
  PROVE  Run(n, s \o t, m)
<1> DEFINE u == s \o t
<1>1. /\ Len(s) \in Nat /\ Len(t) \in Nat
      /\ \A i \in 1..Len(u) :
            \/ i \in 1..Len(s) /\ u[i] = s[i]
            \/ i > Len(s) /\ i - Len(s) \in 1..Len(t) /\ u[i] = t[i - Len(s)]
      /\ Len(u) \in Nat
  BY JoinedFrom, JoinSeq
<1> HIDE DEF u
<1>2. \A i \in 1..Len(u) : (u[i] # 0 => n < u[i]) /\ u[i] <= m
  BY <1>1 DEF Runs, Run
<1>3. ASSUME NEW i \in 1..Len(u), NEW j \in 1..Len(u), i < j, u[i] # 0, u[j] # 0
      PROVE  u[i] < u[j]
  <2>1. CASE i \in 1..Len(s) /\ j \in 1..Len(s) /\ u[i] = s[i] /\ u[j] = s[j]
    BY <1>3, <2>1 DEF Runs, Run
  <2>2. CASE i \in 1..Len(s) /\ u[i] = s[i] /\ j - Len(s) \in 1..Len(t) /\ u[j] = t[j - Len(s)]
    BY <1>3, <2>2 DEF Runs, Before
  <2>3. CASE /\ i - Len(s) \in 1..Len(t) /\ u[i] = t[i - Len(s)]
             /\ j - Len(s) \in 1..Len(t) /\ u[j] = t[j - Len(s)]
    <3>1. i - Len(s) < j - Len(s)
      BY <1>1, <1>3
    <3>2. QED
      BY <1>3, <2>3, <3>1 DEF Runs, Run
  <2>4. QED
    BY <1>1, <1>3, <2>1, <2>2, <2>3
<1>4. Run(n, u, m)
  BY <1>2, <1>3 DEF Run
<1>5. QED
  BY <1>4 DEF u

LEMMA BeforeJoin ==
  ASSUME NEW s \in Seq(Nat), NEW t \in Seq(Nat), NEW x, Before(s, x), Before(t, x)
  PROVE  Before(s \o t, x)
<1> DEFINE u == s \o t
<1>1. \A i \in 1..Len(u) :
            \/ i \in 1..Len(s) /\ u[i] = s[i]
            \/ i > Len(s) /\ i - Len(s) \in 1..Len(t) /\ u[i] = t[i - Len(s)]
  BY JoinedFrom
<1> HIDE DEF u
<1>2. Before(u, x)
  BY <1>1 DEF Before
<1>3. QED
  BY <1>2 DEF u

\* What is left when the front is taken away, up to position k.
LEMMA RunCut ==
  ASSUME NEW s \in Seq(Nat), NEW t \in Seq(Nat), NEW n \in Nat, NEW m \in Nat, Runs(n, s, t, m),
         NEW k \in 1..Len(s)
  PROVE  /\ Runs(n, SubSeq(s, k + 1, Len(s)), t, m)
         /\ s[k] # 0 => Runs(s[k], SubSeq(s, k + 1, Len(s)), t, m) /\ n < s[k] /\ s[k] <= m
<1> DEFINE u == SubSeq(s, k + 1, Len(s))
<1>1. /\ u \in Seq(Nat) /\ Len(u) = Len(s) - k
      /\ \A i \in 1..(Len(s) - k) : u[i] = s[k + i]
  BY RestTyped
<1>2. /\ Len(s) \in Nat /\ k \in Nat /\ k >= 1 /\ \A i \in 1..Len(s) : s[i] \in Nat
      /\ Len(t) \in Nat /\ \A i \in 1..Len(t) : t[i] \in Nat
  OBVIOUS
<1> HIDE DEF u
<1>3. \A i \in 1..Len(u) : k + i \in 1..Len(s) /\ k + i > k /\ u[i] = s[k + i]
  BY <1>1, <1>2
<1>4. \A i, j \in 1..Len(u) : i < j => k + i < k + j
  BY <1>1, <1>2
<1>5. \A i, j \in 1..Len(u) : i < j /\ u[i] # 0 /\ u[j] # 0 => u[i] < u[j]
  BY <1>3, <1>4 DEF Runs, Run
<1>6. Before(u, t)
  BY <1>3 DEF Runs, Before
<1>7. Runs(n, u, t, m)
  <2>1. \A i \in 1..Len(u) : (u[i] # 0 => n < u[i]) /\ u[i] <= m
    BY <1>3 DEF Runs, Run
  <2>2. QED
    BY <1>5, <1>6, <2>1 DEF Runs, Run
<1>8. ASSUME s[k] # 0
      PROVE  Runs(s[k], u, t, m) /\ n < s[k] /\ s[k] <= m
  <2>1. n < s[k] /\ s[k] <= m
    BY <1>8 DEF Runs, Run
  <2>2. \A i \in 1..Len(u) : (u[i] # 0 => s[k] < u[i]) /\ u[i] <= m
    BY <1>3, <1>8 DEF Runs, Run
  <2>3. \A i \in 1..Len(t) : (t[i] # 0 => s[k] < t[i]) /\ t[i] <= m
    BY <1>8 DEF Runs, Run, Before
  <2>4. Run(s[k], t, m)
    BY <2>3 DEF Runs, Run
  <2>5. QED
    BY <1>5, <1>6, <2>1, <2>2, <2>4 DEF Runs, Run
<1>9. QED
  BY <1>7, <1>8 DEF u

LEMMA RunOfBytes ==
  ASSUME NEW a \in Nat, NEW n \in Nat, NEW top \in Nat, NEW m \in Nat,
         m >= IF a + n <= top THEN a + n ELSE top
  PROVE  Run(a, Bytes(a, n, top), m)
<1> DEFINE u == Bytes(a, n, top)
<1>1. /\ Len(u) = n /\ \A i \in 1..n : u[i] = IF a + i <= top THEN a + i ELSE 0
  BY BytesTyped
<1> HIDE DEF u
<1>2. \A i \in 1..n : (u[i] # 0 => a < u[i]) /\ u[i] <= m
  BY <1>1
<1>3. \A i, j \in 1..n : i < j /\ u[i] # 0 /\ u[j] # 0 => u[i] < u[j]
  BY <1>1
<1>4. QED
  BY <1>1, <1>2, <1>3 DEF Run, u

-----------------------------------------------------------------------------
(* What is held lies behind what has been returned                          *)

\* Everything that has been collected or is coming is behind what has been
\* returned, in the order in which it was sent.
OrderInv ==
  /\ returned <= at
  /\ draining # "before" => behind = <<>>
  /\ Runs(returned, buf, behind, at)
  /\ Coming => /\ draining = "no"
               /\ Runs(returned, buf, Last(air).pre, at)
               /\ Runs(returned, buf, Last(air).data, at)
               /\ Runs(returned, Last(air).pre, Last(air).data, at)

LEMMA ComingTyped ==
  ASSUME DataInv, Coming
  PROVE  Last(air) \in Packet /\ Last(air).pre \in Seq(Nat) /\ Last(air).data \in Seq(Nat)
<1>1. air \in Seq(Packet) /\ air # <<>>
  BY DEF DataInv, Coming
<1>2. Len(air) \in 1..Len(air) /\ Last(air) = air[Len(air)]
  BY <1>1 DEF Last
<1>3. Last(air) \in Packet
  BY <1>1, <1>2
<1>4. QED
  BY <1>3 DEF Packet, Byte

LEMMA RunsEmpty ==
  ASSUME NEW n \in Nat, NEW m \in Nat, NEW s, Run(n, s, m)
  PROVE  Runs(n, s, <<>>, m) /\ Runs(n, <<>>, s, m) /\ Runs(n, <<>>, <<>>, m)
BY RunEmpty DEF Runs

LEMMA RunsWiden ==
  ASSUME NEW s \in Seq(Nat), NEW t \in Seq(Nat), NEW n \in Nat, NEW m \in Nat, NEW l \in Nat,
         Runs(n, s, t, m), m <= l
  PROVE  Runs(n, s, t, l)
BY RunWiden DEF Runs

\* What is sent lies behind everything that was collected.
LEMMA NewRuns ==
  ASSUME DataInv, OrderInv, draining = "no", NEW pre \in Seq(Nat), NEW data \in Seq(Nat),
         NEW m \in Nat, NEW l \in Nat, Run(at, pre, m), Run(m, data, l), at <= m, m <= l
  PROVE  /\ Runs(returned, buf, pre, l) /\ Runs(returned, buf, data, l)
         /\ Runs(returned, pre, data, l)
<1>1. /\ returned \in Nat /\ at \in Nat /\ buf \in Seq(Nat) /\ returned <= at
      /\ Run(returned, buf, at)
  BY DEF DataInv, OrderInv, Runs
<1>2. Runs(returned, buf, pre, m)
  BY <1>1, RunBehind
<1>3. Runs(returned, buf, pre, l)
  BY <1>1, <1>2, RunsWiden
<1>4. Runs(returned, buf, data, l)
  BY <1>1, RunBehind
<1>5. Run(returned, pre, m)
  BY <1>2 DEF Runs
<1>6. Runs(returned, pre, data, l)
  BY <1>1, <1>5, RunBehind
<1>7. QED
  BY <1>3, <1>4, <1>6

LEMMA OrderSent ==
  ASSUME SectionsInv, DataInv, FlagInv, SentInv, OrderInv, Broadcast
  PROVE  OrderInv'
<1>0. sent \in [Pids -> Nat] /\ at \in Nat
  BY DEF SentInv, DataInv
<1>1. /\ returned \in Nat /\ buf \in Seq(Nat) /\ behind \in Seq(Nat) /\ returned <= at
      /\ Runs(returned, buf, behind, at) /\ (draining # "before" => behind = <<>>)
  BY DEF DataInv, OrderInv
<1>2. ASSUME NEW p, NEW here, Carried(p, here)
      PROVE  draining = "no" /\ UNCHANGED <<buf, behind, draining, returned>>
  BY <1>2, Zenon DEF Carried, assemblerVars
<1>3. ASSUME UNCHANGED <<buf, behind, draining, returned>>, at' \in Nat, at <= at',
             draining = "no",
             Coming' => /\ Runs(returned, buf, Last(air').pre, at')
                        /\ Runs(returned, buf, Last(air').data, at')
                        /\ Runs(returned, Last(air').pre, Last(air').data, at')
      PROVE  OrderInv'
  <2>1. Runs(returned, buf, behind, at')
    BY <1>0, <1>1, <1>3, RunsWiden, Zenon
  <2>3. returned <= at'
    BY <1>0, <1>1, <1>3
  <2>2. QED
    BY <1>1, <1>3, <2>1, <2>3, Zenon DEF OrderInv
<1>4. CASE SendOther
  <2>1. PICK p \in Packet, here \in BOOLEAN : SentOther(p, here)
    BY <1>0, <1>4, OtherSent
  <2>2. ~Coming'
    BY <2>1, NoneComing
  <2>3. Carried(p, here) /\ at' = at
    BY <2>1, Zenon DEF SentOther
  <2>4. QED
    BY <1>0, <1>2, <1>3, <2>2, <2>3
<1>5. CASE SendMore
  <2>1. PICK room \in {0, Room}, p \in Packet, here \in BOOLEAN : SentMore(p, here, room)
    BY <1>0, <1>5, MoreSent
  <2>2. /\ Top \in Nat /\ at' \in Nat /\ at <= at' /\ room \in Nat
    BY <1>0, <2>1, MoreGrows
  <2>3. /\ Carried(p, here) /\ SiPacket(p)
        /\ p.pre = <<>> /\ p.data = Bytes(at, room, Top)
        /\ at' = (IF at + room <= Top THEN at + room ELSE Top)
    BY <2>1, Zenon DEF SentMore
  <2>4. Coming' => Last(air') = p
    BY <2>3, NowComing
  <2>5. /\ Run(at, p.pre, at) /\ Run(at, p.data, at')
        /\ p.pre \in Seq(Nat) /\ p.data \in Seq(Nat) /\ at <= at
    <3>1. at' >= IF at + room <= Top THEN at + room ELSE Top
      BY <2>2, <2>3
    <3>2. Run(at, Bytes(at, room, Top), at')
      BY <1>0, <2>2, <3>1, RunOfBytes, Zenon
    <3>3. Bytes(at, room, Top) \in Seq(Nat)
      BY <1>0, <2>2, BytesTyped, Zenon
    <3>4. Run(at, <<>>, at) /\ <<>> \in Seq(Nat) /\ at <= at
      BY <1>0, RunEmpty, EmptySeq
    <3>5. QED
      BY <2>3, <3>2, <3>3, <3>4, Zenon
  <2>6. /\ Runs(returned, buf, p.pre, at') /\ Runs(returned, buf, p.data, at')
        /\ Runs(returned, p.pre, p.data, at')
    BY <1>0, <1>2, <2>2, <2>3, <2>5, NewRuns, Zenon
  <2>7. QED
    BY <1>2, <1>3, <2>2, <2>3, <2>4, <2>6
<1>6. CASE SendStart
  <2>1. PICK begun : \E p \in Packet, here \in BOOLEAN, top \in Nat : SentStart(p, here, begun, top)
    BY <1>0, <1>6, StartSent
  <2>2. PICK p \in Packet, here \in BOOLEAN, top \in Nat : SentStart(p, here, begun, top)
    BY <2>1
  <2>3. /\ top \in Nat /\ at' \in Nat /\ at <= at' /\ top > Top
    BY <1>0, <2>2, StartGrows
  <2>4. Top \in Nat /\ at <= Top
    BY TopHolds
  <2>5. /\ Carried(p, here) /\ SiPacket(p)
        /\ Top + 1 <= at + (Room - 1)
        /\ p.pre = Bytes(at, Top - at, Top)
        /\ p.data = Bytes(Top, Room - 1 - (Top - at), top)
        /\ at' = (IF at + (Room - 1) <= top THEN at + (Room - 1) ELSE top)
    BY <2>2, Zenon DEF SentStart
  <2>6. Coming' => Last(air') = p
    BY <2>5, NowComing
  <2> DEFINE n == Top - at
             k == Room - 1 - (Top - at)
  <2>7. /\ n \in Nat /\ k \in Nat /\ at + n = Top /\ Top + k = at + (Room - 1)
        /\ Top <= at'
    BY <1>0, <2>3, <2>4, <2>5, ReceptionAssumption
  <2>8. p.pre = Bytes(at, n, Top) /\ p.data = Bytes(Top, k, top)
    BY <2>5
  <2> HIDE DEF n, k
  <2>9. Top >= IF at + n <= Top THEN at + n ELSE Top
    BY <2>4, <2>7
  <2>10. at' >= IF Top + k <= top THEN Top + k ELSE top
    BY <2>3, <2>5, <2>7
  <2>11. Run(at, p.pre, Top)
    BY <1>0, <2>4, <2>7, <2>8, <2>9, RunOfBytes
  <2>12. Run(Top, p.data, at')
    BY <2>3, <2>4, <2>7, <2>8, <2>10, RunOfBytes
  <2>13. p.pre \in Seq(Nat) /\ p.data \in Seq(Nat)
    <3>1. Bytes(at, n, Top) \in Seq(Nat)
      BY <1>0, <2>4, <2>7, BytesTyped, Zenon
    <3>2. Bytes(Top, k, top) \in Seq(Nat)
      BY <2>3, <2>4, <2>7, BytesTyped, Zenon
    <3>3. QED
      BY <2>8, <3>1, <3>2, Zenon
  <2>14. /\ Runs(returned, buf, p.pre, at') /\ Runs(returned, buf, p.data, at')
         /\ Runs(returned, p.pre, p.data, at')
    BY <1>2, <2>3, <2>4, <2>5, <2>7, <2>11, <2>12, <2>13, NewRuns
  <2>15. QED
    BY <1>2, <1>3, <2>3, <2>5, <2>6, <2>14
<1>7. QED
  BY <1>4, <1>5, <1>6 DEF Broadcast

LEMMA OrderReceived ==
  ASSUME Inv, DataInv, CounterInv, OrderInv, Receive
  PROVE  OrderInv'
<1> DEFINE p == Last(air)
<1>1. /\ Arrives \/ Passes
      /\ draining = "no" /\ UNCHANGED <<at, returned>>
  BY ReceiveKinds
<1>2. /\ returned \in Nat /\ at \in Nat /\ buf \in Seq(Nat) /\ returned <= at
      /\ behind = <<>> /\ Run(returned, buf, at)
  BY <1>1 DEF DataInv, OrderInv, Runs
<1>3. CASE Passes
  <2>1. /\ Coming' <=> Coming
        /\ Coming => Last(air') = Last(air)
        /\ UNCHANGED <<buf, draining, behind>>
    BY <1>3, Zenon DEF Passes
  <2>2. QED
    BY <1>1, <2>1, Zenon DEF OrderInv
<1>4. CASE Arrives
  <2>1. Coming /\ ~Coming' /\ Push(p)
    BY <1>4, Zenon DEF Arrives
  <2>2. /\ p.pre \in Seq(Nat) /\ p.data \in Seq(Nat)
        /\ Runs(returned, buf, p.pre, at) /\ Runs(returned, buf, p.data, at)
        /\ Runs(returned, p.pre, p.data, at)
    BY <2>1, ComingTyped DEF OrderInv
  <2> HIDE DEF p
  <2>3. Run(returned, p.data, at) /\ Run(returned, p.pre, at)
    BY <2>2 DEF Runs
  <2>4. Runs(returned, buf', behind', at) /\ (draining' # "before" => behind' = <<>>)
    <3>1. CASE PushIgnored(p)
      <4>1. UNCHANGED <<buf, behind, draining>>
        BY <3>1, Zenon DEF PushIgnored
      <4>2. QED
        BY <1>2, <4>1, RunsEmpty
    <3>2. CASE PushNothing(p)
      <4>1. UNCHANGED <<behind, draining>> /\ buf' = Collected(p)
        BY <3>2, Zenon DEF PushNothing
      <4>2. buf' = buf \/ buf' = <<>>
        BY <4>1, Zenon DEF Collected
      <4>3. QED
        BY <1>2, <4>1, <4>2, RunsEmpty
    <3>3. CASE PushMore(p)
      <4>1. buf' = buf \o p.data /\ behind' = behind
        BY <3>3, Zenon DEF PushMore
      <4>2. Run(returned, buf \o p.data, at)
        BY <1>2, <2>2, RunJoin
      <4>3. QED
        BY <1>2, <4>1, <4>2, RunsEmpty
    <3>4. CASE PushStart(p)
      <4>1. CASE Collecting(p)
        <5>1. buf' = buf \o p.pre /\ behind' = p.data /\ draining' = "before"
          BY <3>4, <4>1, Zenon DEF PushStart
        <5>2. Run(returned, buf \o p.pre, at)
          BY <1>2, <2>2, RunJoin
        <5>3. Before(buf, p.data) /\ Before(p.pre, p.data)
          BY <2>2, Zenon DEF Runs
        <5>4. Before(buf \o p.pre, p.data)
          BY <1>2, <2>2, <5>3, BeforeJoin
        <5>5. QED
          BY <2>3, <5>1, <5>2, <5>4, Zenon DEF Runs
      <4>2. CASE ~Collecting(p)
        <5>1. buf' = p.data /\ behind' = behind
          BY <3>4, <4>2, Zenon DEF PushStart
        <5>2. QED
          BY <1>2, <2>3, <5>1, RunsEmpty
      <4>3. QED
        BY <4>1, <4>2
    <3>5. QED
      BY <2>1, <3>1, <3>2, <3>3, <3>4 DEF Push
  <2>5. QED
    BY <1>1, <1>2, <2>1, <2>4, Zenon DEF OrderInv
<1>5. QED
  BY <1>1, <1>3, <1>4

LEMMA BytesOfTyped ==
  ASSUME SectionsInv, NEW s \in sections
  PROVE  /\ s \in Section /\ s.first \in Nat /\ s.last \in Nat
         /\ s.first >= 1 /\ s.first <= s.last
         /\ BytesOf(s) \in Seq(Nat) /\ Len(BytesOf(s)) = (s.last - s.first) + 1
         /\ \A i \in 1..((s.last - s.first) + 1) : BytesOf(s)[i] = s.first + i - 1
         /\ (s.last - s.first) + 1 \in SectionSizes
<1>1. s \in Section /\ s.first >= 1 /\ (s.last - s.first) + 1 \in SectionSizes
  BY TopHolds DEF Chain
<1>2. s.first \in Nat /\ s.last \in Nat
  BY <1>1 DEF Section
<1> DEFINE n == (s.last - s.first) + 1
<1>3. n \in Nat /\ n >= 1
  BY <1>1, SizeTyped
<1>4. s.first <= s.last
  BY <1>2, <1>3
<1>5. \A i \in 1..n : s.first + i - 1 \in Nat
  BY <1>1, <1>2
<1>6. BytesOf(s) = [i \in 1..n |-> s.first + i - 1]
  BY DEF BytesOf
<1> HIDE DEF n
<1>7. BytesOf(s) \in Seq(Nat) /\ Len(BytesOf(s)) = n /\ \A i \in 1..n : BytesOf(s)[i] = s.first + i - 1
  BY <1>3, <1>5, <1>6
<1>8. QED
  BY <1>1, <1>2, <1>4, <1>7 DEF n

\* The section in front of the buffer.
LEMMA TakenSection ==
  ASSUME SectionsInv, DataInv, NEW n \in 1..Len(buf), NEW s \in sections,
         SubSeq(buf, 1, n) = BytesOf(s)
  PROVE  /\ n = (s.last - s.first) + 1
         /\ buf[1] = s.first /\ buf[n] = s.last
         /\ \A i \in 1..n : buf[i] = s.first + i - 1
<1>1. Len(SubSeq(buf, 1, n)) = n /\ \A i \in 1..n : SubSeq(buf, 1, n)[i] = buf[i]
  BY DEF DataInv
<1>2. s.first \in Nat /\ s.last \in Nat /\ n \in Nat /\ n >= 1
  BY BytesOfTyped DEF DataInv
<1>3. n = (s.last - s.first) + 1
  BY <1>1, BytesOfTyped
<1>4. \A i \in 1..n : buf[i] = s.first + i - 1
  BY <1>1, <1>3, BytesOfTyped
<1>5. 1 \in 1..n /\ n \in 1..n
  BY <1>2
<1>6. buf[1] = s.first + 1 - 1 /\ buf[n] = s.first + n - 1
  BY <1>4, <1>5
<1>7. QED
  BY <1>2, <1>3, <1>4, <1>6

\* A section that comes out is behind the one before.
LEMMA FoundBehind ==
  ASSUME SectionsInv, DataInv, OrderInv, NEW n \in 1..Len(buf), Taken(n), out' # out
  PROVE  \E s \in sections :
            /\ out' = Append(out, s) /\ SubSeq(buf, 1, n) = BytesOf(s) /\ Last(out') = s
            /\ s.first > returned /\ s.last > returned /\ s.last <= at
            /\ Runs(s.last, buf', behind, at)
<1>1. PICK s \in sections : SubSeq(buf, 1, n) = BytesOf(s) /\ out' = Append(out, s)
  BY Zenon DEF Taken
<1>2. buf[1] = s.first /\ buf[n] = s.last /\ s.first >= 1 /\ s.first <= s.last
      /\ s.first \in Nat /\ s.last \in Nat /\ s \in Section
  BY <1>1, TakenSection, BytesOfTyped
<1>3. /\ returned \in Nat /\ at \in Nat /\ buf \in Seq(Nat) /\ behind \in Seq(Nat)
      /\ Runs(returned, buf, behind, at) /\ out \in Seq(Section)
  BY DEF DataInv, OrderInv
<1>4. buf' = SubSeq(buf, n + 1, Len(buf))
  BY Zenon DEF Taken
<1>5. Runs(s.last, buf', behind, at) /\ returned < s.last /\ s.last <= at
  <2>1. buf[n] # 0
    BY <1>2
  <2>2. Runs(buf[n], SubSeq(buf, n + 1, Len(buf)), behind, at) /\ returned < buf[n] /\ buf[n] <= at
    BY <1>3, <2>1, RunCut
  <2>3. QED
    BY <1>2, <1>4, <2>2
<1>6. returned < s.first
  <2>1. 1 \in 1..Len(buf)
    BY <1>3
  <2>2. QED
    BY <1>2, <1>3, <2>1 DEF Runs, Run
<1>7. Last(out') = s
  BY <1>1, <1>2, <1>3, AppendProperties DEF Last
<1>8. QED
  BY <1>1, <1>2, <1>3, <1>5, <1>6, <1>7

\* After what _drain() leaves comes what is behind it.
LEMMA Returns ==
  ASSUME NEW rest \in {buf, <<>>}, NEW on, DrainReturns(rest, on), DataInv, OrderInv
  PROVE  Runs(returned, buf', behind', at) /\ (draining' # "before" => behind' = <<>>)
<1>1. /\ returned \in Nat /\ at \in Nat
      /\ Run(returned, buf, at) /\ Run(returned, behind, at)
      /\ draining # "before" => behind = <<>>
  BY DEF DataInv, OrderInv, Runs
<1>2. CASE draining = "before"
  <2>1. buf' = behind /\ behind' = <<>> /\ draining' = "after"
    BY <1>2, Zenon DEF DrainReturns
  <2>2. QED
    BY <1>1, <2>1, RunsEmpty
<1>3. CASE draining # "before"
  <2>1. buf' = rest /\ behind' = behind
    BY <1>3, Zenon DEF DrainReturns
  <2>2. QED
    BY <1>1, <1>3, <2>1, RunsEmpty
<1>4. QED
  BY <1>2, <1>3

LEMMA NotComing ==
  ASSUME OrderInv, Collect
  PROVE  ~Coming /\ ~Coming'
<1>1. draining # "no" /\ UNCHANGED <<air, sent, seen>>
  BY Zenon DEF Collect, Drain, DrainSection, DrainIncomplete, DrainStuffing, broadcastVars
<1>2. ~Coming
  BY <1>1, Zenon DEF OrderInv
<1>3. QED
  BY <1>1, <1>2, Zenon DEF Coming

LEMMA OrderCollected ==
  ASSUME SectionsInv, DataInv, OrderInv, Collect
  PROVE  OrderInv' /\ (out' # out => Last(out').first > returned)
<1>1. /\ Drain(sections)
      /\ returned' = IF out' = out THEN returned ELSE Last(out').last
      /\ at' = at
  BY Zenon DEF Collect, broadcastVars
<1>2. ~Coming'
  BY NotComing
<1>3. CASE DrainSection(sections)
  <2>1. PICK n \in 1..Len(buf) : Taken(n)
    BY <1>3, SectionTaken
  <2>2. UNCHANGED <<draining, behind>> /\ buf' = SubSeq(buf, n + 1, Len(buf))
    BY <2>1, Zenon DEF Taken
  <2>3. CASE out' = out
    <3>1. Runs(returned, buf', behind, at)
      BY <2>2, RunCut DEF DataInv, OrderInv
    <3>2. returned' = returned
      BY <1>1, <2>3
    <3>3. QED
      BY <1>1, <1>2, <2>2, <2>3, <3>1, <3>2, Zenon DEF OrderInv
  <2>4. CASE out' # out
    <3>1. PICK s \in sections :
            /\ out' = Append(out, s) /\ SubSeq(buf, 1, n) = BytesOf(s) /\ Last(out') = s
            /\ s.first > returned /\ s.last > returned /\ s.last <= at
            /\ Runs(s.last, buf', behind, at)
      BY <2>1, <2>4, FoundBehind
    <3>2. returned' = s.last
      BY <1>1, <2>4, <3>1
    <3>3. QED
      BY <1>1, <1>2, <2>2, <2>4, <3>1, <3>2, Zenon DEF OrderInv
  <2>5. QED
    BY <2>3, <2>4
<1>4. CASE DrainIncomplete(sections) \/ DrainStuffing(sections)
  <2>1. out' = out
    BY <1>4, Zenon DEF DrainIncomplete, DrainStuffing
  <2>2. PICK rest \in {buf, <<>>}, on \in {active, FALSE} : DrainReturns(rest, on)
    BY <1>4, Zenon DEF DrainIncomplete, DrainStuffing
  <2>3. Runs(returned, buf', behind', at) /\ (draining' # "before" => behind' = <<>>)
    BY <2>2, Returns
  <2>4. returned' = returned
    BY <1>1, <2>1
  <2>5. QED
    BY <1>1, <1>2, <2>1, <2>3, <2>4, Zenon DEF OrderInv
<1>5. QED
  BY <1>1, <1>3, <1>4 DEF Drain

-----------------------------------------------------------------------------
(* The types, and the order of what comes out                               *)

TypedInv == Inv /\ SectionsInv /\ DataInv /\ FlagInv /\ CounterInv /\ OrderInv

LEMMA TypedInit == Init => TypedInv
<1> SUFFICES ASSUME Init PROVE TypedInv
  OBVIOUS
<1>1. /\ sections = {} /\ at = 0 /\ air = <<>> /\ npackets = 0 /\ ngap = 0 /\ due = {}
      /\ returned = 0 /\ whole = FALSE
      /\ buf = <<>> /\ behind = <<>> /\ out = <<>> /\ active = FALSE /\ cc = -1 /\ draining = "no"
      /\ lastCc = [pid \in Pids |-> -1]
  BY DEF Init, AssemblerInit, AnalyzerInit
<1>2. SectionsInv
  <2>1. Chain({}, 0)
    BY DEF Chain
  <2>2. QED
    BY <1>1, <2>1 DEF SectionsInv
<1>3. DataInv
  <2>1. air \in Seq(Packet) /\ buf \in Seq(Nat) /\ behind \in Seq(Nat) /\ out \in Seq(Section)
    BY <1>1, EmptySeq, Zenon
  <2>2. 0 \in 0..MaxPackets /\ 0 \in 0..MaxGap /\ 0 \in Nat
    BY ReceptionAssumption
  <2>3. QED
    BY <1>1, <2>1, <2>2 DEF DataInv
<1>4. FlagInv
  BY <1>1, Zenon DEF FlagInv
<1>5. CounterInv
  BY <1>1, SiPidTyped DEF CounterInv, Alike
<1>6. OrderInv
  <2>1. ~Coming
    BY <1>1, Zenon DEF Coming
  <2>2. Runs(0, <<>>, <<>>, 0)
    BY RunEmpty DEF Runs
  <2>3. QED
    BY <1>1, <2>1, <2>2 DEF OrderInv
<1>7. QED
  BY <1>2, <1>3, <1>4, <1>5, <1>6, InvInit DEF TypedInv

LEMMA TypedStep == TypedInv /\ [Next]_vars => TypedInv'
<1> SUFFICES ASSUME TypedInv, [Next]_vars PROVE TypedInv'
  OBVIOUS
<1>1. Inv /\ SectionsInv /\ DataInv /\ FlagInv /\ CounterInv /\ OrderInv /\ SentInv
  BY DEF TypedInv, Inv
<1>2. Inv' /\ CounterInv'
  BY <1>1, InvStep, CounterStep
<1>3. CASE Broadcast
  <2>1. at \in Nat
    BY <1>1 DEF DataInv
  <2>2. SectionsInv' /\ DataInv' /\ FlagInv' /\ OrderInv'
    BY <1>1, <1>3, <2>1, SectionsStep, BroadcastTyped, OrderSent
  <2>3. QED
    BY <1>2, <2>2 DEF TypedInv
<1>4. CASE Receive
  <2>1. UNCHANGED <<sections, at>>
    BY <1>4, Zenon DEF Receive
  <2>2. SectionsInv'
    BY <1>1, <2>1 DEF SectionsInv, Chain
  <2>3. DataInv' /\ FlagInv' /\ OrderInv'
    BY <1>1, <1>4, ReceiveTyped, OrderReceived
  <2>4. QED
    BY <1>2, <2>2, <2>3 DEF TypedInv
<1>5. CASE Collect
  <2>1. UNCHANGED <<sections, at>>
    BY <1>5, Zenon DEF Collect, broadcastVars
  <2>2. SectionsInv'
    BY <1>1, <2>1 DEF SectionsInv, Chain
  <2>3. DataInv' /\ FlagInv' /\ OrderInv'
    BY <1>1, <1>5, CollectTyped, OrderCollected
  <2>4. QED
    BY <1>2, <2>2, <2>3 DEF TypedInv
<1>6. CASE UNCHANGED vars
  <2>1. /\ UNCHANGED <<sections, at, air, npackets, ngap, due, whole, returned, sent, seen>>
        /\ UNCHANGED <<buf, active, cc, draining, behind, out>>
    BY <1>6, Zenon DEF vars, analyzerVars, assemblerVars, broadcastVars, historyVars
  <2>2. SectionsInv'
    BY <1>1, <2>1 DEF SectionsInv, Chain
  <2>3. DataInv' /\ FlagInv'
    BY <1>1, <2>1, Zenon DEF DataInv, FlagInv
  <2>4. OrderInv'
    BY <1>1, <2>1, Zenon DEF OrderInv, Coming
  <2>5. QED
    BY <1>2, <2>2, <2>3, <2>4 DEF TypedInv
<1>7. QED
  BY <1>3, <1>4, <1>5, <1>6 DEF Next

LEMMA TypedMeans == TypedInv => TypeOK
<1> SUFFICES ASSUME TypedInv PROVE TypeOK
  OBVIOUS
<1>1. SentInv /\ LastInv /\ SumInv /\ SectionsInv /\ DataInv /\ FlagInv /\ cc = lastCc[SiPid]
  BY DEF TypedInv, Inv, CounterInv
<1>2. CcMod \in Nat \ {0} /\ CcModulus = CcMod /\ SiPid \in Pids
  BY AnalyzerAssumption, ReceptionAssumption
<1>3. lastCc \in [Pids -> -1..(CcMod - 1)]
  <2>1. \A pid \in Pids : lastCc[pid] \in -1..(CcMod - 1)
    <3> SUFFICES ASSUME NEW pid \in Pids PROVE lastCc[pid] \in -1..(CcMod - 1)
      OBVIOUS
    <3>1. CASE seen[pid] = 0
      BY <1>1, <1>2, <3>1 DEF LastInv
    <3>2. CASE seen[pid] # 0
      <4>1. seen[pid] \in Nat /\ lastCc[pid] = seen[pid] % CcMod
        BY <1>1, <3>2 DEF LastInv, SentInv
      <4>2. seen[pid] % CcMod \in 0..(CcMod - 1)
        BY <1>2, <4>1, QuotientAndRest
      <4>3. QED
        BY <1>2, <4>1, <4>2
    <3>3. QED
      BY <3>1, <3>2
  <2>2. QED
    BY <1>1, <2>1 DEF LastInv
<1>4. AnalyzerTypeOK
  BY <1>1, <1>3 DEF SumInv, AnalyzerTypeOK
<1>5. AssemblerTypeOK
  <2>1. cc \in -1..(CcModulus - 1)
    BY <1>1, <1>2, <1>3
  <2>2. QED
    BY <1>1, <2>1, Zenon DEF DataInv, FlagInv, AssemblerTypeOK, Byte
<1>6. sections \subseteq Section
  BY <1>1, TopHolds DEF Chain
<1>7. breaks \in Nat /\ unseen \in 0..breaks
  BY <1>1 DEF SumInv
<1>8. QED
  BY <1>1, <1>4, <1>5, <1>6, <1>7, Zenon DEF DataInv, FlagInv, SentInv, TypeOK

\* The variables of the analyzer, of the assembler and of what they are fed
\* have their types, for any table, sizes and losses: what TsAnalyzer.update()
\* and SectionAssembler.push() leave behind.
THEOREM ReceptionTyped == Spec => []TypeOK
BY TypedInit, TypedStep, TypedMeans, PTL DEF Spec

\* Sections come out in the order of the broadcast and never twice, whatever is
\* lost, doubled or errored and wherever _drain() takes a length from:
\* SectionAssembler.push() and _drain().
THEOREM ReceptionOnceInOrder == Spec => OnceInOrder
<1>1. ASSUME TypedInv, [Next]_vars
      PROVE  [out' # out /\ out' # <<>> => Last(out').first > returned]_vars
  <2>1. Inv /\ SectionsInv /\ DataInv /\ CounterInv /\ OrderInv /\ SentInv /\ sent \in [Pids -> Nat] /\ at \in Nat
    BY <1>1 DEF TypedInv, Inv, SentInv, DataInv
  <2>2. CASE Broadcast
    <3>1. out' = out
      <4>1. CASE SendOther
        BY <4>1, Zenon DEF SendOther, Transmit, assemblerVars
      <4>2. CASE SendMore
        BY <4>2, Zenon DEF SendMore, Transmit, assemblerVars
      <4>3. CASE SendStart
        BY <4>3, Zenon DEF SendStart, Transmit, assemblerVars
      <4>4. QED
        BY <2>2, <4>1, <4>2, <4>3 DEF Broadcast
    <3>2. QED
      BY <3>1
  <2>3. CASE Receive
    <3>1. out' = out \/ out' = <<>>
      BY <2>3, Zenon DEF Receive, Push, assemblerVars
    <3>2. QED
      BY <3>1
  <2>4. CASE Collect
    BY <2>1, <2>4, OrderCollected
  <2>5. QED
    BY <1>1, <2>2, <2>3, <2>4 DEF Next
<1>2. QED
  BY <1>1, TypedInit, TypedStep, PTL DEF Spec, OnceInOrder

-----------------------------------------------------------------------------
(* Bytes behind each other                                                  *)

LEMMA SameSeq ==
  ASSUME NEW s \in Seq(Nat), NEW t \in Seq(Nat), Len(s) = Len(t),
         \A i \in 1..Len(s) : s[i] = t[i]
  PROVE  s = t
<1>1. s = [i \in 1..Len(s) |-> s[i]] /\ t = [i \in 1..Len(t) |-> t[i]]
  BY ElementOfSeq
<1>2. QED
  BY <1>1

\* n bytes from a on, and k more, of w in all; the sections end at top.
Parts(a, n, c, k, w, top, m) ==
  /\ a \in Nat /\ n \in Nat /\ c \in Nat /\ k \in Nat /\ w \in Nat /\ top \in Nat /\ m \in Nat
  /\ c = a + n /\ w = n + k /\ c <= top
  /\ m = IF c + k <= top THEN c + k ELSE top

LEMMA BytesJoin ==
  ASSUME NEW a, NEW n, NEW c, NEW k, NEW w, NEW top, NEW m, Parts(a, n, c, k, w, top, m)
  PROVE  Bytes(a, n, c) \o Bytes(c, k, top) = Bytes(a, w, m)
<1> DEFINE x == Bytes(a, n, c)
           y == Bytes(c, k, top)
           z == Bytes(a, w, m)
<1>0. /\ c = a + n /\ w = n + k /\ m = IF c + k <= top THEN c + k ELSE top
      /\ c <= top
  BY DEF Parts
<1>8. /\ a \in Nat /\ n \in Nat /\ c \in Nat /\ k \in Nat /\ w \in Nat /\ top \in Nat /\ m \in Nat
  BY DEF Parts
<1>1. x \in Seq(Nat) /\ Len(x) = n /\ \A i \in 1..n : x[i] = IF a + i <= c THEN a + i ELSE 0
  BY <1>8, BytesTyped
<1>2. y \in Seq(Nat) /\ Len(y) = k /\ \A i \in 1..k : y[i] = IF c + i <= top THEN c + i ELSE 0
  BY <1>8, BytesTyped
<1>3. z \in Seq(Nat) /\ Len(z) = w /\ \A i \in 1..w : z[i] = IF a + i <= m THEN a + i ELSE 0
  BY <1>8, BytesTyped
<1> HIDE DEF x, y, z
<1> DEFINE u == x \o y
<1>4. /\ u \in Seq(Nat) /\ Len(u) = w
      /\ \A i \in 1..w : u[i] = IF i <= n THEN x[i] ELSE y[i - n]
  BY <1>0, <1>8, <1>1, <1>2, JoinSeq
<1> HIDE DEF u
<1>5. \A i \in 1..w : u[i] = z[i]
  <2> SUFFICES ASSUME NEW i \in 1..w PROVE u[i] = z[i]
    OBVIOUS
  <2>1. u[i] = (IF i <= n THEN x[i] ELSE y[i - n]) /\ z[i] = IF a + i <= m THEN a + i ELSE 0
    BY <1>3, <1>4
  <2>2. CASE i <= n
    <3>1. x[i] = a + i /\ a + i <= c
      BY <1>0, <1>8, <1>1, <2>2
    <3>2. QED
      BY <1>0, <1>8, <2>1, <2>2, <3>1
  <2>3. CASE i > n
    <3>1. i - n \in 1..k /\ c + (i - n) = a + i
      BY <1>0, <1>8, <2>3
    <3>2. y[i - n] = IF a + i <= top THEN a + i ELSE 0
      BY <1>2, <1>8, <3>1
    <3>3. QED
      BY <1>0, <1>8, <2>1, <2>3, <3>1, <3>2
  <2>4. QED
    BY <1>8, <2>2, <2>3
<1>6. u = z
  BY <1>3, <1>4, <1>5, SameSeq
<1>7. QED
  BY <1>6 DEF u, x, y, z

LEMMA BytesUpTo ==
  ASSUME NEW a \in Nat, NEW k \in Nat, NEW top \in Nat, NEW m \in Nat,
         m = IF a + k <= top THEN a + k ELSE top
  PROVE  Bytes(a, k, top) = Bytes(a, k, m)
BY DEF Bytes

LEMMA BytesCut ==
  ASSUME NEW a \in Nat, NEW k \in Nat, NEW m \in Nat, NEW n \in 1..k
  PROVE  SubSeq(Bytes(a, k, m), n + 1, k) = Bytes(a + n, k - n, m)
<1> DEFINE x == Bytes(a, k, m)
           y == Bytes(a + n, k - n, m)
           z == SubSeq(x, n + 1, k)
<1>1. x \in Seq(Nat) /\ Len(x) = k /\ \A i \in 1..k : x[i] = IF a + i <= m THEN a + i ELSE 0
  BY BytesTyped
<1>2. a + n \in Nat /\ k - n \in Nat
  OBVIOUS
<1>3. y \in Seq(Nat) /\ Len(y) = k - n
      /\ \A i \in 1..(k - n) : y[i] = IF a + n + i <= m THEN a + n + i ELSE 0
  BY <1>2, BytesTyped
<1> HIDE DEF x, y
<1>4. z \in Seq(Nat) /\ Len(z) = k - n /\ \A i \in 1..(k - n) : z[i] = x[n + i]
  BY <1>1, RestTyped
<1> HIDE DEF z
<1>5. \A i \in 1..(k - n) : n + i \in 1..k /\ a + (n + i) = a + n + i
  OBVIOUS
<1>6. \A i \in 1..(k - n) : z[i] = y[i]
  BY <1>1, <1>3, <1>4, <1>5
<1>7. z = y
  BY <1>3, <1>4, <1>6, SameSeq
<1>8. QED
  BY <1>1, <1>7 DEF x, y, z

LEMMA BytesFront ==
  ASSUME NEW a \in Nat, NEW k \in Nat, NEW m \in Nat, NEW n \in 1..k, a + n <= m
  PROVE  SubSeq(Bytes(a, k, m), 1, n) = Bytes(a, n, a + n)
<1> DEFINE x == Bytes(a, k, m)
<1>1. x \in Seq(Nat) /\ Len(x) = k /\ \A i \in 1..k : x[i] = IF a + i <= m THEN a + i ELSE 0
  BY BytesTyped
<1> HIDE DEF x
<1>2. SubSeq(x, 1, n) = [i \in 1..n |-> x[i]]
  BY <1>1
<1>3. \A i \in 1..n : x[i] = IF a + i <= a + n THEN a + i ELSE 0
  BY <1>1
<1>4. QED
  BY <1>2, <1>3 DEF Bytes, x

\* A section which begins at position a + 1.
LEMMA BytesWhole ==
  ASSUME NEW a \in Nat, NEW n \in Nat, NEW s, s.first = a + 1, s.last = a + n
  PROVE  Bytes(a, n, a + n) = BytesOf(s)
<1>1. (s.last - s.first) + 1 = n
  OBVIOUS
<1>2. \A i \in 1..n : (IF a + i <= a + n THEN a + i ELSE 0) = s.first + i - 1
  OBVIOUS
<1>3. QED
  BY <1>1, <1>2 DEF Bytes, BytesOf

-----------------------------------------------------------------------------
(* Bytes that begin where a section does                                    *)

StartsAt(S, t, f) == f = t + 1 \/ \E s \in S : s.first = f

\* The bytes from f on, up to a, and stuffing if no section is unfinished.
Flow(S, t, a, b, f) ==
  /\ f \in 1..(a + 1) /\ StartsAt(S, t, f)
  /\ b = Bytes(f - 1, Len(b), a)
  /\ (f - 1) + Len(b) >= a
  /\ a < t => (f - 1) + Len(b) = a

\* All the bytes so far of the section that is unfinished.
Opened(S, t, a, b) ==
  a < t /\ \E u \in S : u.last = t /\ b = Bytes(u.first - 1, (a - u.first) + 1, a)

Size(s) == (s.last - s.first) + 1

LEMMA SectionFacts ==
  ASSUME SectionsInv
  PROVE  /\ Top \in Nat
         /\ \A s \in sections :
               /\ s \in Section /\ s.first \in Nat /\ s.last \in Nat
               /\ 1 <= s.first /\ s.first <= s.last /\ s.last <= Top
               /\ Size(s) \in Nat /\ Size(s) >= HeaderSize /\ Size(s) >= 1
         /\ \A s, u \in sections : s = u \/ s.last < u.first \/ u.last < s.first
         /\ \A s \in sections : s.last = Top \/ \E u \in sections : u.first = s.last + 1
<1>1. Top \in Nat /\ Chain(sections, Top)
  BY TopHolds
<1>2. ASSUME NEW s \in sections
      PROVE  /\ s \in Section /\ s.first \in Nat /\ s.last \in Nat
             /\ 1 <= s.first /\ s.first <= s.last /\ s.last <= Top
             /\ Size(s) \in Nat /\ Size(s) >= HeaderSize /\ Size(s) >= 1
  <2>1. Size(s) \in SectionSizes /\ s.last <= Top
    BY <1>1 DEF Chain, Size
  <2>2. Size(s) \in Nat /\ Size(s) >= HeaderSize /\ Size(s) >= 1
    BY <2>1, SizeTyped
  <2>3. s \in Section /\ s.first \in Nat /\ s.last \in Nat /\ s.first >= 1 /\ s.first <= s.last
    BY BytesOfTyped
  <2>4. QED
    BY <2>1, <2>2, <2>3
<1>3. /\ \A s, u \in sections : s = u \/ s.last < u.first \/ u.last < s.first
      /\ \A s \in sections : s.last = Top \/ \E u \in sections : u.first = s.last + 1
  BY <1>1 DEF Chain
<1>4. QED
  BY <1>1, <1>2, <1>3

LEMMA SameStart ==
  ASSUME SectionsInv, NEW s \in sections, NEW u \in sections, s.first = u.first
  PROVE  s = u
<1>1. /\ s.first \in Nat /\ s.last \in Nat /\ s.first <= s.last
      /\ u.first \in Nat /\ u.last \in Nat /\ u.first <= u.last
      /\ s = u \/ s.last < u.first \/ u.last < s.first
  BY SectionFacts
<1>2. QED
  BY <1>1

\* The header tells the length.
LEMMA HeadedIs ==
  ASSUME SectionsInv, NEW t \in sections, \A i \in 1..HeaderSize : buf[i] = t.first + i - 1
  PROVE  Lengths(sections) = {Size(t)}
<1> DEFINE headed == {s \in sections : \A i \in 1..HeaderSize : buf[i] = s.first + i - 1}
<1>1. 1 \in 1..HeaderSize
  BY ReceptionAssumption
<1>2. \A s \in headed : s = t
  <2> SUFFICES ASSUME NEW s \in headed PROVE s = t
    OBVIOUS
  <2>1. s \in sections /\ buf[1] = s.first + 1 - 1 /\ buf[1] = t.first + 1 - 1
    BY <1>1
  <2>2. s.first \in Nat /\ t.first \in Nat
    BY <2>1, SectionFacts
  <2>3. QED
    BY <2>1, <2>2, SameStart
<1>3. headed = {t}
  BY <1>2
<1>4. QED
  BY <1>3 DEF Lengths, Size

LEMMA FlowTyped ==
  ASSUME NEW b \in Seq(Nat), at \in Nat, NEW f, Flow(sections, Top, at, b, f)
  PROVE  /\ f \in Nat /\ f >= 1 /\ f <= at + 1 /\ f - 1 \in Nat /\ Len(b) \in Nat
         /\ b = Bytes(f - 1, Len(b), at)
         /\ \A i \in 1..Len(b) : b[i] = IF (f - 1) + i <= at THEN (f - 1) + i ELSE 0
<1>1. f \in 1..(at + 1) /\ b = Bytes(f - 1, Len(b), at)
  BY DEF Flow
<1>2. f \in Nat /\ f >= 1 /\ f <= at + 1 /\ f - 1 \in Nat /\ Len(b) \in Nat
  BY <1>1
<1>3. \A i \in 1..Len(b) : Bytes(f - 1, Len(b), at)[i] = IF (f - 1) + i <= at THEN (f - 1) + i ELSE 0
  <2> DEFINE a == f - 1
             n == Len(b)
  <2>1. a \in Nat /\ n \in Nat
    BY <1>2
  <2> HIDE DEF a, n
  <2>2. \A i \in 1..n : Bytes(a, n, at)[i] = IF a + i <= at THEN a + i ELSE 0
    BY <2>1, BytesTyped
  <2>3. QED
    BY <2>2 DEF a, n
<1>4. QED
  BY <1>1, <1>2, <1>3

\* A section in front that has been sent is there completely.
LEMMA FlowHas ==
  ASSUME SectionsInv, DataInv, NEW f, Flow(sections, Top, at, buf, f),
         NEW t \in sections, t.first = f, t.last <= at
  PROVE  /\ Lengths(sections) = {Size(t)} /\ Size(t) \in 1..Len(buf)
         /\ Len(buf) >= HeaderSize
         /\ SubSeq(buf, 1, Size(t)) = BytesOf(t)
         /\ Flow(sections, Top, at, SubSeq(buf, Size(t) + 1, Len(buf)), t.last + 1)
<1> DEFINE n == Size(t)
           k == Len(buf)
           a == f - 1
<1>1. buf \in Seq(Nat) /\ at \in Nat
  BY DEF DataInv
<1>2. /\ f \in Nat /\ a \in Nat /\ k \in Nat /\ buf = Bytes(a, k, at)
      /\ \A i \in 1..k : buf[i] = IF a + i <= at THEN a + i ELSE 0
  BY <1>1, FlowTyped
<1>3. a + k >= at /\ (at < Top => a + k = at)
  BY DEF Flow
<1>4. /\ n \in Nat /\ n >= HeaderSize /\ n >= 1 /\ t.last \in Nat /\ Top \in Nat /\ t.last <= Top
      /\ t.last = Top \/ \E u \in sections : u.first = t.last + 1
  BY SectionFacts
<1>5. t.last = a + n /\ t.first = a + 1
  BY <1>2, <1>4 DEF Size
<1> HIDE DEF n, a
<1>6. n \in 1..k
  BY <1>1, <1>2, <1>3, <1>4, <1>5
<1>7. HeaderSize \in Nat /\ k >= HeaderSize
  BY <1>2, <1>4, <1>6, ReceptionAssumption
<1>8. \A i \in 1..HeaderSize : buf[i] = t.first + i - 1
  <2> SUFFICES ASSUME NEW i \in 1..HeaderSize PROVE buf[i] = t.first + i - 1
    OBVIOUS
  <2>1. i \in 1..k /\ a + i <= at
    BY <1>1, <1>2, <1>4, <1>5, <1>6, <1>7
  <2>2. buf[i] = a + i
    BY <1>2, <2>1
  <2>3. QED
    BY <1>2, <1>5, <2>2
<1>9. Lengths(sections) = {n}
  BY <1>8, HeadedIs DEF n
<1> HIDE DEF k
<1>10. SubSeq(buf, 1, n) = BytesOf(t)
  <2>1. SubSeq(Bytes(a, k, at), 1, n) = BytesOf(t)
    <3>1. a + n <= at
      BY <1>5
    <3>2. a \in Nat /\ k \in Nat /\ at \in Nat
      BY <1>1, <1>2
    <3>3. SubSeq(Bytes(a, k, at), 1, n) = Bytes(a, n, a + n)
      BY <1>6, <3>1, <3>2, BytesFront, Zenon
    <3>4. Bytes(a, n, a + n) = BytesOf(t)
      BY <1>4, <1>5, <3>2, BytesWhole, Zenon
    <3>5. QED
      BY <3>3, <3>4
  <2>2. QED
    BY <1>2, <2>1
<1>11. Flow(sections, Top, at, SubSeq(buf, n + 1, k), t.last + 1)
  <2> DEFINE r == SubSeq(buf, n + 1, k)
             g == t.last + 1
  <2>1. SubSeq(Bytes(a, k, at), n + 1, k) = Bytes(a + n, k - n, at)
    BY <1>1, <1>2, <1>6, BytesCut
  <2>2. r = Bytes(a + n, k - n, at)
    BY <1>2, <2>1
  <2>3. Len(r) = k - n
    BY <1>1, <1>6, RestTyped DEF k
  <2> HIDE DEF r
  <2>4. g - 1 = a + n
    BY <1>2, <1>4, <1>5
  <2>5. g \in 1..(at + 1)
    BY <1>1, <1>4
  <2>6. StartsAt(sections, Top, g)
    BY <1>4 DEF StartsAt
  <2> HIDE DEF g
  <2>7. r = Bytes(g - 1, Len(r), at)
    BY <2>2, <2>3, <2>4
  <2>8. (g - 1) + Len(r) = a + k
    BY <1>2, <1>4, <2>3, <2>4
  <2>9. Flow(sections, Top, at, r, g)
    BY <1>3, <2>5, <2>6, <2>7, <2>8 DEF Flow
  <2>10. QED
    BY <2>9 DEF r, g
<1>12. QED
  BY <1>6, <1>7, <1>9, <1>10, <1>11 DEF n, k

LEMMA FlowStarts ==
  ASSUME SectionsInv, at \in Nat, NEW b, NEW f, Flow(sections, Top, at, b, f), f <= at \/ at < Top
  PROVE  \E t \in sections : t.first = f
<1>1. Top \in Nat /\ at <= Top
  BY TopHolds
<1>2. f \in 1..(at + 1) /\ StartsAt(sections, Top, f)
  BY DEF Flow
<1>3. f # Top + 1
  BY <1>1, <1>2
<1>4. QED
  BY <1>2, <1>3 DEF StartsAt

\* A section that is due and not before f: the first one from f on is complete.
LEMMA DueBehind ==
  ASSUME SectionsInv, at \in Nat, NEW b, NEW f, Flow(sections, Top, at, b, f),
         NEW s \in sections, s.last <= at, s.first >= f
  PROVE  \E t \in sections : t.first = f /\ t.last <= at
<1>1. f \in Nat /\ s.first \in Nat /\ s.last \in Nat /\ s.first <= s.last
  BY SectionFacts DEF Flow
<1>2. f <= at
  BY <1>1
<1>3. PICK t \in sections : t.first = f
  BY <1>2, FlowStarts
<1>4. t.last \in Nat /\ t.first <= t.last /\ (s = t \/ s.last < t.first \/ t.last < s.first)
  BY SectionFacts
<1>5. t.last <= at
  BY <1>1, <1>3, <1>4
<1>6. QED
  BY <1>3, <1>5

\* When no section from f on is complete, the one from f on is the unfinished one.
LEMMA FlowOpens ==
  ASSUME SectionsInv, at \in Nat, NEW b \in Seq(Nat), NEW f, Flow(sections, Top, at, b, f), at < Top,
         \A t \in sections : t.first = f => ~(t.last <= at)
  PROVE  Opened(sections, Top, at, b)
<1>1. PICK t \in sections : t.first = f
  BY FlowStarts
<1>2. /\ t.last \in Nat /\ Top \in Nat /\ \A u \in sections : u.first \in Nat /\ u.first <= at
      /\ t.last = Top \/ \E u \in sections : u.first = t.last + 1
  BY SectionFacts, TopHolds
<1>3. t.last > at
  BY <1>1, <1>2
<1>4. t.last = Top
  BY <1>2, <1>3
<1>5. f \in Nat /\ b = Bytes(f - 1, Len(b), at) /\ (f - 1) + Len(b) = at /\ Len(b) \in Nat
  BY FlowTyped DEF Flow
<1>6. Len(b) = (at - f) + 1
  BY <1>5
<1>7. b = Bytes(t.first - 1, (at - t.first) + 1, at)
  BY <1>1, <1>5, <1>6
<1>8. QED
  BY <1>4, <1>7 DEF Opened

LEMMA BufIs ==
  ASSUME SectionsInv, DataInv, NEW s \in sections, buf = BytesOf(s)
  PROVE  /\ Lengths(sections) = {Size(s)} /\ Size(s) = Len(buf) /\ Size(s) \in 1..Len(buf)
         /\ Len(buf) >= HeaderSize
         /\ SubSeq(buf, 1, Size(s)) = BytesOf(s)
         /\ buf # <<>> /\ buf[1] = s.first
<1>1. /\ Len(buf) = Size(s) /\ \A i \in 1..Size(s) : buf[i] = s.first + i - 1
      /\ buf \in Seq(Nat)
  BY BytesOfTyped DEF Size
<1>2. Size(s) \in Nat /\ Size(s) >= HeaderSize /\ Size(s) >= 1 /\ s.first \in Nat /\ HeaderSize \in Nat
  BY SectionFacts, ReceptionAssumption
<1>3. 1..HeaderSize \subseteq 1..Size(s)
  BY <1>2
<1>4. \A i \in 1..HeaderSize : buf[i] = s.first + i - 1
  BY <1>1, <1>3
<1>5. Lengths(sections) = {Size(s)}
  BY <1>4, HeadedIs
<1>6. 1 \in 1..Size(s)
  BY <1>2
<1>7. buf[1] = s.first
  <2>1. buf[1] = s.first + 1 - 1
    BY <1>1, <1>6
  <2>2. QED
    BY <1>2, <2>1
<1>8. SubSeq(buf, 1, Len(buf)) = buf
  BY <1>1
<1>9. buf # <<>>
  BY <1>1, <1>2
<1>10. QED
  BY <1>1, <1>2, <1>5, <1>7, <1>8, <1>9

\* The only section that can be taken comes out.
LEMMA TakenOut ==
  ASSUME SectionsInv, DataInv, NEW n \in 1..Len(buf), Taken(n), NEW s \in sections,
         Lengths(sections) = {Size(s)}, SubSeq(buf, 1, Size(s)) = BytesOf(s)
  PROVE  n = Size(s) /\ s \in ToSet(out')
<1>1. n \in Lengths(sections)
  BY Zenon DEF Taken
<1>2. n = Size(s)
  BY <1>1
<1>3. CrcRight(SubSeq(buf, 1, n), sections)
  <2>1. SubSeq(buf, 1, n) = BytesOf(s)
    BY <1>2
  <2>2. QED
    BY <2>1 DEF CrcRight, BytesOf
<1>4. PICK u \in sections : SubSeq(buf, 1, n) = BytesOf(u) /\ out' = Append(out, u)
  BY <1>3, Zenon DEF Taken
<1>5. buf[1] = u.first /\ buf[1] = s.first
  BY <1>2, <1>4, TakenSection
<1>6. u = s
  BY <1>5, SameStart
<1>7. out \in Seq(Section) /\ s \in Section
  BY SectionFacts DEF DataInv
<1>8. Len(out') \in DOMAIN out' /\ out'[Len(out')] = s
  BY <1>4, <1>6, <1>7, AppendProperties
<1>9. s \in ToSet(out')
  BY <1>8 DEF ToSet
<1>10. QED
  BY <1>2, <1>9

-----------------------------------------------------------------------------
(* What is expected of the packet that is coming and of _drain()            *)

Expect == due # {} \/ whole

\* What follows when p arrives, and "on" tells whether it is collected; d are
\* the sections that are due then.
Promise(S, t, a, b, d, on, p) ==
  \/ /\ p.room = 0 /\ ~p.start
     /\ on /\ d = {} /\ Opened(S, t, a, b)
  \/ /\ p.room # 0 /\ ~p.start
     /\ on /\ \E f : Flow(S, t, a, b \o p.data, f) /\ \A s \in d : s.first >= f
  \/ /\ p.room # 0 /\ p.start
     /\ \E f : /\ Flow(S, t, a, p.data, f)
               /\ \A s \in d : s.first >= f \/ (on /\ b \o p.pre = BytesOf(s))

DueInv == (\A s \in due : s.last <= at) /\ (whole => at < Top)

HeldInv == Expect /\ ~Coming => cc = sent[SiPid] % CcMod

IdleInv ==
  ~Coming /\ draining = "no" =>
     due = {} /\ (whole => active /\ Opened(sections, Top, at, buf))

ComingInv ==
  Coming /\ Expect =>
     LET p == Last(air) IN
     ~Ignored(p) /\ Promise(sections, Top, at, buf, due, Collecting(p), p)

BeforeInv ==
  draining = "before" /\ Expect =>
     active /\ \E f : /\ Flow(sections, Top, at, behind, f)
                      /\ \A s \in due : s.first >= f \/ buf = BytesOf(s)

AfterInv ==
  draining = "after" /\ Expect =>
     active /\ \E f : Flow(sections, Top, at, buf, f) /\ \A s \in due : s.first >= f

ExpectInv == DueInv /\ HeldInv /\ IdleInv /\ ComingInv /\ BeforeInv /\ AfterInv

-----------------------------------------------------------------------------
(* The counter of the next packet                                           *)

LEMMA NextRest ==
  ASSUME NEW n \in Nat, NEW d \in Nat, d > 1
  PROVE  (n + 1) % d = ((n % d) + 1) % d /\ (n + 1) % d # n % d
<1> DEFINE q == n \div d  r == n % d
<1>1. q \in Nat /\ r \in 0..(d - 1) /\ n = q * d + r
  <2>1. d \in Nat \ {0}
    OBVIOUS
  <2>2. QED
    BY <2>1, QuotientAndRest
<1> HIDE DEF q, r
<1> DEFINE x == q * d
<1>2. x \in Nat /\ n = x + r /\ (q + 1) * d = x + d
  BY <1>1
<1> HIDE DEF x
<1>3. CASE r + 1 < d
  <2>1. r + 1 \in 0..(d - 1) /\ q \in Int /\ 0 \in Int /\ d \in Nat \ {0}
    BY <1>1, <1>3
  <2>2. (q * d + (r + 1)) % d = r + 1 /\ (0 * d + (r + 1)) % d = r + 1
    BY <2>1, RestIs
  <2>3. q * d + (r + 1) = n + 1 /\ 0 * d + (r + 1) = r + 1
    BY <1>1, <1>2 DEF x
  <2>4. QED
    BY <1>1, <2>2, <2>3 DEF r
<1>4. CASE r + 1 = d
  <2>1. 0 \in 0..(d - 1) /\ q + 1 \in Int /\ 1 \in Int /\ d \in Nat \ {0}
    BY <1>1
  <2>2. ((q + 1) * d + 0) % d = 0 /\ (1 * d + 0) % d = 0
    BY <2>1, RestIs
  <2>3. (q + 1) * d + 0 = n + 1 /\ 1 * d + 0 = r + 1
    BY <1>1, <1>2, <1>4
  <2>4. r # 0
    BY <1>1, <1>4
  <2>5. QED
    BY <2>2, <2>3, <2>4 DEF r
<1>5. QED
  BY <1>1, <1>3, <1>4

LEMMA NextCounter ==
  ASSUME CcMod > 1, SentInv, cc = sent[SiPid] % CcMod, NEW p, SiPacket(p)
  PROVE  ~Ignored(p) /\ Continued(p)
<1>1. CcMod \in Nat /\ CcModulus = CcMod /\ sent[SiPid] \in Nat
  BY SiPidTyped, AnalyzerAssumption, ReceptionAssumption DEF SentInv
<1>2. p.payload /\ ~p.tei /\ p.cc = (sent[SiPid] + 1) % CcMod
  BY Zenon DEF SiPacket
<1>3. p.cc # cc /\ p.cc = (cc + 1) % CcModulus
  BY <1>1, <1>2, NextRest
<1>4. QED
  BY <1>2, <1>3, Zenon DEF Ignored, Continued

LEMMA FreshCounter ==
  ASSUME SentInv, LastInv, CounterInv, NEW p, SiPacket(p), Fresh(p)
  PROVE  ~Ignored(p)
<1>1. /\ CcMod \in Nat \ {0} /\ sent[SiPid] \in Nat /\ seen[SiPid] \in Nat /\ SiPid \in Pids
      /\ seen[SiPid] <= sent[SiPid]
  BY SiPidTyped, AnalyzerAssumption DEF SentInv
<1>2. /\ p.payload /\ ~p.tei /\ p.num = sent[SiPid] + 1 /\ p.cc = p.num % CcMod
  BY Zenon DEF SiPacket
<1>3. cc = IF seen[SiPid] = 0 THEN -1 ELSE seen[SiPid] % CcMod
  BY <1>1 DEF LastInv, CounterInv
<1>4. ~(cc >= 0 /\ p.cc = cc)
  <2>1. CASE seen[SiPid] = 0
    BY <1>3, <2>1
  <2>2. CASE seen[SiPid] # 0
    <3>1. (p.num - seen[SiPid]) % CcMod # 0
      BY <2>2, Zenon DEF Fresh
    <3>2. p.num \in Nat
      BY <1>1, <1>2
    <3>3. ((p.num % CcMod) - (seen[SiPid] % CcMod)) % CcMod = (p.num - seen[SiPid]) % CcMod
      BY <1>1, <3>2, RestOfDifference, Zenon
    <3>4. p.num % CcMod \in Nat
      BY <1>1, <3>2, QuotientAndRest
    <3>5. 0 % CcMod = 0
      <4>1. 0 \in 0..(CcMod - 1) /\ 0 \in Int /\ 0 * CcMod + 0 = 0
        BY <1>1
      <4>2. (0 * CcMod + 0) % CcMod = 0
        BY <1>1, <4>1, RestIs, Zenon
      <4>3. QED
        BY <4>1, <4>2
    <3>6. ASSUME p.cc = cc PROVE FALSE
      <4>1. p.num % CcMod = seen[SiPid] % CcMod
        BY <1>2, <1>3, <2>2, <3>6
      <4>2. (p.num % CcMod) - (seen[SiPid] % CcMod) = 0
        BY <3>4, <4>1
      <4>3. QED
        BY <3>1, <3>3, <3>5, <4>2
    <3>7. QED
      BY <3>6
  <2>3. QED
    BY <2>1, <2>2
<1>5. QED
  BY <1>2, <1>4, Zenon DEF Ignored

-----------------------------------------------------------------------------
(* Sending keeps the promise                                                *)

LEMMA AirIdle ==
  ASSUME IdleInv, HeldInv, NEW p, NEW here, Carried(p, here)
  PROVE  /\ ~Coming /\ draining = "no" /\ due = {}
         /\ whole => active /\ Opened(sections, Top, at, buf) /\ cc = sent[SiPid] % CcMod
         /\ draining' = "no" /\ UNCHANGED <<buf, active, cc, behind, seen>>
<1>1. /\ air = <<>> /\ draining = "no"
      /\ UNCHANGED <<buf, active, cc, draining, behind, seen>>
  BY Zenon DEF Carried, assemblerVars
<1>2. ~Coming
  BY <1>1, Zenon DEF Coming
<1>3. due = {} /\ (whole => active /\ Opened(sections, Top, at, buf))
  BY <1>1, <1>2, Zenon DEF IdleInv
<1>4. whole => cc = sent[SiPid] % CcMod
  BY <1>2, Zenon DEF HeldInv, Expect
<1>5. QED
  BY <1>1, <1>2, <1>3, <1>4, Zenon

\* A lost packet leaves nothing to expect.
LEMMA LostPromised ==
  ASSUME due' = {}, ~whole'
  PROVE  ExpectInv'
<1>1. ~Expect'
  BY Zenon DEF Expect
<1>2. \A s \in due' : s.last <= at'
  OBVIOUS
<1>3. DueInv'
  BY <1>2, Zenon DEF DueInv
<1>4. HeldInv' /\ IdleInv' /\ ComingInv' /\ BeforeInv' /\ AfterInv'
  BY <1>1, Zenon DEF HeldInv, IdleInv, ComingInv, BeforeInv, AfterInv
<1>5. QED
  BY <1>3, <1>4, Zenon DEF ExpectInv

\* A packet that arrives has to keep the promise.
LEMMA HerePromised ==
  ASSUME NEW p, Coming', Last(air') = p, UNCHANGED <<buf, active, cc>>, draining' = "no",
         DueInv',
         Expect' => ~Ignored(p) /\ Promise(sections', Top', at', buf, due', Collecting(p), p)
  PROVE  ExpectInv'
<1>1. HeldInv' /\ IdleInv'
  BY Zenon DEF HeldInv, IdleInv
<1>2. BeforeInv' /\ AfterInv'
  BY Zenon DEF BeforeInv, AfterInv
<1> DEFINE q == Last(air)
<1>3. q' = p
  OBVIOUS
<1> HIDE DEF q
<1>4. (Ignored(q))' <=> Ignored(p)
  BY <1>3, Zenon DEF Ignored
<1>5. (Collecting(q))' = Collecting(p)
  BY <1>3, Zenon DEF Collecting, Continued
<1>6. Expect' => ~(Ignored(q))' /\ Promise(sections', Top', at', buf', due', (Collecting(q))', q')
  BY <1>3, <1>4, <1>5, Zenon
<1>7. ComingInv'
  BY <1>6, Zenon DEF ComingInv, q
<1>8. QED
  BY <1>1, <1>2, <1>7, Zenon DEF ExpectInv

LEMMA OtherPromised ==
  ASSUME ExpectInv, SentInv, NEW p \in Packet, NEW here, SentOther(p, here)
  PROVE  ExpectInv'
<1>1. Carried(p, here) /\ UNCHANGED <<due, whole, sections, at>>
  BY Zenon DEF SentOther
<1>2. /\ ~Coming /\ draining = "no" /\ due = {}
      /\ whole => active /\ Opened(sections, Top, at, buf) /\ cc = sent[SiPid] % CcMod
      /\ draining' = "no" /\ UNCHANGED <<buf, active, cc, behind, seen>>
  BY <1>1, AirIdle, Zenon DEF ExpectInv
<1>3. ~Coming' /\ sent'[SiPid] = sent[SiPid]
  BY NoneComing
<1>4. Top' = Top
  BY <1>1 DEF Top
<1>5. DueInv'
  BY <1>1, <1>4, Zenon DEF ExpectInv, DueInv
<1>6. HeldInv' /\ IdleInv'
  BY <1>1, <1>2, <1>3, <1>4, Zenon DEF HeldInv, IdleInv, Expect
<1>7. ComingInv' /\ BeforeInv' /\ AfterInv'
  BY <1>2, <1>3, Zenon DEF ComingInv, BeforeInv, AfterInv
<1>8. QED
  BY <1>5, <1>6, <1>7, Zenon DEF ExpectInv

\* The section that is unfinished goes on up to where the packet ends.
LEMMA OpenedGrows ==
  ASSUME SectionsInv, at \in Nat, Opened(sections, Top, at, buf), NEW u \in sections, u.last = Top,
         NEW k \in Nat, NEW m, m = IF at + k <= Top THEN at + k ELSE Top,
         buf = Bytes(u.first - 1, (at - u.first) + 1, at)
  PROVE  /\ Flow(sections, Top, m, buf \o Bytes(at, k, Top), u.first)
         /\ \A s \in sections : s.last > at => s = u
<1>1. /\ Top \in Nat /\ u.first \in Nat /\ u.last \in Nat /\ 1 <= u.first /\ u.first <= u.last
      /\ u.first <= at /\ at <= Top
  BY SectionFacts, TopHolds
<1> DEFINE a == u.first - 1
           n == (at - u.first) + 1
           w == n + k
           b == buf \o Bytes(at, k, Top)
<1>2. a \in Nat /\ n \in Nat /\ a + n = at /\ u.first = a + 1 /\ w \in Nat
      /\ at + k = a + w
  BY <1>1
<1>3. buf = Bytes(a, n, at)
  OBVIOUS
<1>4. Parts(a, n, at, k, w, Top, m)
  BY <1>1, <1>2 DEF Parts
<1>5. m \in Nat /\ m >= at /\ m <= at + k /\ (m < Top => m = at + k)
  BY <1>1
<1> HIDE DEF a, n, w
<1>6. b = Bytes(a, w, m)
  <2>1. Bytes(a, n, at) \o Bytes(at, k, Top) = Bytes(a, w, m)
    BY <1>4, BytesJoin
  <2>2. QED
    BY <1>3, <2>1
<1>7. Len(b) = w
  <2>1. \A l \in Nat : Len(Bytes(a, w, l)) = w
    BY <1>2, BytesTyped, Zenon
  <2>2. QED
    BY <1>5, <1>6, <2>1, Zenon
<1> HIDE DEF b
<1>9. b = Bytes(u.first - 1, Len(b), m)
  BY <1>6, <1>7 DEF a
<1>10. /\ u.first \in 1..(m + 1) /\ (u.first - 1) + Len(b) >= m
       /\ m < Top => (u.first - 1) + Len(b) = m
  BY <1>1, <1>2, <1>5, <1>7
<1>11. Flow(sections, Top, m, b, u.first)
  BY <1>9, <1>10 DEF Flow, StartsAt
<1>12. ASSUME NEW s \in sections, s.last > at
       PROVE  s = u
  <2>1. /\ s.first \in Nat /\ s.last \in Nat /\ s.first <= s.last /\ s.last <= Top
        /\ s = u \/ s.last < u.first \/ u.last < s.first
    BY SectionFacts
  <2>2. QED
    BY <1>1, <1>12, <2>1
<1>13. QED
  BY <1>11, <1>12 DEF b

LEMMA MorePromised ==
  ASSUME CcMod > 1, SectionsInv, DataInv, FlagInv, SentInv, ExpectInv,
         NEW room \in {0, Room}, NEW p \in Packet, NEW here \in BOOLEAN, SentMore(p, here, room)
  PROVE  ExpectInv'
<1>1. /\ SiPacket(p) /\ ~p.start /\ p.room = room
      /\ p.data = Bytes(at, room, Top)
      /\ Carried(p, here) /\ at < Top
      /\ at' = (IF at + room <= Top THEN at + room ELSE Top)
      /\ sections' = sections
      /\ due' = due \cup {s \in {x \in sections : x.last > at /\ x.last <= at'} : here /\ whole}
      /\ whole' = (at' < Top /\ here /\ whole)
  <2>1. /\ SiPacket(p) /\ p.start = FALSE /\ p.room = room
        /\ p.data = Bytes(at, room, Top)
        /\ Carried(p, here) /\ at < Top
        /\ at' = (IF at + room <= Top THEN at + room ELSE Top)
        /\ sections' = sections
        /\ Marks(p, here, {s \in sections : s.last > at /\ s.last <= at'}, {}, at' < Top)
    BY Zenon DEF SentMore
  <2>2. /\ due' = due \cup {s \in {x \in sections : x.last > at /\ x.last <= at'} : here /\ whole}
        /\ whole' = (at' < Top /\ here /\ whole)
    BY <2>1 DEF Marks
  <2>3. QED
    BY <2>1, <2>2, Zenon
<1>2. /\ due = {} /\ draining' = "no" /\ UNCHANGED <<buf, active, cc>>
      /\ whole => active /\ Opened(sections, Top, at, buf) /\ cc = sent[SiPid] % CcMod
  BY <1>1, AirIdle, Zenon DEF ExpectInv
<1>3. /\ Top \in Nat /\ Top' = Top /\ at \in Nat /\ at' \in Nat /\ room \in Nat
  BY MoreGrows DEF DataInv
<1>4. CASE ~(here /\ whole)
  <2>1. due' = {} /\ ~whole'
    BY <1>1, <1>2, <1>4
  <2>2. QED
    BY <2>1, LostPromised
<1>5. CASE here /\ whole
  <2>1. /\ due' = {s \in sections : s.last > at /\ s.last <= at'}
        /\ whole' => at' < Top
    BY <1>1, <1>2, <1>5
  <2>2. Coming' /\ Last(air') = p
    BY <1>1, <1>5, NowComing
  <2>3. active /\ Opened(sections, Top, at, buf) /\ cc = sent[SiPid] % CcMod
    BY <1>2, <1>5, Zenon
  <2>4. ~Ignored(p) /\ Collecting(p)
    BY <1>1, <2>3, NextCounter, Zenon DEF Collecting
  <2>5. DueInv'
    <3>1. \A s \in due' : s.last <= at'
      BY <2>1
    <3>2. QED
      BY <1>3, <2>1, <3>1, Zenon DEF DueInv
  <2>6. Promise(sections', Top', at', buf, due', Collecting(p), p)
    <3>1. CASE room = 0
      <4>1. at' = at
        BY <1>1, <1>3, <3>1
      <4>2. due' = {}
        <5>1. \A s \in sections : s.last \in Nat
          BY SectionFacts
        <5>2. QED
          BY <1>3, <2>1, <4>1, <5>1
      <4>3. QED
        BY <1>1, <1>3, <2>3, <2>4, <3>1, <4>1, <4>2, Zenon DEF Promise
    <3>2. CASE room # 0
      <4>1. PICK u \in sections : u.last = Top /\ buf = Bytes(u.first - 1, (at - u.first) + 1, at)
        BY <2>3 DEF Opened
      <4>2. /\ Flow(sections, Top, at', buf \o p.data, u.first)
            /\ \A s \in sections : s.last > at => s = u
        BY <1>1, <1>3, <2>3, <4>1, OpenedGrows
      <4>3. \A s \in due' : s.first >= u.first
        <5>1. u.first \in Nat
          BY SectionFacts
        <5>2. QED
          BY <2>1, <4>2, <5>1
      <4>4. QED
        BY <1>1, <1>3, <2>4, <3>2, <4>2, <4>3, Zenon DEF Promise
    <3>3. QED
      BY <3>1, <3>2
  <2>7. QED
    BY <1>2, <2>2, <2>4, <2>5, <2>6, HerePromised
<1>6. QED
  BY <1>4, <1>5

LEMMA BegunFirst ==
  ASSUME Top \in Nat, NEW begun, NEW top, Begun(begun, top), NEW s \in begun
  PROVE  s.first \in Nat /\ s.first >= Top + 1
<1>1. CASE \E m \in SectionSizes :
             begun = {[first |-> Top + 1, last |-> Top + m]} /\ top = Top + m
  BY <1>1, SizeTyped
<1>2. CASE \E m, k \in SectionSizes :
             /\ begun = {[first |-> Top + 1, last |-> Top + m],
                         [first |-> Top + m + 1, last |-> Top + m + k]}
             /\ top = Top + m + k
  <2>1. PICK m \in SectionSizes, k \in SectionSizes :
             begun = {[first |-> Top + 1, last |-> Top + m],
                      [first |-> Top + m + 1, last |-> Top + m + k]}
    BY <1>2
  <2>2. m \in Nat /\ m >= 1
    BY SizeTyped
  <2>3. s.first = Top + 1 \/ s.first = Top + m + 1
    BY <2>1
  <2>4. QED
    BY <2>2, <2>3
<1>3. QED
  BY <1>1, <1>2 DEF Begun

LEMMA BegunHas ==
  ASSUME NEW begun, NEW top, Begun(begun, top)
  PROVE  \E s \in begun : s.first = Top + 1
<1>1. ASSUME NEW m, [first |-> Top + 1, last |-> Top + m] \in begun
      PROVE  \E s \in begun : s.first = Top + 1
  BY <1>1
<1>2. \E m : [first |-> Top + 1, last |-> Top + m] \in begun
  BY Zenon DEF Begun
<1>3. QED
  BY <1>1, <1>2

\* The unfinished section ends before the pointer.
LEMMA OpenedEnds ==
  ASSUME SectionsInv, at \in Nat, Opened(sections, Top, at, buf), NEW s \in sections, s.last > at
  PROVE  buf \o Bytes(at, Top - at, Top) = BytesOf(s)
<1>1. PICK u \in sections : u.last = Top /\ buf = Bytes(u.first - 1, (at - u.first) + 1, at)
  BY DEF Opened
<1>2. /\ Top \in Nat /\ u.first \in Nat /\ u.last \in Nat /\ 1 <= u.first /\ u.first <= u.last
      /\ u.first <= at /\ at <= Top
  BY SectionFacts, TopHolds
<1>3. s = u
  <2>1. /\ s.first \in Nat /\ s.last \in Nat /\ s.first <= s.last /\ s.last <= Top
        /\ s = u \/ s.last < u.first \/ u.last < s.first
    BY SectionFacts
  <2>2. QED
    BY <1>1, <1>2, <2>1
<1> DEFINE a == u.first - 1
           n == (at - u.first) + 1
           k == Top - at
           w == n + k
<1>4. a \in Nat /\ n \in Nat /\ a + n = at /\ k \in Nat /\ at + k = Top /\ w \in Nat
      /\ u.first = a + 1 /\ u.last = a + w /\ a + w = Top
  BY <1>1, <1>2
<1>5. buf = Bytes(a, n, at)
  BY <1>1
<1>6. Parts(a, n, at, k, w, Top, Top)
  BY <1>2, <1>4 DEF Parts
<1> HIDE DEF a, n, k, w
<1>7. Bytes(a, n, at) \o Bytes(at, k, Top) = Bytes(a, w, Top)
  BY <1>6, BytesJoin
<1>8. Bytes(a, w, a + w) = BytesOf(u)
  <2>1. a \in Nat /\ w \in Nat /\ u.first = a + 1 /\ u.last = a + w
    BY <1>4
  <2>2. QED
    BY <2>1, BytesWhole, Zenon
<1>9. buf \o Bytes(at, k, Top) = BytesOf(u)
  BY <1>4, <1>5, <1>7, <1>8
<1>10. QED
  BY <1>3, <1>9 DEF k

\* The first section that begins here is the one behind the pointer.
LEMMA StartFlows ==
  ASSUME SectionsInv, DataInv, NEW p, NEW here, NEW begun, NEW top, SentStart(p, here, begun, top)
  PROVE  Flow(sections', top, at', p.data, Top + 1)
<1>1. /\ Begun(begun, top)
      /\ p.data = Bytes(Top, Room - 1 - (Top - at), top)
      /\ Top + 1 <= at + (Room - 1)
      /\ at' = (IF at + (Room - 1) <= top THEN at + (Room - 1) ELSE top)
      /\ sections' = sections \cup begun
  BY Zenon DEF SentStart
<1>2. /\ at \in Nat /\ Top \in Nat /\ at <= Top /\ top \in Nat /\ top > Top
      /\ at' \in Nat /\ at <= at' /\ at' <= top /\ Room \in Nat
  BY StartGrows, TopHolds, ReceptionAssumption DEF DataInv
<1> DEFINE k == Room - 1 - (Top - at)
<1>3. /\ k \in Nat /\ Top + k = at + (Room - 1) /\ Top <= at'
      /\ Top + k >= at' /\ (at' < top => Top + k = at')
  BY <1>1, <1>2
<1>4. p.data = Bytes(Top, k, top) /\ at' = IF Top + k <= top THEN Top + k ELSE top
  BY <1>1, <1>3
<1> HIDE DEF k
<1>5. p.data = Bytes(Top, k, at')
  <2>1. Bytes(Top, k, top) = Bytes(Top, k, at')
    BY <1>2, <1>3, <1>4, BytesUpTo
  <2>2. QED
    BY <1>4, <2>1
<1>6. Len(p.data) = k
  <2>1. \A l \in Nat : Len(Bytes(Top, k, l)) = k
    BY <1>2, <1>3, BytesTyped, Zenon
  <2>2. QED
    BY <1>2, <1>5, <2>1, Zenon
<1>7. StartsAt(sections', top, Top + 1)
  BY <1>1, BegunHas DEF StartsAt
<1> DEFINE f == Top + 1
<1>8. f \in 1..(at' + 1) /\ f - 1 = Top
  <2>1. at' \in Nat /\ Top \in Nat /\ Top <= at'
    BY <1>2, <1>3
  <2>2. \A x, y \in Nat : x <= y => x + 1 \in 1..(y + 1) /\ (x + 1) - 1 = x
    OBVIOUS
  <2>3. QED
    BY <2>1, <2>2, Zenon
<1> HIDE DEF f
<1>9. p.data = Bytes(f - 1, Len(p.data), at')
  BY <1>5, <1>6, <1>8
<1>10. (f - 1) + Len(p.data) >= at' /\ (at' < top => (f - 1) + Len(p.data) = at')
  BY <1>3, <1>6, <1>8
<1>11. StartsAt(sections', top, f)
  BY <1>7 DEF f
<1>12. Flow(sections', top, at', p.data, f)
  BY <1>8, <1>9, <1>10, <1>11 DEF Flow
<1>13. QED
  BY <1>12 DEF f

LEMMA StartPromised ==
  ASSUME CcMod > 1, SectionsInv, DataInv, FlagInv, SentInv, LastInv, CounterInv, ExpectInv,
         NEW p \in Packet, NEW here \in BOOLEAN, NEW begun, NEW top, SentStart(p, here, begun, top)
  PROVE  ExpectInv'
<1> DEFINE on(s) == IF s \in begun THEN Fresh(p) ELSE whole
<1>1. /\ SiPacket(p) /\ p.start /\ p.room = Room
      /\ p.pre = Bytes(at, Top - at, Top)
      /\ Carried(p, here) /\ Begun(begun, top)
      /\ sections' = sections \cup begun
      /\ Marks(p, here, {s \in sections \cup begun : s.last > at /\ s.last <= at'}, begun, at' < top)
  BY Zenon DEF SentStart
<1>2. /\ due = {} /\ draining' = "no" /\ UNCHANGED <<buf, active, cc>>
      /\ whole => active /\ Opened(sections, Top, at, buf) /\ cc = sent[SiPid] % CcMod
  BY <1>1, AirIdle, Zenon DEF ExpectInv
<1>3. /\ Top \in Nat /\ Top' = top /\ at \in Nat /\ at' \in Nat /\ begun # {} /\ top \in Nat
  BY StartGrows, TopHolds DEF DataInv
<1>4. /\ \A s \in due' : /\ s \in sections \cup begun /\ s.last > at /\ s.last <= at'
                         /\ here /\ on(s)
      /\ whole' => at' < top /\ here /\ Fresh(p)
  <2>1. /\ due' = due \cup {s \in {x \in sections \cup begun : x.last > at /\ x.last <= at'} :
                               here /\ on(s)}
        /\ whole' = (at' < top /\ here /\ Fresh(p))
    BY <1>1, <1>3, Zenon DEF Marks
  <2> HIDE DEF on
  <2>2. QED
    BY <1>2, <2>1
<1>5. CASE ~here
  <2>1. due' = {} /\ ~whole'
    BY <1>4, <1>5
  <2>2. QED
    BY <2>1, LostPromised
<1>6. CASE here
  <2>1. Coming' /\ Last(air') = p
    BY <1>1, <1>6, NowComing
  <2>2. DueInv'
    <3>1. \A s \in due' : s.last <= at'
      BY <1>4
    <3>2. whole' => at' < Top'
      BY <1>3, <1>4
    <3>3. QED
      BY <3>1, <3>2, Zenon DEF DueInv
  <2>3. ASSUME whole
        PROVE  ~Ignored(p) /\ Collecting(p) /\ Opened(sections, Top, at, buf)
    <3>1. active /\ Opened(sections, Top, at, buf) /\ cc = sent[SiPid] % CcMod
      BY <1>2, <2>3, Zenon
    <3>2. ~Ignored(p) /\ Continued(p)
      BY <1>1, <3>1, NextCounter
    <3>3. QED
      BY <3>1, <3>2, Zenon DEF Collecting
  <2>4. ASSUME Fresh(p)
        PROVE  ~Ignored(p)
    BY <1>1, <2>4, FreshCounter
  <2>5. Expect' => ~Ignored(p)
    <3>1. \A s \in due' : ~Ignored(p)
      BY <1>4, <2>3, <2>4, Zenon
    <3>2. whole' => ~Ignored(p)
      BY <1>4, <2>4, Zenon
    <3>3. due' # {} => \E s \in due' : TRUE
      OBVIOUS
    <3>4. QED
      BY <3>1, <3>2, <3>3, Zenon DEF Expect
  <2>6. \A s \in due' : s.first >= Top + 1 \/ (Collecting(p) /\ buf \o p.pre = BytesOf(s))
    <3> SUFFICES ASSUME NEW s \in due'
                 PROVE  s.first >= Top + 1 \/ (Collecting(p) /\ buf \o p.pre = BytesOf(s))
      OBVIOUS
    <3>1. CASE s \in begun
      BY <1>1, <1>3, <3>1, BegunFirst
    <3>2. CASE s \notin begun
      <4>1. s \in sections /\ s.last > at /\ whole
        BY <1>4, <3>2, Zenon
      <4>2. Collecting(p) /\ Opened(sections, Top, at, buf)
        BY <2>3, <4>1, Zenon
      <4>3. buf \o p.pre = BytesOf(s)
        BY <1>1, <1>3, <4>1, <4>2, OpenedEnds
      <4>4. QED
        BY <4>2, <4>3, Zenon
    <3>3. QED
      BY <3>1, <3>2
  <2>7. p.room # 0
    BY <1>1, ReceptionAssumption
  <2>8. Flow(sections', Top', at', p.data, Top + 1)
    BY <1>3, StartFlows
  <2>9. Promise(sections', Top', at', buf, due', Collecting(p), p)
    BY <1>1, <2>6, <2>7, <2>8, Zenon DEF Promise
  <2>10. QED
    BY <1>2, <2>1, <2>2, <2>5, <2>9, HerePromised
<1>7. QED
  BY <1>5, <1>6

-----------------------------------------------------------------------------
(* push() keeps the promise                                                 *)

LEMMA PassesPromised ==
  ASSUME ExpectInv, Passes, UNCHANGED <<sent, sections, at, due, whole>>
  PROVE  ExpectInv'
<1>1. /\ Coming' <=> Coming
      /\ Coming => Last(air') = Last(air)
      /\ UNCHANGED <<buf, active, cc, draining, behind>>
  BY Zenon DEF Passes
<1>2. /\ sent' = sent /\ sections' = sections /\ at' = at /\ due' = due
      /\ whole' <=> whole
      /\ Top' = Top
  BY DEF Top
<1>3. DueInv'
  BY <1>2, Zenon DEF ExpectInv, DueInv
<1>4. HeldInv' /\ IdleInv'
  BY <1>1, <1>2, Zenon DEF ExpectInv, HeldInv, IdleInv, Expect
<1>5. BeforeInv' /\ AfterInv'
  BY <1>1, <1>2, Zenon DEF ExpectInv, BeforeInv, AfterInv, Expect
<1>6. ComingInv'
  <2> SUFFICES ASSUME Coming', Expect'
               PROVE  /\ ~(Ignored(Last(air)))'
                      /\ Promise(sections', Top', at', buf', due', (Collecting(Last(air)))', Last(air'))
    BY Zenon DEF ComingInv
  <2>1. Coming /\ Expect /\ Last(air') = Last(air)
    BY <1>1, <1>2, Zenon DEF Expect
  <2>2. (Ignored(Last(air)))' <=> Ignored(Last(air))
    BY <1>1, <2>1, Zenon DEF Ignored
  <2>3. (Collecting(Last(air)))' = Collecting(Last(air))
    BY <1>1, <2>1, Zenon DEF Collecting, Continued
  <2>4. ~Ignored(Last(air)) /\ Promise(sections, Top, at, buf, due, Collecting(Last(air)), Last(air))
    BY <2>1, Zenon DEF ExpectInv, ComingInv
  <2>5. QED
    BY <1>1, <1>2, <2>1, <2>2, <2>3, <2>4, Zenon
<1>7. QED
  BY <1>3, <1>4, <1>5, <1>6, Zenon DEF ExpectInv

\* The counter of what arrives is the one that the assembler has then.
LEMMA ArrivedCounter ==
  ASSUME Inv, DataInv, Coming
  PROVE  Last(air).cc = sent[SiPid] % CcMod
<1>1. air \in Seq(Packet) /\ air # <<>> /\ Last(air).pid = SiPid
  BY Zenon DEF Coming, Good, DataInv
<1>2. Len(air) \in 1..Len(air) /\ Last(air) = air[Len(air)]
  BY <1>1 DEF Last
<1>3. Genuine(Last(air))
  BY <1>2, Zenon DEF Inv, AirInv
<1>4. QED
  BY <1>1, <1>3, Zenon DEF Genuine

LEMMA ArrivesPromised ==
  ASSUME Inv, DataInv, FlagInv, ExpectInv, Arrives, draining = "no",
         UNCHANGED <<sent, sections, at, due, whole>>
  PROVE  ExpectInv'
<1> DEFINE p == Last(air)
<1>1. Coming /\ ~Coming' /\ Push(p)
  BY Zenon DEF Arrives
<1>2. /\ sent' = sent /\ sections' = sections /\ at' = at /\ due' = due
      /\ whole' <=> whole
      /\ Top' = Top
  BY DEF Top
<1>3. p \in Packet /\ p.cc = sent[SiPid] % CcMod
  BY <1>1, ComingTyped, ArrivedCounter
<1>4. DueInv'
  BY <1>2, Zenon DEF ExpectInv, DueInv
<1>5. ComingInv'
  BY <1>1, Zenon DEF ComingInv
<1>6. CASE ~Expect
  <2>1. ~Expect' /\ due' = {} /\ ~whole'
    BY <1>2, <1>6, Zenon DEF Expect
  <2>2. QED
    BY <2>1, LostPromised
<1>7. CASE Expect
  <2>1. ~Ignored(p) /\ Promise(sections, Top, at, buf, due, Collecting(p), p)
    BY <1>1, <1>7, Zenon DEF ExpectInv, ComingInv
  <2>2. p.room \in Nat
    BY <1>3 DEF Packet
  <2> HIDE DEF p
  <2>3. PushNothing(p) \/ PushMore(p) \/ PushStart(p)
    BY <1>1, <2>1, Zenon DEF Push, PushIgnored
  <2>4. cc' = p.cc
    BY <2>3, Zenon DEF PushNothing, PushMore, PushStart
  <2>5. HeldInv'
    BY <1>2, <1>3, <2>4, Zenon DEF HeldInv
  <2>6. p.room # 0 => p.room > 0
    BY <2>2
  <2>7. p.room = 0 => ~(p.room > 0)
    BY <2>2
  <2>8. CASE /\ p.room = 0 /\ ~p.start
             /\ Collecting(p) /\ due = {} /\ Opened(sections, Top, at, buf)
    <3>1. PushNothing(p)
      BY <2>3, <2>7, <2>8, Zenon DEF PushMore, PushStart
    <3>2. active /\ buf' = buf /\ active' = active /\ draining' = draining
      BY <2>8, <3>1, Zenon DEF PushNothing, Collecting, Collected, FlagInv
    <3>3. draining' # "before" /\ draining' # "after"
      BY <3>2
    <3>4. IdleInv'
      BY <1>2, <2>8, <3>2, Zenon DEF IdleInv
    <3>5. BeforeInv' /\ AfterInv'
      BY <3>3, Zenon DEF BeforeInv, AfterInv
    <3>6. QED
      BY <1>4, <1>5, <2>5, <3>4, <3>5, Zenon DEF ExpectInv
  <2>9. CASE /\ p.room # 0 /\ ~p.start
             /\ Collecting(p)
             /\ \E f : Flow(sections, Top, at, buf \o p.data, f) /\ \A s \in due : s.first >= f
    <3>1. PushMore(p)
      BY <2>3, <2>9, Zenon DEF PushNothing, PushStart
    <3>2. active' /\ buf' = buf \o p.data /\ draining' = "after"
      BY <2>9, <3>1, Zenon DEF PushMore, Collecting
    <3>3. draining' # "before" /\ draining' # "no"
      BY <3>2
    <3>4. IdleInv' /\ BeforeInv'
      BY <3>3, Zenon DEF IdleInv, BeforeInv
    <3>5. AfterInv'
      BY <1>2, <2>9, <3>2, Zenon DEF AfterInv
    <3>6. QED
      BY <1>4, <1>5, <2>5, <3>4, <3>5, Zenon DEF ExpectInv
  <2>10. CASE /\ p.room # 0 /\ p.start
              /\ \E f : /\ Flow(sections, Top, at, p.data, f)
                        /\ \A s \in due : s.first >= f \/ (Collecting(p) /\ buf \o p.pre = BytesOf(s))
    <3>1. PushStart(p)
      BY <2>3, <2>10, Zenon DEF PushNothing, PushMore
    <3>2. CASE Collecting(p)
      <4>1. active' /\ buf' = buf \o p.pre /\ behind' = p.data /\ draining' = "before"
        BY <3>1, <3>2, Zenon DEF PushStart
      <4>2. draining' # "after" /\ draining' # "no"
        BY <4>1
      <4>3. IdleInv' /\ AfterInv'
        BY <4>2, Zenon DEF IdleInv, AfterInv
      <4>4. BeforeInv'
        BY <1>2, <2>10, <4>1, Zenon DEF BeforeInv
      <4>5. QED
        BY <1>4, <1>5, <2>5, <4>3, <4>4, Zenon DEF ExpectInv
    <3>3. CASE ~Collecting(p)
      <4>1. active' /\ buf' = p.data /\ draining' = "after"
        BY <3>1, <3>3, Zenon DEF PushStart
      <4>2. draining' # "before" /\ draining' # "no"
        BY <4>1
      <4>3. IdleInv' /\ BeforeInv'
        BY <4>2, Zenon DEF IdleInv, BeforeInv
      <4>4. AfterInv'
        BY <1>2, <2>10, <3>3, <4>1, Zenon DEF AfterInv
      <4>5. QED
        BY <1>4, <1>5, <2>5, <4>3, <4>4, Zenon DEF ExpectInv
    <3>4. QED
      BY <3>2, <3>3
  <2>11. QED
    BY <2>1, <2>8, <2>9, <2>10, Zenon DEF Promise
<1>8. QED
  BY <1>6, <1>7

LEMMA ReceivePromised ==
  ASSUME Inv, DataInv, FlagInv, CounterInv, ExpectInv, Receive
  PROVE  ExpectInv'
<1>1. /\ Arrives \/ Passes
      /\ draining = "no" /\ UNCHANGED <<sent, sections, at, whole, due, returned>>
  BY ReceiveKinds
<1>2. UNCHANGED <<sent, sections, at, due, whole>>
  BY <1>1, Zenon
<1>3. QED
  BY <1>1, <1>2, ArrivesPromised, PassesPromised

-----------------------------------------------------------------------------
(* _drain() keeps the promise                                               *)

\* What Collect changes of all this.
LEMMA CollectFrame ==
  ASSUME OrderInv, Collect
  PROVE  /\ Drain(sections) /\ due' = due \ ToSet(out')
         /\ ~Coming /\ ~Coming'
         /\ UNCHANGED <<sent, sections, at, whole>> /\ Top' = Top
         /\ cc' = cc
         /\ draining # "no"
<1>1. /\ Drain(sections) /\ due' = due \ ToSet(out')
      /\ UNCHANGED <<sent, sections, at, whole>>
  BY Zenon DEF Collect, broadcastVars
<1>2. cc' = cc /\ draining # "no"
  BY <1>1, Zenon DEF Drain, DrainSection, DrainIncomplete, DrainStuffing
<1>3. QED
  BY <1>1, <1>2, NotComing DEF Top

\* What does not depend on which end _drain() comes to.
LEMMA CollectHeld ==
  ASSUME OrderInv, ExpectInv, Collect
  PROVE  DueInv' /\ HeldInv' /\ ComingInv' /\ (Expect' => Expect)
<1>1. /\ due' \subseteq due /\ UNCHANGED <<sent, at, whole>> /\ Top' = Top /\ cc' = cc
      /\ ~Coming /\ ~Coming'
  BY CollectFrame
<1>2. Expect' => Expect
  <2>1. due' # {} => due # {}
    BY <1>1
  <2>2. QED
    BY <1>1, <2>1, Zenon DEF Expect
<1>3. DueInv'
  <2>1. \A s \in due' : s.last <= at'
    BY <1>1, Zenon DEF ExpectInv, DueInv
  <2>2. QED
    BY <1>1, <2>1, Zenon DEF ExpectInv, DueInv
<1>4. HeldInv'
  BY <1>1, <1>2, Zenon DEF ExpectInv, HeldInv
<1>5. ComingInv'
  BY <1>1, Zenon DEF ComingInv
<1>6. QED
  BY <1>2, <1>3, <1>4, <1>5

\* A section in front of the pointer comes out before what follows it.
LEMMA SectionBefore ==
  ASSUME SectionsInv, DataInv, OrderInv, ExpectInv, Collect, draining = "before", Expect,
         NEW n \in 1..Len(buf), Taken(n)
  PROVE  active' /\ \E f : /\ Flow(sections', Top', at', behind', f)
                           /\ \A s \in due' : s.first >= f \/ buf' = BytesOf(s)
<1>1. PICK f : /\ Flow(sections, Top, at, behind, f)
               /\ \A s \in due : s.first >= f \/ buf = BytesOf(s)
  BY Zenon DEF ExpectInv, BeforeInv
<1>2. active /\ active' = active /\ behind' = behind
  BY Zenon DEF ExpectInv, BeforeInv, Taken
<1>3. due' = due \ ToSet(out') /\ UNCHANGED <<sections, at>> /\ Top' = Top
  BY CollectFrame
<1>4. \A s \in due' : s.first >= f
  <2> SUFFICES ASSUME NEW s \in due', buf = BytesOf(s) PROVE FALSE
    BY <1>1, <1>3
  <2>1. s \in sections /\ s \notin ToSet(out')
    BY <1>3 DEF DataInv
  <2>2. Lengths(sections) = {Size(s)} /\ SubSeq(buf, 1, Size(s)) = BytesOf(s)
    BY <2>1, BufIs
  <2>3. QED
    BY <2>1, <2>2, TakenOut
<1>5. QED
  BY <1>1, <1>2, <1>3, <1>4, Zenon

\* The first section from f on comes out, and the flow goes on behind it.
LEMMA SectionAfter ==
  ASSUME SectionsInv, DataInv, OrderInv, ExpectInv, Collect, draining = "after", Expect,
         NEW n \in 1..Len(buf), Taken(n)
  PROVE  active' /\ \E f : /\ Flow(sections', Top', at', buf', f)
                           /\ \A s \in due' : s.first >= f
<1>1. PICK f : Flow(sections, Top, at, buf, f) /\ \A s \in due : s.first >= f
  BY Zenon DEF ExpectInv, AfterInv
<1>2. /\ active /\ active' = active /\ buf' = SubSeq(buf, n + 1, Len(buf))
      /\ Len(buf) >= HeaderSize /\ NotStuffing
  BY Zenon DEF ExpectInv, AfterInv, Taken
<1>3. due' = due \ ToSet(out') /\ UNCHANGED <<sections, at>> /\ Top' = Top
  BY CollectFrame
<1>4. /\ buf \in Seq(Nat) /\ at \in Nat /\ Top \in Nat /\ at <= Top
      /\ HeaderSize \in Nat /\ HeaderSize >= 1
  BY TopHolds, ReceptionAssumption DEF DataInv
<1>5. /\ f \in Nat /\ f >= 1 /\ f <= at + 1 /\ f - 1 \in Nat /\ Len(buf) \in Nat
      /\ \A i \in 1..Len(buf) : buf[i] = IF (f - 1) + i <= at THEN (f - 1) + i ELSE 0
  BY <1>1, <1>4, FlowTyped
<1>6. 1 \in 1..Len(buf) /\ buf # <<>>
  BY <1>2, <1>4, <1>5
<1>7. f <= at
  <2>1. buf[1] # 0
    BY <1>2, <1>6 DEF NotStuffing
  <2>2. QED
    BY <1>4, <1>5, <1>6, <2>1
<1>8. PICK t \in sections : t.first = f
  BY <1>1, <1>4, <1>7, FlowStarts
<1>9. /\ t.first \in Nat /\ t.last \in Nat /\ t.first <= t.last /\ t.last <= Top
      /\ Size(t) >= HeaderSize /\ Size(t) \in Nat
  BY SectionFacts
<1>10. (f - 1) + Len(buf) >= at /\ (at < Top => (f - 1) + Len(buf) = at)
  BY <1>1 DEF Flow
<1>11. t.last <= at
  <2>1. CASE at = Top
    BY <1>9, <2>1
  <2>2. CASE at # Top
    <3>1. (f - 1) + Len(buf) = at
      BY <1>4, <1>10, <2>2
    <3>2. \A i \in 1..HeaderSize : buf[i] = t.first + i - 1
      <4> SUFFICES ASSUME NEW i \in 1..HeaderSize PROVE buf[i] = t.first + i - 1
        OBVIOUS
      <4>1. i \in 1..Len(buf) /\ (f - 1) + i <= at
        BY <1>2, <1>4, <1>5, <3>1
      <4>2. buf[i] = (f - 1) + i
        BY <1>5, <4>1
      <4>3. QED
        BY <1>5, <1>8, <4>2
    <3>3. Lengths(sections) = {Size(t)}
      BY <3>2, HeadedIs
    <3>4. n = Size(t)
      BY <3>3, Zenon DEF Taken
    <3>5. Size(t) <= Len(buf) /\ Size(t) = (t.last - t.first) + 1
      BY <1>5, <3>4 DEF Size
    <3>6. QED
      BY <1>4, <1>5, <1>8, <1>9, <3>1, <3>5
  <2>3. QED
    BY <2>1, <2>2
<1>12. /\ Lengths(sections) = {Size(t)}
       /\ SubSeq(buf, 1, Size(t)) = BytesOf(t)
       /\ Flow(sections, Top, at, SubSeq(buf, Size(t) + 1, Len(buf)), t.last + 1)
  BY <1>1, <1>8, <1>11, FlowHas
<1>13. n = Size(t) /\ t \in ToSet(out')
  BY <1>12, TakenOut
<1>14. Flow(sections, Top, at, buf', t.last + 1)
  BY <1>2, <1>12, <1>13, Zenon
<1>15. \A s \in due' : s.first >= t.last + 1
  <2> SUFFICES ASSUME NEW s \in due' PROVE s.first >= t.last + 1
    OBVIOUS
  <2>1. s \in sections /\ s # t /\ s.first >= f
    BY <1>1, <1>3, <1>13 DEF DataInv
  <2>2. /\ s.first \in Nat /\ s.last \in Nat /\ s.first <= s.last
        /\ s.last < t.first \/ t.last < s.first
    BY <2>1, SectionFacts
  <2>3. QED
    BY <1>5, <1>8, <1>9, <2>1, <2>2
<1>16. QED
  BY <1>2, <1>3, <1>14, <1>15, Zenon

\* _drain() leaves the part before the pointer.
LEMMA ReturnsBefore ==
  ASSUME SectionsInv, DataInv, OrderInv, ExpectInv, Collect, draining = "before", Expect,
         DrainIncomplete(sections) \/ DrainStuffing(sections)
  PROVE  \E f : Flow(sections, Top, at, behind, f) /\ \A s \in due' : s.first >= f
<1>1. PICK f : /\ Flow(sections, Top, at, behind, f)
               /\ \A s \in due : s.first >= f \/ buf = BytesOf(s)
  BY Zenon DEF ExpectInv, BeforeInv
<1>2. due' \subseteq due
  BY CollectFrame
<1>3. \A s \in due' : s.first >= f
  <2> SUFFICES ASSUME NEW s \in due', buf = BytesOf(s) PROVE FALSE
    BY <1>1, <1>2
  <2>1. s \in sections
    BY <1>2 DEF DataInv
  <2>2. /\ Lengths(sections) = {Size(s)} /\ Size(s) = Len(buf) /\ Len(buf) >= HeaderSize
        /\ buf # <<>> /\ buf[1] = s.first
    BY <2>1, BufIs
  <2>3. CASE DrainIncomplete(sections)
    <3>1. \E length \in {Size(s)} : Len(buf) < length
      BY <2>2, <2>3, Zenon DEF DrainIncomplete
    <3>2. Len(buf) \in Nat
      BY DEF DataInv
    <3>3. QED
      BY <2>2, <3>1, <3>2
  <2>4. CASE DrainStuffing(sections)
    BY <2>1, <2>2, <2>4, Zenon DEF DrainStuffing, MayBeStuffing
  <2>5. QED
    BY <2>3, <2>4
<1>4. QED
  BY <1>1, <1>3

\* _drain() has nothing due left behind the pointer.
LEMMA ReturnsAfter ==
  ASSUME SectionsInv, DataInv, FlagInv, OrderInv, ExpectInv, Collect, draining = "after", Expect,
         DrainIncomplete(sections) \/ DrainStuffing(sections)
  PROVE  due' = {} /\ (whole => active' /\ Opened(sections, Top, at, buf'))
<1>1. PICK f : Flow(sections, Top, at, buf, f) /\ \A s \in due : s.first >= f
  BY Zenon DEF ExpectInv, AfterInv
<1>2. /\ due' \subseteq due /\ due \subseteq sections /\ buf \in Seq(Nat) /\ at \in Nat
      /\ Top \in Nat /\ at <= Top
  BY CollectFrame, TopHolds DEF DataInv
<1>3. /\ \A s \in due : s.last <= at
      /\ whole => at < Top
  BY Zenon DEF ExpectInv, DueInv
<1>4. active
  BY Zenon DEF ExpectInv, AfterInv
<1>5. /\ f \in Nat /\ f >= 1 /\ f <= at + 1 /\ f - 1 \in Nat /\ Len(buf) \in Nat
      /\ \A i \in 1..Len(buf) : buf[i] = IF (f - 1) + i <= at THEN (f - 1) + i ELSE 0
  BY <1>1, <1>2, FlowTyped
<1>6. CASE DrainIncomplete(sections)
  <2>1. ~\E t \in sections : t.first = f /\ t.last <= at
    <3> SUFFICES ASSUME NEW t \in sections, t.first = f, t.last <= at PROVE FALSE
      OBVIOUS
    <3>1. /\ Lengths(sections) = {Size(t)} /\ Size(t) \in 1..Len(buf) /\ Len(buf) >= HeaderSize
      BY <1>1, FlowHas
    <3>2. \E length \in {Size(t)} : Len(buf) < length
      BY <1>6, <3>1, Zenon DEF DrainIncomplete
    <3>3. QED
      BY <1>5, <3>1, <3>2
  <2>2. due = {}
    <3> SUFFICES ASSUME NEW s \in due PROVE FALSE
      OBVIOUS
    <3>1. s \in sections /\ s.last <= at /\ s.first >= f
      BY <1>1, <1>2, <1>3
    <3>2. QED
      BY <1>1, <1>2, <2>1, <3>1, DueBehind
  <2>3. DrainReturns(buf, active)
    BY <1>6, Zenon DEF DrainIncomplete
  <2>4. buf' = buf /\ active' = active
    <3>1. draining # "before"
      OBVIOUS
    <3>2. QED
      BY <2>3, <3>1, Zenon DEF DrainReturns
  <2>5. ASSUME at < Top PROVE Opened(sections, Top, at, buf)
    BY <1>1, <1>2, <2>1, <2>5, FlowOpens
  <2>6. due' = {}
    BY <1>2, <2>2
  <2>7. QED
    BY <1>3, <1>4, <2>4, <2>5, <2>6, Zenon
<1>7. CASE DrainStuffing(sections)
  <2>1. buf # <<>> /\ \A s \in sections : buf[1] # s.first
    BY <1>7, Zenon DEF DrainStuffing, MayBeStuffing
  <2>2. Len(buf) >= 1 /\ 1 \in 1..Len(buf)
    BY <1>2, <2>1
  <2>3. ~(f <= at)
    <3> SUFFICES ASSUME f <= at PROVE FALSE
      OBVIOUS
    <3>1. buf[1] = f
      BY <1>2, <1>5, <2>2
    <3>2. \E t \in sections : t.first = f
      BY <1>1, <1>2, FlowStarts
    <3>3. QED
      BY <2>1, <3>1, <3>2
  <2>4. due = {}
    <3> SUFFICES ASSUME NEW s \in due PROVE FALSE
      OBVIOUS
    <3>1. s \in sections /\ s.last <= at /\ s.first >= f
      BY <1>1, <1>2, <1>3
    <3>2. s.first \in Nat /\ s.last \in Nat /\ s.first <= s.last
      BY <3>1, SectionFacts
    <3>3. QED
      BY <1>2, <1>5, <2>3, <3>1, <3>2
  <2>5. ~(at < Top)
    <3>1. at < Top => (f - 1) + Len(buf) = at
      BY <1>1 DEF Flow
    <3>2. QED
      BY <1>2, <1>5, <2>2, <2>3, <3>1
  <2>6. due' = {}
    BY <1>2, <2>4
  <2>7. QED
    BY <1>3, <2>5, <2>6, Zenon
<1>8. QED
  BY <1>6, <1>7

LEMMA CollectPromised ==
  ASSUME SectionsInv, DataInv, FlagInv, OrderInv, ExpectInv, Collect
  PROVE  ExpectInv'
<1>1. DueInv' /\ HeldInv' /\ ComingInv' /\ (Expect' => Expect)
  BY CollectHeld
<1>2. /\ Drain(sections) /\ draining # "no"
      /\ UNCHANGED <<sections, at, whole>> /\ Top' = Top
  BY CollectFrame
<1>3. CASE ~Expect'
  <2>1. due' = {} /\ ~whole'
    BY <1>3, Zenon DEF Expect
  <2>2. QED
    BY <2>1, LostPromised
<1>4. CASE Expect'
  <2>1. Expect
    BY <1>1, <1>4
  <2>2. CASE DrainSection(sections)
    <3>1. PICK n \in 1..Len(buf) : Taken(n)
      BY <2>2, SectionTaken
    <3>2. draining' = draining
      BY <3>1, Zenon DEF Taken
    <3>3. IdleInv'
      BY <1>2, <3>2, Zenon DEF IdleInv
    <3>4. BeforeInv'
      <4>1. ASSUME draining = "before"
            PROVE  active' /\ \E f : /\ Flow(sections', Top', at', behind', f)
                                     /\ \A s \in due' : s.first >= f \/ buf' = BytesOf(s)
        BY <2>1, <3>1, <4>1, SectionBefore
      <4>2. QED
        BY <3>2, <4>1, Zenon DEF BeforeInv
    <3>5. AfterInv'
      <4>1. ASSUME draining = "after"
            PROVE  active' /\ \E f : /\ Flow(sections', Top', at', buf', f)
                                     /\ \A s \in due' : s.first >= f
        BY <2>1, <3>1, <4>1, SectionAfter
      <4>2. QED
        BY <3>2, <4>1, Zenon DEF AfterInv
    <3>6. QED
      BY <1>1, <3>3, <3>4, <3>5, Zenon DEF ExpectInv
  <2>3. CASE DrainIncomplete(sections) \/ DrainStuffing(sections)
    <3>1. PICK rest \in {buf, <<>>}, on \in {active, FALSE} : DrainReturns(rest, on)
      BY <2>3, Zenon DEF DrainIncomplete, DrainStuffing
    <3>2. CASE draining = "before"
      <4>1. buf' = behind /\ active' /\ draining' = "after"
        BY <3>1, <3>2, Zenon DEF DrainReturns
      <4>2. \E f : Flow(sections, Top, at, behind, f) /\ \A s \in due' : s.first >= f
        BY <2>1, <2>3, <3>2, ReturnsBefore
      <4>3. AfterInv'
        BY <1>2, <4>1, <4>2, Zenon DEF AfterInv
      <4>4. draining' # "before" /\ draining' # "no"
        BY <4>1
      <4>5. IdleInv' /\ BeforeInv'
        BY <4>4, Zenon DEF IdleInv, BeforeInv
      <4>6. QED
        BY <1>1, <4>3, <4>5, Zenon DEF ExpectInv
    <3>3. CASE draining = "after"
      <4>1. draining' = "no"
        <5>1. draining # "before"
          BY <3>3
        <5>2. QED
          BY <3>1, <5>1, Zenon DEF DrainReturns
      <4>2. due' = {} /\ (whole => active' /\ Opened(sections, Top, at, buf'))
        BY <2>1, <2>3, <3>3, ReturnsAfter
      <4>3. IdleInv'
        BY <1>2, <4>2, Zenon DEF IdleInv
      <4>4. draining' # "before" /\ draining' # "after"
        BY <4>1
      <4>5. BeforeInv' /\ AfterInv'
        BY <4>4, Zenon DEF BeforeInv, AfterInv
      <4>6. QED
        BY <1>1, <4>3, <4>5, Zenon DEF ExpectInv
    <3>4. draining = "before" \/ draining = "after"
      BY <1>2 DEF DataInv
    <3>5. QED
      BY <3>2, <3>3, <3>4
  <2>4. QED
    BY <1>2, <2>2, <2>3 DEF Drain
<1>5. QED
  BY <1>3, <1>4

-----------------------------------------------------------------------------
(* Whole sections come out                                                  *)

LEMMA ExpectInit == Init => ExpectInv
<1> SUFFICES ASSUME Init PROVE ExpectInv
  OBVIOUS
<1>1. due = {} /\ whole = FALSE /\ air = <<>> /\ draining = "no"
  BY DEF Init, AssemblerInit
<1>2. ~Expect /\ ~Coming
  BY <1>1, Zenon DEF Expect, Coming
<1>3. DueInv
  BY <1>1 DEF DueInv
<1>4. HeldInv /\ IdleInv /\ ComingInv /\ BeforeInv /\ AfterInv
  BY <1>1, <1>2, Zenon DEF HeldInv, IdleInv, ComingInv, BeforeInv, AfterInv
<1>5. QED
  BY <1>3, <1>4 DEF ExpectInv

LEMMA ExpectStutter ==
  ASSUME ExpectInv, UNCHANGED vars
  PROVE  ExpectInv'
<1>1. /\ sent' = sent /\ sections' = sections /\ at' = at /\ due' = due
      /\ buf' = buf /\ cc' = cc /\ draining' = draining /\ behind' = behind
      /\ air' = air /\ seen' = seen
  BY DEF vars, assemblerVars, broadcastVars, historyVars
<1>2. (whole' <=> whole) /\ (active' <=> active)
  BY DEF vars, assemblerVars, historyVars
<1>3. Top' = Top
  BY <1>1 DEF Top
<1>4. (Expect' <=> Expect) /\ (Coming' <=> Coming)
  BY <1>1, <1>2, Zenon DEF Expect, Coming
<1>5. DueInv' /\ HeldInv'
  BY <1>1, <1>2, <1>3, <1>4, Zenon DEF ExpectInv, DueInv, HeldInv
<1>6. IdleInv' /\ BeforeInv' /\ AfterInv'
  BY <1>1, <1>2, <1>3, <1>4, Zenon DEF ExpectInv, IdleInv, BeforeInv, AfterInv
<1>7. ComingInv'
  <2> DEFINE p == Last(air)
  <2>1. p' = p
    BY <1>1
  <2> HIDE DEF p
  <2>2. (Ignored(p))' <=> Ignored(p)
    BY <1>1, <2>1, Zenon DEF Ignored
  <2>3. (Collecting(p))' = Collecting(p)
    BY <1>1, <1>2, <2>1, Zenon DEF Collecting, Continued
  <2>4. Coming /\ Expect =>
           ~Ignored(p) /\ Promise(sections, Top, at, buf, due, Collecting(p), p)
    BY Zenon DEF ExpectInv, ComingInv, p
  <2>5. Coming' /\ Expect' =>
           ~(Ignored(p))' /\ Promise(sections', Top', at', buf', due', (Collecting(p))', p')
    BY <1>1, <1>3, <1>4, <2>1, <2>2, <2>3, <2>4, Zenon
  <2>6. QED
    BY <2>5, Zenon DEF ComingInv, p
<1>8. QED
  BY <1>5, <1>6, <1>7, Zenon DEF ExpectInv

LEMMA ExpectStep ==
  ASSUME CcMod > 1, TypedInv, ExpectInv, [Next]_vars
  PROVE  ExpectInv'
<1>1. Inv /\ SectionsInv /\ DataInv /\ FlagInv /\ CounterInv /\ OrderInv /\ SentInv /\ LastInv
  BY DEF TypedInv, Inv
<1>2. sent \in [Pids -> Nat] /\ at \in Nat
  BY <1>1 DEF SentInv, DataInv
<1>3. CASE SendOther
  <2>1. PICK p \in Packet, here \in BOOLEAN : SentOther(p, here)
    BY <1>2, <1>3, OtherSent
  <2>2. QED
    BY <1>1, <2>1, OtherPromised
<1>4. CASE SendMore
  <2>1. PICK room \in {0, Room}, p \in Packet, here \in BOOLEAN : SentMore(p, here, room)
    BY <1>1, <1>2, <1>4, MoreSent
  <2>2. QED
    BY <1>1, <2>1, MorePromised
<1>5. CASE SendStart
  <2>1. PICK begun : \E p \in Packet, here \in BOOLEAN, top \in Nat : SentStart(p, here, begun, top)
    BY <1>1, <1>2, <1>5, StartSent
  <2>2. PICK p \in Packet, here \in BOOLEAN, top \in Nat : SentStart(p, here, begun, top)
    BY <2>1
  <2>3. QED
    BY <1>1, <2>2, StartPromised
<1>6. CASE Receive
  BY <1>1, <1>6, ReceivePromised
<1>7. CASE Collect
  BY <1>1, <1>7, CollectPromised
<1>8. CASE UNCHANGED vars
  BY <1>8, ExpectStutter
<1>9. QED
  BY <1>3, <1>4, <1>5, <1>6, <1>7, <1>8 DEF Next, Broadcast

LEMMA ExpectMeans == ExpectInv => WholeSectionsComeOut
<1> SUFFICES ASSUME ExpectInv, air = <<>>, draining = "no" PROVE due = {}
  BY DEF WholeSectionsComeOut
<1>1. ~Coming
  BY Zenon DEF Coming
<1>2. QED
  BY <1>1, Zenon DEF ExpectInv, IdleInv

\* A section of which every packet arrives comes out, whatever was lost before
\* it or doubled within it: SectionAssembler.push() and _drain().  The modulus
\* is 16 in the code; were it 1, every packet would look like a duplicate.
THEOREM ReceptionWholeSections ==
  ASSUME CcMod > 1
  PROVE  Spec => []WholeSectionsComeOut
<1>1. Init => TypedInv /\ ExpectInv
  BY TypedInit, ExpectInit
<1>2. TypedInv /\ ExpectInv /\ [Next]_vars => (TypedInv /\ ExpectInv)'
  BY TypedStep, ExpectStep
<1>3. TypedInv /\ ExpectInv => WholeSectionsComeOut
  BY ExpectMeans
<1>4. QED
  BY <1>1, <1>2, <1>3, PTL DEF Spec
=============================================================================
