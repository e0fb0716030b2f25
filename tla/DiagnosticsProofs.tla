-------------------------- MODULE DiagnosticsProofs --------------------------
(***************************************************************************)
(* Theorems about recdyud-diag: the channel table, a scan, which reports   *)
(* only what it has received on the frequency of a channel, and monitor,   *)
(* whose reports add up to what the tuner has delivered.                   *)
(***************************************************************************)
EXTENDS Diagnostics, SeqLemmas

-----------------------------------------------------------------------------
(* The channel table                                                        *)

Within(f, lo, hi) == f \in Int /\ lo <= f /\ f <= hi

\* The bands of the table, which do not overlap.
LEMMA CatvBand ==
    ASSUME NEW n \in CatvRange
    PROVE  \/ Within(CatvFrequency(n), 111143, 167143)
           \/ Within(CatvFrequency(n), 225143, 465143)
BY SMT DEF CatvRange, CatvFrequency, Within

LEMMA VhfBand ==
    ASSUME NEW n \in VhfRange
    PROVE  \/ Within(VhfFrequency(n), 93143, 105143)
           \/ Within(VhfFrequency(n), 173143, 219143)
BY SMT DEF VhfRange, VhfFrequency, Within

LEMMA UhfBand ==
    ASSUME NEW n \in UhfRange
    PROVE  Within(UhfFrequency(n), 473143, 767143)
BY SMT DEF UhfRange, UhfFrequency, Within

LEMMA CatvDistinct ==
    ASSUME NEW m \in CatvRange, NEW n \in CatvRange, CatvFrequency(m) = CatvFrequency(n)
    PROVE  m = n
BY SMT DEF CatvRange, CatvFrequency

LEMMA VhfDistinct ==
    ASSUME NEW m \in VhfRange, NEW n \in VhfRange, VhfFrequency(m) = VhfFrequency(n)
    PROVE  m = n
BY SMT DEF VhfRange, VhfFrequency

LEMMA UhfDistinct ==
    ASSUME NEW m \in UhfRange, NEW n \in UhfRange, UhfFrequency(m) = UhfFrequency(n)
    PROVE  m = n
BY SMT DEF UhfRange, UhfFrequency

-----------------------------------------------------------------------------

\* A name is of one of three kinds.
IsCatv(name, n) == n \in CatvRange /\ name = <<"C", n>> /\ FrequencyOf(name) = CatvFrequency(n)
IsUhf(name, n) == n \in UhfRange /\ name = <<NoPrefix, n>> /\ FrequencyOf(name) = UhfFrequency(n)
IsVhf(name, n) == n \in VhfRange /\ name = <<NoPrefix, n>> /\ FrequencyOf(name) = VhfFrequency(n)

LEMMA TwoPrefixes == NoPrefix # "C"
BY Zenon DEF NoPrefix

LEMMA Kinds ==
    ASSUME NEW name \in ChannelNames
    PROVE  \E n \in Int : IsCatv(name, n) \/ IsUhf(name, n) \/ IsVhf(name, n)
<1>1. CASE name \in {"C"} \X CatvRange
  <2>1. PICK n \in CatvRange : name = <<"C", n>>
    BY <1>1
  <2>2. n \in Int
    BY DEF CatvRange
  <2>3. IsCatv(name, n)
    BY <2>1 DEF IsCatv, FrequencyOf
  <2>4. QED
    BY <2>2, <2>3
<1>2. CASE name \in {NoPrefix} \X (UhfRange \cup VhfRange)
  <2>1. PICK n \in UhfRange \cup VhfRange : name = <<NoPrefix, n>>
    BY <1>2
  <2>2. n \in Int
    BY DEF UhfRange, VhfRange
  <2>3. n \in UhfRange => IsUhf(name, n)
    BY <2>1, TwoPrefixes DEF IsUhf, FrequencyOf
  <2>4. n \notin UhfRange => IsVhf(name, n)
    BY <2>1, TwoPrefixes DEF IsVhf, FrequencyOf
  <2>5. QED
    BY <2>2, <2>3, <2>4
<1>3. QED
  BY <1>1, <1>2 DEF ChannelNames

\* Every channel name stands for a frequency that parse_channel() would also
\* accept as a number.
THEOREM FrequencyInRange ==
    ASSUME NEW name \in ChannelNames
    PROVE  Within(FrequencyOf(name), MinFrequency, MaxFrequency)
<1>1. PICK n \in Int : IsCatv(name, n) \/ IsUhf(name, n) \/ IsVhf(name, n)
  BY Kinds
<1>2. CASE IsCatv(name, n)
  BY <1>2, CatvBand, SMT DEF IsCatv, Within, MinFrequency, MaxFrequency
<1>3. CASE IsUhf(name, n)
  BY <1>3, UhfBand, SMT DEF IsUhf, Within, MinFrequency, MaxFrequency
<1>4. CASE IsVhf(name, n)
  BY <1>4, VhfBand, SMT DEF IsVhf, Within, MinFrequency, MaxFrequency
<1>5. QED
  BY <1>1, <1>2, <1>3, <1>4

\* No two channel names stand for the same frequency: the special cases of the
\* tables let no two of them meet, and a channel that a scan finds is found under
\* one name only.
THEOREM OneNamePerFrequency ==
    ASSUME NEW a \in ChannelNames, NEW b \in ChannelNames,
           FrequencyOf(a) = FrequencyOf(b)
    PROVE  a = b
<1>1. PICK m \in Int : IsCatv(a, m) \/ IsUhf(a, m) \/ IsVhf(a, m)
  BY Kinds
<1>2. PICK n \in Int : IsCatv(b, n) \/ IsUhf(b, n) \/ IsVhf(b, n)
  BY Kinds
<1>3. CASE IsCatv(a, m) /\ IsCatv(b, n)
  <2>1. m \in CatvRange /\ n \in CatvRange /\ CatvFrequency(m) = CatvFrequency(n)
    BY <1>3 DEF IsCatv
  <2>2. m = n
    BY <2>1, CatvDistinct
  <2>3. QED
    BY <1>3, <2>2 DEF IsCatv
<1>4. CASE IsUhf(a, m) /\ IsUhf(b, n)
  <2>1. m \in UhfRange /\ n \in UhfRange /\ UhfFrequency(m) = UhfFrequency(n)
    BY <1>4 DEF IsUhf
  <2>2. m = n
    BY <2>1, UhfDistinct
  <2>3. QED
    BY <1>4, <2>2 DEF IsUhf
<1>5. CASE IsVhf(a, m) /\ IsVhf(b, n)
  <2>1. m \in VhfRange /\ n \in VhfRange /\ VhfFrequency(m) = VhfFrequency(n)
    BY <1>5 DEF IsVhf
  <2>2. m = n
    BY <2>1, VhfDistinct
  <2>3. QED
    BY <1>5, <2>2 DEF IsVhf
<1>6. ASSUME NEW c, NEW u, NEW k \in Int, NEW l \in Int, IsCatv(c, k), IsUhf(u, l)
      PROVE  FrequencyOf(c) # FrequencyOf(u)
  BY <1>6, CatvBand, UhfBand, SMT DEF IsCatv, IsUhf, Within
<1>7. ASSUME NEW c, NEW v, NEW k \in Int, NEW l \in Int, IsCatv(c, k), IsVhf(v, l)
      PROVE  FrequencyOf(c) # FrequencyOf(v)
  BY <1>7, CatvBand, VhfBand, SMT DEF IsCatv, IsVhf, Within
<1>8. ASSUME NEW u, NEW v, NEW k \in Int, NEW l \in Int, IsUhf(u, k), IsVhf(v, l)
      PROVE  FrequencyOf(u) # FrequencyOf(v)
  BY <1>8, UhfBand, VhfBand, SMT DEF IsUhf, IsVhf, Within
<1>9. QED
  BY <1>1, <1>2, <1>3, <1>4, <1>5, <1>6, <1>7, <1>8

-----------------------------------------------------------------------------
(* A scan                                                                   *)

LEMMA ScannedChannels ==
  /\ Len(Scanned) \in Nat
  /\ DOMAIN Network = 1..Len(Scanned)
  /\ \A i \in 1..Len(Scanned) : Network[i] = FrequencyOf(Scanned[i]) /\ Network[i] \in Int
<1>1. /\ Low \in Int /\ High \in Int /\ Low <= High
      /\ \A n \in Low..High : <<Prefix, n>> \in ChannelNames
  BY ScanAssumption DEF ValidRange
<1>2. /\ Len(Scanned) = High - Low + 1
      /\ DOMAIN Scanned = 1..(High - Low + 1)
      /\ \A i \in 1..(High - Low + 1) : Scanned[i] = <<Prefix, Low + i - 1>>
  BY <1>1 DEF Scanned, ExpandRange
<1>3. ASSUME NEW i \in 1..Len(Scanned) PROVE FrequencyOf(Scanned[i]) \in Int
  <2>1. Low + i - 1 \in Low..High /\ Scanned[i] = <<Prefix, Low + i - 1>>
    BY <1>1, <1>2
  <2>2. Scanned[i] \in ChannelNames
    BY <1>1, <2>1
  <2>3. QED
    BY <2>2, FrequencyInRange DEF Within
<1>4. QED
  BY <1>1, <1>2, <1>3 DEF Network

\* A TransportInfo, whatever its name is: the proof is not about names.
IsInfo(i) == \E n : i \in [tsid : Int, services : SUBSET Int, network : BOOLEAN, name : {n}]
OwnInfo(i, f) == IsInfo(i) /\ Own(i, f)

\* A table of a transport stream adds nothing of another one.
LEMMA ParseOwn ==
  ASSUME NEW i, NEW f \in Int, OwnInfo(i, f)
  PROVE  /\ OwnInfo(ParsePat(i, f), f)
         /\ OwnInfo(ParseSdt(i, f), f)
         /\ OwnInfo(ParseNit(i, f), f)
<1>0. PICK n : i \in [tsid : Int, services : SUBSET Int, network : BOOLEAN, name : {n}]
  BY DEF OwnInfo, IsInfo
<1>1. Own(i, f)
  BY DEF OwnInfo
<1>2. OwnInfo(ParsePat(i, f), f)
  BY <1>0, <1>1 DEF ParsePat, Own, OwnInfo, IsInfo
<1>3. OwnInfo(ParseSdt(i, f), f)
  BY <1>0, <1>1 DEF ParseSdt, None, Own, OwnInfo, IsInfo
<1>4. ASSUME NEW m
      PROVE  OwnInfo([i EXCEPT !.network = TRUE, !.name = m], f)
  <2> DEFINE j == [i EXCEPT !.network = TRUE, !.name = m]
  <2>1. j \in [tsid : Int, services : SUBSET Int, network : BOOLEAN, name : {m}]
    BY <1>0
  <2>2. j.tsid = i.tsid /\ j.services = i.services
    BY <1>0
  <2>3. QED
    BY <1>1, <2>1, <2>2 DEF Own, OwnInfo, IsInfo
<1>5. OwnInfo(ParseNit(i, f), f)
  BY <1>4 DEF ParseNit
<1>6. QED
  BY <1>2, <1>3, <1>5

-----------------------------------------------------------------------------

IsSeq(s) == \E S : s \in Seq(S)

LEMMA AppendAny ==
  ASSUME NEW s, IsSeq(s), NEW e
  PROVE  /\ IsSeq(Append(s, e))
         /\ Len(s) \in Nat /\ Len(Append(s, e)) = Len(s) + 1
         /\ \A i \in 1..Len(s) : Append(s, e)[i] = s[i]
         /\ Append(s, e)[Len(s) + 1] = e
<1>1. PICK S : s \in Seq(S)
  BY DEF IsSeq
<1>2. s \in Seq(S \cup {e}) /\ e \in S \cup {e}
  BY <1>1
<1>3. Append(s, e) \in Seq(S \cup {e})
  BY <1>2, AppendProperties
<1>4. /\ Len(s) \in Nat /\ Len(Append(s, e)) = Len(s) + 1
      /\ \A i \in 1..Len(s) : Append(s, e)[i] = s[i]
      /\ Append(s, e)[Len(s) + 1] = e
  BY <1>2, AppendProperties
<1>5. QED
  BY <1>3, <1>4 DEF IsSeq

-----------------------------------------------------------------------------

Tuned == {"lock", "purge", "dwell", "sample"}

\* Where the scan is in its list; the tuner streams what the last one is.
PlaceInv ==
  /\ spc \in ScanPhases
  /\ chan \in 0..Len(Scanned)
  /\ IsSeq(results)
  /\ spc \in Tuned => chan >= 1 /\ Len(results) = chan - 1
  /\ spc \in {"open", "channel"} => Len(results) = chan

\* The flag does not go well with the others in one step of the provers.
StreamInv == streaming => chan # 0

LEMMA PlaceInit == ScanInit => PlaceInv /\ StreamInv
<1> SUFFICES ASSUME ScanInit PROVE PlaceInv /\ StreamInv
  OBVIOUS
<1>1. IsSeq(results) /\ Len(results) = 0
  <2>1. results \in Seq(Int)
    BY DEF ScanInit
  <2>2. QED
    BY <2>1 DEF ScanInit, IsSeq
<1>2. PlaceInv
  BY <1>1, ScannedChannels DEF ScanInit, PlaceInv, ScanPhases, Tuned
<1>3. StreamInv
  BY DEF ScanInit, StreamInv
<1>4. QED
  BY <1>2, <1>3

LEMMA ResultStep ==
  ASSUME PlaceInv, NEW r, spc \in Tuned, results' = Append(results, r),
         spc' = "channel", UNCHANGED chan
  PROVE  PlaceInv'
<1>1. IsSeq(results') /\ Len(results') = Len(results) + 1
  BY AppendAny DEF PlaceInv
<1>2. QED
  BY <1>1, ScannedChannels DEF PlaceInv, Tuned, ScanPhases

LEMMA PlaceStep == PlaceInv /\ [ScanNext]_scanVars => PlaceInv'
<1> SUFFICES ASSUME PlaceInv, [ScanNext]_scanVars PROVE PlaceInv'
  OBVIOUS
<1> USE ScannedChannels DEF PlaceInv, Tuned, ScanPhases
<1>1. CASE OpenDrain
  BY <1>1 DEF OpenDrain
<1>2. CASE Tune
  BY <1>2 DEF Tune
<1>3. CASE NoLock
  <2> DEFINE r == [locked |-> FALSE, info |-> NoInfo]
  <2>1. spc = "lock" /\ spc' = "channel" /\ results' = Append(results, r) /\ chan' = chan
    BY <1>3 DEF NoLock
  <2> HIDE DEF r
  <2>2. QED
    BY <2>1, ResultStep
<1>4. CASE Lock
  BY <1>4 DEF Lock
<1>5. CASE PurgeRead \/ PurgeWaits \/ PurgeEnds
  BY <1>5 DEF PurgeRead, PurgeWaits, PurgeEnds
<1>6. CASE DwellRead \/ DwellEnds
  BY <1>6 DEF DwellRead, DwellEnds
<1>7. CASE Sample
  BY <1>7, ResultStep DEF Sample
<1>8. CASE ScanEnds \/ ScanRaises
  BY <1>8 DEF ScanEnds, ScanRaises
<1>9. CASE Elapse \/ Fill \/ ScanSignal
  BY <1>9 DEF Elapse, Fill, ScanSignal
<1>10. CASE UNCHANGED scanVars
  BY <1>10 DEF scanVars
<1>11. QED
  BY <1>1, <1>2, <1>3, <1>4, <1>5, <1>6, <1>7, <1>8, <1>9, <1>10 DEF ScanNext, ScanStep

LEMMA StreamStep == PlaceInv /\ StreamInv /\ [ScanNext]_scanVars => StreamInv'
<1> SUFFICES ASSUME PlaceInv, StreamInv, [ScanNext]_scanVars PROVE StreamInv'
  OBVIOUS
<1>1. CASE Tune
  <2>1. chan' # 0
    BY <1>1, ScannedChannels DEF Tune, PlaceInv
  <2>2. QED
    BY <2>1 DEF StreamInv
<1>2. CASE ScanEnds \/ ScanRaises
  BY <1>2 DEF ScanEnds, ScanRaises, StreamInv
<1>3. CASE \/ OpenDrain \/ NoLock \/ Lock \/ PurgeRead \/ PurgeWaits \/ PurgeEnds
           \/ DwellRead \/ DwellEnds \/ Sample \/ Elapse \/ Fill \/ ScanSignal
           \/ UNCHANGED scanVars
  <2>1. streaming' = streaming /\ chan' = chan
    BY <1>3 DEF OpenDrain, NoLock, Lock, PurgeRead, PurgeWaits, PurgeEnds, DwellRead,
                DwellEnds, Sample, Elapse, Fill, ScanSignal, scanVars, tunerVars
  <2>2. QED
    BY <2>1 DEF StreamInv
<1>4. QED
  BY <1>1, <1>2, <1>3 DEF ScanNext, ScanStep

LEMMA FreqNow ==
  ASSUME chan \in 1..Len(Scanned)
  PROVE  Freq \in Int /\ Freq = Network[chan]
BY ScannedChannels DEF Freq

-----------------------------------------------------------------------------

FifoInv == fifo \in Seq(Int) /\ Len(fifo) <= FifoSize /\ remaining \in Int

\* What is in the FIFO is of the channel.
AllFresh == \A i \in 1..Len(fifo) : fifo[i] = Freq

\* What is not is what purge() will still read.
Behind == \A i \in 1..Len(fifo) : fifo[i] = Freq \/ i <= remaining

LEMMA ReadKeeps ==
  ASSUME FifoInv, NEW k \in 0..ReadSize, NEW n \in 0..k, Read(k, n), UNCHANGED chan
  PROVE  /\ remaining' \in Int => FifoInv'
         /\ AllFresh => AllFresh'
         /\ Behind /\ remaining' = remaining - n => Behind'
<1>1. k \in Nat /\ n \in Nat /\ n <= k
  BY ScanAssumption
<1>2. fifo' = SubSeq(fifo, k + 1, Len(fifo)) /\ k \in 0..Len(fifo)
  BY <1>1 DEF Read
<1>3. /\ fifo' \in Seq(Int) /\ Len(fifo') = Len(fifo) - k
      /\ \A i \in 1..(Len(fifo) - k) : fifo'[i] = fifo[k + i]
  BY <1>2, CutSeq DEF FifoInv
<1>4. Len(fifo) \in Nat /\ Freq' = Freq
  BY DEF FifoInv, Freq
<1>5. remaining' \in Int => FifoInv'
  BY <1>1, <1>3, <1>4, ScanAssumption DEF FifoInv
<1>6. ASSUME AllFresh PROVE AllFresh'
  BY <1>1, <1>3, <1>4, <1>6 DEF AllFresh
<1>7. ASSUME Behind, remaining' = remaining - n PROVE Behind'
  <2>1. \A i \in 1..Len(fifo) : fifo[i] = Freq \/ i <= remaining
    BY <1>7 DEF Behind
  <2>2. remaining \in Int
    BY DEF FifoInv
  <2>3. ASSUME NEW i \in 1..Len(fifo') PROVE fifo'[i] = Freq \/ i <= remaining - n
    <3>1. i \in 1..(Len(fifo) - k) /\ k + i \in 1..Len(fifo)
      BY <1>1, <1>3, <1>4
    <3>2. fifo'[i] = fifo[k + i]
      BY <1>3, <3>1
    <3>3. fifo[k + i] = Freq \/ k + i <= remaining
      BY <2>1, <3>1
    <3>4. QED
      BY <1>1, <2>2, <3>1, <3>2, <3>3
  <2>4. QED
    BY <1>4, <1>7, <2>3 DEF Behind
<1>8. QED
  BY <1>5, <1>6, <1>7

LEMMA FillKeeps ==
  ASSUME FifoInv, chan \in 1..Len(Scanned), Fill
  PROVE  FifoInv' /\ (AllFresh => AllFresh') /\ (Behind => Behind')
<1>1. Len(fifo) < FifoSize /\ fifo' = Append(fifo, Freq) /\ remaining' = remaining /\ Freq' = Freq
  BY DEF Fill, purgeVars, Freq
<1>2. Freq \in Int
  BY FreqNow
<1>3. /\ fifo' \in Seq(Int) /\ Len(fifo) \in Nat /\ Len(fifo') = Len(fifo) + 1
      /\ \A i \in 1..Len(fifo) : fifo'[i] = fifo[i]
      /\ fifo'[Len(fifo) + 1] = Freq
  BY <1>1, <1>2, AppendProperties DEF FifoInv
<1>4. FifoInv'
  BY <1>1, <1>3, ScanAssumption DEF FifoInv
<1>5. ASSUME AllFresh PROVE AllFresh'
  BY <1>1, <1>3, <1>5 DEF AllFresh
<1>6. ASSUME Behind PROVE Behind'
  BY <1>1, <1>3, <1>6 DEF Behind, FifoInv
<1>7. QED
  BY <1>4, <1>5, <1>6

-----------------------------------------------------------------------------
(* The phases: while purge() reads, what is stale is still to be read; it is *)
(* over when nothing is left to read or the FIFO has been found empty; from  *)
(* then on the FIFO holds nothing but the channel.                           *)

PurgeInv == spc = "purge" => Behind
WaitInv == waited /\ spc = "purge" => AllFresh
DwellInv == spc \in {"dwell", "sample"} => AllFresh /\ OwnInfo(info, Freq)
ResultsInv == \A i \in 1..Len(results) : Own(results[i].info, Network[i])

Inv == PlaceInv /\ StreamInv /\ FifoInv /\ PurgeInv /\ WaitInv /\ DwellInv /\ ResultsInv

LEMMA NoInfoOwn == ASSUME NEW f PROVE OwnInfo(NoInfo, f)
<1>1. NoInfo \in [tsid : Int, services : SUBSET Int, network : BOOLEAN, name : {None}]
  BY DEF NoInfo, None
<1>2. Own(NoInfo, f)
  BY DEF NoInfo, Own, None
<1>3. QED
  BY <1>1, <1>2 DEF OwnInfo, IsInfo

LEMMA InvInit == ScanInit => Inv
<1> SUFFICES ASSUME ScanInit PROVE Inv
  OBVIOUS
<1>1. PlaceInv /\ StreamInv
  BY PlaceInit
<1>2. FifoInv
  BY ScanAssumption DEF ScanInit, FifoInv, Elsewhere
<1>3. PurgeInv /\ DwellInv
  BY DEF ScanInit, PurgeInv, DwellInv
<1>4. WaitInv
  BY DEF ScanInit, WaitInv
<1>5. ResultsInv
  BY DEF ScanInit, ResultsInv
<1>6. QED
  BY <1>1, <1>2, <1>3, <1>4, <1>5 DEF Inv

\* A result that is the record of the channel or an empty one.
LEMMA ResultKeeps ==
  ASSUME PlaceInv, ResultsInv, NEW r, spc \in Tuned, results' = Append(results, r),
         OwnInfo(r.info, Freq)
  PROVE  ResultsInv'
<1>1. /\ Len(results) \in Nat /\ Len(results') = Len(results) + 1
      /\ \A i \in 1..Len(results) : results'[i] = results[i]
      /\ results'[Len(results) + 1] = r
  BY AppendAny DEF PlaceInv
<1>2. chan \in 1..Len(Scanned) /\ Len(results) + 1 = chan
  BY <1>1, ScannedChannels DEF PlaceInv
<1>3. Own(r.info, Network[chan])
  BY <1>2, FreqNow DEF OwnInfo
<1>4. ASSUME NEW i \in 1..Len(results') PROVE Own(results'[i].info, Network[i])
  <2>1. CASE i \in 1..Len(results)
    BY <1>1, <2>1 DEF ResultsInv
  <2>2. CASE i = chan
    BY <1>1, <1>2, <1>3, <2>2
  <2>3. QED
    BY <1>1, <1>2, <2>1, <2>2
<1>5. QED
  BY <1>4 DEF ResultsInv

LEMMA DwellKeeps ==
  ASSUME chan \in 1..Len(Scanned), FifoInv, AllFresh, OwnInfo(info, Freq), DwellRead
  PROVE  FifoInv' /\ AllFresh' /\ OwnInfo(info', Freq)
<1>0. PICK k \in 0..ReadSize : \E n \in 0..k :
          /\ Read(k, n)
          /\ \/ info' = info
             \/ \E j \in 1..n : \/ info' = ParsePat(info, fifo[j])
                                \/ info' = ParseSdt(info, fifo[j])
                                \/ info' = ParseNit(info, fifo[j])
  BY DEF DwellRead
<1>1. PICK n \in 0..k :
          /\ Read(k, n)
          /\ \/ info' = info
             \/ \E j \in 1..n : \/ info' = ParsePat(info, fifo[j])
                                \/ info' = ParseSdt(info, fifo[j])
                                \/ info' = ParseNit(info, fifo[j])
  BY <1>0
<1>2. UNCHANGED chan /\ remaining' = remaining
  BY DEF DwellRead, purgeVars
<1>3. FifoInv' /\ AllFresh'
  BY <1>1, <1>2, ReadKeeps DEF FifoInv
<1>4. Freq \in Int
  BY FreqNow
<1>5. ASSUME NEW j \in 1..n PROVE fifo[j] = Freq
  BY <1>1, ScanAssumption DEF Read, AllFresh, FifoInv
<1>6. OwnInfo(info', Freq)
  BY <1>1, <1>4, <1>5, ParseOwn
<1>7. QED
  BY <1>3, <1>6

LEMMA DwellChan ==
  ASSUME PlaceInv, spc \in {"dwell", "sample", "purge"}
  PROVE  chan \in 1..Len(Scanned)
BY ScannedChannels DEF PlaceInv, Tuned

LEMMA FillChan ==
  ASSUME PlaceInv, StreamInv, Fill
  PROVE  chan \in 1..Len(Scanned)
<1>1. chan # 0
  BY DEF Fill, StreamInv
<1>2. QED
  BY <1>1, ScannedChannels DEF PlaceInv

LEMMA PurgeKeeps ==
  ASSUME FifoInv, PurgeRead
  PROVE  FifoInv' /\ (AllFresh => AllFresh') /\ (Behind => Behind')
<1>1. PICK k \in 0..ReadSize : \E n \in 0..k : Read(k, n) /\ remaining' = remaining - n
  BY DEF PurgeRead
<1>2. PICK n \in 0..k : Read(k, n) /\ remaining' = remaining - n
  BY <1>1
<1>3. chan' = chan
  BY DEF PurgeRead
<1>4. remaining' \in Int
  BY <1>2, ScanAssumption DEF FifoInv
<1>5. QED
  BY <1>2, <1>3, <1>4, ReadKeeps

LEMMA FifoStep ==
  ASSUME Inv, [ScanNext]_scanVars
  PROVE  FifoInv'
<1> USE DEF Inv
<1>1. CASE OpenDrain
  <2>1. PICK k \in 0..Len(fifo) : fifo' = SubSeq(fifo, k + 1, Len(fifo))
    BY <1>1 DEF OpenDrain
  <2>2. fifo' \in Seq(Int) /\ Len(fifo') = Len(fifo) - k
    BY <2>1, CutSeq DEF FifoInv
  <2>3. remaining' = remaining /\ k \in Nat /\ Len(fifo) \in Nat
    BY <1>1 DEF OpenDrain, purgeVars, FifoInv
  <2>4. QED
    BY <2>2, <2>3, ScanAssumption DEF FifoInv
<1>2. CASE Lock
  BY <1>2, ScanAssumption DEF Lock, tunerVars, FifoInv
<1>3. CASE PurgeRead
  BY <1>3, PurgeKeeps
<1>4. CASE DwellRead
  BY <1>4, DwellChan, DwellKeeps DEF DwellInv, DwellRead
<1>5. CASE Fill
  BY <1>5, FillChan, FillKeeps
<1>6. CASE \/ Tune \/ NoLock \/ PurgeWaits \/ PurgeEnds \/ DwellEnds \/ Sample
           \/ ScanEnds \/ ScanRaises \/ Elapse \/ ScanSignal \/ UNCHANGED scanVars
  <2>1. fifo' = fifo /\ remaining' = remaining
    BY <1>6 DEF Tune, NoLock, PurgeWaits, PurgeEnds, DwellEnds, Sample, ScanEnds,
                ScanRaises, Elapse, ScanSignal, scanVars, tunerVars, purgeVars
  <2>2. QED
    BY <2>1 DEF FifoInv
<1>7. QED
  BY <1>1, <1>2, <1>3, <1>4, <1>5, <1>6 DEF ScanNext, ScanStep

LEMMA PurgeStep ==
  ASSUME Inv, [ScanNext]_scanVars, FifoSize <= PurgeAmount
  PROVE  PurgeInv'
<1> USE DEF Inv
<1> SUFFICES ASSUME spc' = "purge" PROVE Behind'
  BY DEF PurgeInv
<1>1. CASE Lock
  <2>1. remaining' = PurgeAmount /\ fifo' = fifo
    BY <1>1 DEF Lock, tunerVars
  <2>2. Len(fifo) \in Nat /\ Len(fifo) <= FifoSize
    BY DEF FifoInv
  <2>3. QED
    BY <2>1, <2>2, ScanAssumption DEF Behind
<1>2. CASE PurgeRead
  <2>1. Behind
    BY <1>2 DEF PurgeRead, PurgeInv
  <2>2. QED
    BY <1>2, <2>1, PurgeKeeps
<1>3. CASE Fill
  <2>1. Behind
    BY <1>3 DEF Fill, PurgeInv
  <2>2. QED
    BY <1>3, <2>1, FillChan, FillKeeps
<1>4. CASE PurgeWaits \/ ScanSignal \/ UNCHANGED scanVars
  <2>1. fifo' = fifo /\ remaining' = remaining /\ chan' = chan /\ spc' = spc
    BY <1>4 DEF PurgeWaits, ScanSignal, scanVars, tunerVars, purgeVars
  <2>2. QED
    BY <2>1 DEF PurgeInv, Behind, Freq
<1>5. CASE \/ OpenDrain \/ Tune \/ NoLock \/ PurgeEnds \/ DwellRead \/ DwellEnds
           \/ Sample \/ ScanEnds \/ ScanRaises \/ Elapse
  BY <1>5 DEF OpenDrain, Tune, NoLock, PurgeEnds, DwellRead, DwellEnds, Sample, ScanEnds,
              ScanRaises, Elapse
<1>6. QED
  BY <1>1, <1>2, <1>3, <1>4, <1>5 DEF ScanNext, ScanStep

LEMMA WaitStep ==
  ASSUME Inv, [ScanNext]_scanVars
  PROVE  WaitInv'
<1> USE DEF Inv
<1> SUFFICES ASSUME waited', spc' = "purge" PROVE AllFresh'
  BY DEF WaitInv
<1>1. CASE PurgeRead
  <2>1. waited' = waited /\ spc = "purge"
    BY <1>1 DEF PurgeRead
  <2>2. AllFresh
    BY <2>1 DEF WaitInv
  <2>3. QED
    BY <1>1, <2>2, PurgeKeeps
<1>2. CASE PurgeWaits
  <2>1. fifo' = <<>>
    BY <1>2 DEF PurgeWaits, tunerVars
  <2>2. QED
    BY <2>1 DEF AllFresh
<1>3. CASE Fill
  <2>1. waited' = waited /\ spc' = spc
    BY <1>3 DEF Fill, purgeVars
  <2>2. AllFresh
    BY <2>1 DEF WaitInv
  <2>3. QED
    BY <1>3, <2>2, FillChan, FillKeeps
<1>4. CASE ScanSignal \/ UNCHANGED scanVars
  <2>1. fifo' = fifo /\ chan' = chan /\ spc' = spc /\ waited' = waited
    BY <1>4 DEF ScanSignal, scanVars, tunerVars, purgeVars
  <2>2. AllFresh
    BY <2>1 DEF WaitInv
  <2>3. QED
    BY <2>1, <2>2 DEF AllFresh, Freq
<1>5. CASE Lock
  BY <1>5 DEF Lock
<1>6. CASE \/ OpenDrain \/ Tune \/ NoLock \/ PurgeEnds \/ DwellRead \/ DwellEnds
           \/ Sample \/ ScanEnds \/ ScanRaises \/ Elapse
  BY <1>6 DEF OpenDrain, Tune, NoLock, PurgeEnds, DwellRead, DwellEnds, Sample, ScanEnds,
              ScanRaises, Elapse
<1>7. QED
  BY <1>1, <1>2, <1>3, <1>4, <1>5, <1>6 DEF ScanNext, ScanStep

LEMMA DwellStep ==
  ASSUME Inv, [ScanNext]_scanVars
  PROVE  DwellInv'
<1> USE DEF Inv
<1> SUFFICES ASSUME spc' \in {"dwell", "sample"} PROVE AllFresh' /\ OwnInfo(info', Freq')
  BY DEF DwellInv
<1>1. CASE PurgeEnds
  <2>1. /\ fifo' = fifo /\ Freq' = Freq /\ info' = NoInfo /\ spc = "purge"
        /\ remaining <= 0 \/ waited
    BY <1>1 DEF PurgeEnds, tunerVars, Freq
  <2>2. AllFresh
    <3>1. CASE remaining <= 0
      <4>1. Behind /\ remaining \in Int
        BY <2>1 DEF PurgeInv, FifoInv
      <4>2. QED
        BY <4>1, <3>1 DEF Behind, AllFresh
    <3>2. CASE waited
      BY <2>1, <3>2 DEF WaitInv
    <3>3. QED
      BY <2>1, <3>1, <3>2
  <2>3. QED
    BY <2>1, <2>2, NoInfoOwn DEF AllFresh
<1>2. CASE DwellRead
  <2>1. Freq' = Freq
    BY <1>2 DEF DwellRead, Freq
  <2>2. QED
    BY <1>2, <2>1, DwellChan, DwellKeeps DEF DwellInv, DwellRead
<1>3. CASE Fill
  <2>1. spc' = spc /\ info' = info /\ Freq' = Freq
    BY <1>3 DEF Fill, dwellVars, Freq
  <2>2. QED
    BY <1>3, <2>1, FillChan, FillKeeps DEF DwellInv
<1>4. CASE DwellEnds \/ Elapse \/ ScanSignal \/ UNCHANGED scanVars
  <2>1. fifo' = fifo /\ info' = info /\ Freq' = Freq /\ spc \in {"dwell", "sample"}
    BY <1>4 DEF DwellEnds, Elapse, ScanSignal, scanVars, tunerVars, dwellVars, Freq
  <2>2. QED
    BY <2>1 DEF DwellInv, AllFresh
<1>5. CASE \/ OpenDrain \/ Tune \/ NoLock \/ Lock \/ PurgeRead \/ PurgeWaits \/ Sample
           \/ ScanEnds \/ ScanRaises
  BY <1>5 DEF OpenDrain, Tune, NoLock, Lock, PurgeRead, PurgeWaits, Sample, ScanEnds, ScanRaises
<1>6. QED
  BY <1>1, <1>2, <1>3, <1>4, <1>5 DEF ScanNext, ScanStep

LEMMA ResultsStep ==
  ASSUME Inv, [ScanNext]_scanVars
  PROVE  ResultsInv'
<1> USE DEF Inv
<1>1. CASE NoLock
  <2> DEFINE r == [locked |-> FALSE, info |-> NoInfo]
  <2>1. results' = Append(results, r) /\ spc \in Tuned /\ r.info = NoInfo
    BY <1>1 DEF NoLock, Tuned
  <2>2. OwnInfo(r.info, Freq)
    BY <2>1, NoInfoOwn
  <2> HIDE DEF r
  <2>3. QED
    BY <2>1, <2>2, ResultKeeps
<1>2. CASE Sample
  <2>1. PICK locked \in BOOLEAN : results' = Append(results, [locked |-> locked, info |-> info])
    BY <1>2 DEF Sample
  <2> DEFINE r == [locked |-> locked, info |-> info]
  <2>2. spc = "sample" /\ r.info = info
    BY <1>2 DEF Sample
  <2>3. OwnInfo(r.info, Freq) /\ spc \in Tuned /\ results' = Append(results, r)
    BY <2>1, <2>2 DEF DwellInv, Tuned
  <2> HIDE DEF r
  <2>4. QED
    BY <2>3, ResultKeeps
<1>3. CASE \/ OpenDrain \/ Tune \/ Lock \/ PurgeRead \/ PurgeWaits \/ PurgeEnds
           \/ DwellRead \/ DwellEnds \/ ScanEnds \/ ScanRaises \/ Elapse \/ Fill
           \/ ScanSignal \/ UNCHANGED scanVars
  <2>1. results' = results
    BY <1>3 DEF OpenDrain, Tune, Lock, PurgeRead, PurgeWaits, PurgeEnds, DwellRead, DwellEnds,
                ScanEnds, ScanRaises, Elapse, Fill, ScanSignal, scanVars
  <2>2. QED
    BY <2>1 DEF ResultsInv
<1>4. QED
  BY <1>1, <1>2, <1>3 DEF ScanNext, ScanStep

LEMMA InvOwn == Inv => OwnServicesOnly
<1> SUFFICES ASSUME Inv PROVE OwnServicesOnly
  OBVIOUS
<1>1. DOMAIN results = 1..Len(results)
  BY DEF Inv, PlaceInv, IsSeq
<1>2. \A i \in DOMAIN results : Own(results[i].info, Network[i])
  BY <1>1 DEF Inv, ResultsInv
<1>3. ASSUME spc \in {"dwell", "sample"} PROVE Own(info, Network[chan])
  <2>1. chan \in 1..Len(Scanned)
    BY <1>3, DwellChan DEF Inv
  <2>2. QED
    BY <1>3, <2>1, FreqNow DEF Inv, DwellInv, OwnInfo
<1>4. QED
  BY <1>2, <1>3 DEF OwnServicesOnly

\* If the FIFO of the tuner holds no more than purge() asks for, a scan, of
\* whatever channels, reports nothing for a channel that it has not received on
\* its frequency: scan_channel().
THEOREM ScanOwnServicesOnly == ScanSpec => []OwnServicesOnly
<1>1. CASE FifoSize <= PurgeAmount
  <2>1. Inv /\ [ScanNext]_scanVars => Inv'
    BY <1>1, PlaceStep, StreamStep, FifoStep, PurgeStep, WaitStep, DwellStep, ResultsStep DEF Inv
  <2>2. QED
    BY <2>1, InvInit, InvOwn, PTL DEF ScanSpec
<1>2. CASE ~(FifoSize <= PurgeAmount)
  <2>1. OwnServicesOnly
    BY <1>2 DEF OwnServicesOnly
  <2>2. QED
    BY <2>1, PTL
<1>3. QED
  BY <1>1, <1>2

-----------------------------------------------------------------------------
(* The names of a scan                                                      *)

\* The entry that names the transport stream is one of its own.
LEMMA LastOwn ==
  ASSUME NEW i, NEW list, NEW n \in Nat, DOMAIN list = 1..n, NitOwn(i, list) # {}
  PROVE  Max(NitOwn(i, list)) \in NitOwn(i, list)
<1> DEFINE own == NitOwn(i, list)
<1>1. own \subseteq 0..n /\ own # {}
  BY DEF NitOwn
<1> HIDE DEF own
<1>2. \E x \in own : \A y \in own : x >= y
  BY <1>1, GreatestNumber
<1>3. Max(own) \in own
  BY <1>2 DEF Max
<1>4. QED
  BY <1>3 DEF own

\* The channels are told from Elsewhere and None by their frequency.
LEMMA ProperFrequency ==
  ASSUME NEW c \in 1..Len(Scanned)
  PROVE  Network[c] \notin {Elsewhere, None} /\ Network[c] \in Int
<1>1. Low \in Int /\ High \in Int /\ <<Prefix, Low + c - 1>> \in ChannelNames
      /\ Scanned[c] = <<Prefix, Low + c - 1>>
  <2>1. /\ Low \in Int /\ High \in Int /\ Low <= High
        /\ \A n \in Low..High : <<Prefix, n>> \in ChannelNames
    BY ScanAssumption DEF ValidRange
  <2>2. /\ Len(Scanned) = High - Low + 1
        /\ \A i \in 1..(High - Low + 1) : Scanned[i] = <<Prefix, Low + i - 1>>
    BY <2>1 DEF Scanned, ExpandRange
  <2>3. Low + c - 1 \in Low..High
    BY <2>1, <2>2
  <2>4. QED
    BY <2>1, <2>2, <2>3
<1>2. Within(FrequencyOf(Scanned[c]), MinFrequency, MaxFrequency)
  BY <1>1, FrequencyInRange
<1>3. Network[c] = FrequencyOf(Scanned[c])
  BY ScannedChannels
<1>4. QED
  BY <1>2, <1>3, SMT DEF Within, MinFrequency, Elsewhere, None

\* On its frequency, a stream whose ID is known has its name from each NIT.
LEMMA NitNames ==
  ASSUME NEW i, NEW c \in 1..Len(Scanned), OwnInfo(i, Network[c]), i.tsid # None
  PROVE  /\ ParseNit(i, Network[c]).tsid = i.tsid
         /\ ParseNit(i, Network[c]).name = i.tsid
<1> DEFINE own == NitOwn(i, Network)
           m == IF own = {} THEN i.name ELSE Network[Max(own)]
<1>1. i.tsid = Network[c]
  BY DEF OwnInfo, Own
<1>2. Listed(Network[c]) = Network
  BY ProperFrequency DEF Listed
<1>3. DOMAIN Network = 1..Len(Scanned) /\ Len(Scanned) \in Nat
  BY ScannedChannels
<1>4. c \in own
  BY <1>1, <1>3 DEF NitOwn
<1>5. Max(own) \in own
  BY <1>3, <1>4, LastOwn
<1>6. m = i.tsid
  BY <1>4, <1>5 DEF NitOwn
<1>7. ParseNit(i, Network[c]) = [i EXCEPT !.network = TRUE, !.name = m]
  BY <1>2, Zenon DEF ParseNit
<1> HIDE DEF m
<1>8. PICK n : i \in [tsid : Int, services : SUBSET Int, network : BOOLEAN, name : {n}]
  BY DEF OwnInfo, IsInfo
<1>9. QED
  BY <1>6, <1>7, <1>8

\* A name belongs to the ID that the stream has.
NameInv == named => info.tsid # None /\ info.name = info.tsid

LEMMA NameStep ==
  ASSUME Inv, NameInv, [ScanNext]_scanVars
  PROVE  NameInv'
<1>1. CASE PurgeEnds
  BY <1>1 DEF PurgeEnds, NameInv
<1>2. CASE DwellRead
  <2>1. chan \in 1..Len(Scanned) /\ AllFresh /\ OwnInfo(info, Freq) /\ FifoInv
    BY <1>2, DwellChan DEF DwellRead, Inv, DwellInv
  <2>2. Freq = Network[chan] /\ Freq # None
    BY <2>1, FreqNow, ProperFrequency
  <2>3. PICK k \in 0..ReadSize : \E n \in 0..k :
          /\ Read(k, n)
          /\ \/ UNCHANGED <<info, named>>
             \/ \E j \in 1..n :
                   \/ info' = ParsePat(info, fifo[j]) /\ UNCHANGED named
                   \/ info' = ParseSdt(info, fifo[j]) /\ UNCHANGED named
                   \/ info' = ParseNit(info, fifo[j]) /\ named' = (named \/ info.tsid # None)
    BY <1>2, Zenon DEF DwellRead
  <2>4. PICK n \in 0..k :
          /\ Read(k, n)
          /\ \/ UNCHANGED <<info, named>>
             \/ \E j \in 1..n :
                   \/ info' = ParsePat(info, fifo[j]) /\ UNCHANGED named
                   \/ info' = ParseSdt(info, fifo[j]) /\ UNCHANGED named
                   \/ info' = ParseNit(info, fifo[j]) /\ named' = (named \/ info.tsid # None)
    BY <2>3, Zenon
  <2>5. ASSUME NEW j \in 1..n PROVE fifo[j] = Freq
    BY <2>1, <2>4, ScanAssumption DEF Read, AllFresh, FifoInv
  <2>6. PICK x : info \in [tsid : Int, services : SUBSET Int, network : BOOLEAN, name : {x}]
    BY <2>1 DEF OwnInfo, IsInfo
  <2>7. info.tsid \in {None, Freq}
    BY <2>1 DEF OwnInfo, Own
  <2>8. CASE UNCHANGED <<info, named>>
    BY <2>8 DEF NameInv
  <2>9. CASE info' = ParsePat(info, Freq) /\ UNCHANGED named
    <3>1. info'.tsid = Freq /\ info'.name = info.name
      BY <2>6, <2>9 DEF ParsePat
    <3>2. QED
      BY <2>2, <2>7, <2>9, <3>1 DEF NameInv
  <2>10. CASE info' = ParseSdt(info, Freq) /\ UNCHANGED named
    <3>1. (info.tsid # None => info'.tsid = info.tsid) /\ info'.name = info.name
      BY <2>6, <2>10 DEF ParseSdt
    <3>2. QED
      BY <2>10, <3>1 DEF NameInv
  <2>11. CASE info' = ParseNit(info, Freq) /\ named' = (named \/ info.tsid # None)
    <3>1. CASE info.tsid = None
      BY <2>11, <3>1 DEF NameInv
    <3>2. CASE info.tsid # None
      <4>1. info'.tsid = info.tsid /\ info'.name = info.tsid
        BY <2>1, <2>2, <2>11, <3>2, NitNames
      <4>2. QED
        BY <3>2, <4>1 DEF NameInv
    <3>3. QED
      BY <3>1, <3>2
  <2>12. QED
    BY <2>4, <2>5, <2>8, <2>9, <2>10, <2>11, Zenon
<1>3. CASE \/ OpenDrain \/ Tune \/ NoLock \/ Lock \/ PurgeRead \/ PurgeWaits
           \/ DwellEnds \/ Sample \/ ScanEnds \/ ScanRaises \/ Elapse \/ Fill
           \/ ScanSignal \/ UNCHANGED scanVars
  <2>1. UNCHANGED <<info, named>>
    BY <1>3, Zenon DEF OpenDrain, Tune, NoLock, Lock, PurgeRead, PurgeWaits, DwellEnds, Sample,
                ScanEnds, ScanRaises, Elapse, Fill, ScanSignal, scanVars, dwellVars
  <2>2. QED
    BY <2>1 DEF NameInv
<1>4. QED
  BY <1>1, <1>2, <1>3 DEF ScanNext, ScanStep

\* If the FIFO holds no more than purge() asks for, a transport stream whose ID
\* is known when a NIT comes has its own name from then on: the names that
\* parse_nit() takes before that are replaced.
THEOREM ScanNameSettles ==
  ASSUME FifoSize <= PurgeAmount
  PROVE  ScanSpec => []NameSettles
<1>1. ScanInit => Inv /\ NameInv
  BY InvInit DEF ScanInit, NameInv
<1>2. Inv /\ [ScanNext]_scanVars => Inv'
  BY PlaceStep, StreamStep, FifoStep, PurgeStep, WaitStep, DwellStep, ResultsStep DEF Inv
<1>3. Inv /\ NameInv /\ [ScanNext]_scanVars => NameInv'
  BY NameStep
<1>4. NameInv => NameSettles
  BY DEF NameInv, NameSettles
<1>5. QED
  BY <1>1, <1>2, <1>3, <1>4, PTL DEF ScanSpec

-----------------------------------------------------------------------------
(* The types of a scan                                                      *)

Result == [locked : BOOLEAN, info : Info]

ScanFlagsOK ==
    /\ streaming \in BOOLEAN
    /\ waited \in BOOLEAN
    /\ stopped \in BOOLEAN
    /\ named \in BOOLEAN

ScanDataOK ==
    /\ spc \in ScanPhases
    /\ chan \in 0..Len(Scanned)
    /\ fifo \in Seq(Int)
    /\ Len(fifo) <= FifoSize
    /\ errors \in 0..ScanErrors
    /\ remaining \in Int
    /\ elapsed \in 0..2
    /\ info \in Info
    /\ results \in Seq(Result)
    /\ scode \in -1..1

LEMMA ScanTypeParts == ScanTypeOK <=> ScanFlagsOK /\ ScanDataOK
BY Zenon DEF ScanTypeOK, ScanFlagsOK, ScanDataOK, Result, Block

LEMMA ScanFlagsStep == ScanFlagsOK /\ [ScanNext]_scanVars => ScanFlagsOK'
<1> SUFFICES ASSUME ScanFlagsOK, [ScanNext]_scanVars PROVE ScanFlagsOK'
  OBVIOUS
<1> USE DEF ScanFlagsOK, tunerVars, purgeVars, dwellVars
<1>1. CASE OpenDrain \/ Tune \/ NoLock \/ Lock \/ PurgeWaits \/ PurgeEnds
  BY <1>1, Zenon DEF OpenDrain, Tune, NoLock, Lock, PurgeWaits, PurgeEnds
<1>2. CASE PurgeRead \/ DwellRead
  BY <1>2, Zenon DEF PurgeRead, DwellRead
<1>3. CASE DwellEnds \/ Sample \/ ScanEnds \/ ScanRaises \/ Elapse \/ Fill \/ ScanSignal
  BY <1>3, Zenon DEF DwellEnds, Sample, ScanEnds, ScanRaises, Elapse, Fill, ScanSignal
<1>4. CASE UNCHANGED scanVars
  BY <1>4, Zenon DEF scanVars
<1>5. QED
  BY <1>1, <1>2, <1>3, <1>4 DEF ScanNext, ScanStep

LEMMA ParseTyped ==
  ASSUME NEW i \in Info, NEW block \in Int
  PROVE  ParsePat(i, block) \in Info /\ ParseSdt(i, block) \in Info
         /\ ParseNit(i, block) \in Info
<1>1. ParsePat(i, block) \in Info /\ ParseSdt(i, block) \in Info
  BY DEF ParsePat, ParseSdt, Info
<1>2. \E n \in Nat : DOMAIN Listed(block) = 1..n /\ \A k \in 1..n : Listed(block)[k] \in Int
  <2>1. CASE block = Elsewhere
    <3>1. Listed(block) = <<Elsewhere>>
      BY <2>1 DEF Listed
    <3>2. DOMAIN Listed(block) = 1..1 /\ \A k \in 1..1 : Listed(block)[k] \in Int
      BY <3>1 DEF Elsewhere
    <3>3. QED
      BY <3>2
  <2>2. CASE block # Elsewhere
    BY <2>2, ScannedChannels DEF Listed
  <2>3. QED
    BY <2>1, <2>2
<1>3. PICK n \in Nat : DOMAIN Listed(block) = 1..n /\ \A k \in 1..n : Listed(block)[k] \in Int
  BY <1>2
<1> DEFINE list == Listed(block)
           own == NitOwn(i, list)
           m == IF own = {} THEN i.name ELSE list[Max(own)]
<1>4. own # {} => Max(own) \in own
  BY <1>3, LastOwn
<1>5. m \in Int
  <2>1. own \subseteq 1..n
    BY <1>3 DEF NitOwn
  <2>2. i.name \in Int
    BY DEF Info
  <2>3. QED
    BY <1>3, <1>4, <2>1, <2>2
<1>6. ParseNit(i, block) = [i EXCEPT !.network = TRUE, !.name = m]
  BY Zenon DEF ParseNit
<1> HIDE DEF m
<1>7. QED
  BY <1>1, <1>5, <1>6 DEF Info

LEMMA ReadTyped ==
  ASSUME ScanDataOK, NEW k \in 0..ReadSize, NEW n \in 0..k, Read(k, n)
  PROVE  /\ fifo' \in Seq(Int) /\ Len(fifo') <= FifoSize
         /\ errors' \in 0..ScanErrors
         /\ n \in Int /\ \A j \in 1..n : fifo[j] \in Int
<1>1. k \in Nat /\ n \in Nat /\ n <= k
  BY ScanAssumption
<1>2. fifo' = SubSeq(fifo, k + 1, Len(fifo)) /\ k \in 0..Len(fifo)
  BY <1>1 DEF Read
<1>3. fifo' \in Seq(Int) /\ Len(fifo') = Len(fifo) - k
  BY <1>2, CutSeq DEF ScanDataOK
<1>4. Len(fifo) \in Nat /\ Len(fifo) <= FifoSize /\ FifoSize \in Nat
  BY ScanAssumption DEF ScanDataOK
<1>5. errors' \in 0..ScanErrors
  <2>1. errors \in Nat /\ ScanErrors \in Nat
    BY ScanAssumption DEF ScanDataOK
  <2>2. errors' = 0 \/ (errors + 1 < ScanErrors /\ errors' = errors + 1)
    BY DEF Read
  <2>3. QED
    BY <2>1, <2>2
<1>6. \A j \in 1..n : fifo[j] \in Int
  <2>1. \A j \in 1..n : j \in 1..Len(fifo)
    BY <1>1, <1>2, <1>4
  <2>2. \A j \in 1..Len(fifo) : fifo[j] \in Int
    BY ElementOfSeq DEF ScanDataOK
  <2>3. QED
    BY <2>1, <2>2
<1>7. QED
  BY <1>1, <1>3, <1>4, <1>5, <1>6

LEMMA ScanDataStep ==
  ASSUME ScanFlagsOK, ScanDataOK, PlaceInv, StreamInv, [ScanNext]_scanVars
  PROVE  ScanDataOK'

<1> USE DEF tunerVars, purgeVars, dwellVars
<1>1. NoInfo \in Info
  BY DEF NoInfo, Info, None
<1>2. CASE OpenDrain
  <2>1. PICK k \in 0..Len(fifo) : fifo' = SubSeq(fifo, k + 1, Len(fifo))
    BY <1>2 DEF OpenDrain
  <2>2. fifo' \in Seq(Int) /\ Len(fifo') = Len(fifo) - k
    BY <2>1, CutSeq DEF ScanDataOK
  <2>3. Len(fifo') <= FifoSize
    BY <2>1, <2>2, ScanAssumption, LenProperties DEF ScanDataOK
  <2>4. QED
    BY <1>2, <2>2, <2>3 DEF ScanDataOK, OpenDrain, ScanPhases
<1>3. CASE Tune
  <2>1. chan' \in 0..Len(Scanned)
    BY <1>3, ScannedChannels DEF Tune, ScanDataOK
  <2>2. QED
    BY <1>3, <2>1 DEF Tune, ScanDataOK, ScanPhases
<1>4. CASE NoLock
  <2>1. [locked |-> FALSE, info |-> NoInfo] \in Result
    BY <1>1 DEF Result
  <2> DEFINE r == [locked |-> FALSE, info |-> NoInfo]
  <2>2. results' = Append(results, r)
    BY <1>4, Zenon DEF NoLock
  <2> HIDE DEF r
  <2>3. results' \in Seq(Result)
    BY <2>1, <2>2, AppendProperties DEF ScanDataOK, r
  <2>4. QED
    BY <1>4, <2>3 DEF NoLock, ScanDataOK, ScanPhases
<1>5. CASE Lock \/ PurgeWaits
  <2>1. PurgeAmount \in Nat
    BY ScanAssumption
  <2>2. CASE Lock
    BY <2>1, <2>2 DEF Lock, ScanDataOK, ScanPhases
  <2>3. CASE PurgeWaits
    BY <2>3 DEF PurgeWaits, ScanDataOK, ScanPhases
  <2>4. QED
    BY <1>5, <2>2, <2>3
<1>6. CASE PurgeEnds
  BY <1>1, <1>6 DEF PurgeEnds, ScanDataOK, ScanPhases
<1>7. CASE PurgeRead
  <2>1. PICK k \in 0..ReadSize : \E n \in 0..k : Read(k, n) /\ remaining' = remaining - n
    BY <1>7 DEF PurgeRead
  <2>2. PICK n \in 0..k : Read(k, n) /\ remaining' = remaining - n
    BY <2>1
  <2>3. /\ fifo' \in Seq(Int) /\ Len(fifo') <= FifoSize
        /\ errors' \in 0..ScanErrors /\ n \in Int
    BY <2>2, ReadTyped
  <2>4. remaining' \in Int
    BY <2>2, <2>3 DEF ScanDataOK
  <2>5. QED
    BY <1>7, <2>3, <2>4 DEF PurgeRead, ScanDataOK
<1>8. CASE DwellRead
  <2>1. PICK k \in 0..ReadSize : \E n \in 0..k :
          /\ Read(k, n)
          /\ \/ info' = info
             \/ \E j \in 1..n : info' \in {ParsePat(info, fifo[j]), ParseSdt(info, fifo[j]),
                                           ParseNit(info, fifo[j])}
    BY <1>8 DEF DwellRead
  <2>2. PICK n \in 0..k :
          /\ Read(k, n)
          /\ \/ info' = info
             \/ \E j \in 1..n : info' \in {ParsePat(info, fifo[j]), ParseSdt(info, fifo[j]),
                                           ParseNit(info, fifo[j])}
    BY <2>1
  <2>3. /\ fifo' \in Seq(Int) /\ Len(fifo') <= FifoSize
        /\ errors' \in 0..ScanErrors /\ \A j \in 1..n : fifo[j] \in Int
    BY <2>2, ReadTyped
  <2>4. info' \in Info
    BY <2>2, <2>3, ParseTyped DEF ScanDataOK
  <2>5. QED
    BY <1>8, <2>3, <2>4 DEF DwellRead, ScanDataOK
<1>9. CASE Sample
  <2>1. PICK locked \in BOOLEAN : results' = Append(results, [locked |-> locked, info |-> info])
    BY <1>9 DEF Sample
  <2> DEFINE r == [locked |-> locked, info |-> info]
  <2>2. r \in Result /\ results' = Append(results, r)
    BY <2>1 DEF Result, ScanDataOK
  <2> HIDE DEF r
  <2>3. results' \in Seq(Result)
    BY <2>2, AppendProperties DEF ScanDataOK
  <2>4. QED
    BY <1>9, <2>3 DEF Sample, ScanDataOK, ScanPhases
<1>10. CASE Fill
  <2>1. fifo' = Append(fifo, Freq) /\ Freq \in Int /\ Len(fifo) < FifoSize
    BY <1>10, FillChan, FreqNow DEF Fill
  <2>2. fifo' \in Seq(Int) /\ Len(fifo') = Len(fifo) + 1 /\ Len(fifo) \in Nat
    BY <2>1, AppendProperties, LenProperties DEF ScanDataOK
  <2>3. Len(fifo') <= FifoSize
    BY <2>1, <2>2, ScanAssumption
  <2>4. QED
    BY <1>10, <2>2, <2>3 DEF Fill, ScanDataOK
<1>11. CASE ScanEnds \/ ScanRaises
  BY <1>11 DEF ScanEnds, ScanRaises, ScanDataOK, ScanPhases
<1>12. CASE DwellEnds \/ ScanSignal \/ UNCHANGED scanVars
  BY <1>12 DEF DwellEnds, ScanSignal, scanVars, ScanDataOK, ScanPhases
<1>13. CASE Elapse
  BY <1>13 DEF Elapse, ScanDataOK
<1>14. QED
  BY <1>2, <1>3, <1>4, <1>5, <1>6, <1>7, <1>8, <1>9, <1>10, <1>11, <1>12, <1>13
  DEF ScanNext, ScanStep

\* What the types of a scan rest on.
ScanBase == ScanTypeOK /\ PlaceInv /\ StreamInv

LEMMA ScanTypes == ScanInit => ScanBase
<1> SUFFICES ASSUME ScanInit PROVE ScanBase
  OBVIOUS
<1>1. ScanFlagsOK
  BY Zenon DEF ScanInit, ScanFlagsOK
<1>2. fifo \in Seq(Int) /\ Len(fifo) <= FifoSize
  BY InvInit DEF Inv, FifoInv
<1>3. NoInfo \in Info
  BY DEF NoInfo, Info, None
<1>4. ScanDataOK
  BY <1>2, <1>3, ScannedChannels, ScanAssumption DEF ScanInit, ScanDataOK, ScanPhases
<1>5. QED
  BY <1>1, <1>4, ScanTypeParts, PlaceInit DEF ScanBase

LEMMA ScanTypesStep == ScanBase /\ [ScanNext]_scanVars => ScanBase'
<1> SUFFICES ASSUME ScanBase, [ScanNext]_scanVars PROVE ScanBase'
  OBVIOUS
<1>1. ScanFlagsOK' /\ ScanDataOK'
  BY ScanTypeParts, ScanFlagsStep, ScanDataStep DEF ScanBase
<1>2. ScanTypeOK'
  BY <1>1, Zenon DEF ScanTypeOK, ScanFlagsOK, ScanDataOK, Result, Block
<1>3. QED
  BY <1>2, PlaceStep, StreamStep DEF ScanBase

-----------------------------------------------------------------------------
(* The types of monitor                                                     *)

MonitorFlagsOK ==
    /\ halt \in BOOLEAN
    /\ error \in BOOLEAN
    /\ stop \in BOOLEAN

MonitorDataOK ==
    /\ rpc \in ReaderPhases
    /\ hand \in Nat
    /\ consec \in 0..MaxErrors
    /\ queue \in Seq(Nat)
    /\ dropped \in Nat
    /\ nread \in 0..MaxReads
    /\ kept \in Seq(Nat)
    /\ mon \in MonitorPhases
    /\ clock \in 0..MaxClock
    /\ next \in Nat
    /\ total \in Counts
    /\ prev \in Counts
    /\ leave \in {"normal", "broken", "raised"}
    /\ mcode \in -1..1
    /\ reported \in Counts

monVars == <<readerVars, monitorVars>>

LEMMA MonitorTypeParts == MonitorTypeOK <=> MonitorFlagsOK /\ MonitorDataOK
BY Zenon DEF MonitorTypeOK, ReaderTypeOK, MonitorFlagsOK, MonitorDataOK

LEMMA MonitorFlagsStep == MonitorFlagsOK /\ [MonitorNext]_monVars => MonitorFlagsOK'
<1> SUFFICES ASSUME MonitorFlagsOK, [MonitorNext]_monVars PROVE MonitorFlagsOK'
  OBVIOUS
<1> USE DEF MonitorFlagsOK, readerVars
<1>1. CASE \/ MonitorSetupFails \/ MonitorStart \/ MonitorLoop \/ MonitorGet
           \/ MonitorGetNothing \/ NotDue \/ Report \/ ReportFails
  BY <1>1, Zenon DEF MonitorSetupFails, MonitorStart, MonitorLoop, MonitorGet,
                     MonitorGetNothing, NotDue, Report, ReportFails
<1>2. CASE MonitorHalt \/ MonitorJoin \/ MonitorVerdict \/ ClockTick \/ MonitorSignal
  BY <1>2, Zenon DEF MonitorHalt, MonitorJoin, MonitorVerdict, ClockTick, MonitorSignal
<1>3. CASE MonitorReader
  BY <1>3, Zenon DEF MonitorReader, ReaderStep, Transfer, Check, ReadNothing, ReadData, ReadFails,
              ReadGivesUp, Reset, Disconnected, Put, SetError, SetOnError
<1>4. CASE UNCHANGED monVars
  BY <1>4, Zenon DEF monVars
<1>5. QED
  BY <1>1, <1>2, <1>3, <1>4 DEF MonitorNext, MonitorStep

LEMMA ReaderDataStep ==
  ASSUME MonitorDataOK, ReaderStep
  PROVE  /\ rpc' \in ReaderPhases /\ hand' \in Nat /\ consec' \in 0..MaxErrors
         /\ queue' \in Seq(Nat) /\ dropped' \in Nat /\ nread' \in 0..MaxReads
         /\ kept' \in Seq(Nat)
<1> USE ReaderAssumption DEF MonitorDataOK
<1>1. CASE Put
  <2>1. Append(queue, hand) \in Seq(Nat) /\ Append(kept, hand) \in Seq(Nat)
    BY AppendProperties
  <2>2. /\ queue' \in {queue, Append(queue, hand)} /\ kept' \in {kept, Append(kept, hand)}
        /\ dropped' \in {dropped, dropped + 1} /\ hand' = 0 /\ rpc' = "check"
        /\ UNCHANGED <<consec, nread>>
    BY <1>1, Zenon DEF Put
  <2>3. queue' \in Seq(Nat) /\ kept' \in Seq(Nat)
    BY <2>1, <2>2, Zenon
  <2>4. /\ dropped' \in Nat /\ hand' \in Nat /\ rpc' \in ReaderPhases
        /\ consec' \in 0..MaxErrors /\ nread' \in 0..MaxReads
    BY <2>2 DEF ReaderPhases
  <2>5. QED
    BY <2>3, <2>4
<1>2. CASE ReadData
  BY <1>2 DEF ReadData, ReaderPhases
<1>3. CASE ReadFails \/ ReadGivesUp
  BY <1>3 DEF ReadFails, ReadGivesUp, ReaderPhases
<1>4. CASE Check \/ ReadNothing \/ Reset \/ Disconnected
  BY <1>4 DEF Check, ReadNothing, Reset, Disconnected, ReaderPhases
<1>5. CASE SetError \/ SetOnError
  BY <1>5 DEF SetError, SetOnError, ReaderPhases
<1>6. QED
  BY <1>1, <1>2, <1>3, <1>4, <1>5 DEF ReaderStep, Transfer

\* The reports add up to what has been counted: a part of the proof of the
\* types, for otherwise a report might be negative.
Balanced ==
    /\ reported = prev
    /\ prev.packets <= total.packets
    /\ prev.cc <= total.cc

LEMMA MonitorDataStep ==
  ASSUME MonitorDataOK, Balanced, [MonitorNext]_monVars
  PROVE  MonitorDataOK' /\ Balanced'
<1> USE MonitorAssumption DEF reportVars, readerVars
<1>1. CASE MonitorGet
  <2>1. Head(queue) \in Nat /\ Tail(queue) \in Seq(Nat)
    BY <1>1, HeadTailProperties DEF MonitorGet, MonitorDataOK
  <2>2. PICK d \in 0..MaxCc : total' = [packets |-> total.packets + 1, cc |-> total.cc + d]
    BY <1>1 DEF MonitorGet
  <2>3. total.packets \in Nat /\ total.cc \in Nat
    BY DEF MonitorDataOK, Counts
  <2>4. total' \in Counts /\ total.packets <= total'.packets /\ total.cc <= total'.cc
    BY <2>2, <2>3 DEF Counts
  <2>5. MonitorDataOK'
    BY <1>1, <2>1, <2>4 DEF MonitorGet, MonitorDataOK, MonitorPhases
  <2>6. prev' = prev /\ reported' = reported /\ prev.packets \in Nat /\ prev.cc \in Nat
    BY <1>1 DEF MonitorGet, MonitorDataOK, Counts
  <2>7. total'.packets \in Nat /\ total'.cc \in Nat
    BY <2>4 DEF Counts
  <2>8. Balanced'
    BY <2>3, <2>4, <2>6, <2>7 DEF Balanced
  <2>9. QED
    BY <2>5, <2>8
<1>2. CASE Report
  <2>1. /\ total \in Counts /\ prev \in Counts /\ reported = prev
    BY DEF MonitorDataOK, Balanced
  <2>2. reported' = Added(prev, Since(total, prev)) /\ prev' = total
    BY <1>2, <2>1 DEF Report
  <2>3. reported' = total
    BY <2>1, <2>2 DEF Added, Since, Counts
  <2>4. next' \in Nat
    BY <1>2 DEF Report, NextReport, MonitorDataOK
  <2>5. UNCHANGED <<rpc, hand, consec, queue, dropped, nread, kept, clock, total, leave, mcode>>
        /\ mon' \in MonitorPhases
    BY <1>2 DEF Report, MonitorPhases
  <2>6. MonitorDataOK'
    BY <2>1, <2>2, <2>3, <2>4, <2>5 DEF MonitorDataOK
  <2>7. Balanced'
    BY <2>1, <2>2, <2>3, <2>5 DEF Balanced, Counts
  <2>8. QED
    BY <2>6, <2>7
<1>3. CASE MonitorReader
  <2>1. UNCHANGED <<mon, clock, next, total, prev, leave, mcode, reported>>
    BY <1>3 DEF MonitorReader, monitorVars
  <2>2. MonitorDataOK'
    BY <1>3, <2>1, ReaderDataStep DEF MonitorReader, MonitorDataOK
  <2>3. QED
    BY <2>1, <2>2 DEF Balanced
<1>4. CASE \/ MonitorSetupFails \/ MonitorStart \/ MonitorLoop
           \/ MonitorGetNothing \/ NotDue \/ ReportFails
  <2>1. /\ UNCHANGED <<hand, consec, queue, dropped, nread, kept, clock, next, total, prev,
                       reported>>
        /\ rpc' \in {rpc, "check"} /\ mon' \in MonitorPhases
        /\ leave' \in {"normal", "broken", "raised"} /\ mcode' \in {mcode, 1}
    BY <1>4 DEF MonitorSetupFails, MonitorStart, MonitorLoop, MonitorGetNothing, NotDue,
                ReportFails, MonitorPhases, MonitorDataOK
  <2>2. QED
    BY <2>1 DEF MonitorDataOK, Balanced, ReaderPhases
<1>5. CASE MonitorHalt \/ MonitorJoin \/ MonitorVerdict \/ MonitorSignal
  <2>1. /\ UNCHANGED <<rpc, hand, consec, queue, dropped, nread, kept, clock, next, total, prev,
                       reported, leave>>
        /\ mon' \in MonitorPhases /\ mcode' \in {mcode, 0, 1}
    BY <1>5 DEF MonitorHalt, MonitorJoin, MonitorVerdict, MonitorSignal, monitorVars,
                MonitorPhases, MonitorDataOK
  <2>2. QED
    BY <2>1 DEF MonitorDataOK, Balanced
<1>6. CASE ClockTick
  BY <1>6 DEF ClockTick, MonitorDataOK, Balanced
<1>7. CASE UNCHANGED monVars
  BY <1>7 DEF monVars, monitorVars, MonitorDataOK, Balanced
<1>8. QED
  BY <1>1, <1>2, <1>3, <1>4, <1>5, <1>6, <1>7 DEF MonitorNext, MonitorStep

-----------------------------------------------------------------------------
(* The chunks                                                               *)

\* The chunks that have gone through the hand of the reader.
Handled == Len(kept) + dropped

\* All chunks that have been read are kept or dropped, up to the one in the hand
\* of the reader; one that is lost with a read that fails is the last.
Numbered ==
    /\ rpc \in {"new", "check", "read"} => hand = 0 /\ nread = Handled
    /\ rpc \in {"reset", "put"} =>
          \/ rpc = "reset" /\ hand = 0 /\ nread = Handled
          \/ hand = nread /\ nread = Handled + 1
    /\ rpc \in {"fail", "report", "dead"} =>
          hand = 0 /\ (nread = Handled \/ nread = Handled + 1)

\* Such a chunk is lost with an error that ends the reader.
LostByError == rpc \in {"report", "dead"} => nread = Handled \/ error

\* What has been kept has been counted or waits in the queue.
Counted == total.packets + Len(queue) = Len(kept)

\* The reader runs between the setup and the verdict, which the error and the
\* way out of the loop decide.
Ending ==
    /\ mon = "setup" => rpc = "new" /\ ~error /\ leave = "normal"
    /\ rpc = "new" => mon \in {"setup", "closed"} /\ ~error /\ leave = "normal"
    /\ mon \in {"verdict", "closed"} => rpc \in {"new", "dead"}
    /\ mon = "closed" => (error \/ leave = "raised" => mcode = 1 \/ leave = "broken")

LEMMA EndingStep ==
  ASSUME MonitorDataOK, Ending, [MonitorNext]_monVars
  PROVE  Ending'
<1> USE DEF reportVars, monitorVars
<1>1. CASE MonitorReader
  <2>1. UNCHANGED <<mon, leave, mcode>>
    BY <1>1, Zenon DEF MonitorReader
  <2>2. rpc \notin {"new", "dead"} /\ rpc' # "new"
    BY <1>1 DEF MonitorReader, ReaderStep, Transfer, Check, ReadNothing, ReadData, ReadFails,
                ReadGivesUp, Reset, Disconnected, Put, SetError, SetOnError
  <2>3. mon \notin {"setup", "verdict", "closed"}
    BY <2>2, Zenon DEF Ending
  <2>4. QED
    BY <2>1, <2>2, <2>3, Zenon DEF Ending
<1>2. CASE MonitorSetupFails \/ MonitorStart
  <2>1. /\ UNCHANGED <<error, leave>> /\ mon = "setup"
        /\ \/ mon' = "closed" /\ mcode' = 1 /\ rpc' = rpc
           \/ mon' = "loop" /\ rpc' = "check"
    BY <1>2, Zenon DEF MonitorSetupFails, MonitorStart, readerVars
  <2>2. QED
    BY <2>1 DEF Ending
<1>3. CASE MonitorLoop \/ MonitorGet \/ MonitorGetNothing \/ NotDue \/ Report
  <2>1. UNCHANGED <<rpc, error, leave>> /\ mon' \in {"halt", "get", "report", "loop"}
        /\ mon \in {"loop", "get", "report"}
    BY <1>3, Zenon DEF MonitorLoop, MonitorGet, MonitorGetNothing, NotDue, Report, readerVars
  <2>2. QED
    BY <2>1 DEF Ending
<1>4. CASE ReportFails \/ MonitorHalt
  <2>1. UNCHANGED <<rpc, error>> /\ mon' \in {"halt", "join"} /\ mon \in {"report", "halt"}
    BY <1>4, Zenon DEF ReportFails, MonitorHalt, readerVars
  <2>2. QED
    BY <2>1 DEF Ending
<1>5. CASE MonitorJoin
  BY <1>5, Zenon DEF MonitorJoin, readerVars, Ending
<1>6. CASE MonitorVerdict
  <2>1. UNCHANGED <<rpc, error, leave>> /\ mon = "verdict" /\ mon' = "closed"
        /\ mcode' = IF leave = "raised" \/ (leave = "normal" /\ error) THEN 1 ELSE 0
    BY <1>6, Zenon DEF MonitorVerdict, readerVars
  <2>2. leave \in {"normal", "broken", "raised"}
    BY DEF MonitorDataOK
  <2>3. error \/ leave = "raised" => mcode' = 1 \/ leave = "broken"
    BY <2>1, <2>2, Zenon
  <2>4. QED
    BY <2>1, <2>3, Zenon DEF Ending
<1>7. CASE ClockTick \/ MonitorSignal \/ UNCHANGED monVars
  <2>1. UNCHANGED <<rpc, error, leave, mon, mcode>>
    BY <1>7, Zenon DEF ClockTick, MonitorSignal, monVars, readerVars
  <2>2. QED
    BY <2>1, Zenon DEF Ending
<1>8. QED
  BY <1>1, <1>2, <1>3, <1>4, <1>5, <1>6, <1>7 DEF MonitorNext, MonitorStep

LEMMA HandledStep ==
  ASSUME MonitorDataOK, [MonitorNext]_monVars
  PROVE  /\ Handled \in Nat
         /\ ~(MonitorReader /\ Put) => UNCHANGED <<kept, dropped, Handled>>
         /\ MonitorReader /\ Put => Handled' = Handled + 1
<1> USE DEF readerVars
<1>1. Len(kept) \in Nat /\ dropped \in Nat /\ hand \in Nat
  BY LenProperties DEF MonitorDataOK
<1>2. ASSUME ~(MonitorReader /\ Put) PROVE UNCHANGED <<kept, dropped>>
  <2>1. CASE MonitorReader /\ ~Put
    BY <2>1, Zenon DEF MonitorReader, ReaderStep, Transfer, Check, ReadNothing,
            ReadData, ReadFails, ReadGivesUp, Reset, Disconnected, SetError, SetOnError
  <2>2. CASE \/ MonitorSetupFails \/ MonitorStart \/ MonitorLoop \/ MonitorGet
             \/ MonitorGetNothing \/ NotDue \/ Report \/ ReportFails
    BY <2>2, Zenon DEF MonitorSetupFails, MonitorStart, MonitorLoop, MonitorGet,
            MonitorGetNothing, NotDue, Report, ReportFails
  <2>3. CASE \/ MonitorHalt \/ MonitorJoin \/ MonitorVerdict \/ ClockTick
             \/ MonitorSignal \/ UNCHANGED monVars
    BY <2>3, Zenon DEF MonitorHalt, MonitorJoin, MonitorVerdict, ClockTick,
            MonitorSignal, monVars
  <2>4. QED
    BY <1>2, <2>1, <2>2, <2>3 DEF MonitorNext, MonitorStep
<1>3. ASSUME Put PROVE Handled' = Handled + 1
  <2>1. \/ kept' = Append(kept, hand) /\ dropped' = dropped
        \/ kept' = kept /\ dropped' = dropped + 1
    BY <1>3, Zenon DEF Put
  <2>2. Len(Append(kept, hand)) = Len(kept) + 1
    BY <1>1, AppendProperties DEF MonitorDataOK
  <2>3. QED
    BY <1>1, <2>1, <2>2 DEF Handled
<1>4. QED
  BY <1>1, <1>2, <1>3 DEF Handled

LEMMA NumberedStep ==
  ASSUME MonitorDataOK, Numbered, Ending, [MonitorNext]_monVars
  PROVE  Numbered'
<1> USE DEF readerVars
<1>1. /\ Handled \in Nat /\ nread \in Nat /\ hand \in Nat
      /\ rpc \in ReaderPhases
  BY HandledStep, ReaderAssumption DEF MonitorDataOK
<1>2. ASSUME MonitorReader, ~Put PROVE Handled' = Handled
  BY <1>2, HandledStep
<1>3. ASSUME MonitorReader, Put PROVE Handled' = Handled + 1
  BY <1>3, HandledStep
<1>4. CASE MonitorReader
  <2>1. CASE ~Put /\ (Check \/ ReadNothing \/ Reset)
    BY <1>1, <1>2, <1>4, <2>1 DEF Check, ReadNothing, Reset, Numbered
  <2>2. CASE ~Put /\ ReadData
    BY <1>1, <1>2, <1>4, <2>2 DEF ReadData, Numbered
  <2>3. CASE ~Put /\ ReadFails
    BY <1>1, <1>2, <1>4, <2>3 DEF ReadFails, Numbered
  <2>4. CASE ~Put /\ (ReadGivesUp \/ Disconnected \/ SetError \/ SetOnError)
    BY <1>1, <1>2, <1>4, <2>4 DEF ReadGivesUp, Disconnected, SetError, SetOnError, Numbered
  <2>5. CASE Put
    BY <1>1, <1>3, <1>4, <2>5 DEF Put, Numbered
  <2>6. QED
    BY <1>4, <2>1, <2>2, <2>3, <2>4, <2>5 DEF MonitorReader, ReaderStep, Transfer
<1>5. CASE MonitorStart
  <2>1. Handled' = Handled
    BY <1>5 DEF MonitorStart, Handled
  <2>2. QED
    BY <1>1, <1>5, <2>1 DEF MonitorStart, Numbered, Ending
<1>6. CASE \/ MonitorSetupFails \/ MonitorLoop \/ MonitorGet \/ MonitorGetNothing
           \/ NotDue \/ Report \/ ReportFails \/ MonitorHalt \/ MonitorJoin
           \/ MonitorVerdict \/ ClockTick \/ MonitorSignal \/ UNCHANGED monVars
  <2>1. UNCHANGED <<rpc, hand, nread, kept, dropped>>
    BY <1>6 DEF MonitorSetupFails, MonitorLoop, MonitorGet, MonitorGetNothing,
                NotDue, Report, ReportFails, MonitorHalt, MonitorJoin,
                MonitorVerdict, ClockTick, MonitorSignal, monVars
  <2>2. QED
    BY <2>1 DEF Numbered, Handled
<1>7. QED
  BY <1>4, <1>5, <1>6 DEF MonitorNext, MonitorStep

LEMMA LostByErrorStep ==
  ASSUME Numbered, LostByError, Ending, MonitorDataOK, [MonitorNext]_monVars
  PROVE  LostByError'
<1> USE DEF readerVars
<1>1. CASE MonitorReader /\ Check
  <2>1. nread = Handled /\ nread' = nread /\ UNCHANGED <<kept, dropped>>
    BY <1>1 DEF Check, Numbered
  <2>2. QED
    BY <2>1 DEF LostByError, Handled
<1>2. CASE MonitorReader /\ SetError
  BY <1>2, Zenon DEF SetError, LostByError
<1>3. CASE MonitorReader /\ SetOnError
  BY <1>3, Zenon DEF SetOnError, LostByError, Handled
<1>4. CASE \/ MonitorReader /\ (Transfer \/ Reset \/ Disconnected \/ Put)
           \/ MonitorStart
  <2>1. rpc' \notin {"report", "dead"}
    BY <1>4 DEF Transfer, ReadNothing, ReadData, ReadFails, ReadGivesUp, Reset,
                Disconnected, Put, MonitorStart
  <2>2. QED
    BY <2>1, Zenon DEF LostByError
<1>5. CASE \/ MonitorSetupFails \/ MonitorLoop \/ MonitorGet \/ MonitorGetNothing
           \/ NotDue \/ Report \/ ReportFails \/ MonitorHalt \/ MonitorJoin
           \/ MonitorVerdict \/ ClockTick \/ MonitorSignal \/ UNCHANGED monVars
  <2>1. UNCHANGED <<rpc, nread, kept, dropped, error>>
    <3>1. CASE \/ MonitorSetupFails \/ MonitorLoop \/ MonitorGet
               \/ MonitorGetNothing \/ NotDue \/ Report \/ ReportFails
      BY <3>1, Zenon DEF MonitorSetupFails, MonitorLoop, MonitorGet,
              MonitorGetNothing, NotDue, Report, ReportFails
    <3>2. CASE \/ MonitorHalt \/ MonitorJoin \/ MonitorVerdict \/ ClockTick
               \/ MonitorSignal \/ UNCHANGED monVars
      BY <3>2, Zenon DEF MonitorHalt, MonitorJoin, MonitorVerdict, ClockTick,
              MonitorSignal, monVars
    <3>3. QED
      BY <1>5, <3>1, <3>2
  <2>2. QED
    BY <2>1, Zenon DEF LostByError, Handled
<1>6. QED
  BY <1>1, <1>2, <1>3, <1>4, <1>5, Zenon DEF MonitorNext, MonitorStep, MonitorReader, ReaderStep

LEMMA CountedStep ==
  ASSUME MonitorDataOK, Counted, [MonitorNext]_monVars
  PROVE  Counted'
<1> USE DEF readerVars
<1>1. Len(queue) \in Nat /\ Len(kept) \in Nat /\ total.packets \in Nat
  BY LenProperties DEF MonitorDataOK, Counts
<1>2. CASE MonitorGet
  <2>1. Len(queue') = Len(queue) - 1 /\ kept' = kept
    BY <1>2, HeadTailProperties DEF MonitorGet, MonitorDataOK
  <2>2. total'.packets = total.packets + 1
    BY <1>2 DEF MonitorGet
  <2>3. QED
    BY <1>1, <2>1, <2>2 DEF Counted
<1>3. CASE MonitorReader /\ Put
  <2>1. total' = total
    BY <1>3 DEF MonitorReader, monitorVars
  <2>2. CASE kept' = kept /\ queue' = queue
    BY <2>1, <2>2 DEF Counted
  <2>3. CASE kept' = Append(kept, hand) /\ queue' = Append(queue, hand)
    <3>1. Len(kept') = Len(kept) + 1 /\ Len(queue') = Len(queue) + 1
      BY <2>3, AppendProperties DEF MonitorDataOK
    <3>2. QED
      BY <1>1, <2>1, <3>1 DEF Counted
  <2>4. QED
    BY <1>3, <2>2, <2>3, Zenon DEF Put
<1>4. CASE \/ MonitorReader /\ ~Put
           \/ MonitorSetupFails \/ MonitorStart \/ MonitorLoop \/ MonitorGetNothing
           \/ NotDue \/ Report \/ ReportFails \/ MonitorHalt \/ MonitorJoin
           \/ MonitorVerdict \/ ClockTick \/ MonitorSignal \/ UNCHANGED monVars
  <2>1. UNCHANGED <<queue, kept, total>>
    <3>1. CASE MonitorReader /\ ~Put
      BY <3>1, Zenon DEF MonitorReader, monitorVars, ReaderStep, Transfer, Check, ReadNothing,
              ReadData, ReadFails, ReadGivesUp, Reset, Disconnected, SetError, SetOnError
    <3>2. CASE \/ MonitorSetupFails \/ MonitorStart \/ MonitorLoop \/ MonitorGetNothing
               \/ NotDue \/ Report \/ ReportFails
      BY <3>2, Zenon DEF MonitorSetupFails, MonitorStart, MonitorLoop, MonitorGetNothing,
              NotDue, Report, ReportFails
    <3>3. CASE \/ MonitorHalt \/ MonitorJoin \/ MonitorVerdict \/ ClockTick
               \/ MonitorSignal \/ UNCHANGED monVars
      BY <3>3, Zenon DEF MonitorHalt, MonitorJoin, MonitorVerdict, ClockTick,
              MonitorSignal, monVars, monitorVars
    <3>4. QED
      BY <1>4, <3>1, <3>2, <3>3
  <2>2. QED
    BY <2>1 DEF Counted
<1>5. QED
  BY <1>2, <1>3, <1>4 DEF MonitorNext, MonitorStep

-----------------------------------------------------------------------------
(* What monitor promises                                                    *)

MonitorInv ==
    /\ MonitorFlagsOK
    /\ MonitorDataOK
    /\ Balanced
    /\ Numbered
    /\ Ending
    /\ LostByError
    /\ Counted

LEMMA MonitorInvInit == MonitorInit => MonitorInv
<1> SUFFICES ASSUME MonitorInit PROVE MonitorInv
  OBVIOUS
<1> USE ReaderAssumption, MonitorAssumption
    DEF MonitorInit, ReaderInit, NoCounts
<1>1. MonitorFlagsOK
  BY Zenon DEF MonitorFlagsOK
<1>2. MonitorDataOK
  BY DEF MonitorDataOK, ReaderPhases, MonitorPhases, Counts
<1>3. Balanced /\ Ending /\ LostByError
  BY DEF Balanced, Ending, LostByError
<1>4. Numbered /\ Counted
  BY DEF Numbered, Handled, Counted
<1>5. QED
  BY <1>1, <1>2, <1>3, <1>4 DEF MonitorInv

LEMMA MonitorInvStep == MonitorInv /\ [MonitorNext]_monVars => MonitorInv'
BY MonitorFlagsStep, MonitorDataStep, NumberedStep, EndingStep, LostByErrorStep, CountedStep
DEF MonitorInv

-----------------------------------------------------------------------------
(* One run of recdyud-diag                                                  *)

\* Each subcommand is a run of its own part.
LEMMA Subcommands ==
    /\ Init => command \in {"monitor", "scan"} /\ MonitorInit /\ ScanInit
    /\ [Next]_vars => UNCHANGED command /\ [MonitorNext]_monVars /\ [ScanNext]_scanVars
<1>1. Init => command \in {"monitor", "scan"} /\ MonitorInit /\ ScanInit
  BY DEF Init
<1>2. ASSUME [Next]_vars
      PROVE  UNCHANGED command /\ [MonitorNext]_monVars /\ [ScanNext]_scanVars
  <2>1. CASE command = "monitor" /\ MonitorNext /\ UNCHANGED <<command, scanVars>>
    BY <2>1, Zenon
  <2>2. CASE command = "scan" /\ ScanNext /\ UNCHANGED <<command, readerVars, monitorVars>>
    BY <2>2, Zenon DEF monVars
  <2>3. CASE UNCHANGED vars
    BY <2>3, Zenon DEF vars, monVars
  <2>4. QED
    BY <1>2, <2>1, <2>2, <2>3, Zenon DEF Next
<1>3. QED
  BY <1>1, <1>2

\* The scan of recdyud-diag is a scan: what is proved of one holds of it.
THEOREM DiagnosticsScans == Spec => ScanSpec
BY Subcommands, PTL DEF Spec, ScanSpec

\* Every variable of recdyud-diag has its type; above all, what monitor counts
\* and reports is never negative, and its queue and the FIFO hold chunks only.
THEOREM DiagnosticsTyped == Spec => []TypeOK
<1> DEFINE I == command \in {"monitor", "scan"} /\ MonitorInv /\ ScanBase
<1>1. Init => I
  BY Subcommands, MonitorInvInit, ScanTypes
<1>2. I /\ [Next]_vars => I'
  BY Subcommands, MonitorInvStep, ScanTypesStep
<1>3. I => TypeOK
  BY MonitorTypeParts, Zenon DEF MonitorInv, ScanBase, TypeOK
<1>4. QED
  BY <1>1, <1>2, <1>3, PTL DEF Spec

\* The reports of monitor, and what it has counted since, add up to what it has
\* taken from the queue of its reader; this, what waits in the queue and what the
\* full queue has dropped add up to what the tuner has delivered, but for a chunk
\* in the hand of the reader or one lost with the failure that ends it: for every
\* length of the queue, every interval, any number of continuity errors and
\* however many reads and reports fail.
THEOREM MonitorReportsAddUp == Spec => []ReportsAddUp
<1>1. Init => MonitorInv
  BY Subcommands, MonitorInvInit
<1>2. MonitorInv /\ [Next]_vars => MonitorInv'
  BY Subcommands, MonitorInvStep
<1>3. ASSUME MonitorInv PROVE ReportsAddUp
  <2>1. /\ total \in Counts /\ prev \in Counts /\ reported = prev /\ dropped \in Nat
        /\ nread \in Nat /\ Len(kept) \in Nat /\ Len(queue) \in Nat /\ total.packets \in Nat
    BY <1>3, ReaderAssumption, LenProperties DEF MonitorInv, MonitorDataOK, Balanced, Counts
  <2>2. Added(reported, Since(total, prev)) = total
    BY <2>1 DEF Added, Since, Counts
  <2>3. Outstanding = nread - Handled /\ Handled \in Nat
    BY <1>3, <2>1 DEF MonitorInv, Counted, Outstanding, Handled
  <2>4. /\ hand # 0 => nread = Handled + 1
        /\ hand = 0 => \/ nread = Handled
                       \/ nread = Handled + 1 /\ (rpc \in {"fail", "report", "dead"})
    <3>1. rpc \in ReaderPhases /\ hand \in Nat /\ Numbered
      BY <1>3 DEF MonitorInv, MonitorDataOK
    <3>2. QED
      BY <2>1, <2>3, <3>1 DEF Numbered, ReaderPhases
  <2>5. rpc \in {"report", "dead"} => nread = Handled \/ error
    BY <1>3, Zenon DEF MonitorInv, LostByError
  <2>6. (nread = Handled => Outstanding = 0) /\ (nread = Handled + 1 => Outstanding = 1)
    BY <2>1, <2>3
  <2>7. hand = 0 => Outstanding = 0 \/ (Outstanding = 1 /\ (rpc = "fail" \/ error))
    BY <2>4, <2>5, <2>6, Zenon
  <2>8. hand # 0 => Outstanding = 1
    BY <2>4, <2>6, Zenon
  <2>9. QED
    BY <2>2, <2>7, <2>8, Zenon DEF ReportsAddUp
<1>4. QED
  BY <1>1, <1>2, <1>3, PTL DEF Spec

\* monitor closes its tuner after its reader has ended, and its exit code shows
\* the failure of the reader or of a command.
THEOREM MonitorInOrder == Spec => []MonitorEndsInOrder
<1>1. Init => MonitorInv
  BY Subcommands, MonitorInvInit
<1>2. MonitorInv /\ [Next]_vars => MonitorInv'
  BY Subcommands, MonitorInvStep
<1>3. MonitorInv => MonitorEndsInOrder
  BY Zenon DEF MonitorInv, Ending, MonitorEndsInOrder
<1>4. QED
  BY <1>1, <1>2, <1>3, PTL DEF Spec

=============================================================================
