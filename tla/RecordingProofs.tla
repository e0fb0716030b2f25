--------------------------- MODULE RecordingProofs ---------------------------
(***************************************************************************)
(* Proofs about Recording: the order and completeness of what is written,  *)
(* for every capacity of the queue, error limit and number of chunks.      *)
(***************************************************************************)
EXTENDS Recording, SeqLemmas, TLAPS

\* Associativity for the sequences of chunks.
LEMMA ChunksAssociative ==
  \A a, b, c \in Seq(Nat) : (a \o b) \o c = a \o (b \o c)
BY AllConcatAssociative

\* handle() moves the head of the queue behind what the pipeline holds and
\* cuts that in two.
LEMMA HandleSplits ==
  ASSUME TypeOK, NEW r, Handle(r)
  PROVE  /\ queue # <<>> /\ queue' = Tail(queue)
         /\ queue' \in Seq(Nat) /\ outb' \in Seq(Nat) /\ inside' \in Seq(Nat)
         /\ outb' \o inside' = Append(inside, Head(queue))
         /\ (outb' \o inside') \o queue' = inside \o queue
         /\ (mpc' = r /\ outb' = <<>>) \/ mpc' = "write"
<1> DEFINE all == Append(inside, Head(queue))
<1>1. queue # <<>> /\ queue' = Tail(queue)
  BY DEF Handle
<1>2. /\ all \in Seq(Nat) /\ Tail(queue) \in Seq(Nat)
      /\ all \o Tail(queue) = inside \o queue
  BY <1>1, MoveHead DEF TypeOK, ReaderTypeOK
<1>3. PICK k \in 0..Len(all) :
        /\ outb' = SubSeq(all, 1, k)
        /\ inside' = SubSeq(all, k + 1, Len(all))
        /\ mpc' = IF k = 0 THEN r ELSE "write"
  BY DEF Handle
<1> HIDE DEF all
<1>4. /\ outb' \in Seq(Nat) /\ inside' \in Seq(Nat)
      /\ outb' \o inside' = all /\ Len(outb') = k
  <2>1. all \in Seq(Nat) /\ k \in 0..Len(all)
    BY <1>2
  <2>2. /\ SubSeq(all, 1, k) \in Seq(Nat) /\ SubSeq(all, k + 1, Len(all)) \in Seq(Nat)
        /\ SubSeq(all, 1, k) \o SubSeq(all, k + 1, Len(all)) = all
        /\ Len(SubSeq(all, 1, k)) = k
    BY <2>1, SplitSeq, Zenon
  <2>3. QED
    BY <1>3, <2>2, Zenon
<1>5. k = 0 => outb' = <<>>
  BY <1>4, EmptySeq
<1>6. QED
  BY <1>1, <1>2, <1>3, <1>4, <1>5 DEF all

\* A write that fails leaves the rest of its data in the buffer.
LEMMA WriteFailsSplits ==
  ASSUME TypeOK, WriteFails
  PROVE  \E s \in Seq(Nat) :
            /\ outb' \in Seq(Nat)
            /\ written' = written \o s
            /\ s \o outb' = outb
<1>1. PICK k \in 0..(Len(outb) - 1) :
        /\ written' = written \o SubSeq(outb, 1, k)
        /\ outb' = SubSeq(outb, k + 1, Len(outb))
  BY DEF WriteFails
<1>2. outb \in Seq(Nat) /\ Len(outb) \in Nat /\ k \in 0..Len(outb)
  BY LenProperties DEF TypeOK
<1>3. QED
  BY <1>1, <1>2, SplitSeq

-----------------------------------------------------------------------------

\* The Boolean variables and the others are typed by different provers.
FlagsOK == halt \in BOOLEAN /\ error \in BOOLEAN /\ stop \in BOOLEAN /\ late \in BOOLEAN

DataOK ==
    /\ rpc \in ReaderPhases
    /\ hand \in Nat
    /\ consec \in 0..MaxErrors
    /\ queue \in Seq(Nat)
    /\ dropped \in Nat
    /\ nread \in 0..MaxReads
    /\ kept \in Seq(Nat)
    /\ mpc \in MainPhases
    /\ back \in {"loop", "drain", "final", "verdict"}
    /\ inside \in Seq(Nat)
    /\ outb \in Seq(Nat)
    /\ written \in Seq(Nat)
    /\ ret \in {"normal", "broken", "raised"}
    /\ code \in (-1)..2

LEMMA TypeParts == TypeOK <=> FlagsOK /\ DataOK
BY Zenon DEF TypeOK, ReaderTypeOK, FlagsOK, DataOK

LEMMA FlagsStep == FlagsOK /\ [Next]_vars => FlagsOK'
<1> SUFFICES ASSUME FlagsOK, [Next]_vars PROVE FlagsOK'
  OBVIOUS
<1> USE DEF FlagsOK, readerVars, mainVars
<1>1. ASSUME ReaderStep, UNCHANGED mainVars PROVE FlagsOK'
  BY <1>1, Zenon DEF ReaderStep, Transfer, Check, ReadNothing, ReadData, ReadFails,
              ReadGivesUp, Reset, Disconnected, Put, SetError, SetOnError
<1>2. CASE MainStep
  BY <1>2, Zenon DEF MainStep, SetupFails, Purge, StartReader, LoopTop, Get, GetNothing,
              Handle, Write, WriteFails, Halt, Join, Drain, DrainEnds, Finish, Verdict
<1>3. CASE Signal \/ Deadline
  BY <1>3, Zenon DEF Signal, Deadline
<1>4. CASE UNCHANGED vars
  BY <1>4, Zenon DEF vars
<1>5. QED
  BY <1>1, <1>2, <1>3, <1>4 DEF Next

LEMMA DataStep == TypeOK /\ [Next]_vars => DataOK'
<1> SUFFICES ASSUME TypeOK, [Next]_vars PROVE DataOK'
  OBVIOUS
<1>0. DataOK
  BY TypeParts
<1> USE ReaderAssumption, <1>0 DEF DataOK, ReaderPhases, MainPhases, readerVars, mainVars
<1>1. ASSUME Check \/ ReadNothing \/ Reset \/ Disconnected
               \/ SetError \/ SetOnError,
             UNCHANGED mainVars
      PROVE  DataOK'
  BY <1>1 DEF Check, ReadNothing, Reset, Disconnected, SetError, SetOnError
<1>2. ASSUME ReadData \/ ReadFails \/ ReadGivesUp, UNCHANGED mainVars
      PROVE  DataOK'
  BY <1>2 DEF ReadData, ReadFails, ReadGivesUp
<1>3. ASSUME Put, UNCHANGED mainVars PROVE DataOK'
  <2>1. queue' \in Seq(Nat) /\ kept' \in Seq(Nat)
    <3>1. Append(queue, hand) \in Seq(Nat) /\ Append(kept, hand) \in Seq(Nat)
      BY AppendProperties
    <3>2. QED
      BY <1>3, <3>1, Zenon DEF Put
  <2>2. dropped' \in Nat /\ hand' = 0 /\ rpc' = "check"
    BY <1>3 DEF Put
  <2>3. /\ UNCHANGED <<consec, nread>>
        /\ UNCHANGED <<mpc, back, inside, outb, written, ret, code>>
    BY <1>3 DEF Put
  <2>4. QED
    BY <2>1, <2>2, <2>3
<1>4. CASE SetupFails
  BY <1>4 DEF SetupFails
<1>5. CASE Purge
  BY <1>5 DEF Purge
<1>6. CASE StartReader \/ LoopTop \/ GetNothing \/ Halt \/ DrainEnds \/ Join
  <2>1. CASE StartReader
    BY <2>1 DEF StartReader
  <2>2. CASE LoopTop
    BY <2>2 DEF LoopTop
  <2>3. CASE GetNothing
    BY <2>3 DEF GetNothing
  <2>4. CASE Halt
    BY <2>4 DEF Halt
  <2>5. CASE DrainEnds
    BY <2>5 DEF DrainEnds
  <2>6. CASE Join
    BY <2>6 DEF Join
  <2>7. QED
    BY <1>6, <2>1, <2>2, <2>3, <2>4, <2>5, <2>6
<1>7. CASE Verdict
  BY <1>7 DEF Verdict
<1>8. ASSUME NEW r \in {"loop", "drain"}, Handle(r) PROVE DataOK'
  <2>1. /\ queue' \in Seq(Nat) /\ outb' \in Seq(Nat) /\ inside' \in Seq(Nat)
        /\ mpc' \in {r, "write"}
    BY <1>8, HandleSplits
  <2>2. QED
    BY <1>8, <2>1 DEF Handle
<1>9. CASE Write
  <2>1. written' \in Seq(Nat)
    BY <1>9, ConcatProperties DEF Write
  <2>2. QED
    BY <1>9, <2>1 DEF Write
<1>10. CASE WriteFails
  <2>1. outb' \in Seq(Nat) /\ written' \in Seq(Nat)
    <3>1. PICK t \in Seq(Nat) : outb' \in Seq(Nat) /\ written' = written \o t
      BY <1>10, WriteFailsSplits
    <3>2. QED
      BY <3>1, ConcatProperties
  <2>2. QED
    BY <1>10, <2>1 DEF WriteFails
<1>11. CASE Finish
  BY <1>11 DEF Finish
<1>12. CASE Signal \/ Deadline
  <2>1. CASE Signal
    BY <2>1 DEF Signal
  <2>2. CASE Deadline
    BY <2>2 DEF Deadline
  <2>3. QED
    BY <1>12, <2>1, <2>2
<1>13. CASE UNCHANGED vars
  BY <1>13 DEF vars
<1>14. QED
  BY <1>1, <1>2, <1>3, <1>4, <1>8, <1>9, <1>10, <1>11, <1>12, <1>13,
     <1>6, <1>7, <1>5
  DEF Next, ReaderStep, Transfer, MainStep, Get, Drain
\* Every variable keeps its type; in particular the counter of consecutive
\* errors never passes TS_MAX_CONSECUTIVE_ERRORS.
THEOREM RecordingTyped == Spec => []TypeOK
<1>1. Init => FlagsOK
  BY Zenon DEF Init, ReaderInit, FlagsOK
<1>2. Init => DataOK
  BY ReaderAssumption DEF Init, ReaderInit, DataOK, ReaderPhases, MainPhases
<1>3. QED
  BY <1>1, <1>2, TypeParts, FlagsStep, DataStep, PTL DEF Spec

-----------------------------------------------------------------------------
(* The order of the chunks                                                  *)

\* The phases in which no output is pending.
Flowing ==
    \/ mpc \in {"setup", "start", "loop", "get", "halt", "drain", "finish"}
    \/ mpc = "join" /\ back = "drain"

OrderInv ==
    /\ InOrder
    /\ Flowing => outb = <<>>
    /\ mpc = "write" => back \in {"loop", "drain", "final"}
    /\ mpc = "join" => back \in {"drain", "verdict"}

LEMMA HandleKeepsOrder ==
  ASSUME TypeOK, InOrder, outb = <<>>, NEW r, Handle(r)
  PROVE  InOrder'
<1>1. /\ written \in Seq(Nat) /\ inside \in Seq(Nat) /\ queue \in Seq(Nat)
  BY DEF TypeOK, ReaderTypeOK
<1>2. queue' \in Seq(Nat) /\ outb' \in Seq(Nat) /\ inside' \in Seq(Nat)
  BY HandleSplits
<1>3. (outb' \o inside') \o queue' = inside \o queue
  BY HandleSplits
<1>4. kept' = kept /\ written' = written
  BY DEF Handle
<1>5. kept = written \o (inside \o queue)
  <2>1. (written \o inside) \o queue = written \o (inside \o queue)
    BY <1>1, ChunksAssociative, Zenon
  <2>2. written \o <<>> = written
    BY <1>1, ConcatEmptySeq
  <2>3. QED
    BY <2>1, <2>2 DEF InOrder
<1>6. ((written \o outb') \o inside') \o queue' = written \o ((outb' \o inside') \o queue')
  <2>1. PICK o \in Seq(Nat) : o = outb'
    BY <1>2
  <2>2. PICK i \in Seq(Nat) : i = inside'
    BY <1>2
  <2>3. PICK q \in Seq(Nat) : q = queue'
    BY <1>2
  <2>4. PICK x \in Seq(Nat) : x = o \o i
    BY <2>1, <2>2, ConcatProperties
  <2>5. (written \o o) \o i = written \o (o \o i)
    <3>1. written \in Seq(Nat) /\ o \in Seq(Nat) /\ i \in Seq(Nat)
      BY <1>1
    <3>2. QED
      BY <3>1, ChunksAssociative, ZenonT(60)
  <2>6. (written \o x) \o q = written \o (x \o q)
    <3>1. written \in Seq(Nat) /\ x \in Seq(Nat) /\ q \in Seq(Nat)
      BY <1>1
    <3>2. QED
      BY <3>1, ChunksAssociative, ZenonT(60)
  <2>7. QED
    BY <2>1, <2>2, <2>3, <2>4, <2>5, <2>6, Zenon
<1>7. QED
  BY <1>3, <1>4, <1>5, <1>6, Zenon DEF InOrder

LEMMA PutKeepsOrder ==
  ASSUME TypeOK, InOrder, Put, UNCHANGED mainVars
  PROVE  InOrder'
<1> DEFINE before == (written \o outb) \o inside
<1>1. before \in Seq(Nat) /\ queue \in Seq(Nat) /\ hand \in Nat
  BY ConcatProperties DEF TypeOK, ReaderTypeOK
<1>2. before' = before
  BY DEF mainVars
<1>3. kept = before \o queue
  BY DEF InOrder
<1> HIDE DEF before
<1>4. CASE queue' = Append(queue, hand) /\ kept' = Append(kept, hand)
  <2>1. before \o Append(queue, hand) = Append(before \o queue, hand)
    BY <1>1, ConcatAppend
  <2>2. kept' = before' \o queue'
    BY <1>2, <1>3, <1>4, <2>1, Zenon
  <2>3. QED
    BY <2>2, Zenon DEF InOrder, before
<1>5. CASE UNCHANGED <<queue, kept>>
  <2>1. kept' = before' \o queue'
    BY <1>2, <1>3, <1>5, Zenon
  <2>2. QED
    BY <2>1, Zenon DEF InOrder, before
<1>6. QED
  BY <1>4, <1>5 DEF Put

LEMMA WriteKeepsOrder ==
  ASSUME TypeOK, InOrder, Write \/ WriteFails \/ Finish, Flowing => outb = <<>>
  PROVE  InOrder'
<1> USE DEF readerVars
<1>1. /\ written \in Seq(Nat) /\ inside \in Seq(Nat) /\ queue \in Seq(Nat)
      /\ outb \in Seq(Nat) /\ kept = ((written \o outb) \o inside) \o queue
  BY DEF TypeOK, ReaderTypeOK, InOrder
<1>2. CASE Write
  <2>1. written' = written \o outb /\ outb' = <<>> /\ written' \in Seq(Nat)
    BY <1>1, <1>2, ConcatProperties DEF Write
  <2>2. written' \o outb' = written \o outb
    BY <2>1, ConcatEmptySeq
  <2>3. QED
    BY <1>1, <1>2, <2>2 DEF Write, InOrder
<1>3. CASE WriteFails
  <2>1. PICK t \in Seq(Nat) :
          outb' \in Seq(Nat) /\ written' = written \o t /\ t \o outb' = outb
    BY <1>3, WriteFailsSplits
  <2>2. written' \o outb' = written \o outb
    <3>1. written \in Seq(Nat) /\ t \in Seq(Nat) /\ outb' \in Seq(Nat)
      BY <1>1, <2>1
    <3>2. (written \o t) \o outb' = written \o (t \o outb')
      BY <3>1, ChunksAssociative, ZenonT(60)
    <3>3. QED
      BY <2>1, <3>2, Zenon
  <2>3. QED
    BY <1>1, <1>3, <2>2 DEF WriteFails, InOrder
<1>4. CASE Finish
  <2>1. outb = <<>> /\ outb' = inside /\ inside' = <<>> /\ written' = written
    BY <1>4 DEF Finish, Flowing
  <2>2. (written' \o outb') \o inside' = written \o inside
    BY <1>1, <2>1, ConcatProperties, ConcatEmptySeq
  <2>3. (written \o outb) \o inside = written \o inside
    BY <1>1, <2>1, ConcatEmptySeq
  <2>4. QED
    BY <1>1, <1>4, <2>2, <2>3 DEF Finish, InOrder
<1>5. QED
  BY <1>2, <1>3, <1>4

LEMMA OrderStep == TypeOK /\ OrderInv /\ [Next]_vars => OrderInv'
<1> SUFFICES ASSUME TypeOK, OrderInv, [Next]_vars PROVE OrderInv'
  OBVIOUS
<1> USE DEF OrderInv, Flowing, readerVars, mainVars
<1>1. ASSUME Put, UNCHANGED mainVars PROVE OrderInv'
  BY <1>1, PutKeepsOrder
<1>2. ASSUME Check \/ Transfer \/ Reset \/ Disconnected \/ SetError \/ SetOnError,
             UNCHANGED mainVars
      PROVE  OrderInv'
  BY <1>2 DEF Check, Transfer, ReadNothing, ReadData, ReadFails, ReadGivesUp,
              Reset, Disconnected, SetError, SetOnError, InOrder
<1>3. CASE SetupFails \/ Purge \/ StartReader
  BY <1>3 DEF SetupFails, Purge, StartReader, InOrder
<1>4. CASE LoopTop \/ GetNothing \/ DrainEnds
  BY <1>4 DEF LoopTop, GetNothing, DrainEnds, InOrder
<1>5. CASE Halt \/ Join \/ Verdict
  BY <1>5 DEF Halt, Join, Verdict, InOrder
<1>6. ASSUME NEW r \in {"loop", "drain"}, Handle(r), mpc \in {"get", "drain"}
      PROVE  OrderInv'
  <2>1. InOrder'
    BY <1>6, HandleKeepsOrder
  <2>2. back' = r /\ ((mpc' = r /\ outb' = <<>>) \/ mpc' = "write")
    BY <1>6, HandleSplits DEF Handle
  <2>3. QED
    BY <2>1, <2>2
<1>7. CASE Write \/ WriteFails \/ Finish
  <2>1. InOrder'
    BY <1>7, WriteKeepsOrder
  <2>2. QED
    BY <1>7, <2>1 DEF Write, WriteFails, Finish
<1>8. CASE Signal \/ Deadline
  BY <1>8 DEF Signal, Deadline, InOrder
<1>9. CASE UNCHANGED vars
  BY <1>9 DEF vars, InOrder
<1>10. QED
  BY <1>1, <1>2, <1>3, <1>4, <1>5, <1>6, <1>7, <1>8, <1>9
  DEF Next, ReaderStep, MainStep, Get, Drain
LEMMA InitOrder == Init => OrderInv
<1> SUFFICES ASSUME Init PROVE OrderInv
  OBVIOUS
<1>1. ((<<>> \o <<>>) \o <<>>) \o <<>> = <<>>
  OBVIOUS
<1>2. QED
  BY <1>1 DEF Init, ReaderInit, OrderInv, InOrder

\* Chunks reach the output in the order in which they were read, none is lost
\* or doubled between the queue and the output, whatever the reader, the
\* loop, the drain and a failing write do.
THEOREM RecordingInOrder == Spec => []InOrder
<1>1. OrderInv => InOrder
  BY DEF OrderInv
<1>2. QED
  BY <1>1, InitOrder, OrderStep, RecordingTyped, PTL DEF Spec
-----------------------------------------------------------------------------
(* The end of a recording, when every transfer and reset of the reader ends *)
(* within the two seconds that halt() waits.                                *)

\* The main thread has joined the reader for good.
AfterJoin ==
    \/ mpc \in {"drain", "finish", "verdict"}
    \/ mpc = "write" /\ back \in {"drain", "final"}
    \/ ret = "normal" /\ (mpc = "final" \/ (mpc = "join" /\ back = "verdict"))

PhaseInv ==
    /\ mpc \in {"setup", "start"} => rpc = "new"
    /\ rpc = "new" => mpc \in {"setup", "start", "closed"} /\ ret = "normal"
    /\ AfterJoin => rpc = "dead"
    /\ mpc = "closed" => rpc \in {"new", "dead"}
    /\ ret # "normal" => \/ mpc \in {"final", "verdict", "closed"}
                         \/ mpc = "join" /\ back = "verdict"

LEMMA PhaseStep ==
  ASSUME ~SlowReset, TypeOK, OrderInv, PhaseInv, [Next]_vars
  PROVE  PhaseInv'
<1> USE DEF PhaseInv, AfterJoin, readerVars, mainVars
<1>1. ASSUME Check \/ Transfer \/ Reset \/ Disconnected \/ Put
               \/ SetError \/ SetOnError,
             UNCHANGED mainVars
      PROVE  PhaseInv'
  <2>1. rpc \notin {"new", "dead"} /\ rpc' # "new"
    BY <1>1 DEF Check, Transfer, ReadNothing, ReadData, ReadFails, ReadGivesUp,
                Reset, Disconnected, Put, SetError, SetOnError
  <2>2. QED
    BY <1>1, <2>1
<1>2. CASE SetupFails \/ Purge \/ StartReader
  BY <1>2 DEF SetupFails, Purge, StartReader
<1>3. CASE LoopTop \/ GetNothing \/ DrainEnds
  BY <1>3 DEF LoopTop, GetNothing, DrainEnds
<1>4. CASE Halt
  <2>1. /\ mpc \in {"halt", "final"} /\ mpc' = "join" /\ rpc' = rpc /\ ret' = ret
        /\ back' = IF mpc = "halt" THEN "drain" ELSE "verdict"
    BY <1>4 DEF Halt
  <2>2. QED
    BY <2>1
<1>5. CASE Join
  BY <1>5 DEF Join, OrderInv
<1>6. CASE Verdict
  BY <1>6 DEF Verdict
<1>7. ASSUME NEW r \in {"loop", "drain"}, Handle(r),
             mpc = (IF r = "loop" THEN "get" ELSE "drain")
      PROVE  PhaseInv'
  <2>1. back' = r /\ mpc' \in {r, "write"} /\ rpc' = rpc /\ ret' = ret
    BY <1>7, HandleSplits DEF Handle
  <2>2. QED
    BY <1>7, <2>1
<1>8. CASE Write
  BY <1>8 DEF Write, OrderInv
<1>9. CASE WriteFails
  <2>1. mpc' = "final" /\ ret' # "normal" /\ rpc' = rpc /\ mpc = "write"
    BY <1>9 DEF WriteFails
  <2>2. QED
    BY <2>1
<1>10. CASE Finish
  BY <1>10 DEF Finish
<1>11. CASE Signal \/ Deadline
  BY <1>11 DEF Signal, Deadline
<1>12. CASE UNCHANGED vars
  BY <1>12 DEF vars
<1>13. QED
  BY <1>1, <1>2, <1>3, <1>4, <1>5, <1>6, <1>7, <1>8, <1>9, <1>10, <1>11, <1>12
  DEF Next, ReaderStep, MainStep, Get, Drain

\* The descriptor of the tuner is closed only after the reader thread, which
\* uses it, has ended: on the regular path, after a failing write, and when
\* the recording ends before the reader is started.
THEOREM RecordingReleasedWithoutReader ==
  ASSUME ~SlowReset
  PROVE  Spec => []ReleasedWithoutReader
<1>1. Init => PhaseInv
  BY DEF Init, ReaderInit, PhaseInv, AfterJoin
<1>2. Init => OrderInv
  BY InitOrder
<1>3. TypeOK /\ OrderInv /\ PhaseInv /\ [Next]_vars => (OrderInv /\ PhaseInv)'
  BY PhaseStep, OrderStep
<1>4. PhaseInv => ReleasedWithoutReader
  BY DEF PhaseInv, ReleasedWithoutReader
<1>5. QED
  BY <1>1, <1>2, <1>3, <1>4, RecordingTyped, PTL DEF Spec
\* Before the reader is started nothing has been read, and from the end of
\* the drain on nothing is left behind it.
EmptyInv ==
    /\ rpc = "new" => queue = <<>> /\ inside = <<>> /\ outb = <<>>
    /\ mpc = "finish" => queue = <<>>
    /\ mpc = "write" /\ back = "final" => queue = <<>> /\ inside = <<>>
    /\ ret = "normal" /\ (mpc \in {"final", "verdict", "closed"} \/ (mpc = "join" /\ back = "verdict"))
          => queue = <<>> /\ inside = <<>> /\ outb = <<>>

LEMMA EmptyStep ==
  ASSUME ~SlowReset, TypeOK, OrderInv, PhaseInv, EmptyInv, [Next]_vars
  PROVE  EmptyInv'
<1> USE DEF EmptyInv, readerVars, mainVars
<1>1. ASSUME Check \/ Transfer \/ Reset \/ Disconnected \/ Put
               \/ SetError \/ SetOnError,
             UNCHANGED mainVars
      PROVE  EmptyInv'
  <2>1. rpc \notin {"new", "dead"} /\ rpc' # "new"
    BY <1>1 DEF Check, Transfer, ReadNothing, ReadData, ReadFails, ReadGivesUp,
                Reset, Disconnected, Put, SetError, SetOnError
  <2>2. ~AfterJoin /\ mpc # "closed"
    BY <2>1 DEF PhaseInv
  <2>3. QED
    BY <1>1, <2>1, <2>2 DEF AfterJoin
<1>2. CASE SetupFails \/ Purge \/ StartReader
  BY <1>2 DEF SetupFails, Purge, StartReader, PhaseInv
<1>3. CASE LoopTop \/ GetNothing \/ DrainEnds
  BY <1>3 DEF LoopTop, GetNothing, DrainEnds
<1>4. CASE Halt \/ Join
  BY <1>4 DEF Halt, Join, OrderInv
<1>5. CASE Verdict
  BY <1>5 DEF Verdict
<1>6. ASSUME NEW r \in {"loop", "drain"}, Handle(r), mpc \in {"get", "drain"}
      PROVE  EmptyInv'
  <2>1. back' = r /\ mpc' \in {r, "write"} /\ rpc' = rpc
    BY <1>6, HandleSplits DEF Handle
  <2>2. rpc # "new"
    BY <1>6 DEF PhaseInv
  <2>3. QED
    BY <1>6, <2>1, <2>2
<1>7. CASE Write
  <2>1. rpc # "new" /\ back \in {"loop", "drain", "final"}
    BY <1>7 DEF Write, PhaseInv, OrderInv
  <2>2. QED
    BY <1>7, <2>1 DEF Write
<1>8. CASE WriteFails
  <2>1. mpc = "write" /\ mpc' = "final" /\ ret' # "normal" /\ rpc' = rpc
    BY <1>8 DEF WriteFails
  <2>2. rpc # "new"
    BY <2>1 DEF PhaseInv
  <2>3. QED
    BY <2>1, <2>2
<1>9. CASE Finish
  <2>1. outb = <<>> /\ rpc # "new" /\ queue = <<>>
    BY <1>9 DEF Finish, OrderInv, Flowing, PhaseInv
  <2>2. QED
    BY <1>9, <2>1 DEF Finish
<1>10. CASE Signal \/ Deadline
  BY <1>10 DEF Signal, Deadline
<1>11. CASE UNCHANGED vars
  BY <1>11 DEF vars
<1>12. QED
  BY <1>1, <1>2, <1>3, <1>4, <1>5, <1>6, <1>7, <1>8, <1>9, <1>10, <1>11
  DEF Next, ReaderStep, MainStep, Get, Drain

-----------------------------------------------------------------------------
(* Every chunk read is queued, dropped or in the hand of the reader, until   *)
(* the reader fails.                                                         *)

Carrying == IF hand = 0 THEN 0 ELSE 1

CountInv ==
    /\ rpc \notin {"reset", "put"} => hand = 0
    /\ rpc = "put" => hand # 0
    /\ rpc # "fail" /\ error = FALSE => Len(kept) + dropped + Carrying = nread

LEMMA CountStep ==
  ASSUME TypeOK, PhaseInv, CountInv, [Next]_vars
  PROVE  CountInv'
<1> USE DEF CountInv, Carrying, readerVars, mainVars
<1>0. /\ Len(kept) \in Nat /\ dropped \in Nat /\ nread \in Nat /\ hand \in Nat
      /\ kept \in Seq(Nat) /\ error \in BOOLEAN
  BY ReaderAssumption, LenProperties DEF TypeOK, ReaderTypeOK
<1>1. CASE Check \/ ReadNothing \/ Reset
  BY <1>0, <1>1 DEF Check, ReadNothing, Reset
<1>2. CASE ReadData \/ ReadFails \/ ReadGivesUp
  <2>1. rpc = "read" /\ hand = 0 /\ kept' = kept /\ dropped' = dropped /\ error' = error
    BY <1>2 DEF ReadData, ReadFails, ReadGivesUp
  <2>2. CASE ReadGivesUp
    <3>1. rpc' = "fail" /\ hand' = hand
      BY <2>2 DEF ReadGivesUp
    <3>2. QED
      BY <2>1, <3>1
  <2>3. CASE ReadData \/ ReadFails
    <3>1. rpc' \in {"put", "reset"} /\ (rpc' = "put" => hand' # 0)
      BY <1>0, <2>3 DEF ReadData, ReadFails
    <3>2. nread' = nread + (IF hand' = 0 THEN 0 ELSE 1)
      BY <1>0, <2>1, <2>3 DEF ReadData, ReadFails
    <3>3. QED
      BY <1>0, <2>1, <3>1, <3>2
  <2>4. QED
    BY <1>2, <2>2, <2>3
<1>3. CASE Disconnected
  <2>1. rpc' = "fail" /\ hand' = 0
    BY <1>3 DEF Disconnected
  <2>2. QED
    BY <2>1
<1>4. CASE Put
  <2>1. Len(Append(kept, hand)) = Len(kept) + 1
    BY <1>0, AppendProperties
  <2>2. rpc' = "check" /\ hand # 0 /\ hand' = 0 /\ nread' = nread /\ error' = error
    BY <1>4 DEF Put
  <2>3. /\ Len(kept') + dropped' = Len(kept) + dropped + 1
        /\ Len(kept') \in Nat /\ dropped' \in Nat
    <3>1. CASE kept' = Append(kept, hand) /\ dropped' = dropped
      <4>1. Len(kept') = Len(kept) + 1
        BY <2>1, <3>1, Zenon
      <4>2. QED
        BY <1>0, <3>1, <4>1
    <3>2. CASE kept' = kept /\ dropped' = dropped + 1
      BY <1>0, <3>2
    <3>3. QED
      BY <1>4, <3>1, <3>2 DEF Put
  <2>4. rpc # "fail"
    BY <1>4 DEF Put
  <2>5. QED
    BY <1>0, <2>2, <2>3, <2>4
<1>5. CASE SetError
  <2>1. rpc = "fail" /\ rpc' = "report" /\ error' = TRUE /\ hand' = hand
    BY <1>5 DEF SetError
  <2>2. QED
    BY <2>1
<1>6. CASE SetOnError
  <2>1. /\ rpc = "report" /\ rpc' = "dead" /\ error' = error /\ hand' = hand
        /\ kept' = kept /\ dropped' = dropped /\ nread' = nread
    BY <1>6 DEF SetOnError
  <2>2. QED
    BY <2>1
<1>7. CASE SetupFails \/ Purge \/ StartReader
  BY <1>7 DEF SetupFails, Purge, StartReader, PhaseInv
<1>8. CASE LoopTop \/ Get \/ GetNothing \/ Drain \/ DrainEnds
  BY <1>8 DEF LoopTop, Get, GetNothing, Drain, DrainEnds, Handle
<1>9. CASE Write \/ WriteFails \/ Halt \/ Join \/ Finish \/ Verdict
  BY <1>9 DEF Write, WriteFails, Halt, Join, Finish, Verdict
<1>10. CASE Signal \/ Deadline
  BY <1>10 DEF Signal, Deadline
<1>11. CASE UNCHANGED vars
  BY <1>11 DEF vars
<1>12. QED
  BY <1>1, <1>2, <1>3, <1>4, <1>5, <1>7, <1>8, <1>9, <1>10, <1>11, <1>6
  DEF Next, ReaderStep, Transfer, MainStep
-----------------------------------------------------------------------------
(* The exit code                                                             *)

JudgeInv ==
    /\ rpc = "new" => error = FALSE
    /\ mpc = "closed" /\ error = TRUE => code = 1 \/ ret = "broken"

LEMMA JudgeStep ==
  ASSUME ~SlowReset, TypeOK, PhaseInv, JudgeInv, [Next]_vars
  PROVE  JudgeInv'
<1> USE DEF JudgeInv, readerVars, mainVars
<1>1. ASSUME Check \/ Transfer \/ Reset \/ Disconnected \/ Put
               \/ SetError \/ SetOnError,
             UNCHANGED mainVars
      PROVE  JudgeInv'
  <2>1. rpc \notin {"new", "dead"} /\ rpc' # "new"
    BY <1>1 DEF Check, Transfer, ReadNothing, ReadData, ReadFails, ReadGivesUp,
                Reset, Disconnected, Put, SetError, SetOnError
  <2>2. mpc # "closed"
    BY <2>1 DEF PhaseInv
  <2>3. QED
    BY <1>1, <2>1, <2>2
<1>2. CASE SetupFails \/ Purge \/ StartReader
  BY <1>2 DEF SetupFails, Purge, StartReader, PhaseInv
<1>3. CASE LoopTop \/ Get \/ GetNothing \/ Drain \/ DrainEnds
  BY <1>3 DEF LoopTop, Get, GetNothing, Drain, DrainEnds, Handle
<1>4. CASE Write \/ WriteFails \/ Halt \/ Join \/ Finish
  <2>1. rpc' = rpc /\ error' = error /\ (mpc' = "closed" => back = "closed")
    BY <1>4 DEF Write, WriteFails, Halt, Join, Finish
  <2>2. back # "closed"
    BY DEF TypeOK
  <2>3. QED
    BY <2>1, <2>2
<1>5. CASE Verdict
  <2>1. /\ rpc' = rpc /\ error' = error /\ ret' = ret
        /\ code' = IF ret = "broken" THEN 0
                   ELSE IF ret = "raised" \/ error THEN 1 ELSE 0
    BY <1>5 DEF Verdict
  <2>2. QED
    BY <2>1
<1>6. CASE Signal \/ Deadline
  BY <1>6 DEF Signal, Deadline
<1>7. CASE UNCHANGED vars
  BY <1>7 DEF vars
<1>8. QED
  BY <1>1, <1>2, <1>3, <1>4, <1>5, <1>6, <1>7
  DEF Next, ReaderStep, MainStep

EndInv == OrderInv /\ PhaseInv /\ EmptyInv /\ CountInv /\ JudgeInv

LEMMA EndInvariant == ASSUME ~SlowReset PROVE Spec => []EndInv
<1>1. Init => EndInv
  <2> SUFFICES ASSUME Init PROVE EndInv
    OBVIOUS
  <2>1. Len(kept) = 0
    BY DEF Init, ReaderInit
  <2>2. PhaseInv /\ EmptyInv /\ JudgeInv
    BY DEF Init, ReaderInit, PhaseInv, AfterJoin, EmptyInv, JudgeInv
  <2>3. CountInv
    BY <2>1 DEF Init, ReaderInit, CountInv, Carrying
  <2>4. QED
    BY <2>2, <2>3, InitOrder DEF EndInv
<1>2. TypeOK /\ EndInv /\ [Next]_vars => EndInv'
  BY OrderStep, PhaseStep, EmptyStep, CountStep, JudgeStep DEF EndInv
<1>3. QED
  BY <1>1, <1>2, RecordingTyped, PTL DEF Spec

\* The failure of the reader decides the exit code, even when a signal or the
\* deadline ends the loop at the moment in which the reader fails.
THEOREM RecordingErrorReported ==
  ASSUME ~SlowReset
  PROVE  Spec => []ErrorReported
<1>1. TypeOK /\ EndInv => ErrorReported
  BY DEF EndInv, JudgeInv, ErrorReported, TypeOK, ReaderTypeOK
<1>2. QED
  BY <1>1, EndInvariant, RecordingTyped, PTL

\* "Everything read before the deadline / signal is still written out": when
\* the program reports success, what is missing in the output is exactly what
\* the overflow counter admits.
THEOREM RecordingComplete ==
  ASSUME ~SlowReset
  PROVE  Spec => []EverythingReadIsWritten
<1>1. TypeOK /\ EndInv => EverythingReadIsWritten
  <2> SUFFICES ASSUME TypeOK, EndInv, mpc = "closed", code = 0, ret = "normal"
               PROVE  written = kept /\ Len(kept) + dropped = nread
    BY DEF EverythingReadIsWritten
  <2>1. queue = <<>> /\ inside = <<>> /\ outb = <<>>
    BY DEF EndInv, EmptyInv
  <2>2. written = kept
    <3>1. kept = ((written \o <<>>) \o <<>>) \o <<>>
      BY <2>1 DEF EndInv, OrderInv, InOrder
    <3>2. written \in Seq(Nat)
      BY DEF TypeOK
    <3>3. written \o <<>> = written
      BY <3>2, ConcatEmptySeq
    <3>4. QED
      BY <3>1, <3>3
  <2>3. error = FALSE
    BY DEF EndInv, JudgeInv, TypeOK, ReaderTypeOK
  <2>4. rpc \in {"new", "dead"}
    BY DEF EndInv, PhaseInv
  <2>5. Len(kept) + dropped + 0 = nread
    BY <2>3, <2>4 DEF EndInv, CountInv, Carrying
  <2>6. Len(kept) \in Nat /\ dropped \in Nat
    BY LenProperties DEF TypeOK, ReaderTypeOK
  <2>7. QED
    BY <2>2, <2>5, <2>6
<1>2. QED
  BY <1>1, EndInvariant, RecordingTyped, PTL

-----------------------------------------------------------------------------
(* The refinement                                                            *)

Ended == mpc = "closed" /\ ret = "normal"

LEMMA FirstIsPrefix ==
  ASSUME NEW w \in Seq(Nat), NEW o \in Seq(Nat), NEW i \in Seq(Nat), NEW q \in Seq(Nat)
  PROVE  IsPrefix(w, ((w \o o) \o i) \o q)
<1>1. i \o q \in Seq(Nat) /\ w \o o \in Seq(Nat)
  BY ConcatProperties
<1>2. o \o (i \o q) \in Seq(Nat)
  BY <1>1, ConcatProperties
<1>3. \A y \in Seq(Nat) : (y \o i) \o q = y \o (i \o q)
  BY ChunksAssociative, ZenonT(60)
<1>4. ((w \o o) \o i) \o q = (w \o o) \o (i \o q)
  BY <1>1, <1>3, ZenonT(60)
<1>5. (w \o o) \o (i \o q) = w \o (o \o (i \o q))
  BY <1>1, ChunksAssociative, ZenonT(60)
<1>6. IsPrefix(w, w \o (o \o (i \o q)))
  BY <1>2, PrefixOfConcat
<1>7. QED
  BY <1>4, <1>5, <1>6, Zenon

LEMMA AllWritten ==
  ASSUME TypeOK, InOrder, outb = <<>>, inside = <<>>, queue = <<>>
  PROVE  written = kept
<1>1. written \in Seq(Nat)
  BY DEF TypeOK
<1>2. written \o <<>> = written
  BY <1>1, ConcatEmptySeq
<1>3. QED
  BY <1>2, Zenon DEF InOrder

LEMMA RelayStep ==
  ASSUME ~SlowReset, TypeOK, EndInv, TypeOK', InOrder', [Next]_vars
  PROVE  [Relayed!Move \/ Relayed!End]_Relayed!relayVars
<1> USE DEF Relayed!relayVars, readerVars, mainVars, Ended
<1>0. InOrder /\ PhaseInv /\ EmptyInv
  BY DEF EndInv, OrderInv
<1>1. IsPrefix(written', kept')
  BY FirstIsPrefix DEF TypeOK, ReaderTypeOK, InOrder
<1>2. ASSUME Put, UNCHANGED mainVars PROVE Relayed!Move
  <2>1. ~Ended /\ ~Ended' /\ written' = written
    BY <1>0, <1>2 DEF Put, PhaseInv
  <2>2. kept \in Seq(Nat) /\ hand \in Nat
    BY DEF TypeOK, ReaderTypeOK
  <2>3. IsPrefix(kept, Append(kept, hand))
    <3>1. Append(kept, hand) = kept \o <<hand>> /\ <<hand>> \in Seq(Nat)
      BY <2>2, AppendIsConcat
    <3>2. QED
      BY <2>2, <3>1, PrefixOfConcat
  <2>4. IsPrefix(kept, kept)
    BY <2>2 DEF IsPrefix
  <2>5. IsPrefix(kept, kept')
    BY <1>2, <2>3, <2>4 DEF Put
  <2>6. IsPrefix(written, written')
    BY <2>1 DEF TypeOK, IsPrefix
  <2>7. QED
    BY <1>1, <2>1, <2>5, <2>6, Zenon DEF Relayed!Move, Relayed!IsPrefix, IsPrefix
<1>3. ASSUME Check \/ Transfer \/ Reset \/ Disconnected \/ SetError \/ SetOnError,
             UNCHANGED mainVars
      PROVE  UNCHANGED Relayed!relayVars
  BY <1>3 DEF Check, Transfer, ReadNothing, ReadData, ReadFails, ReadGivesUp,
              Reset, Disconnected, SetError, SetOnError
<1>4. ASSUME written' # written, Write \/ WriteFails PROVE Relayed!Move
  <2>1. ~Ended /\ ~Ended' /\ kept' = kept
    <3>1. mpc = "write" /\ kept' = kept /\ (mpc' = back \/ mpc' = "final")
      BY <1>4 DEF Write, WriteFails
    <3>2. back # "closed"
      BY DEF TypeOK
    <3>3. QED
      BY <3>1, <3>2
  <2>2. IsPrefix(written, written')
    <3>1. written \in Seq(Nat) /\ outb \in Seq(Nat)
      BY DEF TypeOK
    <3>2. PICK t \in Seq(Nat) : written' = written \o t
      BY <1>4, <3>1, WriteFailsSplits DEF Write
    <3>3. QED
      BY <3>1, <3>2, PrefixOfConcat
  <2>3. kept \in Seq(Nat)
    BY DEF TypeOK, ReaderTypeOK
  <2>4. IsPrefix(kept, kept')
    BY <2>1, <2>3 DEF IsPrefix
  <2>5. QED
    BY <1>1, <2>1, <2>2, <2>4, Zenon DEF Relayed!Move, Relayed!IsPrefix, IsPrefix
<1>5. ASSUME written' = written, Write \/ WriteFails
      PROVE  UNCHANGED Relayed!relayVars
  BY <1>5 DEF Write, WriteFails, TypeOK
<1>6. ASSUME mpc # "closed", Ended', UNCHANGED <<kept, written>>,
             queue = <<>> /\ inside = <<>> /\ outb = <<>>
      PROVE  Relayed!End
  BY <1>0, <1>6, AllWritten DEF Relayed!End
<1>7. CASE SetupFails \/ StartReader
  <2>1. /\ mpc # "closed" /\ UNCHANGED <<kept, written>> /\ ret' = ret
        /\ queue = <<>> /\ inside = <<>> /\ outb = <<>> /\ ret = "normal"
    BY <1>0, <1>7 DEF SetupFails, StartReader, PhaseInv, EmptyInv
  <2>2. CASE mpc' = "closed"
    BY <1>6, <2>1, <2>2
  <2>3. CASE mpc' # "closed"
    BY <2>1, <2>3
  <2>4. QED
    BY <2>2, <2>3
<1>8. CASE Verdict
  <2>1. mpc = "verdict" /\ mpc' = "closed" /\ UNCHANGED <<kept, written>> /\ ret' = ret
    BY <1>8 DEF Verdict
  <2>2. CASE ret = "normal"
    <3>1. queue = <<>> /\ inside = <<>> /\ outb = <<>>
      BY <1>0, <2>1, <2>2 DEF EmptyInv
    <3>2. QED
      BY <1>6, <2>1, <2>2, <3>1
  <2>3. CASE ret # "normal"
    BY <2>1, <2>3
  <2>4. QED
    BY <2>2, <2>3
<1>9. CASE Purge \/ LoopTop \/ GetNothing \/ DrainEnds \/ Halt \/ Finish
  BY <1>9 DEF Purge, LoopTop, GetNothing, DrainEnds, Halt, Finish
<1>10. CASE Join
  <2>1. mpc = "join" /\ mpc' = back /\ UNCHANGED <<kept, written, ret>>
    BY <1>10 DEF Join
  <2>2. back # "closed"
    BY DEF TypeOK
  <2>3. QED
    BY <2>1, <2>2
<1>11. ASSUME NEW r \in {"loop", "drain"}, Handle(r), mpc \in {"get", "drain"}
       PROVE  UNCHANGED Relayed!relayVars
  <2>1. mpc' \in {r, "write"} /\ UNCHANGED <<kept, written, ret>>
    BY <1>11, HandleSplits DEF Handle
  <2>2. QED
    BY <1>11, <2>1
<1>12. CASE Signal \/ Deadline
  BY <1>12 DEF Signal, Deadline
<1>13. CASE UNCHANGED vars
  BY <1>13 DEF vars
<1>14. QED
  BY <1>2, <1>3, <1>4, <1>5, <1>7, <1>8, <1>9, <1>10, <1>11, <1>12, <1>13
  DEF Next, ReaderStep, MainStep, Get, Drain
\* The recording implements the abstract Relay: the output is at any time a
\* prefix of what the reader queued, and all of it when the try statement of
\* stream() is left without an exception.
THEOREM RecordingIsRelay ==
  ASSUME ~SlowReset
  PROVE  Spec => ImplementsRelay
<1>1. Init => Relayed!RelayInit
  BY DEF Init, ReaderInit, Relayed!RelayInit
<1>2. EndInv => InOrder
  BY DEF EndInv, OrderInv
<1>3. TypeOK /\ EndInv /\ TypeOK' /\ InOrder' /\ [Next]_vars
        => [Relayed!Move \/ Relayed!End]_Relayed!relayVars
  BY RelayStep
<1>4. QED
  BY <1>1, <1>2, <1>3, EndInvariant, RecordingTyped, PTL
  DEF Spec, ImplementsRelay, Relayed!RelaySpec
=============================================================================
