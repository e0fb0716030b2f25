------------------------------ MODULE Pipeline ------------------------------
(***************************************************************************)
(* cli.Pipeline: packets go through the descrambler of libaribb25 until it *)
(* fails or does not start in time; from then on the stream is passed      *)
(* through, preceded by what the descrambler still held.  The descrambler  *)
(* (b25.Descrambler over native/dyud_b25.c) is external and modelled from  *)
(* the way Pipeline uses it.                                               *)
(***************************************************************************)
EXTENDS Integers, FiniteSets, Sequences, SequencesExt

CONSTANTS
    StartTimeout,   \* --b25-timeout, 0 to wait for ever
    FaultSets,      \* the sets of calls of the library that may fail in a run
    KeepNulls,      \* the values of --keep-null
    MaxPackets,     \* bound of the model: packets of the stream
    MaxChunk,       \* bound of the model: packets per chunk
    MaxTime         \* bound of the model: the clock

AllFaults == {"put_kept", "put_rolled_back", "get", "withdraw", "flush"}

ASSUME PipelineAssumption ==
    /\ StartTimeout \in Nat
    /\ FaultSets \subseteq SUBSET AllFaults
    /\ KeepNulls \subseteq BOOLEAN
    /\ MaxPackets \in Nat /\ MaxChunk \in Nat \ {0} /\ MaxTime \in Nat

(* A packet is its number in the stream, and minus that number once it has  *)
(* been descrambled; all null packets are 0.                                *)
Packet == (-MaxPackets)..MaxPackets

VARIABLES
    faults,         \* the calls of the library that may fail
    keepNull,       \* --keep-null: null packets reach the pipeline
    descrambling,   \* whether self.descrambler is set
    held,           \* what the descrambler has taken and not given out
    first,          \* _first_input, -1 for None
    producing,      \* _producing
    now,            \* the clock
    finished,       \* whether finish() has been called
    sent,           \* history: the number of the last packet received
    fed,            \* history: the packets process() was called with
    given,          \* history: what process() and finish() have returned
    clear,          \* history: what was fed from the fallback on
    began,          \* history: the time of the first call, -1 before it
    last,           \* history: the time of the latest call
    pause           \* history: the longest time without a call since the first one

options == <<faults, keepNull>>
history == <<sent, fed, given, clear, began, last, pause>>
vars == <<options, descrambling, held, first, producing, now, finished, history>>

TypeOK ==
    /\ faults \in FaultSets
    /\ keepNull \in KeepNulls
    /\ descrambling \in BOOLEAN
    /\ held \in Seq(Packet)
    /\ now \in 0..MaxTime
    /\ first \in -1..now
    /\ producing \in BOOLEAN
    /\ finished \in BOOLEAN
    /\ sent \in 0..MaxPackets
    /\ fed \in Seq(0..MaxPackets)
    /\ given \in Seq(Packet)
    /\ clear \in Seq(0..MaxPackets)
    /\ began \in -1..now
    /\ last \in 0..now
    /\ pause \in 0..now

Init ==
    /\ faults \in FaultSets
    /\ keepNull \in KeepNulls
    /\ descrambling \in BOOLEAN     \* FALSE: --no-b25, or no card
    /\ held = <<>>
    /\ first = -1
    /\ producing = FALSE
    /\ now = 0
    /\ finished = FALSE
    /\ sent = 0
    /\ fed = <<>>
    /\ given = <<>>
    /\ clear = <<>>
    /\ began = -1
    /\ last = 0
    /\ pause = 0

Descrambled(s) == [i \in DOMAIN s |-> -s[i]]

\* What a packet was before it was descrambled.
Plain(s) == [i \in DOMAIN s |-> IF s[i] < 0 THEN -s[i] ELSE s[i]]

\* What the aligner may return next: new packets and nulls in any order.
Chunks ==
    {[i \in DOMAIN new |-> IF new[i] THEN sent + Cardinality({j \in 1..i : new[j]}) ELSE 0] :
       new \in UNION {[1..n -> BOOLEAN] : n \in 1..MaxChunk}}

\* One pass of the loop of drop_null_packets(): start is the offset of the run
\* of other packets, -1 for None; out is what has been copied.
DropPass(packets, run, off) ==
    IF packets[off + 1] # 0 THEN [run EXCEPT !.start = IF @ = -1 THEN off ELSE @]
    ELSE [start |-> -1,
          out |-> IF run.start = -1 THEN run.out
                  ELSE run.out \o SubSeq(packets, run.start + 1, off)]

DropLoop(packets) ==
    LET run[i \in 0..Len(packets)] ==
          IF i = 0 THEN [start |-> -1, out |-> <<>>]
          ELSE DropPass(packets, run[i - 1], i - 1)
    IN run[Len(packets)]

\* Bug: the run that the chunk ends with is forgotten.
DropNullPacketsButRuns(packets) ==
    LET end == DropLoop(packets) IN IF end.start = 0 THEN packets ELSE end.out

\* A chunk without nulls is not copied.
DropNullPackets(packets) ==
    LET end == DropLoop(packets)
    IN IF end.start = 0 THEN packets
       ELSE IF end.start = -1 THEN end.out
       ELSE end.out \o SubSeq(packets, end.start + 1, Len(packets))

\* handle() calls process() with these packets of a chunk.
Call(chunk, packets) ==
    /\ ~finished
    /\ Max(ToSet(chunk) \cup {sent}) <= MaxPackets /\ Len(fed) + Len(packets) <= MaxPackets
    /\ sent' = Max(ToSet(chunk) \cup {sent})
    /\ fed' = fed \o packets
    /\ began' = IF began = -1 THEN now ELSE began
    /\ last' = now
    /\ UNCHANGED <<options, now, finished, pause>>

\* _fall_back(): give out what is pending and do without the descrambler.
FallBack(pending, chunk) ==
    /\ descrambling' = FALSE
    /\ held' = <<>>
    /\ given' = given \o pending
    /\ clear' = chunk

-----------------------------------------------------------------------------
(* process()                                                                *)

PassThrough(chunk) ==
    /\ ~descrambling
    /\ given' = given \o chunk
    /\ clear' = clear \o chunk
    /\ UNCHANGED <<descrambling, held, first, producing>>

\* put() and get() succeed; the library descrambles and gives out k packets.
Produce(chunk) ==
    /\ descrambling
    /\ LET all == held \o chunk IN
       \E k \in 1..Len(all) :
          /\ given' = given \o Descrambled(SubSeq(all, 1, k))
          /\ held' = SubSeq(all, k + 1, Len(all))
    /\ producing' = TRUE
    /\ UNCHANGED <<descrambling, first, clear>>

\* Bug: every call without output starts the timeout anew.
HoldBackAnew(chunk) ==
    /\ descrambling
    /\ producing \/ StartTimeout = 0 \/ first = -1 \/ now - first < StartTimeout
    /\ held' = held \o chunk
    /\ first' = IF ~producing /\ StartTimeout > 0 THEN now ELSE first
    /\ UNCHANGED <<descrambling, given, clear, producing>>

\* Bug: the end of the timeout is stored in place of its start.
HoldBackUntil(chunk) ==
    /\ descrambling
    /\ producing \/ StartTimeout = 0 \/ first = -1 \/ now - first < StartTimeout
    /\ held' = held \o chunk
    /\ first' = IF ~producing /\ StartTimeout > 0 /\ first = -1
                  THEN now + StartTimeout ELSE first
    /\ UNCHANGED <<descrambling, given, clear, producing>>

\* Nothing comes out: before the first output the start timeout runs.
HoldBack(chunk) ==
    /\ descrambling
    /\ producing \/ StartTimeout = 0 \/ first = -1 \/ now - first < StartTimeout
    /\ held' = held \o chunk
    /\ first' = IF ~producing /\ StartTimeout > 0 /\ first = -1 THEN now ELSE first
    /\ UNCHANGED <<descrambling, given, clear, producing>>

\* withdraw() returns one of the given sequences or fails.
Withdrawn(pendings, otherwise) ==
    pendings \cup (IF "withdraw" \in faults THEN {otherwise} ELSE {})

StartTimesOut(chunk) ==
    /\ descrambling
    /\ ~producing /\ StartTimeout > 0 /\ first # -1 /\ now - first >= StartTimeout
    /\ \E pending \in Withdrawn({held \o chunk}, chunk) : FallBack(pending, chunk)
    /\ UNCHANGED <<first, producing>>

\* Bug: the chunk is appended although it may still be in the input buffer.
AlwaysWithChunk(pending, chunk) == pending \o chunk

\* Bug: the chunk is taken to be still in the input buffer.
NeverWithChunk(pending, chunk) == pending

\* The chunk is appended to what withdraw() returns unless it is there.
WithChunk(pending, chunk) ==
    IF IsSuffix(chunk, pending) THEN pending ELSE pending \o chunk

\* What the library may still hold after put() has failed with the chunk in
\* its input buffer or without it, or after get() has failed when a part was
\* descrambled.
LeftByFailure(chunk) ==
    LET all == held \o chunk
        Partly(k) == Descrambled(SubSeq(all, 1, k)) \o SubSeq(all, k + 1, Len(all))
    IN (IF "put_kept" \in faults THEN {all} ELSE {})
         \cup (IF "put_rolled_back" \in faults THEN {held} ELSE {})
         \cup (IF "get" \in faults THEN {Partly(k) : k \in 0..Len(all)} ELSE {})

Fail(chunk) ==
    /\ descrambling
    /\ LeftByFailure(chunk) # {}
    /\ \E pending \in Withdrawn(LeftByFailure(chunk), <<>>) :
          FallBack(WithChunk(pending, chunk), chunk)
    /\ UNCHANGED <<first, producing>>

Process ==
    \E chunk \in Chunks :
       LET packets == IF keepNull THEN chunk ELSE DropNullPackets(chunk) IN
       /\ Call(chunk, packets)
       /\ \/ PassThrough(packets)
          \/ Produce(packets)
          \/ HoldBack(packets)
          \/ StartTimesOut(packets)
          \/ Fail(packets)

-----------------------------------------------------------------------------
(* finish()                                                                 *)

\* flush() descrambles what is left; if it fails on the way, withdraw()
\* returns what it had descrambled and the rest as it was.
Flushed ==
    LET Partly(k) == Descrambled(SubSeq(held, 1, k)) \o SubSeq(held, k + 1, Len(held))
    IN {Descrambled(held)}
         \cup (IF "flush" \in faults
                 THEN Withdrawn({Partly(k) : k \in 0..Len(held)}, <<>>) ELSE {})

\* Bug: what the descrambler still holds is not flushed.
FinishUnflushed ==
    /\ ~finished
    /\ finished' = TRUE
    /\ UNCHANGED <<options, descrambling, held, first, producing, now, history>>

Finish ==
    /\ ~finished
    /\ finished' = TRUE
    /\ held' = <<>>
    /\ IF descrambling THEN \E tail \in Flushed : given' = given \o tail
                       ELSE UNCHANGED given
    /\ UNCHANGED <<options, descrambling, first, producing, now, sent, fed, clear,
                   began, last, pause>>

Tick ==
    /\ ~finished
    /\ now < MaxTime
    /\ now' = now + 1
    /\ pause' = IF began # -1 /\ now' - last > pause THEN now' - last ELSE pause
    /\ UNCHANGED <<options, descrambling, held, first, producing, finished,
                   sent, fed, given, clear, began, last>>

Next == Process \/ Finish \/ Tick

Spec == Init /\ [][Next]_vars

-----------------------------------------------------------------------------
(* Properties                                                               *)

\* tests/test_b25.py: "Nothing is lost: the stream is passed through
\* unmodified."  Every packet that process() was given has been returned
\* once, in its place, or is still held by the descrambler, through every
\* way of falling back.
NothingLost == Plain(given) \o held = fed

\* Chunks that differ, and no failure of get() or withdraw().
Promised == ~keepNull /\ faults \cap {"get", "withdraw"} = {}

\* Without --keep-null, and as long as get() and withdraw() of the library do
\* not fail, the pipeline keeps that promise.
NothingLostAsPromised == Promised => NothingLost

\* Without --keep-null, process() is called with all packets that have been
\* received but the nulls, wherever in the chunks these are.
OnlyNullsAreDropped == ~keepNull => fed = [i \in 1..sent |-> i]

\* "If nothing comes out within start_timeout seconds, fall back": the clock is
\* only looked at when a chunk arrives.  So packets that nothing has come out of
\* are held for less than the start timeout and the longest pause of the stream
\* together, counted from the first chunk.
HoldIsBounded ==
    held # <<>> /\ ~producing /\ ~finished /\ StartTimeout > 0
        => now - began < StartTimeout + pause

\* However put(), withdraw() and flush() fail, and with null packets or without:
\* no packet is returned twice or before one that came earlier, and none that has
\* been returned is still held, though the chunk of a failed put() may be in the
\* input buffer or not.
NothingTwice ==
    "get" \notin faults =>
       LET s == Plain(given) \o held IN
       \A i, j \in DOMAIN s : i < j /\ s[j] # 0 => s[i] < s[j]

\* Whatever fails in the library, withdraw() and get() included, the stream
\* comes out unmodified, in one piece and at once from the chunk on at which
\* the pipeline falls back.
PassedThroughWhole == IsSuffix(clear, given)

\* The stage keeps the promise that Recording builds on.
Stage == INSTANCE Relay WITH
    in <- IF Promised THEN fed ELSE <<>>,
    out <- IF Promised THEN Plain(given) ELSE <<>>,
    done <- Promised /\ finished

ImplementsRelay == Stage!RelaySpec
=============================================================================
