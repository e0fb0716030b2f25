---------------------------- MODULE PacketAligner ----------------------------
(***************************************************************************)
(* ts.PacketAligner: cuts the bytes of the tuner, which arrive in chunks   *)
(* of any size, into packets.  It acquires the alignment where several     *)
(* sync bytes follow each other at the distance of a packet and gives it   *)
(* up at the first packet that does not start with one.  One action is one *)
(* pass of the loop of feed().                                             *)
(***************************************************************************)
EXTENDS Integers, Sequences

CONSTANTS
    PacketSize,     \* PACKET_SIZE
    SyncConfirm,    \* SYNC_CONFIRM
    MaxBytes,       \* bound of the model: length of the stream
    MaxChunk        \* bound of the model: length of a chunk

ASSUME AlignerAssumption ==
    /\ PacketSize \in Nat \ {0}
    /\ SyncConfirm \in Nat \ {0}
    /\ MaxBytes \in Nat
    /\ MaxChunk \in Nat

(* A byte is its position in the stream, and minus that position unless it  *)
(* has the value SYNC_BYTE.                                                 *)
Byte == Int

VARIABLES
    data,           \* _pending; while feed() runs, what it works on
    pos,            \* how far feed() has come in data
    busy,           \* whether feed() is running
    locked,
    syncLosses,     \* sync_losses
    skipped,        \* skipped_bytes
    fed,            \* history: all bytes that feed() was called with
    emitted         \* history: all bytes that it has returned

vars == <<data, pos, busy, locked, syncLosses, skipped, fed, emitted>>

TypeOK ==
    /\ data \in Seq(Byte)
    /\ pos \in 0..Len(data)
    /\ busy \in BOOLEAN
    /\ locked \in BOOLEAN
    /\ syncLosses \in Nat
    /\ skipped \in Nat
    /\ fed \in Seq(Byte)
    /\ emitted \in Seq(Byte)

Init ==
    /\ data = <<>>
    /\ pos = 0
    /\ busy = FALSE
    /\ locked = FALSE
    /\ syncLosses = 0
    /\ skipped = 0
    /\ fed = <<>>
    /\ emitted = <<>>

IsSync(b) == b > 0
Position(b) == IF b < 0 THEN -b ELSE b

\* There is a sync byte at offset i of data, and at the following packets.
Confirmed(i) == \A k \in 0..(SyncConfirm - 1) : IsSync(data[i + k * PacketSize + 1])

\* _find_sync(): the offsets where the confirmation is complete.
Candidates == pos..(Len(data) - PacketSize * (SyncConfirm - 1) - 1)

-----------------------------------------------------------------------------
(* feed()                                                                   *)

Feed(chunk) ==
    /\ ~busy
    /\ busy' = TRUE
    /\ data' = data \o chunk
    /\ fed' = fed \o chunk
    /\ UNCHANGED <<pos, locked, syncLosses, skipped, emitted>>

Find ==
    /\ busy
    /\ ~locked
    /\ \E i \in Candidates :
          /\ Confirmed(i)
          /\ \A j \in pos..(i - 1) : ~Confirmed(j)
          /\ skipped' = skipped + (i - pos)
          /\ pos' = i
    /\ locked' = TRUE
    /\ UNCHANGED <<data, busy, syncLosses, fed, emitted>>

\* Bug: the position is not set back.
KeepPosition(p) ==
    /\ data' = SubSeq(data, p + 1, Len(data))
    /\ busy' = FALSE
    /\ UNCHANGED pos

\* feed() returns and keeps the data from offset p on.
Keep(p) ==
    /\ data' = SubSeq(data, p + 1, Len(data))
    /\ pos' = 0
    /\ busy' = FALSE

\* Bug: bytes before pos are counted again.
FindNothingRecounting ==
    /\ busy
    /\ ~locked
    /\ \A i \in Candidates : ~Confirmed(i)
    /\ LET tail == Len(data) - PacketSize * SyncConfirm
           keep == IF tail > pos THEN tail ELSE pos
       IN Keep(keep) /\ skipped' = skipped + keep
    /\ UNCHANGED <<locked, syncLosses, fed, emitted>>

\* Bug: too little is kept to confirm a sync byte later.
FindNothingForgetting ==
    /\ busy
    /\ ~locked
    /\ \A i \in Candidates : ~Confirmed(i)
    /\ LET tail == Len(data) - PacketSize * (SyncConfirm - 1) + 1
           keep == IF tail > pos THEN tail ELSE pos
       IN Keep(keep) /\ skipped' = skipped + (keep - pos)
    /\ UNCHANGED <<locked, syncLosses, fed, emitted>>

\* Bug: everything is kept.
FindNothingKeeping ==
    /\ busy
    /\ ~locked
    /\ \A i \in Candidates : ~Confirmed(i)
    /\ Keep(pos)
    /\ UNCHANGED <<locked, syncLosses, skipped, fed, emitted>>

FindNothing ==
    /\ busy
    /\ ~locked
    /\ \A i \in Candidates : ~Confirmed(i)
    /\ LET tail == Len(data) - PacketSize * SyncConfirm
           keep == IF tail > pos THEN tail ELSE pos
       IN Keep(keep) /\ skipped' = skipped + (keep - pos)
    /\ UNCHANGED <<locked, syncLosses, fed, emitted>>

\* The number of whole packets from pos on, and the head of each.
Count == (Len(data) - pos) \div PacketSize
StartsWithSync(k) == IsSync(data[pos + k * PacketSize + 1])

\* Bytes of data from offset pos on that make up n packets.
Packets(n) == SubSeq(data, pos + 1, pos + n * PacketSize)

\* Bug: the incomplete packet at the end is returned, too.
CutTooMuch ==
    /\ busy
    /\ locked
    /\ \A k \in 0..(Count - 1) : StartsWithSync(k)
    /\ emitted' = emitted \o SubSeq(data, pos + 1, Len(data))
    /\ Keep(Len(data))
    /\ UNCHANGED <<locked, syncLosses, skipped, fed>>

CutAll ==
    /\ busy
    /\ locked
    /\ \A k \in 0..(Count - 1) : StartsWithSync(k)
    /\ emitted' = emitted \o Packets(Count)
    /\ Keep(pos + Count * PacketSize)
    /\ UNCHANGED <<locked, syncLosses, skipped, fed>>

\* The packet after the good ones does not start with a sync byte: search
\* again from its second byte on.
LoseSync ==
    /\ busy
    /\ locked
    /\ \E good \in 0..(Count - 1) :
          /\ ~StartsWithSync(good)
          /\ \A k \in 0..(good - 1) : StartsWithSync(k)
          /\ emitted' = emitted \o Packets(good)
          /\ pos' = pos + good * PacketSize + 1
    /\ locked' = FALSE
    /\ syncLosses' = syncLosses + 1
    /\ UNCHANGED <<data, busy, skipped, fed>>

\* Chunks of up to MaxChunk bytes, each of which may be a sync byte.
Chunks ==
    LET n == Len(fed)
        sizes == {k \in 0..MaxChunk : n + k <= MaxBytes}
        Bytes(k, s) == [i \in 1..k |-> IF i \in s THEN n + i ELSE -(n + i)]
    IN UNION {{Bytes(k, s) : s \in SUBSET (1..k)} : k \in sizes}

Next ==
    \/ \E chunk \in Chunks : Feed(chunk)
    \/ Find \/ FindNothing
    \/ CutAll \/ LoseSync

Spec == Init /\ [][Next]_vars

-----------------------------------------------------------------------------
(* Properties                                                               *)

\* Every byte is accounted for: it has been returned, it is in skipped_bytes,
\* it is the one byte that a loss of sync steps over, or it still waits.
Accounted ==
    Len(fed) = Len(emitted) + skipped + syncLosses + Len(data) - pos

\* What is returned are whole packets: runs of consecutive bytes of the stream
\* that start with a sync byte, none twice and in their order.
WholePackets ==
    /\ Len(emitted) % PacketSize = 0
    /\ \A i \in DOMAIN emitted :
          /\ i % PacketSize = 1 % PacketSize => IsSync(emitted[i])
          /\ i > 1 => IF i % PacketSize = 1 % PacketSize
                        THEN Position(emitted[i]) > Position(emitted[i - 1])
                        ELSE Position(emitted[i]) = Position(emitted[i - 1]) + 1

\* Between the calls less than a packet waits, and no more than a
\* confirmation needs while the alignment is searched.
PendingIsBounded ==
    ~busy => Len(data) < IF locked THEN PacketSize ELSE PacketSize * SyncConfirm + 1

(* The same stream aligned in one pass, byte by byte: Aligned(s) does not   *)
(* know of chunks.                                                          *)
Confirms(s, i) == \A k \in 0..(SyncConfirm - 1) : IsSync(s[i + k * PacketSize])

\* What comes out from position i on, aligned there or not.
AlignedFrom(s, from, i, aligned) ==
    IF aligned THEN
        IF i + PacketSize - 1 > Len(s) THEN <<>>
        ELSE IF IsSync(s[i])
          THEN SubSeq(s, i, i + PacketSize - 1) \o from[<<i + PacketSize, TRUE>>]
          ELSE from[<<i + 1, FALSE>>]
    ELSE
        IF i + (SyncConfirm - 1) * PacketSize > Len(s) THEN <<>>
        ELSE IF Confirms(s, i) THEN from[<<i, TRUE>>]
        ELSE from[<<i + 1, FALSE>>]

Aligned(s) ==
    LET from[x \in (1..(Len(s) + 1)) \X BOOLEAN] == AlignedFrom(s, from, x[1], x[2])
    IN from[<<1, FALSE>>]

\* How the stream is cut into chunks makes no difference: every packet comes
\* out, at the first call that makes it complete.
ChunksDoNotMatter == ~busy => emitted = Aligned(fed)
=============================================================================
