-------------------------- MODULE SectionAssembler --------------------------
(***************************************************************************)
(* ts.SectionAssembler: puts the sections carried on one PID together      *)
(* again.  Push is push() up to the first call of _drain(), the Drain      *)
(* actions are passes of the loop of _drain() and its end.                 *)
(***************************************************************************)
EXTENDS Integers, Sequences

CONSTANTS
    CcModulus,      \* number of values of the continuity counter, 16
    HeaderSize,     \* bytes that hold the length of a section, 3
    MaxSection      \* the longest section that a header can announce, 4098

(* A byte is its position among the bytes of all sections sent on the PID,  *)
(* and 0 for stuffing (0xFF).  A section is the first and the last position *)
(* of its bytes.                                                            *)
Byte == Nat

VARIABLES
    buf,        \* _buf
    active,     \* _active
    cc,         \* _cc, -1 before the first packet
    draining,   \* which _drain() is running: "no", "before", "after"
    behind,     \* what follows the pointer while the part before is drained
    out         \* the sections that push() returns

assemblerVars == <<buf, active, cc, draining, behind, out>>

Section == [first : Nat, last : Nat]

AssemblerTypeOK ==
    /\ buf \in Seq(Byte)
    /\ active \in BOOLEAN
    /\ cc \in -1..(CcModulus - 1)
    /\ draining \in {"no", "before", "after"}
    /\ behind \in Seq(Byte)
    /\ out \in Seq(Section)

AssemblerInit ==
    /\ buf = <<>>
    /\ active = FALSE
    /\ cc = -1
    /\ draining = "no"
    /\ behind = <<>>
    /\ out = <<>>

-----------------------------------------------------------------------------
(* push()                                                                   *)

\* Bug: a packet is taken whether or not it is a duplicate.
IgnoredButDuplicates(p) == p.tei \/ ~p.payload

\* The early returns: errored, without payload, or a duplicate.
Ignored(p) == p.tei \/ ~p.payload \/ (cc >= 0 /\ p.cc = cc)

PushIgnored(p) ==
    /\ Ignored(p)
    /\ UNCHANGED <<buf, active, cc, draining, behind>>

\* No packet is missing before this one.
Continued(p) == cc < 0 \/ p.cc = (cc + 1) % CcModulus

\* What was collected, and whether it is of use, after a look at the counter.
Collected(p) == IF Continued(p) THEN buf ELSE <<>>
Collecting(p) == active /\ Continued(p)

\* Nothing of this packet is of use: the adaptation field leaves no payload,
\* or the start of the section has been missed.
PushNothing(p) ==
    /\ ~Ignored(p)
    /\ p.room = 0 \/ (~p.start /\ ~Collecting(p))
    /\ cc' = p.cc
    /\ buf' = Collected(p)
    /\ active' = Collecting(p)
    /\ UNCHANGED <<draining, behind>>

PushMore(p) ==
    /\ ~Ignored(p)
    /\ p.room > 0 /\ ~p.start /\ Collecting(p)
    /\ cc' = p.cc
    /\ buf' = buf \o p.data
    /\ draining' = "after"
    /\ UNCHANGED <<active, behind>>

\* Bug: what lies before the pointer is thrown away.
PushStartAnew(p) ==
    /\ ~Ignored(p)
    /\ p.room > 0 /\ p.start
    /\ cc' = p.cc
    /\ active' = TRUE
    /\ buf' = p.data
    /\ draining' = "after"
    /\ UNCHANGED behind

\* payload_unit_start_indicator: the pointer says where a section starts.
PushStart(p) ==
    /\ ~Ignored(p)
    /\ p.room > 0 /\ p.start
    /\ cc' = p.cc
    /\ active' = TRUE
    /\ IF Collecting(p)
         THEN buf' = buf \o p.pre /\ behind' = p.data /\ draining' = "before"
         ELSE buf' = p.data /\ draining' = "after" /\ UNCHANGED behind

Push(p) ==
    /\ out' = <<>>
    /\ PushIgnored(p) \/ PushNothing(p) \/ PushMore(p) \/ PushStart(p)

-----------------------------------------------------------------------------
(* _drain()                                                                 *)

\* Only the first bytes of a section, all in their place, say how long it is;
\* other bytes in that place say anything.
Lengths(sections) ==
    LET headed == {s \in sections : \A i \in 1..HeaderSize : buf[i] = s.first + i - 1}
    IN IF headed # {} THEN {s.last - s.first + 1 : s \in headed}
                      ELSE HeaderSize..MaxSection

\* Only the first byte of a section is known not to be 0xFF.
NotStuffing == buf # <<>> => buf[1] # 0
MayBeStuffing(sections) == buf # <<>> /\ \A s \in sections : buf[1] # s.first

\* The CRC is right only for exactly the bytes of a section that was sent.
CrcRight(bytes, sections) ==
    \E s \in sections : bytes = [i \in 1..(s.last - s.first + 1) |-> s.first + i - 1]

Take(length, sections) ==
    IF CrcRight(SubSeq(buf, 1, length), sections)
      THEN out' = Append(out, [first |-> buf[1], last |-> buf[length]]) ELSE UNCHANGED out

\* The section in front is complete.
DrainSection(sections) ==
    /\ draining # "no"
    /\ Len(buf) >= HeaderSize /\ NotStuffing
    /\ \E length \in Lengths(sections) :
          /\ length <= Len(buf)
          /\ Take(length, sections)
          /\ buf' = SubSeq(buf, length + 1, Len(buf))
    /\ UNCHANGED <<active, cc, draining, behind>>

\* Behind the part before the pointer comes the part after it.
DrainReturns(rest, on) ==
    IF draining = "before"
      THEN /\ buf' = behind
           /\ active' = TRUE
           /\ behind' = <<>>
           /\ draining' = "after"
      ELSE /\ buf' = rest
           /\ active' = on
           /\ draining' = "no"
           /\ UNCHANGED behind

\* The section in front, or its header, is not complete.
DrainIncomplete(sections) ==
    /\ draining # "no"
    /\ NotStuffing
    /\ Len(buf) >= HeaderSize => \E length \in Lengths(sections) : Len(buf) < length
    /\ DrainReturns(buf, active)
    /\ UNCHANGED <<cc, out>>

\* Stuffing up to the end of the packet.
DrainStuffing(sections) ==
    /\ draining # "no"
    /\ MayBeStuffing(sections)
    /\ DrainReturns(<<>>, FALSE)
    /\ UNCHANGED <<cc, out>>

Drain(sections) ==
    DrainSection(sections) \/ DrainIncomplete(sections) \/ DrainStuffing(sections)
=============================================================================
