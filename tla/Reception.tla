------------------------------ MODULE Reception ------------------------------
(***************************************************************************)
(* What recdyud-diag does with each aligned packet, analyzer.update() and  *)
(* si.update(), under a broadcast whose packets get lost in runs of any    *)
(* length (also in chunks that the reader dropped), arrive with an error   *)
(* indication or arrive twice.  The broadcast is external: it carries      *)
(* sections of one table, packed as ISO/IEC 13818-1 allows, and other PIDs.*)
(***************************************************************************)
EXTENDS TsAnalyzer, SectionAssembler, SequencesExt

CONSTANTS
    SiPid,          \* the PID of the table, one of SiCollector.PIDS
    Room,           \* payload of a packet, 184
    SectionSizes,   \* the lengths of sections
    MaxPackets,     \* bound of the model: packets sent
    MaxOther,       \* bound of the model: those that carry nothing of the table
    MaxGap          \* bound of the model: packets lost in a row

ASSUME ReceptionAssumption ==
    /\ SiPid \in Pids \ {NullPid}
    /\ CcModulus = CcMod
    /\ HeaderSize \in Nat \ {0} /\ MaxSection \in Nat
    /\ SectionSizes \subseteq HeaderSize..MaxSection
    /\ Room \in Nat \ {0}
    /\ MaxPackets \in Nat /\ MaxGap \in Nat

VARIABLES
    sent,       \* packets with payload sent on each PID
    air,        \* the packets about to arrive
    sections,   \* the sections begun so far
    at,         \* how many of their bytes have been sent
    npackets,   \* packets sent
    ngap,       \* packets lost since one arrived
    seen,       \* history: number of the last good packet of each PID, 0 for none
    breaks,     \* history: packets that arrived behind missing ones
    unseen,     \* history: those of them behind which the counter looks right
    whole,      \* history: the unfinished section has arrived so far
    due,        \* history: sections of which every packet arrives, not returned yet
    returned    \* history: where the last section returned ends

broadcastVars == <<sent, air, sections, at, npackets, ngap>>
historyVars == <<seen, breaks, unseen, whole, due, returned>>
vars == <<analyzerVars, assemblerVars, broadcastVars, historyVars>>

Packet == [pid : Pids, num : Nat, cc : 0..(CcMod - 1), tei : BOOLEAN, payload : BOOLEAN,
           scrambled : BOOLEAN, start : BOOLEAN, room : Nat, pre : Seq(Byte), data : Seq(Byte)]

TypeOK ==
    /\ AnalyzerTypeOK
    /\ AssemblerTypeOK
    /\ sent \in [Pids -> Nat]
    /\ air \in Seq(Packet)
    /\ sections \subseteq Section
    /\ at \in Nat
    /\ npackets \in 0..MaxPackets
    /\ ngap \in 0..MaxGap
    /\ seen \in [Pids -> Nat]
    /\ breaks \in Nat
    /\ unseen \in 0..breaks
    /\ whole \in BOOLEAN
    /\ due \subseteq sections
    /\ returned \in Nat

Init ==
    /\ AnalyzerInit
    /\ AssemblerInit
    /\ sent = [pid \in Pids |-> 0]
    /\ air = <<>>
    /\ sections = {}
    /\ at = 0
    /\ npackets = 0
    /\ ngap = 0
    /\ seen = [pid \in Pids |-> 0]
    /\ breaks = 0
    /\ unseen = 0
    /\ whole = FALSE
    /\ due = {}
    /\ returned = 0

-----------------------------------------------------------------------------
(* The broadcast                                                            *)

\* The end of the last section begun.
Top == Max({s.last : s \in sections} \cup {0})

\* The bytes from position a on, with stuffing behind the last one.
Bytes(a, n, top) == [i \in 1..n |-> IF a + i <= top THEN a + i ELSE 0]

Header(pid, payload) ==
    [pid |-> pid, num |-> sent[pid] + (IF payload THEN 1 ELSE 0),
     cc |-> (sent[pid] + (IF payload THEN 1 ELSE 0)) % CcMod,
     tei |-> FALSE, payload |-> payload, scrambled |-> FALSE,
     start |-> FALSE, room |-> 0, pre |-> <<>>, data |-> <<>>]

Errored(p) == [p EXCEPT !.tei = TRUE]

\* The ways in which a packet arrives.
Arrivals(p) == {<<>>, <<p>>, <<Errored(p)>>, <<p, p>>, <<Errored(p), p>>}

\* A packet is sent; "ends" are the sections that end in it, "begun" those that
\* begin in it, "open" says that another one is unfinished then.
Transmit(p, ends, begun, open) ==
    /\ air = <<>>
    /\ draining = "no"
    /\ npackets < MaxPackets
    /\ npackets' = npackets + 1
    /\ sent' = [sent EXCEPT ![p.pid] = p.num]
    /\ \E copies \in Arrivals(p) :
          /\ air' = copies
          /\ IF copies = <<>> THEN ngap < MaxGap /\ ngap' = ngap + 1 ELSE ngap' = 0
          /\ IF p.pid = SiPid /\ p.payload
               THEN LET arrived == p \in ToSet(copies)
                        fresh == seen[SiPid] = 0 \/ (p.num - seen[SiPid]) % CcMod # 0
                        good(s) == arrived /\ IF s \in begun THEN fresh ELSE whole
                    IN /\ due' = due \cup {s \in ends : good(s)}
                       /\ whole' = (open /\ arrived /\ (IF begun # {} THEN fresh ELSE whole))
               ELSE UNCHANGED <<due, whole>>
    /\ UNCHANGED <<analyzerVars, assemblerVars, seen, breaks, unseen, returned>>

\* A packet of another PID, or one without payload.
SendOther ==
    /\ npackets - sent[SiPid] < MaxOther
    /\ \E pid \in Pids, payload, enc \in BOOLEAN :
          /\ pid # SiPid \/ ~payload
          /\ enc => pid \notin {SiPid, NullPid}
          /\ Transmit([Header(pid, payload) EXCEPT !.scrambled = enc], {}, {}, FALSE)
    /\ UNCHANGED <<sections, at>>

\* The section goes on, up to its end or through the whole packet; an
\* adaptation field may leave it no room.
SendMore ==
    /\ at < Top
    /\ \E room \in {0, Room} :
          LET p == [Header(SiPid, TRUE) EXCEPT !.room = room, !.data = Bytes(at, room, Top)]
              end == Min({at + room, Top})
          IN /\ at' = end
             /\ Transmit(p, {s \in sections : s.last > at /\ s.last <= end}, {}, end < Top)
    /\ UNCHANGED sections

\* One or two sections begin, behind the end of the one before.
SendStart ==
    \E sizes \in [1..1 -> SectionSizes] \cup [1..2 -> SectionSizes] :
       LET room == Room - 1
           second == IF Len(sizes) = 2
                       THEN {[first |-> Top + sizes[1] + 1, last |-> Top + sizes[1] + sizes[2]]}
                       ELSE {}
           begun == {[first |-> Top + 1, last |-> Top + sizes[1]]} \cup second
           top == Max({s.last : s \in begun})
           end == Min({at + room, top})
           pre == Top - at
           p == [Header(SiPid, TRUE) EXCEPT !.start = TRUE, !.room = Room,
                   !.pre = Bytes(at, pre, Top), !.data = Bytes(Top, room - pre, top)]
       IN /\ \A s \in begun : s.first <= at + room
          /\ sections' = sections \cup begun
          /\ at' = end
          /\ Transmit(p, {s \in sections \cup begun : s.last > at /\ s.last <= end},
                      begun, end < top)

Broadcast == SendOther \/ SendMore \/ SendStart

-----------------------------------------------------------------------------
(* The receiver                                                             *)

\* The true position of a good packet on its PID, for the history.
Observe(p) ==
    IF p.tei \/ ~p.payload \/ p.pid = NullPid THEN UNCHANGED <<seen, breaks, unseen>>
    ELSE LET gap == seen[p.pid] > 0 /\ p.num > seen[p.pid] + 1 IN
         /\ seen' = [seen EXCEPT ![p.pid] = p.num]
         /\ breaks' = breaks + (IF gap THEN 1 ELSE 0)
         /\ unseen' = unseen
              + (IF gap /\ (p.num - seen[p.pid]) % CcMod \in {0, 1} THEN 1 ELSE 0)

\* analyzer.update() and si.update(), which looks at the PIDs of its tables.
Receive ==
    /\ draining = "no"
    /\ air # <<>>
    /\ air' = Tail(air)
    /\ LET p == Head(air) IN
       /\ Count(p)
       /\ IF p.pid = SiPid THEN Push(p) ELSE UNCHANGED assemblerVars
       /\ Observe(p)
    /\ UNCHANGED <<sent, sections, at, npackets, ngap, whole, due, returned>>

\* The parsers get the sections that push() returns.
Collect ==
    /\ Drain(sections)
    /\ due' = due \ ToSet(out')
    /\ returned' = IF out' = out THEN returned ELSE Last(out').last
    /\ UNCHANGED <<analyzerVars, broadcastVars, seen, breaks, unseen, whole>>

Next == Broadcast \/ Receive \/ Collect

Spec == Init /\ [][Next]_vars

-----------------------------------------------------------------------------
(* Properties                                                               *)

\* The counts by which _verdict() and scan judge the reception are true.
\* cc_errors counts the gaps in the stream of each PID: no false alarm through
\* duplicates, errored or empty packets, the wrap of the counter or the other
\* PIDs, and no gap goes unnoticed but those which leave the counter unchanged
\* or one ahead.  tei_percent and scrambled_percent stay between 0 and 100
\* whatever mixture of packets arrives.
CountsAreTrue ==
    /\ ccErrors + unseen = breaks
    /\ tei <= packets - null
    /\ scrambled <= PayloadPackets

\* A section of which every packet has arrived is returned, whatever was lost
\* before it, between its packets in other PIDs, or doubled within it; unless
\* the loss before it leaves the counter of its first packet unchanged.
WholeSectionsComeOut ==
    air = <<>> /\ draining = "no" => due = {}

\* Sections come out in the order in which they were sent and none comes out
\* twice, although packets do.
OnceInOrder ==
    [][out' # out /\ out' # <<>> => Last(out').first > returned]_vars
=============================================================================
