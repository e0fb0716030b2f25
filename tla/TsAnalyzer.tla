----------------------------- MODULE TsAnalyzer -----------------------------
(***************************************************************************)
(* ts.TsAnalyzer: counts the packets that carry an error indication, null  *)
(* packets, scrambled packets and the jumps of the continuity counter of   *)
(* each PID.  One action is one pass of the loop of update(); the totals   *)
(* are read between two calls only.                                        *)
(***************************************************************************)
EXTENDS Integers

CONSTANTS
    Pids,           \* the PIDs of the stream
    NullPid,        \* NULL_PID
    CcMod           \* number of values of the continuity counter, 16

ASSUME AnalyzerAssumption ==
    /\ NullPid \in Pids
    /\ CcMod \in Nat \ {0}

VARIABLES
    packets, tei, null, scrambled, ccErrors,    \* total
    lastCc      \* _last_cc, -1 for a PID not seen

counts == <<packets, tei, null, scrambled, ccErrors>>
analyzerVars == <<counts, lastCc>>

AnalyzerTypeOK ==
    /\ packets \in Nat
    /\ tei \in Nat
    /\ null \in Nat
    /\ scrambled \in Nat
    /\ ccErrors \in Nat
    /\ lastCc \in [Pids -> -1..(CcMod - 1)]

AnalyzerInit ==
    /\ packets = 0 /\ tei = 0 /\ null = 0 /\ scrambled = 0 /\ ccErrors = 0
    /\ lastCc = [pid \in Pids |-> -1]

\* Bug: the difference is not reduced modulo 16.
JumpUnmasked(prev, cc) == prev >= 0 /\ cc - prev > 1

\* Neither the next value of the counter nor the same one again, which is a
\* permitted duplicate.
Jump(prev, cc) == prev >= 0 /\ (cc - prev) % CcMod > 1

\* The header of an errored packet is not looked at.
CountErrored(p) ==
    /\ p.tei
    /\ tei' = tei + 1
    /\ UNCHANGED <<null, scrambled, ccErrors, lastCc>>

CountNull(p) ==
    /\ ~p.tei
    /\ p.pid = NullPid
    /\ null' = null + 1
    /\ UNCHANGED <<tei, scrambled, ccErrors, lastCc>>

\* Bug: the value expected next is stored, not reduced modulo 16.
CountOtherAhead(p) ==
    /\ ~p.tei
    /\ p.pid # NullPid
    /\ lastCc' = [lastCc EXCEPT ![p.pid] = p.cc + 1]
    /\ UNCHANGED <<tei, null, scrambled, ccErrors>>

CountOther(p) ==
    /\ ~p.tei
    /\ p.pid # NullPid
    /\ scrambled' = scrambled + (IF p.scrambled THEN 1 ELSE 0)
    /\ IF p.payload
         THEN /\ ccErrors' = ccErrors + (IF Jump(lastCc[p.pid], p.cc) THEN 1 ELSE 0)
              /\ lastCc' = [lastCc EXCEPT ![p.pid] = p.cc]
         ELSE UNCHANGED <<ccErrors, lastCc>>
    /\ UNCHANGED <<tei, null>>

Count(p) ==
    /\ packets' = packets + 1
    /\ CountErrored(p) \/ CountNull(p) \/ CountOther(p)

\* TsCounters.payload_packets, the denominator of scrambled_percent.
PayloadPackets == packets - null - tei
=============================================================================
