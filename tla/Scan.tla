-------------------------------- MODULE Scan --------------------------------
(***************************************************************************)
(* recdyud-diag scan: one thread that tunes to each channel, throws away   *)
(* what the tuner still held of the channel before and collects the        *)
(* service information of the new one.  The tuner streams into its FIFO    *)
(* all the while; the FIFO keeps its content when another frequency is     *)
(* set and drops the newest data when it is full.                          *)
(***************************************************************************)
EXTENDS Channels, SequencesExt

CONSTANTS
    Prefix, Low, High,  \* --channels, a range
    FifoSize,           \* what the FIFO of the tuner holds, in blocks
    PurgeAmount,        \* what purge() asks for, in blocks
    ReadSize,           \* what a read returns at most, in blocks
    ScanErrors          \* TS_MAX_CONSECUTIVE_ERRORS

ASSUME ScanAssumption ==
    /\ Low \in Int /\ High \in Int /\ ValidRange(Prefix, Low, High)
    /\ FifoSize \in Nat /\ PurgeAmount \in Nat
    /\ ReadSize \in Nat \ {0} /\ ScanErrors \in Nat \ {0}

(* A block of the stream is the frequency that it was received on, and      *)
(* Elsewhere if it was left by an earlier process.  The transport stream of *)
(* a channel has the frequency as its ID; None is None.  All channels are   *)
(* of one network, whose NIT lists their transport streams in order.        *)
Scanned == ExpandRange(Prefix, Low, High)
Network == [i \in DOMAIN Scanned |-> FrequencyOf(Scanned[i])]
Elsewhere == 1
None == 0
Block == Int

VARIABLES
    spc,        \* where scan is
    chan,       \* the position of the channel in the list, 0 before the first
    streaming,  \* whether the tuner streams
    fifo,       \* the blocks in the FIFO of the tuner
    errors,     \* _ts_consecutive_errors
    remaining,  \* what purge() has still to read
    waited,     \* whether one of its reads ran into its timeout
    elapsed,    \* 0, 1 from min_dwell on, 2 from dwell on
    info,       \* si.info
    results,    \* per channel: whether it is locked in the end, and si.info
    stopped,    \* the stop event
    scode,      \* the exit code, -1 while scan runs
    named       \* history: a NIT has come behind the ID of its transport stream

tunerVars == <<streaming, fifo, errors>>
purgeVars == <<remaining, waited>>
dwellVars == <<elapsed, info, named>>
scanVars == <<spc, chan, tunerVars, purgeVars, dwellVars, results, stopped, scode>>

ScanPhases == {"open", "channel", "lock", "purge", "dwell", "sample", "closed"}

\* TransportInfo
Info == [tsid : Int, services : SUBSET Int, network : BOOLEAN, name : Int]
NoInfo == [tsid |-> None, services |-> {}, network |-> FALSE, name |-> None]

Complete == info.services # {} /\ (info.network \/ info.name # None)

ScanTypeOK ==
    /\ spc \in ScanPhases
    /\ chan \in 0..Len(Scanned)
    /\ streaming \in BOOLEAN
    /\ fifo \in Seq(Block)
    /\ Len(fifo) <= FifoSize
    /\ errors \in 0..ScanErrors
    /\ remaining \in Int
    /\ waited \in BOOLEAN
    /\ elapsed \in 0..2
    /\ info \in Info
    /\ results \in Seq([locked : BOOLEAN, info : Info])
    /\ stopped \in BOOLEAN
    /\ scode \in -1..1
    /\ named \in BOOLEAN

ScanInit ==
    /\ spc = "open"
    /\ chan = 0
    /\ streaming = FALSE
    /\ \E n \in 0..FifoSize : fifo = [i \in 1..n |-> Elsewhere]
    /\ errors = 0
    /\ remaining = 0
    /\ waited = FALSE
    /\ elapsed = 0
    /\ info = NoInfo
    /\ results = <<>>
    /\ stopped = FALSE
    /\ scode = -1
    /\ named = FALSE

-----------------------------------------------------------------------------
(* PAT, SDT and NIT                                                         *)

\* The transport streams that the NIT in a block lists.
Listed(block) == IF block = Elsewhere THEN <<Elsewhere>> ELSE Network

\* parse_pat(), parse_sdt()
ParsePat(i, block) == [i EXCEPT !.tsid = block]
ParseSdt(i, block) ==
    [i EXCEPT !.tsid = IF @ = None THEN block ELSE @, !.services = @ \cup {block}]

\* Bug: the entries of the other transport streams are taken, too.
NitAll(i, list) == DOMAIN list

\* The entries of the list that parse_nit() takes for those of this transport
\* stream: all of them as long as its ID is not known.
NitOwn(i, list) == {k \in DOMAIN list : i.tsid \in {None, list[k]}}

\* parse_nit(): the last of these entries names the transport stream.
ParseNit(i, block) ==
    LET list == Listed(block)
        own == NitOwn(i, list)
    IN [i EXCEPT !.network = TRUE, !.name = IF own = {} THEN @ ELSE list[Max(own)]]

-----------------------------------------------------------------------------
(* The tuner                                                                *)

Freq == FrequencyOf(Scanned[chan])

Fill ==
    /\ streaming
    /\ Len(fifo) < FifoSize
    /\ fifo' = Append(fifo, Freq)
    /\ UNCHANGED <<spc, chan, streaming, errors, purgeVars, dwellVars, results, stopped, scode>>

\* _drain() of initialize(): it reads a limited number of times and stops at
\* the first error, so that something may be left.
OpenDrain ==
    /\ spc = "open"
    /\ \E k \in 0..Len(fifo) : fifo' = SubSeq(fifo, k + 1, Len(fifo))
    /\ spc' = "channel"
    /\ UNCHANGED <<chan, streaming, errors, purgeVars, dwellVars, results, stopped, scode>>

\* Bug: failed transfers are not limited.
ReadForEver(k, n) ==
    /\ k \in 0..ReadSize /\ k <= Len(fifo) /\ n \in 0..k
    /\ fifo' = SubSeq(fifo, k + 1, Len(fifo))
    /\ (n > 0 /\ n = k /\ errors' = 0) \/ errors' = errors + 1

\* read_ts() takes k blocks from the FIFO and returns n of them: a transfer
\* that fails loses some.
Read(k, n) ==
    /\ k \in 0..ReadSize /\ k <= Len(fifo) /\ n \in 0..k
    /\ fifo' = SubSeq(fifo, k + 1, Len(fifo))
    /\ \/ n > 0 /\ n = k /\ errors' = 0
       \/ errors + 1 < ScanErrors /\ errors' = errors + 1

-----------------------------------------------------------------------------
(* scan_channel()                                                           *)

\* tune(): the FIFO keeps what it holds of the channel before.
Tune ==
    /\ spc = "channel"
    /\ chan < Len(Scanned) /\ ~stopped
    /\ chan' = chan + 1
    /\ streaming' = TRUE
    /\ spc' = "lock"
    /\ UNCHANGED <<fifo, errors, purgeVars, dwellVars, results, stopped, scode>>

\* wait_lock() ends without a lock.
NoLock ==
    /\ spc = "lock"
    /\ results' = Append(results, [locked |-> FALSE, info |-> NoInfo])
    /\ spc' = "channel"
    /\ UNCHANGED <<chan, tunerVars, purgeVars, dwellVars, stopped, scode>>

Lock ==
    /\ spc = "lock"
    /\ remaining' = PurgeAmount
    /\ waited' = FALSE
    /\ spc' = "purge"
    /\ UNCHANGED <<chan, tunerVars, dwellVars, results, stopped, scode>>

\* Bug: a read that fails without data counts as the end of the old data.
PurgeReadImpatient ==
    /\ spc = "purge"
    /\ remaining > 0
    /\ \E k \in 0..ReadSize : \E n \in 0..k :
          /\ Read(k, n)
          /\ remaining' = remaining - n
          /\ waited' = (waited \/ n = 0)
    /\ UNCHANGED <<spc, chan, streaming, dwellVars, results, stopped, scode>>

PurgeRead ==
    /\ spc = "purge"
    /\ remaining > 0
    /\ \E k \in 0..ReadSize : \E n \in 0..k :
          /\ Read(k, n)
          /\ remaining' = remaining - n
    /\ UNCHANGED <<spc, chan, streaming, waited, dwellVars, results, stopped, scode>>

\* A read of purge() waits 500 ms for nothing.
PurgeWaits ==
    /\ spc = "purge"
    /\ remaining > 0
    /\ fifo = <<>>
    /\ waited' = TRUE
    /\ UNCHANGED <<spc, chan, tunerVars, remaining, dwellVars, results, stopped, scode>>

\* Bug: purge() has no time limit.
PurgeEndsCounting ==
    /\ spc = "purge"
    /\ remaining <= 0
    /\ spc' = "dwell"
    /\ elapsed' = 0 /\ info' = NoInfo /\ named' = FALSE
    /\ UNCHANGED <<chan, tunerVars, purgeVars, results, stopped, scode>>

\* All is read, or the 3 s are over, which takes reads that wait: all others
\* are over in milliseconds.
PurgeEnds ==
    /\ spc = "purge"
    /\ remaining <= 0 \/ waited
    /\ spc' = "dwell"
    /\ elapsed' = 0 /\ info' = NoInfo /\ named' = FALSE
    /\ UNCHANGED <<chan, tunerVars, purgeVars, results, stopped, scode>>

DwellOver == stopped \/ elapsed = 2 \/ (Complete /\ elapsed = 1)

\* A read, whose blocks carry a table or none.
DwellRead ==
    /\ spc = "dwell"
    /\ ~DwellOver
    /\ \E k \in 0..ReadSize : \E n \in 0..k :
          /\ Read(k, n)
          /\ \/ UNCHANGED <<info, named>>
             \/ \E j \in 1..n :
                   \/ info' = ParsePat(info, fifo[j]) /\ UNCHANGED named
                   \/ info' = ParseSdt(info, fifo[j]) /\ UNCHANGED named
                   \/ info' = ParseNit(info, fifo[j]) /\ named' = (named \/ info.tsid # None)
    /\ UNCHANGED <<spc, chan, streaming, purgeVars, elapsed, results, stopped, scode>>

DwellEnds ==
    /\ spc = "dwell"
    /\ DwellOver
    /\ spc' = "sample"
    /\ UNCHANGED <<chan, tunerVars, purgeVars, dwellVars, results, stopped, scode>>

\* The signal level and the lock status in the end.
Sample ==
    /\ spc = "sample"
    /\ \E locked \in BOOLEAN : results' = Append(results, [locked |-> locked, info |-> info])
    /\ spc' = "channel"
    /\ UNCHANGED <<chan, tunerVars, purgeVars, dwellVars, stopped, scode>>

-----------------------------------------------------------------------------
(* cmd_scan()                                                               *)

\* ScanResult.received
Received(r) == r.locked /\ r.info.services # {}

\* The loop ends; the tuner is closed, the results are printed.
ScanEnds ==
    /\ spc = "channel"
    /\ stopped \/ chan = Len(Scanned)
    /\ scode' = IF \E i \in DOMAIN results : Received(results[i]) THEN 0 ELSE 1
    /\ spc' = "closed"
    /\ streaming' = FALSE
    /\ UNCHANGED <<chan, fifo, errors, purgeVars, dwellVars, results, stopped>>

\* A command or a read raises DeviceError, and the results so far are lost; or
\* print() finds its output closed.
ScanRaises ==
    /\ spc # "closed"
    /\ \/ (spc = "channel" => chan < Len(Scanned) /\ ~stopped) /\ scode' = 1
       \/ spc = "channel" /\ results # <<>> /\ scode' = 0
    /\ spc' = "closed"
    /\ streaming' = FALSE
    /\ UNCHANGED <<chan, fifo, errors, purgeVars, dwellVars, results, stopped>>

\* The deadlines of the loop pass.
Elapse ==
    /\ spc = "dwell"
    /\ elapsed < 2
    /\ elapsed' = elapsed + 1
    /\ UNCHANGED <<spc, chan, tunerVars, purgeVars, info, named, results, stopped, scode>>

ScanSignal ==
    /\ ~stopped
    /\ spc # "closed"
    /\ stopped' = TRUE
    /\ UNCHANGED <<spc, chan, tunerVars, purgeVars, dwellVars, results, scode>>

ScanStep ==
    \/ OpenDrain \/ Tune \/ NoLock \/ Lock \/ PurgeRead \/ PurgeWaits \/ PurgeEnds
    \/ DwellRead \/ DwellEnds \/ Sample \/ ScanEnds

ScanNext == ScanStep \/ ScanRaises \/ Elapse \/ Fill \/ ScanSignal

ScanSpec == ScanInit /\ [][ScanNext]_scanVars

-----------------------------------------------------------------------------
(* Properties                                                               *)

\* A record holds nothing but what was received on a frequency.
Own(i, f) == i.tsid \in {None, f} /\ i.services \subseteq {f}

\* What is reported for a channel was received on its frequency: nothing that
\* an earlier process or the channel before has left in the FIFO gets through
\* failed and short reads, the time limit of purge() or a stop; provided that
\* the FIFO holds no more than purge() asks for.
OwnServicesOnly ==
    FifoSize <= PurgeAmount =>
        /\ \A i \in DOMAIN results : Own(results[i].info, Network[i])
        /\ spc \in {"dwell", "sample"} => Own(info, Network[chan])

\* A transport stream keeps the name of another one that a NIT before its PAT
\* has given it no longer than until the next NIT.
NameSettles == named => info.name = info.tsid
=============================================================================
