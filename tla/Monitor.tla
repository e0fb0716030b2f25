------------------------------- MODULE Monitor -------------------------------
(***************************************************************************)
(* recdyud-diag monitor: the main thread counts what the TsReader delivers *)
(* and reports, at intervals, what has been added since the last report;   *)
(* between two reads of the queue it sends commands to the tuner, which    *)
(* may fail.                                                               *)
(***************************************************************************)
EXTENDS TsReader

CONSTANTS
    Interval,   \* --interval, in ticks of the clock
    Duration,   \* --duration, 0 for no limit
    MaxCc,      \* bound of the model: continuity errors found in one chunk
    MaxClock    \* bound of the model: the clock

ASSUME MonitorAssumption ==
    /\ Interval \in Nat \ {0}
    /\ Duration \in Nat
    /\ MaxCc \in Nat
    /\ MaxClock \in Nat /\ MaxClock >= Duration + Interval

VARIABLES
    mon,        \* where the main thread is
    clock,      \* time.monotonic() - started
    next,       \* next_report
    total,      \* analyzer.total: packets, in chunks, and cc_errors
    prev,       \* total at the last report
    leave,      \* how the try statement is left
    mcode,      \* the exit code, -1 while monitor runs
    reported    \* history: the sum of the reports

reportVars == <<next, prev, leave, reported>>
monitorVars == <<mon, clock, total, mcode, reportVars>>

MonitorPhases == {"setup", "loop", "get", "report", "halt", "join", "verdict", "closed"}

Counts == [packets : Nat, cc : Nat]
NoCounts == [packets |-> 0, cc |-> 0]

MonitorTypeOK ==
    /\ ReaderTypeOK
    /\ mon \in MonitorPhases
    /\ clock \in 0..MaxClock
    /\ next \in Nat
    /\ total \in Counts
    /\ prev \in Counts
    /\ leave \in {"normal", "broken", "raised"}
    /\ mcode \in -1..1
    /\ reported \in Counts

MonitorInit ==
    /\ ReaderInit
    /\ mon = "setup"
    /\ clock = 0
    /\ next = Interval
    /\ total = NoCounts
    /\ prev = NoCounts
    /\ leave = "normal"
    /\ mcode = -1
    /\ reported = NoCounts

-----------------------------------------------------------------------------

\* open_device(), tune() or wait_lock() raises.
MonitorSetupFails ==
    /\ mon = "setup"
    /\ mon' = "closed"
    /\ mcode' = 1
    /\ UNCHANGED <<readerVars, clock, total, reportVars>>

\* Locked or not, the reader starts, on a TS that nobody has purged.
MonitorStart ==
    /\ mon = "setup"
    /\ mon' = "loop"
    /\ rpc' = "check"
    /\ UNCHANGED <<hand, consec, halt, error, stop, queue, dropped, nread, kept,
                   clock, total, mcode, reportVars>>

MonitorLoop ==
    /\ mon = "loop"
    /\ mon' = IF stop THEN "halt" ELSE "get"
    /\ UNCHANGED <<readerVars, clock, total, mcode, reportVars>>

\* A chunk is counted, with the continuity errors found in it: as many as PIDs
\* have lost packets, or packets in it do not continue the one before, be it on
\* the air, in failed transfers or by overflow (TsAnalyzer says which).
MonitorGet ==
    /\ mon = "get"
    /\ queue # <<>>
    /\ queue' = Tail(queue)
    /\ \E e \in 0..MaxCc :
          total' = [packets |-> total.packets + 1, cc |-> total.cc + e]
    /\ mon' = "report"
    /\ UNCHANGED <<rpc, hand, consec, halt, error, stop, dropped, nread, kept,
                   clock, mcode, reportVars>>

MonitorGetNothing ==
    /\ mon = "get"
    /\ queue = <<>>
    /\ mon' = "report"
    /\ UNCHANGED <<readerVars, clock, total, mcode, reportVars>>

NotDue ==
    /\ mon = "report"
    /\ clock < next
    /\ mon' = "loop"
    /\ UNCHANGED <<readerVars, clock, total, mcode, reportVars>>

Added(a, b) == [packets |-> a.packets + b.packets, cc |-> a.cc + b.cc]
Since(a, b) == [packets |-> a.packets - b.packets, cc |-> a.cc - b.cc]

\* When the next report is due; reports that have been missed are left out.
NextReport == IF next + Interval < clock THEN clock + Interval ELSE next + Interval

\* Bug: prev is analyzer.total itself, not a copy.
ReportAliased ==
    /\ mon = "report"
    /\ clock >= next
    /\ prev' = total
    /\ UNCHANGED reported
    /\ next' = NextReport
    /\ mon' = IF Duration > 0 /\ clock >= Duration THEN "halt" ELSE "loop"
    /\ UNCHANGED <<readerVars, clock, total, leave, mcode>>

\* The commands succeed; what has been counted since the last report is
\* printed.
Report ==
    /\ mon = "report"
    /\ clock >= next
    /\ reported' = Added(reported, Since(total, prev))
    /\ prev' = total
    /\ next' = NextReport
    /\ mon' = IF Duration > 0 /\ clock >= Duration THEN "halt" ELSE "loop"
    /\ UNCHANGED <<readerVars, clock, total, leave, mcode>>

\* A command raises DeviceError, or print() finds its output closed.
ReportFails ==
    /\ mon = "report"
    /\ clock >= next
    /\ leave' \in {"broken", "raised"}
    /\ mon' = "halt"
    /\ UNCHANGED <<readerVars, clock, next, total, prev, mcode, reported>>

\* The finally clause.
MonitorHalt ==
    /\ mon = "halt"
    /\ halt' = TRUE
    /\ mon' = "join"
    /\ UNCHANGED <<rpc, hand, consec, error, stop, queue, dropped, nread, kept,
                   clock, total, mcode, reportVars>>

\* Bug: halt() does not wait for the reader.
MonitorJoinAtOnce ==
    /\ mon = "join"
    /\ mon' = "verdict"
    /\ UNCHANGED <<readerVars, clock, total, mcode, reportVars>>

\* The reader ends within the 2 s of its join().
MonitorJoin ==
    /\ mon = "join"
    /\ rpc = "dead"
    /\ mon' = "verdict"
    /\ UNCHANGED <<readerVars, clock, total, mcode, reportVars>>

\* The exit code; the tuner is closed on the way.
MonitorVerdict ==
    /\ mon = "verdict"
    /\ mcode' = IF leave = "raised" \/ (leave = "normal" /\ error) THEN 1 ELSE 0
    /\ mon' = "closed"
    /\ UNCHANGED <<readerVars, clock, total, reportVars>>

MonitorStep ==
    \/ MonitorSetupFails \/ MonitorStart \/ MonitorLoop \/ MonitorGet
    \/ MonitorGetNothing \/ NotDue \/ Report \/ ReportFails
    \/ MonitorHalt \/ MonitorJoin \/ MonitorVerdict

MonitorReader == ReaderStep /\ UNCHANGED monitorVars

\* The clock goes on at any moment, also while a command is under way.
ClockTick ==
    /\ mon \notin {"setup", "closed"}
    /\ clock < MaxClock
    /\ clock' = clock + 1
    /\ UNCHANGED <<readerVars, mon, total, mcode, reportVars>>

MonitorSignal ==
    /\ ~stop
    /\ mon # "closed"
    /\ stop' = TRUE
    /\ UNCHANGED <<rpc, hand, consec, halt, error, queue, dropped, nread, kept, monitorVars>>

MonitorNext == MonitorStep \/ MonitorReader \/ ClockTick \/ MonitorSignal

-----------------------------------------------------------------------------
(* Properties                                                               *)

\* What the transfers have delivered and the analyzer has not counted, is not
\* waiting for it and was not dropped.
Outstanding == nread - (total.packets + Len(queue) + dropped)

\* Every chunk that has been taken from the queue, and every error found in it, is
\* in exactly one report or in the next one, however the reports fail or are
\* left out; and the counts of the two threads add up to what the tuner has
\* delivered, but for a chunk in the hand of the reader, or one lost with the
\* failure that ended it.
ReportsAddUp ==
    /\ Added(reported, Since(total, prev)) = total
    /\ hand # 0 => Outstanding = 1
    /\ hand = 0 => Outstanding = 0 \/ (Outstanding = 1 /\ (rpc = "fail" \/ error))

\* monitor ends in order: the tuner is closed only after its reader has ended,
\* and a failure of the reader or of a command is never reported as success,
\* even if a signal or the duration ends the loop in the same moment.
MonitorEndsInOrder ==
    mon = "closed" =>
        /\ rpc \in {"new", "dead"}
        /\ error \/ leave = "raised" => mcode = 1 \/ leave = "broken"
=============================================================================
