------------------------------ MODULE Recording ------------------------------
(***************************************************************************)
(* One run of cli.stream(): the main thread takes chunks from the TsReader *)
(* and writes them out until a signal, the deadline, an error of the       *)
(* reader or the loss of the output ends the recording.  The descrambling  *)
(* stage appears as what it promises (Relay): it holds chunks back and     *)
(* passes them on in order; Pipeline looks inside it.                      *)
(***************************************************************************)
EXTENDS TsReader, SequencesExt

CONSTANTS
    SlowReset   \* whether clear_halt() may outlast the join() of halt()

ASSUME SlowResetAssumption == SlowReset \in BOOLEAN

VARIABLES
    mpc,        \* where the main thread is
    back,       \* where it goes on after write() or halt()
    late,       \* whether the deadline of the recording has passed
    inside,     \* chunks the pipeline holds back
    outb,       \* the data that output.write() has still to write
    written,    \* history: everything written to the output
    ret,        \* how the try statement of stream() is left
    code        \* the exit code, -1 while the program runs

mainVars == <<mpc, back, late, inside, outb, written, ret, code>>
vars == <<readerVars, mainVars>>

MainPhases == {"setup", "start", "loop", "get", "write", "halt", "join",
               "drain", "finish", "final", "verdict", "closed"}

TypeOK ==
    /\ ReaderTypeOK
    /\ mpc \in MainPhases
    /\ back \in {"loop", "drain", "final", "verdict"}
    /\ late \in BOOLEAN
    /\ inside \in Seq(Nat)
    /\ outb \in Seq(Nat)
    /\ written \in Seq(Nat)
    /\ ret \in {"normal", "broken", "raised"}
    /\ code \in (-1)..2

Init ==
    /\ ReaderInit
    /\ mpc = "setup"
    /\ back = "loop"
    /\ late = FALSE
    /\ inside = <<>>
    /\ outb = <<>>
    /\ written = <<>>
    /\ ret = "normal"
    /\ code = -1

-----------------------------------------------------------------------------
(* Before the reader exists                                                 *)

\* wait_lock() ends without a lock, or a command or a purging read raises.
SetupFails ==
    /\ mpc = "setup"
    /\ mpc' = "closed"
    /\ code' \in {1, 2}
    /\ UNCHANGED <<readerVars, back, late, inside, outb, written, ret>>

\* purge() discards what the tuner held; its reads leave their error count.
Purge ==
    /\ mpc = "setup"
    /\ mpc' = "start"
    /\ consec' \in 0..(MaxErrors - 1)
    /\ UNCHANGED <<rpc, hand, halt, error, stop, queue, dropped, nread, kept,
                   back, late, inside, outb, written, ret, code>>

StartReader ==
    /\ mpc = "start"
    /\ IF stop
         THEN mpc' = "closed" /\ code' = 0 /\ UNCHANGED rpc
         ELSE mpc' = "loop" /\ rpc' = "check" /\ UNCHANGED code
    /\ UNCHANGED <<hand, consec, halt, error, stop, queue, dropped, nread, kept,
                   back, late, inside, outb, written, ret>>

-----------------------------------------------------------------------------
(* The loop, and what follows it                                            *)

LoopTop ==
    /\ mpc = "loop"
    /\ mpc' = IF stop \/ late THEN "halt" ELSE "get"
    /\ UNCHANGED <<readerVars, back, late, inside, outb, written, ret, code>>

\* handle(): the pipeline takes the chunk and gives out a prefix of what it
\* then holds; output that is not empty is written before the next chunk.
Handle(return) ==
    /\ queue # <<>>
    /\ queue' = Tail(queue)
    /\ LET all == Append(inside, Head(queue)) IN
       \E k \in 0..Len(all) :
          /\ outb' = SubSeq(all, 1, k)
          /\ inside' = SubSeq(all, k + 1, Len(all))
          /\ mpc' = IF k = 0 THEN return ELSE "write"
    /\ back' = return
    /\ UNCHANGED <<rpc, hand, consec, halt, error, stop, dropped, nread, kept,
                   late, written, ret, code>>

Get == mpc = "get" /\ Handle("loop")

\* queue.get() ran into its timeout.
GetNothing ==
    /\ mpc = "get"
    /\ queue = <<>>
    /\ mpc' = "loop"
    /\ UNCHANGED <<readerVars, back, late, inside, outb, written, ret, code>>

Write ==
    /\ mpc = "write"
    /\ written' = written \o outb
    /\ outb' = <<>>
    /\ mpc' = back
    /\ UNCHANGED <<readerVars, back, late, inside, ret, code>>

\* Bug: the exception passes the finally clause by.
WriteFailsUnhalted ==
    /\ mpc = "write"
    /\ ret' = "broken"
    /\ mpc' = "verdict"
    /\ UNCHANGED <<readerVars, back, late, inside, outb, written, code>>

\* os.write() fails after part of the data: EPIPE is taken for a regular
\* end, any other error ends the program with a traceback.
WriteFails ==
    /\ mpc = "write"
    /\ \E k \in 0..(Len(outb) - 1) :
          /\ written' = written \o SubSeq(outb, 1, k)
          /\ outb' = SubSeq(outb, k + 1, Len(outb))
    /\ ret' \in {"broken", "raised"}
    /\ mpc' = "final"
    /\ UNCHANGED <<readerVars, back, late, inside, code>>

\* Bug: the loop is left without draining the queue.
HaltUndrained ==
    /\ mpc \in {"halt", "final"}
    /\ halt' = TRUE
    /\ back' = IF mpc = "halt" THEN "finish" ELSE "verdict"
    /\ mpc' = "join"
    /\ UNCHANGED <<rpc, hand, consec, error, stop, queue, dropped, nread, kept,
                   late, inside, outb, written, ret, code>>

\* reader.halt(): after the loop, and again in the finally clause.
Halt ==
    /\ mpc \in {"halt", "final"}
    /\ halt' = TRUE
    /\ back' = IF mpc = "halt" THEN "drain" ELSE "verdict"
    /\ mpc' = "join"
    /\ UNCHANGED <<rpc, hand, consec, error, stop, queue, dropped, nread, kept,
                   late, inside, outb, written, ret, code>>

\* Bug: halt() does not wait for the thread.
JoinAtOnce ==
    /\ mpc = "join"
    /\ mpc' = back
    /\ UNCHANGED <<readerVars, back, late, inside, outb, written, ret, code>>

\* join(2.0) returns when the thread has ended.  Every step of the reader
\* but clear_halt() is over in less than two seconds.
Join ==
    /\ mpc = "join"
    /\ rpc = "dead" \/ (SlowReset /\ rpc = "reset")
    /\ mpc' = back
    /\ UNCHANGED <<readerVars, back, late, inside, outb, written, ret, code>>

Drain == mpc = "drain" /\ Handle("drain")

DrainEnds ==
    /\ mpc = "drain"
    /\ queue = <<>>
    /\ mpc' = "finish"
    /\ UNCHANGED <<readerVars, back, late, inside, outb, written, ret, code>>

\* pipeline.finish() gives out all that is left.
Finish ==
    /\ mpc = "finish"
    /\ outb' = inside
    /\ inside' = <<>>
    /\ mpc' = IF inside = <<>> THEN "final" ELSE "write"
    /\ back' = "final"
    /\ UNCHANGED <<readerVars, late, written, ret, code>>

\* Bug: a recording that has reached its deadline counts as successful.
VerdictByDeadline ==
    /\ mpc = "verdict"
    /\ code' = IF ret = "broken" \/ late THEN 0
               ELSE IF ret = "raised" \/ error THEN 1 ELSE 0
    /\ mpc' = "closed"
    /\ UNCHANGED <<readerVars, back, late, inside, outb, written, ret>>

\* The exit code; the with block then closes and releases the tuner.
Verdict ==
    /\ mpc = "verdict"
    /\ code' = IF ret = "broken" THEN 0
               ELSE IF ret = "raised" \/ error THEN 1 ELSE 0
    /\ mpc' = "closed"
    /\ UNCHANGED <<readerVars, back, late, inside, outb, written, ret>>

MainStep ==
    \/ SetupFails \/ Purge \/ StartReader
    \/ LoopTop \/ Get \/ GetNothing
    \/ Write \/ WriteFails
    \/ Halt \/ Join \/ Drain \/ DrainEnds \/ Finish \/ Verdict

-----------------------------------------------------------------------------
(* The environment                                                          *)

\* SIGTERM, SIGINT, SIGHUP or SIGUSR1; the handler only sets the event.
Signal ==
    /\ ~stop
    /\ stop' = TRUE
    /\ UNCHANGED <<rpc, hand, consec, halt, error, queue, dropped, nread, kept, mainVars>>

Deadline ==
    /\ ~late
    /\ rpc # "new"
    /\ late' = TRUE
    /\ UNCHANGED <<readerVars, mpc, back, inside, outb, written, ret, code>>

Next ==
    \/ ReaderStep /\ UNCHANGED mainVars
    \/ MainStep
    \/ mpc # "closed" /\ (Signal \/ Deadline)

Spec == Init /\ [][Next]_vars

\* Both threads are scheduled.  The transfers have timeouts; join() has one;
\* os.write() returns because the reader of the output goes on reading or
\* closes its end.
FairSpec ==
    /\ Spec
    /\ WF_vars(MainStep)
    /\ WF_vars(ReaderStep /\ UNCHANGED mainVars)

-----------------------------------------------------------------------------
(* Properties                                                               *)

\* Chunks keep their order from the queue through the pipeline to the output
\* and none is lost or doubled on the way, in every interleaving of the
\* reader with the loop, the drain, the flush and a failing write.
InOrder == kept = written \o outb \o inside \o queue

\* A recording that ends in the regular way with exit code 0 has written every
\* chunk that was read, except those the reader has counted as dropped.
\* (cli.py: "Everything read before the deadline / signal is still written out.")
EverythingReadIsWritten ==
    mpc = "closed" /\ code = 0 /\ ret = "normal" =>
        /\ written = kept
        /\ Len(kept) + dropped = nread

\* A failure of the reader is never reported as success, even if a signal or
\* the deadline ends the loop in the same moment.
ErrorReported ==
    mpc = "closed" /\ error => code = 1 \/ ret = "broken"

\* The tuner is closed and released only after its reader has ended, on the
\* regular path as after a failing write.
ReleasedWithoutReader ==
    mpc = "closed" => rpc \in {"new", "dead"}

\* A signal, the deadline or a failure of the reader ends the program.
Terminates == (stop \/ late \/ rpc = "fail") ~> mpc = "closed"

\* The whole recording is an order-preserving relay from the queue to the
\* output, complete when it ends without a failing write.
Relayed == INSTANCE Relay WITH
    in <- kept, out <- written, done <- mpc = "closed" /\ ret = "normal"

ImplementsRelay == Relayed!RelaySpec
=============================================================================
