------------------------------ MODULE TsReader ------------------------------
(***************************************************************************)
(* The thread that reads the TS endpoint (stream.TsReader) and the read    *)
(* itself (DyUd200.read_ts): transfers that time out, fail part way or     *)
(* find the device gone, the counter of consecutive errors, and the        *)
(* bounded queue whose overflow drops the newest chunk.                    *)
(***************************************************************************)
EXTENDS Integers, Sequences

CONSTANTS
    QueueChunks,    \* QUEUE_CHUNKS, the capacity of the queue
    MaxErrors,      \* TS_MAX_CONSECUTIVE_ERRORS
    MaxReads        \* bound of the model: chunks the tuner delivers

ASSUME ReaderAssumption ==
    /\ QueueChunks \in Nat \ {0}
    /\ MaxErrors \in Nat \ {0}
    /\ MaxReads \in Nat

VARIABLES
    rpc,        \* where the thread is; "new" before start()
    hand,       \* the chunk read and not yet queued, 0 for none
    consec,     \* tuner._ts_consecutive_errors
    halt,       \* the event _halt
    error,      \* whether reader.error is set
    stop,       \* the event on_error, which is the stop event of the signals
    queue,      \* chunks waiting for the consumer; a chunk is its number
    dropped,    \* overflows
    nread,      \* history: chunks that transfers have delivered
    kept        \* history: chunks put into the queue, in order

readerVars == <<rpc, hand, consec, halt, error, stop, queue, dropped, nread, kept>>

ReaderPhases == {"new", "check", "read", "reset", "put", "fail", "report", "dead"}

ReaderTypeOK ==
    /\ rpc \in ReaderPhases
    /\ hand \in Nat
    /\ consec \in 0..MaxErrors
    /\ halt \in BOOLEAN
    /\ error \in BOOLEAN
    /\ stop \in BOOLEAN
    /\ queue \in Seq(Nat)
    /\ dropped \in Nat
    /\ nread \in 0..MaxReads
    /\ kept \in Seq(Nat)

ReaderInit ==
    /\ rpc = "new"
    /\ hand = 0
    /\ consec = 0
    /\ halt = FALSE
    /\ error = FALSE
    /\ stop = FALSE
    /\ queue = <<>>
    /\ dropped = 0
    /\ nread = 0
    /\ kept = <<>>

-----------------------------------------------------------------------------
(* run()                                                                    *)

Check ==
    /\ rpc = "check"
    /\ rpc' = IF halt THEN "dead" ELSE "read"
    /\ UNCHANGED <<hand, consec, halt, error, stop, queue, dropped, nread, kept>>

\* read_ts() ends without data: the 500 ms timeout.  The errors before it
\* still count.
ReadNothing ==
    /\ rpc = "read"
    /\ rpc' = "check"
    /\ UNCHANGED <<hand, consec, halt, error, stop, queue, dropped, nread, kept>>

ReadData ==
    /\ rpc = "read"
    /\ nread < MaxReads
    /\ nread' = nread + 1
    /\ hand' = nread'
    /\ consec' = 0
    /\ rpc' = "put"
    /\ UNCHANGED <<halt, error, stop, queue, dropped, kept>>

\* Bug: failed transfers are not limited.
ReadFailsAlways ==
    /\ rpc = "read"
    /\ consec' = consec + 1
    /\ rpc' = "reset"
    /\ UNCHANGED <<hand, halt, error, stop, queue, dropped, nread, kept>>

\* The transfer fails, possibly after it has delivered some bytes.
ReadFails ==
    /\ rpc = "read"
    /\ consec + 1 < MaxErrors
    /\ consec' = consec + 1
    /\ rpc' = "reset"
    /\ \/ UNCHANGED <<nread, hand>>
       \/ nread < MaxReads /\ nread' = nread + 1 /\ hand' = nread'
    /\ UNCHANGED <<halt, error, stop, queue, dropped, kept>>

\* One failure too many: read_ts() raises, and what arrived is lost.
ReadGivesUp ==
    /\ rpc = "read"
    /\ consec + 1 = MaxErrors
    /\ consec' = consec + 1
    /\ rpc' = "fail"
    /\ \/ UNCHANGED nread
       \/ nread < MaxReads /\ nread' = nread + 1
    /\ UNCHANGED <<hand, halt, error, stop, queue, dropped, kept>>

\* _clear_halt() after a failure; read_ts() returns what arrived before it.
Reset ==
    /\ rpc = "reset"
    /\ rpc' = IF hand = 0 THEN "check" ELSE "put"
    /\ UNCHANGED <<hand, consec, halt, error, stop, queue, dropped, nread, kept>>

\* LIBUSB_ERROR_NO_DEVICE, from the transfer or from the reset after it.
Disconnected ==
    /\ rpc \in {"read", "reset"}
    /\ rpc' = "fail"
    /\ hand' = 0
    /\ UNCHANGED <<consec, halt, error, stop, queue, dropped, nread, kept>>

\* Bug: overflow drops the oldest chunk instead of the newest.
PutEvicting ==
    /\ rpc = "put"
    /\ IF Len(queue) < QueueChunks
         THEN queue' = Append(queue, hand) /\ UNCHANGED dropped
         ELSE queue' = Append(Tail(queue), hand) /\ dropped' = dropped + 1
    /\ kept' = Append(kept, hand)
    /\ hand' = 0
    /\ rpc' = "check"
    /\ UNCHANGED <<consec, halt, error, stop, nread>>

\* put_nowait(), which never blocks the reader.
Put ==
    /\ rpc = "put"
    /\ IF Len(queue) < QueueChunks
         THEN /\ queue' = Append(queue, hand)
              /\ kept' = Append(kept, hand)
              /\ UNCHANGED dropped
         ELSE /\ dropped' = dropped + 1
              /\ UNCHANGED <<queue, kept>>
    /\ hand' = 0
    /\ rpc' = "check"
    /\ UNCHANGED <<consec, halt, error, stop, nread>>

\* The except clause: first the error, then the event that wakes the consumer.
SetError ==
    /\ rpc = "fail"
    /\ error' = TRUE
    /\ rpc' = "report"
    /\ UNCHANGED <<hand, consec, halt, stop, queue, dropped, nread, kept>>

\* Bug: the error does not wake the consumer.
SetOnErrorMissing ==
    /\ rpc = "report"
    /\ rpc' = "dead"
    /\ UNCHANGED <<hand, consec, halt, error, stop, queue, dropped, nread, kept>>

SetOnError ==
    /\ rpc = "report"
    /\ stop' = TRUE
    /\ rpc' = "dead"
    /\ UNCHANGED <<hand, consec, halt, error, queue, dropped, nread, kept>>

Transfer == ReadNothing \/ ReadData \/ ReadFails \/ ReadGivesUp

ReaderStep ==
    Check \/ Transfer \/ Reset \/ Disconnected \/ Put \/ SetError \/ SetOnError
=============================================================================
