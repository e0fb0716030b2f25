--------------------------- MODULE CommandChannel ---------------------------
(***************************************************************************)
(* The command channel of one tuner: DyUd200.command() and the sequences   *)
(* built on it (initialize, bcas_reset, bcas_transmit with its retries,    *)
(* tune, wait_lock, close), run by one process after the other on a tuner  *)
(* that keeps its state when a process is killed.  The endpoints carry no  *)
(* identification, so a response belongs to a command only by its order.   *)
(* The firmware and the card are external: modelled from what the code     *)
(* expects of them.                                                        *)
(***************************************************************************)
EXTENDS Integers, Sequences, SequencesExt

CONSTANTS
    Channels,       \* the frequencies that a recording may ask for
    Retries,        \* retries of bcas_transmit()
    MaxPending      \* commands or responses that the tuner can hold

ASSUME ChannelAssumption ==
    /\ Retries \in Nat
    /\ MaxPending \in Nat \ {0}

(* The commands that change a state or whose failure matters; "ask" stands  *)
(* for the queries (firmware, serial number, lock status, signal level) and *)
(* for the ignored second initialisation command.                           *)
Commands == {"init", "ask", "stop", "segment", "freq", "start",
             "deactivate", "activate", "apdu", "close"}

\* Commands with an effect whose status nobody looks at (check=False).
Unchecked == {"stop", "start", "deactivate", "activate"}

Off == 2    \* cardSeq of a card that is not active

VARIABLES
    phase,      \* how far the process is
    todo,       \* the commands that the current sequence has still to send
    waiting,    \* whether command() waits for a response
    attempts,   \* attempts that bcas_transmit() has left
    pcb,        \* _bcas_pcb, as the sequence number 0 or 1
    descrambling,   \* whether APDUs are sent for the stream
    wanted,     \* the channel of this process
    inbox,      \* commands the tuner has received and not executed
    fifo,       \* its responses that have not been read
    streaming,  \* whether the tuner sends a transport stream
    tuned,      \* the channel it is tuned to
    cardSeq,    \* the sequence number that the card expects, or Off
    late,       \* history: a response was not there when it was waited for
    refused,    \* history: the commands of Unchecked that the tuner has refused to
                \* this process when it last sent them, unless late
    foreign,    \* history: a command has returned another one's response
    mishaps,    \* history: APDUs, or answers, lost or refused since the card
                \* last answered, up to 2
    gaveUp      \* history: whether bcas_transmit() has raised since then

host == <<phase, todo, waiting, attempts, pcb, descrambling, wanted>>
tuner == <<inbox, fifo, streaming, tuned, cardSeq>>
history == <<late, refused, foreign, mishaps, gaveUp>>
vars == <<host, tuner, history>>

Phases == {"off", "drain", "init", "card", "tune", "lock", "use", "close", "ended"}

TypeOK ==
    /\ phase \in Phases
    /\ todo \in Seq(Commands)
    /\ waiting \in BOOLEAN
    /\ attempts \in 0..(Retries + 1)
    /\ pcb \in 0..1
    /\ descrambling \in BOOLEAN
    /\ wanted \in Channels
    /\ inbox \in Seq([cmd : Commands, own : BOOLEAN, arg : Channels, seq : 0..1])
    /\ fifo \in Seq([ok : BOOLEAN, own : BOOLEAN])
    /\ streaming \in BOOLEAN
    /\ tuned \in Channels
    /\ cardSeq \in {0, 1, Off}
    /\ late \in BOOLEAN
    /\ refused \subseteq Unchecked
    /\ foreign \in BOOLEAN
    /\ mishaps \in 0..2
    /\ gaveUp \in BOOLEAN

Init ==
    /\ phase = "off"
    /\ todo = <<>>
    /\ waiting = FALSE
    /\ attempts = 0
    /\ pcb = 0
    /\ descrambling = FALSE
    /\ wanted \in Channels
    /\ inbox = <<>>
    /\ fifo = <<>>
    /\ streaming \in BOOLEAN
    /\ tuned \in Channels
    /\ cardSeq \in {0, 1, Off}
    /\ late = FALSE
    /\ refused = {}
    /\ foreign = FALSE
    /\ mishaps = 0
    /\ gaveUp = FALSE

-----------------------------------------------------------------------------
(* The sequences of commands                                                *)

\* Bug: initialize() does not stop the stream.
InitCommandsUnstopped == <<"init", "ask", "ask">>

\* initialize(); one firmware version needs the sequence twice.
InitCommands == <<"init", "stop", "ask", "ask">>
ReInitCommands == InitCommands \o <<"close", "init", "stop", "ask">>
SetupCommands == <<"ask", "segment">>

CardCommands == <<"deactivate", "activate", "apdu", "apdu">>
TuneCommands == <<"stop", "segment", "freq", "start">>
CloseCommands == <<"stop", "close">>

\* What remains to be sent after the head of the sequence, if there is one.
Rest == IF todo = <<>> THEN <<>> ELSE Tail(todo)

\* The command to send next: lock status and APDUs need no sequence.
Current == IF todo # <<>> THEN Head(todo) ELSE IF phase = "lock" THEN "ask" ELSE "apdu"

\* Bug: set_frequency() ignores the status.
CheckedButFreq == {"segment", "apdu"}

\* command(check=True): a status other than 0 is an error.
Checked == {"segment", "freq", "apdu"}

-----------------------------------------------------------------------------
(* The process                                                              *)

Idle == ~waiting /\ phase \notin {"off", "ended", "drain"}

\* Bug: the new process starts without discarding stale responses.
OpenUndrained ==
    /\ phase \in {"off", "ended"}
    /\ phase' = "init"
    /\ todo' = InitCommands \o SetupCommands
    /\ wanted' \in Channels
    /\ pcb' = 0
    /\ descrambling' = FALSE
    /\ mishaps' = 0
    /\ gaveUp' = FALSE
    /\ refused' = {}
    /\ UNCHANGED <<waiting, attempts, tuner, late, foreign>>

\* open_device() has claimed the interface.
Open ==
    /\ phase \in {"off", "ended"}
    /\ phase' = "drain"
    /\ wanted' \in Channels
    /\ pcb' = 0
    /\ descrambling' = FALSE
    /\ mishaps' = 0
    /\ gaveUp' = FALSE
    /\ refused' = {}
    /\ UNCHANGED <<todo, waiting, attempts, tuner, late, foreign>>

\* _drain() reads what the killed process has left.
DrainOne ==
    /\ phase = "drain"
    /\ fifo # <<>>
    /\ fifo' = Tail(fifo)
    /\ UNCHANGED <<host, inbox, streaming, tuned, cardSeq, history>>

\* It ends when nothing has arrived for 20 ms or a read fails: what the tuner
\* was still working on, or had ready behind the failure, comes late.
DrainEnds ==
    /\ phase = "drain"
    /\ phase' = "init"
    /\ todo' \in {InitCommands \o SetupCommands, ReInitCommands \o SetupCommands}
    /\ late' = (inbox # <<>> \/ fifo # <<>>)
    /\ foreign' = (foreign /\ late')
    /\ UNCHANGED <<waiting, attempts, pcb, descrambling, wanted, tuner, refused, mishaps,
                   gaveUp>>

\* A sequence is complete, or the next one need not be run.
Proceed ==
    /\ Idle
    /\ todo = <<>>
    /\ attempts = 0
    /\ \/ phase = "init" /\ phase' = "card" /\ todo' = CardCommands
       \/ phase = "init" /\ phase' = "tune" /\ todo' = TuneCommands   \* --no-b25
       \/ phase = "card" /\ phase' = "tune" /\ todo' = TuneCommands
       \/ phase = "tune" /\ phase' \in {"lock", "use"} /\ UNCHANGED todo
       \/ phase = "lock" /\ phase' = "use" /\ UNCHANGED todo
       \/ phase \in {"lock", "use"} /\ phase' = "close" /\ todo' = CloseCommands
       \/ phase = "close" /\ phase' = "ended" /\ UNCHANGED todo
    /\ descrambling' = (descrambling \/ phase = "card")
    /\ UNCHANGED <<waiting, attempts, pcb, wanted, tuner, history>>

\* The attempts of bcas_transmit() before the one under way and with it.
Attempt == IF attempts = 0 THEN Retries + 1 ELSE attempts

\* _on_ecm(), _on_emm(): the library is told of the failure and may fail, too,
\* upon which the pipeline falls back.
CallbackFails == descrambling' \in BOOLEAN /\ UNCHANGED <<phase, todo>>

\* Without a card, the stream is not descrambled.
GiveUpCard ==
    IF phase = "card"
      THEN phase' = "tune" /\ todo' = TuneCommands /\ UNCHANGED descrambling
      ELSE CallbackFails

\* Bug: the attempts are not counted.
ApduFailedForEver ==
    /\ attempts' = Attempt
    /\ UNCHANGED <<gaveUp, phase, todo, descrambling>>

\* An attempt of bcas_transmit() fails.
ApduFailed ==
    /\ attempts' = Attempt - 1
    /\ gaveUp' = (gaveUp \/ Attempt = 1)
    /\ IF Attempt > 1 THEN UNCHANGED <<phase, todo, descrambling>> ELSE GiveUpCard

\* command() raises, or its response is not acceptable: bcas_transmit() tries
\* again, a failure of bcas_reset() means no card; anywhere else the tuner is
\* closed, and close() itself ends.
Failed ==
    /\ waiting' = FALSE
    /\ IF Current = "apdu" THEN ApduFailed
       ELSE /\ UNCHANGED <<attempts, gaveUp>>
            /\ IF phase = "card" THEN GiveUpCard
               ELSE /\ IF phase = "close" THEN phase' = "off" /\ todo' = <<>>
                       ELSE phase' = "close" /\ todo' = CloseCommands
                    /\ UNCHANGED descrambling

\* The command returns; bcas_reset() then starts the sequence numbers anew.
Succeeded ==
    /\ waiting' = FALSE
    /\ todo' = Rest
    /\ attempts' = 0
    /\ pcb' = IF Current = "activate" THEN 0 ELSE pcb
    /\ mishaps' = IF Current = "apdu" THEN 0 ELSE mishaps
    /\ gaveUp' = (gaveUp /\ Current # "apdu")
    /\ UNCHANGED <<phase, descrambling, wanted>>

Mishap(cmd) == mishaps' = IF cmd = "apdu" /\ mishaps < 2 THEN mishaps + 1 ELSE mishaps

\* What is on its way belongs to others once a new request is sent; the
\* attempts of bcas_transmit() are one request.
Stale(msgs) ==
    IF attempts > 0 THEN msgs
    ELSE [i \in DOMAIN msgs |-> [msgs[i] EXCEPT !.own = FALSE]]

\* process_ecm(), process_emm(): an APDU for each section that the library hands
\* over while it descrambles.
ApduDue == phase = "use" /\ descrambling

\* A command is due.
Sends ==
    /\ Idle
    /\ todo # <<>> \/ phase = "lock" \/ ApduDue

\* Bug: the sequence number is counted instead of alternating.
SendCounting ==
    /\ Sends
    /\ Len(inbox) < MaxPending
    /\ inbox' = Append(inbox, [cmd |-> Current, own |-> TRUE, arg |-> wanted, seq |-> pcb])
    /\ waiting' = TRUE
    /\ pcb' = IF Current = "apdu" THEN pcb + 1 ELSE pcb
    /\ attempts' = IF Current = "apdu" THEN Attempt ELSE attempts
    /\ UNCHANGED <<phase, todo, descrambling, wanted, fifo, streaming, tuned, cardSeq, history>>

\* Bug: the sequence number is stepped once per APDU, not per attempt.
SendSteppingOnce ==
    /\ Sends
    /\ Len(inbox) < MaxPending
    /\ inbox' = Append(Stale(inbox),
                   [cmd |-> Current, own |-> TRUE, arg |-> wanted, seq |-> pcb])
    /\ fifo' = Stale(fifo)
    /\ waiting' = TRUE
    /\ pcb' = IF Current = "apdu" /\ attempts = 0 THEN 1 - pcb ELSE pcb
    /\ attempts' = IF Current = "apdu" THEN Attempt ELSE attempts
    /\ UNCHANGED <<phase, todo, descrambling, wanted, streaming, tuned, cardSeq, history>>

\* command() writes the frame; bcas_transmit() steps _bcas_pcb before that.
Send ==
    /\ Sends
    /\ Len(inbox) < MaxPending
    /\ inbox' = Append(Stale(inbox),
                   [cmd |-> Current, own |-> TRUE, arg |-> wanted, seq |-> pcb])
    /\ fifo' = Stale(fifo)
    /\ waiting' = TRUE
    /\ pcb' = IF Current = "apdu" THEN 1 - pcb ELSE pcb
    /\ attempts' = IF Current = "apdu" THEN Attempt ELSE attempts
    /\ UNCHANGED <<phase, todo, descrambling, wanted, streaming, tuned, cardSeq, history>>

\* The write fails: nothing reaches the tuner, which may have no room for it.
SendFails ==
    /\ Sends
    /\ pcb' = IF Current = "apdu" THEN 1 - pcb ELSE pcb
    /\ Failed
    /\ Mishap(Current)
    /\ UNCHANGED <<wanted, tuner, late, refused, foreign>>

\* A whole response with a correct CRC: command() cannot see whose it is.
Receive ==
    /\ waiting
    /\ fifo # <<>>
    /\ fifo' = Tail(fifo)
    /\ foreign' = (foreign \/ ~Head(fifo).own)
    /\ IF Current \in Checked /\ ~Head(fifo).ok
         THEN Failed /\ UNCHANGED <<pcb, wanted, mishaps>>
         ELSE Succeeded
    /\ UNCHANGED <<inbox, streaming, tuned, cardSeq, late, refused>>

\* The response is lost by the read, or it is short, or its CRC is wrong.
ReceiveGarbled ==
    /\ waiting
    /\ fifo # <<>>
    /\ fifo' = Tail(fifo)
    /\ Failed
    /\ Mishap(Current)
    /\ UNCHANGED <<pcb, wanted, inbox, streaming, tuned, cardSeq, late, refused, foreign>>

\* The tuner takes longer than the timeout of 3 s; its response stays behind.
TimesOut ==
    /\ waiting
    /\ fifo = <<>>
    /\ late' = TRUE
    /\ refused' = {}
    /\ Failed
    /\ UNCHANGED <<pcb, wanted, tuner, foreign, mishaps>>

\* SIGKILL; the tuner goes on with what it has received.
Kill ==
    /\ phase \notin {"off", "ended"}
    /\ phase' = "off"
    /\ todo' = <<>>
    /\ waiting' = FALSE
    /\ attempts' = 0
    /\ UNCHANGED <<pcb, descrambling, wanted, tuner, history>>

-----------------------------------------------------------------------------
(* The tuner                                                                *)

Respond(ok) == fifo' = Append(fifo, [ok |-> ok, own |-> Head(inbox).own])

\* The command is executed.  A block is not processed whose sequence number the
\* card does not expect.  An active card need not be reset by being activated.
Execute ==
    /\ inbox # <<>>
    /\ Len(fifo) < MaxPending
    /\ inbox' = Tail(inbox)
    /\ LET m == Head(inbox) IN
       /\ Respond(m.cmd = "apdu" => m.seq = cardSeq)
       /\ streaming' = IF m.cmd = "start" THEN TRUE
                       ELSE IF m.cmd = "stop" THEN FALSE ELSE streaming
       /\ tuned' = IF m.cmd = "freq" THEN m.arg ELSE tuned
       /\ cardSeq' \in IF m.cmd = "deactivate" THEN {Off}
                       ELSE IF m.cmd = "activate"
                              THEN IF cardSeq = Off THEN {0} ELSE {0, cardSeq}
                       ELSE IF m.cmd = "apdu" /\ m.seq = cardSeq THEN {1 - cardSeq}
                       ELSE {cardSeq}
       /\ refused' = refused \ {m.cmd}
    /\ UNCHANGED <<host, late, foreign, mishaps, gaveUp>>

\* The tuner answers any command with an error status, and nothing changes.
Refuse ==
    /\ inbox # <<>>
    /\ Len(fifo) < MaxPending
    /\ inbox' = Tail(inbox)
    /\ Respond(FALSE)
    /\ Mishap(Head(inbox).cmd)
    /\ refused' = refused \cup {c \in Unchecked : ~late /\ c = Head(inbox).cmd}
    /\ UNCHANGED <<host, streaming, tuned, cardSeq, late, foreign, gaveUp>>

-----------------------------------------------------------------------------

HostStep ==
    \/ DrainOne \/ DrainEnds
    \/ Proceed \/ Send \/ SendFails
    \/ Receive \/ ReceiveGarbled \/ TimesOut

TunerStep == Execute \/ Refuse

Next == Open \/ HostStep \/ Kill \/ TunerStep

Spec == Init /\ [][Next]_vars

\* The process is scheduled and each of its USB calls has a timeout; the tuner
\* may hang for ever.
FairSpec == Spec /\ WF_vars(HostStep)

-----------------------------------------------------------------------------
(* Properties                                                               *)

\* device.py, bcas_transmit(): "Send an APDU to the internal B-CAS card and
\* return the response (with SW1 SW2)".  The response is not that to another
\* APDU or command: the keys that it holds are those of the ECM that was sent.
ApduOwnResponse ==
    [][Receive /\ Current = "apdu" => Head(fifo).own]_vars

\* As long as the tuner answers in time, a command returns its own response,
\* whatever writes and responses are lost and wherever a process is killed;
\* and when it does not, the next process that finds it at rest is in step
\* again.
InStep == ~late => ~foreign

\* bcas_transmit() gives up only after two mishaps: after a single lost block,
\* lost answer or refusal the sequence numbers of host and card are in step
\* again before the retries are used up, although _bcas_pcb is stepped whether
\* or not the card has seen the block.  This rests on the reset of the card,
\* of which a refusal goes unnoticed.
OneMishapIsRetried ==
    /\ ~late
    /\ phase # "off"
    /\ gaveUp
    /\ refused \cap {"deactivate", "activate"} = {}
    => mishaps = 2

\* A recording only sees the stream of the channel that it has asked for: it
\* goes on only if the tuner has been tuned to it, whatever is refused; and
\* the tuner streams unless it has refused to start, which goes unnoticed.
TunedAsAsked ==
    ~late /\ phase \in {"lock", "use"} =>
        tuned = wanted /\ ("start" \notin refused => streaming)

\* The stream is off when initialize() discards stale TS, whatever a killed
\* process has left, and after close() has run to its end, unless the tuner
\* has refused to stop, which goes unnoticed.
QuietWhenExpected ==
    /\ ~late
    /\ phase \in {"card", "ended"} \/ (phase = "init" /\ todo = <<>>)
    /\ "stop" \notin refused
    => ~streaming

\* A tuner that no longer answers does not hang the process: opening, setting
\* up and closing it come to an end, through the timeouts and the limited
\* retries.
Settles ==
    phase \notin {"lock", "use"} ~> phase \in {"lock", "use", "off", "ended"}
=============================================================================
