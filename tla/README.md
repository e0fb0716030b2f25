# recdyud in TLA+

recdyud records ISDB-T/CATV transport streams with the PLEX DY-UD200 USB tuner. It drives the tuner from
user space with libusb, descrambles through libaribb25 with the B-CAS card in
the tuner, and writes TS packets to a file or a pipe. This directory holds the
TLA+ modules that model it, the TLC configurations that check them, and the
theorems that TLAPS proves. `src/` is the repository; `device.py`, `cli.py` and
the others below are in `src/src/recdyud/`, `dyud_b25.c` is in `src/native/`.

1. [The system](#1-the-system)
2. [The modules](#2-the-modules)
3. [What the runs check](#3-what-the-runs-check)
4. [What is proved](#4-what-is-proved)
5. [What the checks found](#5-what-the-checks-found)
6. [What is left out](#6-what-is-left-out)
7. [Plan](#7-plan)

## 1. The system

### Components

| component | code | state it keeps | operations |
|---|---|---|---|
| Tuner pool | `device.py` enumerate_devices, open_device, _claim, release; `diag.py` cmd_list | which process has claimed which USB interface (kept by the kernel) | open (walk and claim), fail, close, list, die |
| Command channel | `device.py` command, initialize, tune, wait_lock, close; `protocol.py` frames and CRC | responses in the tuner's endpoint, what the tuner is tuned to, whether it streams | one frame out, one frame in; sequences of commands |
| B-CAS card | `device.py` bcas_reset, bcas_transmit; `bcas.py` | sequence number of the blocks, in the host and in the card | reset, APDU with retries, ECM, EMM, card ID |
| TS reader | `stream.py` TsReader; `device.py` read_ts, _clear_halt | consecutive errors, queue, drops, `error`, `_halt` | a thread: read, queue, report; halt() and drain() by the main thread |
| Recording | `cli.py` stream, main | deadline, stop event, exit code | lock, purge, loop, drain, flush, verdict |
| Null packet removal | `cli.py` drop_null_packets | none | one chunk in, the same without null packets out |
| Descrambling pipeline | `cli.py` Pipeline; `b25.py` Descrambler; `dyud_b25.c` | the descrambler or none, time of the first input, whether it produces | process, finish, fall back |
| Packet aligner | `ts.py` _find_sync, PacketAligner | pending bytes, lock, losses, skipped bytes | feed |
| TS analyzer | `ts.py` TsCounters, TsAnalyzer | continuity counter per PID, counts | update, the percentages |
| Section assembler, SI tables | `ts.py` SectionAssembler, SiCollector, parse_* | the partial section of a PID, its continuity counter, what the tables have said so far | push, PAT, SDT, NIT, "complete" |
| Channels | `channels.py` | none | name to frequency, ranges |
| Diagnostics | `diag.py` | of monitor: totals, the snapshot of the last report, the time of the next one; of scan: the channel, deadlines, results | list, info, monitor, scan |
| Text, libraries, options | `aribstr.py`, `nativelib.py`, argument parsing in `cli.py` | none | pure functions and file lookup |

### How they interact

`cli.main` opens a tuner (pool), which runs `initialize()` over the command
channel, resets the card and tunes. `stream()` waits for the lock, purges old
TS and starts the reader thread. Thread and main loop share a bounded queue,
two events (`_halt`, set by the main thread; `stop`, set by signal handlers and
by the failing reader) and the attribute `error`. Each chunk goes through the
packet aligner, the removal of null packets and the pipeline; the pipeline calls
libaribb25, whose card callbacks come back into Python and send APDUs over the
command channel *while the reader thread reads the TS endpoint*. Other processes
meet this one only in the kernel's record of claimed interfaces. The tuner is
the only state that outlives a process: responses not read, a stream not
stopped, TS in its FIFO, the frequency, the card's sequence number.

`recdyud-diag` uses the same parts another way. `monitor` has the reader thread
beside a main thread that counts packets and sends commands for its reports.
`scan` has one thread that tunes, purges and reads itself; each packet goes
through the aligner to the analyzer and to one section assembler per PID, whose
sections the parsers of PAT, SDT and NIT read.

### What is hard, and what makes each part correct

* **Pool.** The walk over the tuners is not atomic, others claim and release
  during it, processes are killed at any point. Correct: one owner per tuner, no
  claim outlives its user, and no process is turned away while there are as many
  tuners as processes.
* **Command channel.** Responses carry nothing that tells to which command they
  belong. Writes and reads fail, the tuner is late or hangs, a killed process
  leaves responses behind. Correct: a command returns its own response; a
  recording is of the channel asked for; the stream is off when it has to be;
  everything ends although the tuner hangs.
* **Card.** `_bcas_pcb` is stepped on every attempt, seen by the card or not.
  Correct: one lost block does not use up the retries.
* **Reader and recording.** Two threads, signal handlers, a deadline, a queue
  that overflows, a device that goes away, an output that breaks. Correct: what
  was read is written, in order and once, or counted as dropped; failures are
  in the exit code; the tuner is not released under the reader; it ends.
* **Pipeline.** Every call to the library can fail with the chunk in the buffer
  or out of it. Correct: the stream comes out once and in order whatever
  fails, and is not held back longer than the start timeout and the longest
  pause between two chunks.
* **Aligner.** Packets and confirmations lie across chunk borders. Correct: the
  cut into chunks makes no difference, every byte is accounted for, the buffer
  is bounded.
* **Analyzer and sections.** Packets are lost in runs, doubled, marked as
  errored; the counter wraps; a section begins behind the end of another.
  Correct: the counts say what was lost, and a section of which every packet has
  arrived comes out, once and in order.
* **Diagnostics.** Commands fail while the reader runs; chunks are dropped while
  they take long; the FIFO of the tuner keeps TS of the channel before. Correct:
  reports add up, the tuner is closed behind its reader, a channel is credited
  with its own services only, and all of it ends.

`PROJECT.json` lists the hazards line by line with the properties that cover
each.

## 2. The modules

Actions keep the names of the functions they model. An action is a piece of
code between two points where another thread, process, device or the clock can
step in; `PROJECT.json` ("map") gives the lines of each definition. Definitions
under a comment `Bug: ...` are variants of the definition that follows them
with a plausible mistake; no specification uses them. They show that a property
would notice: with the variant in place of the definition, TLC reports it.

**TunerPool** (`MCTunerPool` instantiates it). Processes `Procs` run
`open_device()`, processes `Probers` run `recdyud-diag list`. `owner` is the
kernel's record; `pc`, `pos` are where each process is in its walk. `Selection`
gives the positions that a `--device` selector matches; its syntax is left out.
`SkipBusy` is the `except DeviceBusy: continue` of the walk, `ClaimFails`
any other error of the claim, `InitFails` the handler around `initialize()`,
`Kill` SIGKILL with the kernel releasing the claims. A process may start again
without end.

**CommandChannel.** One process after the other on one tuner. `todo` is the
sequence of commands that the current function has still to send; `inbox` and
`fifo` are the two endpoints. `Send` is the write in `command()`, `Receive`,
`ReceiveGarbled` and `TimesOut` the ways in which its read ends. `Failed` is
what the caller makes of an exception: `bcas_transmit()` tries again, a failing
card means recording without it, anything else closes the tuner. Frame layout,
CRC and LRC are abstracted to "garbled or not"; the session key is left out
because both initialisation commands and all responses share it. The tuner
(`Execute`, `Refuse`) and the card's sequence number are external: they
answer in order and execute one command at a time, which is what `command()`
relies on. `Refuse` answers any command with an error status and does nothing
else. `Checked` are the commands whose status the program looks at; the others
are sent with `check=False`, so that a refused stop, start or reset of the card
goes unnoticed. Such a refusal of the current process is kept in the history
variable `refused`, until the command is sent again and executed; the properties
say what still holds then. A card that is deactivated is `Off` until it is
activated, and an active one that is activated may keep its sequence number. The
ghost field `own` marks the response to the request under way.
A response that was not there when it was waited for sets `late`, which stays
until a process finds the endpoints empty when it opens the tuner.

**TsReader** is the thread, with one action per way `read_ts()` can end;
chunks are numbers. `Put` is `put_nowait()` with its overflow. `SetError` and
`SetOnError` are two steps because they are two statements that the main
thread may fall between. **Recording** adds the main thread
(`mpc`), signals and deadline. The pipeline appears in it only as what it
promises: it holds chunks back and gives them out in order (`inside`, `outb`).
`Halt`/`Join` occur twice, after the loop and in the `finally` clause, as in the
code; `Join` waits for the thread to end, or, when `SlowReset` is TRUE, gives up
while the thread is in `clear_halt()`, the only step of the thread that may take
more than the 2 s of `join()`.

**Pipeline** is what `handle()` does with the packets of a chunk:
`drop_null_packets()` (`DropNullPackets`, a recursive function over the packets with
the run that is being kept), unless `--keep-null`, and `cli.Pipeline` over an external
library. A packet is its number, negative once descrambled; all null packets are
0. The variables `faults` and `keepNull` are chosen in the initial state and say
which calls may fail and whether null packets reach the library; without
`--keep-null` it may be given an empty chunk.
`LeftByFailure` is what the library may hold when `put()` or `get()` has failed:
the chunk in its buffer, rolled back, or a part descrambled.

**Relay** is the abstract specification: what is accepted comes out in order,
once, and all of it by a regular end. Pipeline implements it from `process()`
to the output of `finish()`, Recording from the queue to the output file, so the
promise that Recording makes use of is the one Pipeline is checked against.

**PacketAligner** takes one pass of the loop in `feed()` per action: `Find`,
`FindNothing`, `CutAll`, `LoseSync`. A byte is its position in the stream,
negative unless it has the value of a sync byte.

**TsAnalyzer** is the loop of `update()`: `CountErrored`, `CountNull` and
`CountOther` are its branches. **SectionAssembler** is `push()` up to the first
`_drain()`, and each pass of the loop of `_drain()` (`DrainSection`,
`DrainIncomplete`, `DrainStuffing`). A byte is its position among the bytes of all
sections of the PID, 0 for stuffing. From it follows what the code reads in
bytes: only the first bytes of a section, in their place, tell its length (from
any other bytes the code may read any length), only the first byte is known not
to be 0xFF, and the CRC is right for the bytes of one section and no others.
**Reception** feeds both from an external broadcast. It packs sections as
ISO/IEC 13818-1 allows it: over several packets, with or without an adaptation
field that takes all the room, two starting in one packet, one ending where
another starts, with stuffing behind the last; other PIDs in between. `Arrivals`
are the ways in which a packet arrives: not at all, errored, doubled.
The history variables `seen`, `breaks`, `unseen`, `whole`, `due` hold what really
happened to the stream; no action of the receiver reads them.

**Channels** has the tables of `channels.py`: a channel is a prefix and a number.
**Scan** is `cmd_scan()` and `scan_channel()` over the FIFO of the tuner (external:
it keeps its content when the frequency changes and drops the newest data when it is
full). A block of TS is the frequency it was received on, which is also the ID of
its transport stream. `Read` is `read_ts()` with short and failed reads,
`PurgeRead`, `PurgeWaits` and `PurgeEnds` are `purge()`, `DwellRead` the loop that
collects the SI, `ParsePat`, `ParseSdt` and `ParseNit` what the tables change.
`OpenDrain` leaves any rest of the TS of an earlier process in the FIFO.
`PurgeEnds` assumes that the 3 s of `purge()` pass only in reads that wait.
**Monitor** is `cmd_monitor()` over TsReader; its clock may go on at any moment, so
that the commands of a report take any time. Each chunk brings any number of
continuity errors up to `MaxCc`: one per PID of a chunk that was dropped, those of a
transfer that failed, those on the air. `MonitorJoin` assumes that
the reader ends within the 2 s of `join()` (for the other case see
`recording_slow`). **Diagnostics** is the program: one of the two subcommands.

**TunerPoolProofs**, **CommandProofs**, **RecordingProofs**, **PipelineProofs**,
**AlignerProofs**, **ReceptionProofs** and **DiagnosticsProofs** (Channels, Scan and
Monitor) hold the proofs, **SeqLemmas** what they share: facts about sequences,
suffixes and natural numbers.

## 3. What the runs check

| run | instance | what it shows |
|---|---|---|
| `pool_auto` | 3 processes, 3 tuners, no prober | each process finds a tuner however the walks interleave |
| `pool_mixed` | 3 processes (one names its tuner), 2 tuners, a prober | types, claims match the processes, walks end |
| `command` | 2 channels, 2 retries, 2 messages in each endpoint | any command refused: in step as long as nothing is late, one mishap is retried, the right channel, quiet when expected, everything settles |
| `recording` | queue of 2, 2 errors, 4 chunks | order, completeness, exit code, release after the reader, termination, Relay |
| `pipeline` | 5 packets, chunks of up to 3, with and without nulls, with and without failing `get()` and `withdraw()` | nothing lost in the fallbacks but for the two exceptions of section 5 and of `Promised`, only nulls dropped, nothing twice or out of order, the hold bounded by start timeout and longest pause, the stream passed through whole from the fallback on, Relay |
| `aligner` | packets of 3 bytes, 2 confirmations, 15 bytes, chunks of 0 to 4 | bytes accounted for, whole packets, bounded buffer, chunks do not matter |
| `reception` | counter of 3 values, packets of 4 bytes, sections of 3 and 5 bytes, 5 packets, 3 PIDs | counts tell the losses, whole sections come out, once and in order |
| `diag` | monitor: queue of 1, 3 reads, reports each tick, duration of 2, up to 2 continuity errors in a chunk; scan: C22 and C23, a FIFO of 3 blocks | each delivered chunk is reported once, dropped or on its way, the end in order, own services only, a wrong name is corrected, both end |
| `pool_list`, `command_late`, `recording_slow`, `pipeline_nulls` | see section 5 | statements of the docs that the code does not keep |

### Bounds and why they are enough

* Pool: the walks of three processes over two tuners show every order of a
  claim, a release and a third process passing by; a fourth process meets the
  same two cases, a tuner claimed or free. The starts are not bounded. The
  theorems of section 4 hold for every number of processes and tuners.
* Command channel: what can be stale is one response (of the command that
  was under way) or two (a second one while the tuner hangs); two messages per
  endpoint are this case, and the write fails when there is no room. Two
  channels tell "tuned as asked" from "tuned". Refusals are not bounded. Two retries are the default of
  `bcas_transmit()`. Sequence numbers are one bit in the code.
* Recording: four chunks with a queue of two overflow it, refill it after a
  drop, and leave chunks in the queue, in the pipeline and in the write at the
  same time. The limit of errors is 2: below it, at it, with and without
  delivered bytes.
* Pipeline: two chunks before the failing one and one after it, with a clock that
  passes the start timeout and goes on. Chunks of three packets have runs to keep
  at the front, at the end, on both sides and in the middle.
* Aligner: 15 bytes are five packets: a false lock, its loss, and a new lock
  with packets after it; chunks of four bytes are longer than a packet, and of
  zero and one byte are the borders. Every assignment of sync bytes is tried.
* Reception: a counter of three values wraps within five packets, and a run of up
  to three lost packets meets all its classes: seen, unchanged, one ahead. A header
  of two bytes lies across packets of four, a section of five spans two or three
  packets, two of three start in one.
* Diagnostics: a queue of one overflows at once; three reads are a chunk counted,
  one dropped and one behind it; the clock passes the duration. Two
  errors in one chunk are more than the chunks that were dropped before it. Two channels are one
  that leaves stale TS to the other. The FIFO is as large as what `purge()`
  asks for, the limit of what `OwnServicesOnly` claims, and larger than one read. The
  real sizes (the scan asks `purge()` for 512 packets, the FIFO of the tuner is not
  documented) are parameters of the theorem.

`CHECK_DEADLOCK FALSE` stands where the system ends (the recording closes, the
pipeline finishes, the stream is over). The pool and the command channel never
end: processes can start again.

### Fairness

* Pool: weak fairness of the steps of a walk, of `release()` and of a prober's
  steps: a running process is scheduled and USB calls have timeouts. None for
  starting, finishing or being killed.
* Command channel: weak fairness of the process only. The tuner may stop
  answering for ever; `Settles` holds through the timeouts (3 s per command) and
  the counted retries. A process in `wait_lock()` or recording need not end, so
  the property asks for nothing there.
* Recording: weak fairness of each thread. Reads have timeouts of 500 ms,
  `queue.get()` one of its own; a write returns because the reader of the
  pipe goes on or closes its end. Signals and deadline need not come: the
  property is that the program ends once one of them, or the reader's failure, has.
* Diagnostics: weak fairness of both threads of monitor and of scan, as for the
  recording (commands have timeouts, too), and time passes. None for the signal,
  for exceptions, or for the tuner filling its FIFO: a scan ends without data.

## 4. What is proved

| theorem | statement | needs |
|---|---|---|
| `PoolTyped`, `PoolClaimsMatch` | the invariants of the pool, for any processes, probers, tuners and selections | `PoolAssumption` |
| `PoolPicksFreeTuner` | no process is told that all tuners are busy when there are at most as many processes as tuners | no probers, every process with auto |
| `CommandTyped`, `CommandInStep`, `CommandQuiet`, `CommandTunedAsAsked` | types; as long as the tuner answers in time, a command gets its own response, the stream is off where it has to be unless a stop was refused, a recording is of the channel asked for and has a stream unless the start was refused; for any channels, retries, refusals and sizes of the endpoints | `ChannelAssumption` |
| `CommandOneMishapIsRetried` | `bcas_transmit()` gives up only after two mishaps, unless a reset of the card was refused | `ChannelAssumption`, Retries ≥ 2 (its default is 2) |
| `RecordingTyped`, `RecordingInOrder` | types (the error counter never passes its limit), and the order of chunks | `ReaderAssumption` |
| `RecordingReleasedWithoutReader`, `RecordingErrorReported`, `RecordingComplete`, `RecordingIsRelay` | the other safety properties of the recording, and the safety of the refinement of Relay | also `~SlowReset` |
| `PipelineTyped`, `PipelineOnlyNullsDropped`, `PipelineLosesNothing`, `PipelinePassesWhole`, `PipelineHoldIsBounded`, `PipelineNothingTwice`, `PipelineIsRelay` | every safety property of the pipeline and the refinement of Relay, for streams and chunks of any length, nulls anywhere, any failures and any start timeout | `PipelineAssumption` |
| `DiagnosticsTyped`, `MonitorReportsAddUp`, `MonitorInOrder` | types of both subcommands (no report is negative), and the properties of monitor, for any queue, interval, duration, number of continuity errors and limit of failed reads | `ReaderAssumption`, `MonitorAssumption`, `ScanAssumption` |
| `ScanNameSettles` | a wrong name of a transport stream is replaced by the next NIT | FIFO ≤ purge |
| `ScanOwnServicesOnly` | a scan credits a channel only with what was received on its frequency, for any range of channels, FIFO, read and purge size with FIFO ≤ purge | `ScanAssumption` |
| `FrequencyInRange`, `OneNamePerFrequency` | each channel name has a frequency of its own, within the limits of the tuner | none |
| `ReceptionCountsAreTrue` | the continuity errors counted are the gaps in the stream of each PID but for those that the counter cannot show; the denominators of the percentages cover their counts; for any modulus, PIDs and losses | `AnalyzerAssumption`, `ReceptionAssumption` |
| `ReceptionTyped`, `ReceptionOnceInOrder` | types of the analyzer, the assembler and what they are fed; sections come out in the order of the broadcast, none twice; for any table, sizes, PIDs, losses, errors and duplicates | the same |
| `ReceptionWholeSections` | a section of which every packet arrives comes out | also a counter of more than one value (the code has 16) |
| `AlignerTyped`, `AlignerAccounts`, `AlignerBounded`, `AlignerWholePackets`, `AlignerChunksDoNotMatter` | the safety properties of the aligner, for any packet size, number of confirmations, stream and cut into chunks | `AlignerAssumption` |

*Pool.* `ClaimsMatch` is inductive with the types: the owner of a tuner is
determined by `pc` and `pos` of one process, so a claim of a free tuner cannot
contradict another one. `PicksFreeTuner` needs more. That the tuners which a walk
has passed are still taken is no invariant: they come free behind it, also by a
kill. The invariant `Room` counts processes instead: for every position k, at
most N + 1 - k processes are at k or beyond it, which for the position after
the last tuner says that no process gets there. When a walk skips tuner k
(`RoomSkip`), the process that holds k stands at k and does not move, so those at
k + 1 or beyond are at least one fewer than those at k or beyond. With probers,
who hold tuners without being counted, or with pinned selectors, who enter the
walk in the middle, the argument fails, and with probers the property does too (`pool_list`).

*Command channel.* The invariant says what is left to do in each phase (`PlanInv`) and,
as long as nothing is late, where the one message under way is (`FlowInv`: with the
tuner, or its answer in the endpoint; nothing while no command waits). From this follows
`InStep`: what `Receive` takes is the answer to the request under way.
`QuietWhenExpected` and `TunedAsAsked` need what happens between a command and its
answer: `StreamInv` and `TunedInv` say that the command is still to be sent, or done
(`Done`) and its effect there, which a failure between the two does not undo and a kill
leaves to the next process. For stop and start, whose status is ignored, done may also
mean refused, and the effect is there unless it was; for the frequency, whose status is
looked at, only the tuned channel gets past `Receive`. `ResetInv` says that between the
two commands of an unrefused reset the card is `Off`, so that it expects the number 0
once the second one is executed. `SeqInv` builds on it and counts the failed attempts of
the current `bcas_transmit()`: after one mishap, the sequence numbers of host and card
fit before the first attempt or before the third, and only the second may be out of
step, hence the hypothesis of two retries: with one, a single lost block could use them
up. Nothing is claimed of it for fewer.

*Recording.* Order is `OrderInv`: `kept = written \o outb \o inside \o queue`,
with `outb` empty in the phases where no output is pending; each step is an
associativity of concatenation (`SeqLemmas`). Completeness and the exit code
rest on `EndInv`: once the main thread has joined the reader (`AfterJoin`), the
thread is dead, so `queue` only shrinks and `error` no longer changes; in
`finish` the queue is empty, behind it on the regular path `inside` and `outb` are;
and what was read is in `kept`, in `hand`, dropped, or lost with an error.
Without `~SlowReset` the first of these is false (`recording_slow`).
`RecordingIsRelay` maps initial states to initial states and every step to
`Move`, `End` or a stutter.

*Pipeline.* That `drop_null_packets()` returns the packets but the nulls
(`OnlyNewKept`) is proved by induction over the chunk: `LoopInv` says what the loop has
copied and which run it keeps after i packets, and `RunOfNew` that a run of packets
without nulls has consecutive numbers. With it, the fed packets are 1, 2, ..., all
different, which decides the question of the fallback: whether the end of what was
withdrawn is the chunk that failed. Where `put()` has kept the chunk, it is the end;
where it was rolled back, the end is an older packet (`NotHeldYet`). `HeldInv`: nothing
has passed in the clear while there is a descrambler, and behind it nothing is
held, from which `PassedThroughWhole` follows. `TimeoutInv` says that
the timeout runs from the first packets to the latest call, `PauseInv` that no call is
further back than the longest pause; together they bound the hold at any time.
`OrderInv`: what has been returned, and what is held behind it, are increasing numbers
up to the last one received, with nulls between. A chunk continues them (`ChunkFollows`),
and each way of falling back leaves all that was held and the chunk behind it, one of
them or neither (`OnceAtMost`), so that nothing is doubled. `PipelineIsRelay` maps a chunk to a
`Move` of Relay with what went in and what came out of it, in this order.

*Aligner.* `AlignerInv` adds to the types, the account and the bound that a call
of `feed()` starts at the front of what was kept. Its steps are arithmetic on the
lengths, with `DivBounds` for the number of whole packets. `WholePackets` needs
`StreamInv`: what waits is the end of the stream byte by byte (`DataIsTail`), and
what has been returned lies before the position reached (`Behind`), so that
packets cut at that position follow the earlier ones. `EmittedWhole` is the step
that returns packets; it rests on facts about remainders (`ModShift`,
`FirstByte`, `WithinPackets`).

`ChunksDoNotMatter` compares the aligner with `Aligned`, one pass over a whole
stream as a recursive function. Two calls of `feed()` are never at the same point
of this pass, so the invariant (`ChunksInv`) is about what can still follow: for
every stream t that continues what was fed, `Aligned(t)` is what has been returned
and then what the pass gives from the position reached (`Follows`). A chunk that
arrives only leaves fewer continuations, so `feed()` keeps it at once; each pass of
its loop must do to the position what the reference does byte by byte or packet by
packet (`OutSkips`, `OutPackets`), and `data` must be the end of the stream byte
for byte (`DataIsSuffix`). `Exhausted` says that between the calls nothing more
comes out of what has arrived (`OutEnds`): the aligner does not wait longer than
it must. With t = `fed` the two give the property. That the recursive function has
the values its equation says is proved first (`RunsExist`, by induction on the
bytes still ahead).

*Scan.* The invariant follows a block of the channel before through the phases.
`PurgeInv`: the stale blocks in the FIFO are in front of the new ones, and
`remaining`, what is still to be purged, is at least their number;
this holds when `purge()` begins because FIFO ≤ purge, and each read takes from the
front at least as many blocks as it counts, also when it fails. `WaitInv`: a read
that waited found the FIFO empty, hence none are left. Either way out of `purge()`
leaves only new blocks, which `DwellInv` keeps (what is filled in is of this
channel), so that `info`, and by `ResultsInv` the results, are the channel's own.

`NameInv` adds for `NameSettles` that
the ID beside such a name is known; it is not replaced by that of another channel
later, as all that `purge()` leaves is the channel's own.

*Monitor.* `Numbered`: what transfers have delivered has been kept or dropped, but for
the chunk in the hand of the reader or the one that is lost when the reader fails, and
then its error is set or about to be (`LostByError`). `Counted`: what was kept has been
counted or waits in the queue. So the counts of the main thread and those of the reader
add up however the two interleave. Nothing is claimed of the number of continuity errors
but that each one found is reported once: a dropped chunk gives one for each PID, and
failed transfers give errors without a drop. `Balanced`: the last report is part of the
totals, without which a difference could be negative. `Ending`: the reader runs only
between the setup and the verdict. `DiagnosticsScans` carries what is proved of a scan
over to the program.

*Channels.* Case analysis over the bands. The irregular places (C22, C23, the step
of 4 MHz between channels 7 and 8) are what could put two names on
one frequency.

*Reception.* The invariant: the stored counter is the true number of the
last good packet modulo the counter's range (`lastCc = seen % CcMod`), and packets
in the air carry the latest number of their PID. `RestOfDifference` turns the difference of two
counters into that of the numbers, which makes `Jump` the gap that `breaks` counts
unless the difference is 0 or 1 modulo the range.

The bytes of the table are numbered in the model, and `TypedInv` follows them.
`OrderInv`: what has been collected and what is still coming (before the pointer and
behind it) are runs of increasing numbers with stuffing between them, each behind the
one before and behind the last section returned. A section with the right CRC is
such a run without a hole, so it lies behind the last one: `OnceInOrder`, wherever
`_drain()` took its length from, also in the middle of a section of which the
beginning was lost. For this the assembler must not take a packet twice:
`CounterInv` says that it sees the same counter as the analyzer, of which the
other proof knows what it stands for.

`ExpectInv` adds what `WholeSectionsComeOut` needs, as long as a section is due or the
unfinished one has arrived so far (`Expect`): the counter held is the one sent last
(`HeldInv`), the buffer is a `Flow`, all bytes from the start of a section on, and
every section due lies in it, or ends in the part before the pointer. There is one
conjunct for each place where these bytes can be: about to arrive (`ComingInv`), before
and behind the pointer while `_drain()` runs (`BeforeInv`, `AfterInv`), and between
packets (`IdleInv`), where nothing is due any more. The counter of the next
packet differs from the one before unless it has a single value, hence the
hypothesis: with one, every packet would pass for a duplicate. TLC found these
invariants true of the instance of `reception` (1 177 335 states), with the
quantifiers over positions bounded, before they were proved.

Two ways of reasoning recur and are stated once in `SeqLemmas`: a natural number
that has a property has a least one with it (`LeastNumber`, from the library's
theorem on well-founded relations), and with it induction for sets of
numbers (`NumberInduction`), which also gives recursive functions their values.

Only model-checked: liveness and fairness (outside of the prover's reach). Every
safety property of the passing runs is a theorem.

## 5. What the checks found

Four statements of docs and comments do not hold of the code. Each has a run
that ends in the counterexample.

| run | statement | what the code does |
|---|---|---|
| `pool_list` | docker/config.yml: "each process picks a free tuner" | a tuner that `recdyud-diag list` claims for a moment counts as in use and the walk does not come back to it |
| `command_late` | `bcas_transmit`: "return the response" to the APDU | after a late response all later ones are off by one, until the tuner is opened again |
| `recording_slow` | cli.py: "Everything read before the deadline / signal is still written out" | `join(2.0)` may return while the thread is in `clear_halt()`; what it queues after the drain is not written |
| `pipeline_nulls` | test_b25.py: "Nothing is lost" | after a rolled back `put()`, a chunk of null packets is taken for the one still in the buffer, if the buffer ends alike |

`NothingLostAsPromised` is what holds of the last statement: chunks without null
packets and no failure of `get()` or `withdraw()`. Where the latter fail, what the
library held is lost, which that test does not try; from the
fallback on the stream is whole even so (`PassedThroughWhole`).

The docstring of `Pipeline` says that the stream is passed through "if nothing comes
out within `start_timeout` seconds"; the clock is looked at only when a chunk arrives,
so `HoldIsBounded` adds the longest pause.

Statuses that are ignored: a refused start gives a recording without a stream, a
refused stop leaves the stream on while `initialize()` discards TS and after
`close()`, and after a refused reset host and card may disagree on the sequence number
(the docstring of `bcas_reset()` says that it "starts from 0 again"), so that one lost
block can use up the three attempts. The hypotheses on `refused` in `TunedAsAsked`,
`QuietWhenExpected` and `OneMishapIsRetried` are these cases and no more.

A scan ends when `info.complete` is true, also if the name in it is that of another
transport stream, taken from a NIT that came before PAT and SDT. `NameSettles` says
that the next NIT puts it right; that there is a next one within the dwell time is not
promised by the code.

A remark on `read_ts()`, whose comment speaks of failures "in a row": a read that
times out without data does not reset the count, so that failures with such reads
between them add up.

## 6. What is left out

* The parsing of the card's responses, selectors, options, the spellings of
  channels and frequencies, descriptors and ARIB text: pure functions without a
  state that others depend on; the tables are cut down to what decides whose
  services and name are kept.
* `recdyud-diag info`: one sequence of commands whose answers are printed; the
  commands are those of CommandChannel.
* Commands of `monitor` and `scan` in detail: they succeed, or raise and end the
  subcommand, as CommandChannel has it.
* Which channel the first report of `monitor` counts: it does not purge, and no doc
  says that it does.
* Contents of packets where no property depends on it: chunks and packets
  are numbers.
* `dyud_b25.c` and `b25.Descrambler` as code: they pass calls through to
  libaribb25. The behaviour that Pipeline can observe is in `Pipeline`.
* T=1 chaining and R-blocks: the code sends one I-block per APDU and treats every
  other answer as a failed attempt, which `Refuse` is for an APDU.
* A failed write of a command that reaches the tuner all the same, and a failed read
  that leaves the response in the endpoint: `SendFails` takes the command never to
  have arrived, `ReceiveGarbled` takes the response to be gone. With either, a
  response is left behind as with a late one (`command_late`).
* A FIFO of the tuner that holds more than `purge()` asks for: its size is not
  documented, and `OwnServicesOnly` is stated for FIFO ≤ purge.
* Memory, file descriptors, logging, progress output.
* Time limits of `purge()` spent in `clear_halt()` of a failing endpoint: the
  code gives no bound for it.
* `reset()` of the aligner, `reset_continuity()` and the packets per PID of the
  analyzer: nothing calls or reads them.

## 7. Plan

The order in which the modules were written; all are there.

1. TunerPool and its proofs: the only state shared between processes.
2. TsReader, Recording, Relay and their proofs: the two threads of a recording.
3. Pipeline, refining Relay.
4. CommandChannel: the protocol to the tuner.
5. PacketAligner and its proofs.
6. README and PROJECT.json with the hazards that the rest is chosen from.
7. TsAnalyzer: continuity counters with wrap, duplicates and gaps.
8. SectionAssembler under loss, duplication and pointers; Reception, which drives
   both, and the proof for the counts.
9. The tuner's FIFO with `_drain()`, `purge()` and their limits: in Scan, with the proof.
10. Diagnostics: monitor beside the reader thread, scan, Channels and its proofs;
    `drop_null_packets()` in Pipeline.
11. Proofs for Reception, Scan and Channels.
12. Proofs for CommandChannel, Pipeline with its refinement, Monitor and the rest of Scan.
13. Proofs for Reception: types, `OnceInOrder`, `WholeSectionsComeOut`.
14. The proof of `ChunksDoNotMatter` of PacketAligner.
