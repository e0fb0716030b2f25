--------------------------- MODULE CommandProofs ---------------------------
(* Theorems about the command channel, for any number of channels, retries  *)
(* and messages that the tuner can hold.                                    *)
EXTENDS CommandChannel, SeqLemmas

-----------------------------------------------------------------------------
(* The inductive invariant                                                  *)

\* What may be left of the sequences of commands in each phase.
TuneTodos ==
    {TuneCommands, <<"segment", "freq", "start">>, <<"freq", "start">>, <<"start">>, <<>>}
ApduTodos == {<<"apdu", "apdu">>, <<"apdu">>, <<>>}
CardTodos == {CardCommands, <<"activate", "apdu", "apdu">>} \cup ApduTodos
CloseTodos == {CloseCommands, <<"close">>, <<>>}
InitSet == {"init", "ask", "stop", "segment", "close"}

Resting == {"off", "drain", "ended"}

\* Sends without Idle: there is a command that the process has to send.
Due == todo # <<>> \/ phase = "lock" \/ ApduDue

\* A command is waited for only while it is due, and attempts are counted only
\* for an APDU.
PlanInv ==
    /\ phase = "init" => todo \in Seq(InitSet)
    /\ phase = "card" => todo \in CardTodos
    /\ phase = "tune" => todo \in TuneTodos
    /\ phase = "close" => todo \in CloseTodos
    /\ phase \in Resting \cup {"lock", "use"} => todo = <<>>
    /\ waiting => phase \notin Resting /\ Due
    /\ attempts > 0 => phase \in {"card", "use"} /\ Due /\ Current = "apdu"
    /\ waiting /\ Current = "apdu" => attempts > 0

\* A process begins without a card and without a failure on its record.
FlagInv ==
    /\ phase \in {"drain", "init", "card"} => ~descrambling
    /\ phase \in {"drain", "init"} => ~gaveUp
    /\ phase = "card" /\ todo \notin ApduTodos => ~gaveUp

\* The tuner has the command, or the answer to it, and nothing else.
Asked ==
    /\ fifo = <<>>
    /\ \E s \in 0..1 :
         /\ inbox = <<[cmd |-> Current, own |-> TRUE, arg |-> wanted, seq |-> s]>>
         /\ Current = "apdu" => s = 1 - pcb
Answered == inbox = <<>> /\ \E b \in BOOLEAN : fifo = <<[ok |-> b, own |-> TRUE]>>
Silent == inbox = <<>> /\ fifo = <<>>

\* As long as the tuner answers in time, there is one message on its way
\* while command() waits, and none while it does not.
FlowInv ==
    ~late /\ phase \notin {"off", "drain"} =>
        IF waiting THEN Asked \/ Answered ELSE Silent

Holds(s, c) == \E i \in 1..Len(s) : s[i] = c

\* The current command is c and has been executed or refused.
Done(c) == waiting /\ Current = c /\ fifo # <<>>

\* What the tuner has not refused to do.
Quiet == "stop" \in refused \/ ~streaming
Streams == "start" \in refused \/ streaming
CardReset == refused \cap {"deactivate", "activate"} = {}

\* The stream is off unless its stop is still to come, and on once the
\* sequence of tune() is through.
StreamInv ==
    ~late =>
        /\ phase \in {"init", "close"} => Holds(todo, "stop") \/ Quiet
        /\ phase \in {"init", "close"} /\ Done("stop") => Quiet
        /\ phase \in {"card", "ended"} => Quiet
        /\ phase = "tune" /\ todo = <<>> => Streams
        /\ phase = "tune" /\ Done("start") => Streams
        /\ phase \in {"lock", "use"} => Streams

\* The tuner is on the wanted channel once set_frequency() has been acknowledged.
TunedInv ==
    ~late =>
        /\ phase = "tune" /\ ~Holds(todo, "freq") => tuned = wanted
        /\ phase = "tune" /\ Done("freq") /\ Head(fifo).ok => tuned = wanted
        /\ phase \in {"lock", "use"} => tuned = wanted

\* The card has been reset by this process, and APDUs are sent to it.
CardActive ==
    \/ phase = "card" /\ todo \in ApduTodos
    \/ phase \in {"tune", "lock", "use", "close"} /\ descrambling

\* The failed attempts of the current bcas_transmit().
FailedAttempts == IF attempts = 0 THEN 0 ELSE Retries + 1 - attempts

\* At most one mishap: _bcas_pcb fits before the first attempt and before the
\* third one, and only the second may be out of step.
InTurn(fits) ==
    \/ FailedAttempts = 0 /\ fits
    \/ mishaps = 1 /\ FailedAttempts = 1
    \/ mishaps = 1 /\ FailedAttempts = 2 /\ fits

ActivateTodo == <<"activate", "apdu", "apdu">>

\* The card is off between the two commands of bcas_reset(), which is what makes
\* the second one a reset.
ResetInv ==
    ~late /\ phase = "card" /\ "deactivate" \notin refused =>
        /\ Done("deactivate") => cardSeq = Off
        /\ todo = ActivateTodo /\ ~Done("activate") => cardSeq = Off

\* Where host and card are in their sequence numbers, once the card is reset.
SeqInv ==
    ~late /\ phase # "off" /\ CardReset =>
        /\ gaveUp => mishaps = 2
        /\ Done("activate") => cardSeq = 0
        /\ CardActive => cardSeq \in 0..1
        /\ CardActive /\ Done("apdu") /\ Head(fifo).ok => pcb = cardSeq
        /\ CardActive /\ mishaps < 2 =>
             /\ ~(waiting /\ Current = "apdu") => InTurn(pcb = cardSeq)
             /\ waiting /\ Current = "apdu" /\ fifo = <<>> => InTurn(pcb # cardSeq)
             /\ Done("apdu") /\ Head(fifo).ok => mishaps = 1 \/ FailedAttempts = 0
             /\ Done("apdu") /\ ~Head(fifo).ok =>
                  /\ mishaps = 1
                  /\ FailedAttempts = 0 \/ (FailedAttempts = 1 /\ pcb = cardSeq)

-----------------------------------------------------------------------------
(* Types                                                                    *)

Message == [cmd : Commands, own : BOOLEAN, arg : Channels, seq : 0..1]
Answer == [ok : BOOLEAN, own : BOOLEAN]

\* The Boolean variables and the others are typed by different provers.
FlagsOK ==
    /\ waiting \in BOOLEAN
    /\ descrambling \in BOOLEAN
    /\ streaming \in BOOLEAN
    /\ late \in BOOLEAN
    /\ foreign \in BOOLEAN
    /\ gaveUp \in BOOLEAN

DataOK ==
    /\ phase \in Phases
    /\ todo \in Seq(Commands)
    /\ attempts \in 0..(Retries + 1)
    /\ pcb \in 0..1
    /\ wanted \in Channels
    /\ inbox \in Seq(Message)
    /\ fifo \in Seq(Answer)
    /\ tuned \in Channels
    /\ cardSeq \in {0, 1, Off}
    /\ refused \subseteq Unchecked
    /\ mishaps \in 0..2

LEMMA TypeParts == TypeOK <=> FlagsOK /\ DataOK
BY Zenon DEF TypeOK, FlagsOK, DataOK, Message, Answer

LEMMA FlagsStep == FlagsOK /\ [Next]_vars => FlagsOK'
<1> SUFFICES ASSUME FlagsOK, [Next]_vars PROVE FlagsOK'
  OBVIOUS
<1> USE DEF FlagsOK, host, tuner, history
<1>1. CASE Open \/ DrainOne \/ DrainEnds \/ Kill
  BY <1>1, Zenon DEF Open, DrainOne, DrainEnds, Kill
<1>2. CASE Proceed \/ Send
  BY <1>2, Zenon DEF Proceed, Send
<1>3. CASE SendFails
  BY <1>3, Zenon DEF SendFails, Failed, ApduFailed, GiveUpCard, CallbackFails
<1>4. CASE Receive
  BY <1>4, Zenon DEF Receive, Succeeded, Failed, ApduFailed, GiveUpCard, CallbackFails
<1>5. CASE ReceiveGarbled \/ TimesOut
  BY <1>5, Zenon DEF ReceiveGarbled, TimesOut, Failed, ApduFailed, GiveUpCard, CallbackFails
<1>6. CASE Execute \/ Refuse
  BY <1>6, Zenon DEF Execute, Refuse
<1>7. CASE UNCHANGED vars
  BY <1>7, Zenon DEF vars
<1>8. QED
  BY <1>1, <1>2, <1>3, <1>4, <1>5, <1>6, <1>7 DEF Next, HostStep, TunerStep

\* The sequences of commands consist of commands.
LEMMA Sequences1 ==
  /\ InitCommands \o SetupCommands \in Seq(InitSet)
  /\ ReInitCommands \o SetupCommands \in Seq(InitSet)
  /\ Seq(InitSet) \subseteq Seq(Commands)
<1>1. /\ InitCommands \in Seq(InitSet) /\ SetupCommands \in Seq(InitSet)
      /\ <<"close", "init", "stop", "ask">> \in Seq(InitSet)
  BY DEF InitCommands, SetupCommands, InitSet
<1>2. ReInitCommands \in Seq(InitSet)
  <2> HIDE DEF InitCommands
  <2>1. QED
  BY <1>1, ConcatProperties DEF ReInitCommands
<1>3. InitSet \subseteq Commands
  BY DEF InitSet, Commands
<1>4. QED
  BY <1>1, <1>2, <1>3, ConcatProperties

LEMMA Sequences2 ==
  /\ TuneTodos \subseteq Seq(Commands)
  /\ CardTodos \subseteq Seq(Commands)
  /\ CloseTodos \subseteq Seq(Commands)
  /\ TuneCommands \in TuneTodos /\ CardCommands \in CardTodos /\ CloseCommands \in CloseTodos
BY DEF TuneTodos, CardTodos, ApduTodos, CloseTodos, TuneCommands, CardCommands, CloseCommands, Commands

LEMMA RestTyped ==
  ASSUME DataOK
  PROVE  /\ Rest \in Seq(Commands)
         /\ Current \in Commands
         /\ Attempt \in 1..(Retries + 1)
BY HeadTailProperties, ChannelAssumption DEF DataOK, Rest, Current, Attempt, Commands

\* Marking the messages as stale keeps their type.
LEMMA StaleTyped ==
  ASSUME NEW S \in {Message, Answer}, NEW msgs \in Seq(S)
  PROVE  Stale(msgs) \in Seq(S) /\ Len(Stale(msgs)) = Len(msgs)
<1> DEFINE f(i) == [msgs[i] EXCEPT !.own = FALSE]
           old == [i \in 1..Len(msgs) |-> f(i)]
<1>1. Len(msgs) \in Nat /\ DOMAIN msgs = 1..Len(msgs)
  BY LenProperties
<1>2. ASSUME NEW i \in 1..Len(msgs) PROVE f(i) \in S
  <2>1. msgs[i] \in S
    BY <1>1, LenProperties
  <2>2. ASSUME NEW m \in Message PROVE [m EXCEPT !.own = FALSE] \in Message
    BY DEF Message
  <2>3. ASSUME NEW m \in Answer PROVE [m EXCEPT !.own = FALSE] \in Answer
    BY DEF Answer
  <2>4. QED
    BY <2>1, <2>2, <2>3
<1>3. Stale(msgs) = IF attempts > 0 THEN msgs ELSE old
  BY <1>1 DEF Stale
<1> HIDE DEF f, Message, Answer
<1>4. old \in [1..Len(msgs) -> S] /\ DOMAIN old = 1..Len(msgs)
  BY <1>2, Zenon
<1> HIDE DEF old
<1>5. old \in Seq(S)
  BY <1>1, <1>4, SeqDef
<1>6. Len(old) = Len(msgs)
  BY <1>1, <1>4, <1>5, LenProperties
<1>7. QED
  BY <1>3, <1>5, <1>6

LEMMA FailedTyped ==
  ASSUME DataOK, Failed
  PROVE  /\ phase' \in Phases /\ todo' \in Seq(Commands)
         /\ attempts' \in 0..(Retries + 1)
<1>1. Attempt \in 1..(Retries + 1)
  BY RestTyped
<1>2. {TuneCommands, CloseCommands, <<>>} \subseteq Seq(Commands)
  BY Sequences2
<1>3. phase \in Phases /\ todo \in Seq(Commands) /\ attempts \in 0..(Retries + 1)
  BY DEF DataOK
<1> HIDE DEF Attempt, TuneCommands, CloseCommands
<1>4. CASE Current = "apdu"
  <2>1. attempts' = Attempt - 1
    BY <1>4 DEF Failed, ApduFailed
  <2>2. attempts' \in 0..(Retries + 1)
    BY <1>1, <2>1, ChannelAssumption
  <2>3. phase' \in {phase, "tune"} /\ todo' \in {todo, TuneCommands}
    BY <1>4, Zenon DEF Failed, ApduFailed, GiveUpCard, CallbackFails
  <2>4. QED
    BY <1>2, <1>3, <2>2, <2>3 DEF Phases
<1>5. CASE Current # "apdu"
  <2>1. attempts' = attempts
    BY <1>5, Zenon DEF Failed
  <2>2. phase' \in {phase, "tune", "off", "close"} /\ todo' \in {todo, TuneCommands, CloseCommands, <<>>}
    BY <1>5, Zenon DEF Failed, GiveUpCard, CallbackFails
  <2>3. QED
    BY <1>2, <1>3, <2>1, <2>2 DEF Phases
<1>6. QED
  BY <1>4, <1>5

LEMMA DataStep == FlagsOK /\ DataOK /\ [Next]_vars => DataOK'
<1> SUFFICES ASSUME FlagsOK, DataOK, [Next]_vars PROVE DataOK'
  OBVIOUS
<1>1. CASE Open
  BY <1>1 DEF DataOK, Open, tuner, Phases
<1>2. CASE DrainOne
  <2>1. fifo' \in Seq(Answer)
    BY <1>2, HeadTailProperties DEF DataOK, DrainOne
  <2>2. QED
    BY <1>2, <2>1 DEF DataOK, DrainOne, host, history
<1>3. CASE DrainEnds
  <2>1. todo' \in Seq(Commands)
    BY <1>3, Sequences1 DEF DrainEnds
  <2>2. QED
    BY <1>3, <2>1 DEF DataOK, DrainEnds, tuner, Phases
<1>4. CASE Proceed
  <2>1. phase' \in Phases /\ todo' \in {todo, CardCommands, TuneCommands, CloseCommands}
    BY <1>4, Zenon DEF Proceed, Phases
  <2>2. todo' \in Seq(Commands)
    BY <2>1, Sequences2 DEF DataOK
  <2>3. QED
    BY <1>4, <2>1, <2>2 DEF DataOK, Proceed, tuner, history
<1>5. CASE Send
  <2> DEFINE m == [cmd |-> Current, own |-> TRUE, arg |-> wanted, seq |-> pcb]
  <2>1. Stale(inbox) \in Seq(Message) /\ Stale(fifo) \in Seq(Answer)
    BY StaleTyped DEF DataOK
  <2>2. m \in Message
    BY RestTyped DEF DataOK, Message
  <2>3. inbox' = Append(Stale(inbox), m) /\ fifo' = Stale(fifo)
    BY <1>5 DEF Send
  <2> HIDE DEF m
  <2>4. inbox' \in Seq(Message) /\ fifo' \in Seq(Answer)
    BY <2>1, <2>2, <2>3, AppendProperties
  <2>5. pcb' \in 0..1 /\ attempts' \in 0..(Retries + 1)
    BY <1>5, RestTyped DEF Send, DataOK
  <2>6. QED
    BY <1>5, <2>4, <2>5 DEF Send, DataOK, history
<1>6. CASE SendFails
  <2>1. pcb' \in 0..1 /\ mishaps' \in 0..2
    BY <1>6 DEF SendFails, Mishap, DataOK
  <2>2. QED
    BY <1>6, <2>1, FailedTyped DEF SendFails, DataOK, tuner
<1>7. CASE Receive
  <2>1. fifo' \in Seq(Answer)
    BY <1>7, HeadTailProperties DEF Receive, DataOK
  <2>2. CASE Failed /\ UNCHANGED <<pcb, wanted, mishaps>>
    BY <1>7, <2>1, <2>2, FailedTyped DEF Receive, DataOK
  <2>3. CASE Succeeded
    <3>1. pcb' \in 0..1 /\ mishaps' \in 0..2 /\ attempts' \in 0..(Retries + 1)
      BY <2>3, ChannelAssumption DEF Succeeded, DataOK
    <3>2. QED
      BY <1>7, <2>1, <2>3, <3>1, RestTyped DEF Receive, Succeeded, DataOK
  <2>4. QED
    BY <1>7, <2>2, <2>3 DEF Receive
<1>8. CASE ReceiveGarbled
  <2>1. fifo' \in Seq(Answer)
    BY <1>8, HeadTailProperties DEF ReceiveGarbled, DataOK
  <2>2. mishaps' \in 0..2
    BY <1>8 DEF ReceiveGarbled, Mishap, DataOK
  <2>3. QED
    BY <1>8, <2>1, <2>2, FailedTyped DEF ReceiveGarbled, DataOK
<1>9. CASE TimesOut
  BY <1>9, FailedTyped DEF TimesOut, DataOK, tuner
<1>10. CASE Kill
  BY <1>10, ChannelAssumption DEF Kill, DataOK, tuner, history, Phases
<1>11. CASE Execute \/ Refuse
  <2>1. inbox \in Seq(Message) /\ inbox # <<>>
    BY <1>11 DEF Execute, Refuse, DataOK
  <2>2. Head(inbox) \in Message /\ Tail(inbox) \in Seq(Message)
    BY <2>1, HeadTailProperties
  <2>3. ASSUME NEW ok \in BOOLEAN, Respond(ok) PROVE fifo' \in Seq(Answer)
    <3>1. [ok |-> ok, own |-> Head(inbox).own] \in Answer
      BY <2>2 DEF Answer, Message
    <3>2. QED
      BY <2>3, <3>1, AppendProperties DEF Respond, DataOK
  <2>4. fifo' \in Seq(Answer) /\ inbox' \in Seq(Message)
    BY <1>11, <2>2, <2>3 DEF Execute, Refuse
  <2>5. CASE Execute
    <3>1. /\ tuned' \in Channels /\ cardSeq' \in {0, 1, Off}
          /\ refused' \subseteq Unchecked
      BY <2>2, <2>5 DEF Execute, DataOK, Message, Off
    <3>2. QED
      BY <2>4, <2>5, <3>1 DEF Execute, DataOK, host
  <2>6. CASE Refuse
    <3>1. mishaps' \in 0..2 /\ refused' \subseteq Unchecked
      BY <2>6 DEF Refuse, Mishap, DataOK
    <3>2. QED
      BY <2>4, <2>6, <3>1 DEF Refuse, DataOK, host
  <2>7. QED
    BY <1>11, <2>5, <2>6
<1>12. CASE UNCHANGED vars
  BY <1>12 DEF vars, host, tuner, history, DataOK
<1>13. QED
  BY <1>1, <1>2, <1>3, <1>4, <1>5, <1>6, <1>7, <1>8, <1>9, <1>10, <1>11, <1>12
  DEF Next, HostStep, TunerStep

LEMMA TypeInit == Init => TypeOK
<1> SUFFICES ASSUME Init PROVE TypeOK
  OBVIOUS
<1>1. FlagsOK
  BY Zenon DEF Init, FlagsOK
<1>2. DataOK
  BY ChannelAssumption DEF Init, DataOK, Phases
<1>3. QED
  BY <1>1, <1>2, TypeParts

LEMMA TypeStep == TypeOK /\ [Next]_vars => TypeOK'
<1> SUFFICES ASSUME TypeOK, [Next]_vars PROVE TypeOK'
  OBVIOUS
<1>1. FlagsOK /\ DataOK
  BY TypeParts
<1>2. FlagsOK' /\ DataOK'
  BY <1>1, FlagsStep, DataStep
<1>3. QED
  BY <1>2, Zenon DEF FlagsOK, DataOK, TypeOK, Message, Answer

\* Every variable keeps its type: the attempts stay within the retries, the
\* sequence numbers within the two that the card knows.
THEOREM CommandTyped == Spec => []TypeOK
BY TypeInit, TypeStep, PTL DEF Spec


-----------------------------------------------------------------------------
(* The sequences of commands                                                *)

LEMMA TuneShape ==
  ASSUME NEW s \in TuneTodos, s # <<>>
  PROVE  /\ Head(s) \in {"stop", "segment", "freq", "start"}
         /\ Tail(s) \in TuneTodos
         /\ Tail(s) = <<>> => Head(s) = "start"
         /\ Head(s) \in {"stop", "segment"} => Holds(Tail(s), "freq")
         /\ Head(s) = "start" => ~Holds(s, "freq")
<1>1. ASSUME s = TuneCommands
      PROVE  Head(s) = "stop" /\ Tail(s) = <<"segment", "freq", "start">>
  BY <1>1 DEF TuneCommands
<1>2. /\ <<"segment", "freq", "start">>[2] = "freq" /\ Len(<<"segment", "freq", "start">>) = 3
      /\ <<"freq", "start">>[1] = "freq" /\ Len(<<"freq", "start">>) = 2
      /\ <<"start">>[1] = "start" /\ Len(<<"start">>) = 1
  OBVIOUS
<1>3. /\ Holds(<<"segment", "freq", "start">>, "freq") /\ Holds(<<"freq", "start">>, "freq")
      /\ ~Holds(<<"start">>, "freq")
  BY <1>2 DEF Holds
<1>4. CASE s = TuneCommands
  <2>1. Head(s) = "stop" /\ Tail(s) = <<"segment", "freq", "start">>
    BY <1>1, <1>4
  <2>2. <<"segment", "freq", "start">> # <<>>
    OBVIOUS
  <2> HIDE DEF TuneCommands
  <2>3. QED
    BY <1>3, <2>1, <2>2 DEF TuneTodos
<1>5. CASE s = <<"segment", "freq", "start">>
  BY <1>3, <1>5 DEF TuneTodos
<1>6. CASE s = <<"freq", "start">>
  BY <1>6 DEF TuneTodos
<1>7. CASE s = <<"start">>
  BY <1>3, <1>7 DEF TuneTodos
<1>8. QED
  BY <1>4, <1>5, <1>6, <1>7 DEF TuneTodos

LEMMA CardShape ==
  ASSUME NEW s \in CardTodos, s # <<>>
  PROVE  /\ Head(s) \in {"deactivate", "activate", "apdu"}
         /\ Tail(s) \in CardTodos
         /\ Head(s) = "apdu" <=> s \in ApduTodos
         /\ Tail(s) \in ApduTodos <=> Head(s) # "deactivate"
<1>1. CASE s = CardCommands
  <2>1. Head(s) = "deactivate" /\ Tail(s) = <<"activate", "apdu", "apdu">>
    BY <1>1 DEF CardCommands
  <2>2. /\ <<"activate", "apdu", "apdu">> \notin ApduTodos
        /\ CardCommands \notin ApduTodos
    BY DEF ApduTodos, CardCommands
  <2>3. QED
    BY <1>1, <2>1, <2>2 DEF CardTodos
<1>2. CASE s = <<"activate", "apdu", "apdu">>
  <2>1. Head(s) = "activate" /\ Tail(s) = <<"apdu", "apdu">>
    BY <1>2
  <2>2. s \notin ApduTodos /\ <<"apdu", "apdu">> \in ApduTodos
    BY <1>2 DEF ApduTodos
  <2>3. QED
    BY <2>1, <2>2 DEF CardTodos
<1>3. CASE s \in ApduTodos
  <2>1. Head(s) = "apdu" /\ Tail(s) \in {<<"apdu">>, <<>>}
    <3>1. CASE s = <<"apdu", "apdu">>
      BY <3>1
    <3>2. CASE s = <<"apdu">>
      BY <3>2
    <3>3. QED
      BY <1>3, <3>1, <3>2 DEF ApduTodos
  <2>2. QED
    BY <1>3, <2>1 DEF CardTodos, ApduTodos
<1>4. QED
  BY <1>1, <1>2, <1>3 DEF CardTodos

LEMMA CloseShape ==
  ASSUME NEW s \in CloseTodos, s # <<>>
  PROVE  Head(s) \in {"stop", "close"} /\ Tail(s) \in CloseTodos
<1>1. CASE s = CloseCommands
  <2>1. Head(s) = "stop" /\ Tail(s) = <<"close">>
    BY <1>1 DEF CloseCommands
  <2>2. QED
    BY <2>1 DEF CloseTodos
<1>2. CASE s = <<"close">>
  BY <1>2 DEF CloseTodos
<1>3. QED
  BY <1>1, <1>2 DEF CloseTodos

LEMMA InitShape ==
  ASSUME NEW s \in Seq(InitSet), s # <<>>
  PROVE  Head(s) \in InitSet /\ Tail(s) \in Seq(InitSet)
BY HeadTailProperties

\* A sequence holds what its head is not also behind its head.
LEMMA HoldsTail ==
  ASSUME NEW S, NEW s \in Seq(S), s # <<>>, NEW c, Holds(s, c), Head(s) # c
  PROVE  Holds(Tail(s), c)
<1>1. Len(s) \in Nat /\ s[1] = Head(s)
  BY HeadTailProperties
<1>2. PICK i \in 1..Len(s) : s[i] = c
  BY DEF Holds
<1>3. i # 1
  BY <1>1, <1>2
<1>4. /\ Len(Tail(s)) = Len(s) - 1
      /\ \A j \in 1..Len(Tail(s)) : Tail(s)[j] = s[j + 1]
  BY HeadTailProperties
<1>5. i - 1 \in 1..Len(Tail(s)) /\ (i - 1) + 1 = i
  BY <1>1, <1>2, <1>3, <1>4
<1>6. Tail(s)[i - 1] = c
  BY <1>2, <1>4, <1>5
<1>7. QED
  BY <1>5, <1>6 DEF Holds

LEMMA NewSequences ==
  /\ Holds(InitCommands \o SetupCommands, "stop")
  /\ Holds(ReInitCommands \o SetupCommands, "stop")
  /\ Holds(CloseCommands, "stop")
  /\ Holds(TuneCommands, "freq")
  /\ ~Holds(<<>>, "stop")
  /\ ~Holds(<<>>, "freq")
<1>1. /\ InitCommands[2] = "stop" /\ InitCommands \in Seq(InitSet) /\ Len(InitCommands) >= 4
      /\ SetupCommands \in Seq(InitSet)
      /\ <<"close", "init", "stop", "ask">> \in Seq(InitSet)
  BY DEF InitCommands, SetupCommands, InitSet
<1>2. Holds(CloseCommands, "stop") /\ Holds(TuneCommands, "freq")
  <2>1. CloseCommands[1] = "stop" /\ Len(CloseCommands) = 2
    BY DEF CloseCommands
  <2>2. TuneCommands[3] = "freq" /\ Len(TuneCommands) = 4
    BY DEF TuneCommands
  <2> HIDE DEF CloseCommands, TuneCommands
  <2>3. QED
    BY <2>1, <2>2 DEF Holds
<1>3. ASSUME NEW s \in Seq(InitSet), NEW t \in Seq(InitSet), Len(s) >= 4, s[2] = "stop"
      PROVE  /\ s \o t \in Seq(InitSet) /\ Len(s \o t) >= 4 /\ (s \o t)[2] = "stop"
             /\ Holds(s \o t, "stop")
  <2>1. Len(s) \in Nat /\ Len(t) \in Nat
    BY LenProperties
  <2>2. /\ s \o t \in Seq(InitSet)
        /\ Len(s \o t) = Len(s) + Len(t)
        /\ \A i \in 1..(Len(s) + Len(t)) :
              (s \o t)[i] = IF i <= Len(s) THEN s[i] ELSE t[i - Len(s)]
    BY <1>3, ConcatProperties
  <2>3. 2 \in 1..(Len(s) + Len(t)) /\ 2 <= Len(s) /\ Len(s) + Len(t) >= 4
    BY <1>3, <2>1
  <2>4. (s \o t)[2] = "stop" /\ 2 \in 1..Len(s \o t)
    BY <1>3, <2>2, <2>3
  <2>5. QED
    BY <2>2, <2>3, <2>4 DEF Holds
<1>4. Holds(InitCommands \o SetupCommands, "stop")
  BY <1>1, <1>3
<1>5. ReInitCommands \in Seq(InitSet) /\ Len(ReInitCommands) >= 4 /\ ReInitCommands[2] = "stop"
  <2> DEFINE u == <<"close", "init", "stop", "ask">>
  <2>1. u \in Seq(InitSet) /\ ReInitCommands = InitCommands \o u
    BY <1>1 DEF ReInitCommands
  <2> HIDE DEF u
  <2>2. QED
    BY <1>1, <1>3, <2>1
<1>6. Holds(ReInitCommands \o SetupCommands, "stop")
  BY <1>1, <1>3, <1>5
<1>7. \A c : ~Holds(<<>>, c)
  <2>1. Len(<<>>) = 0
    OBVIOUS
  <2>2. QED
    BY <2>1 DEF Holds
<1>8. QED
  BY <1>2, <1>4, <1>6, <1>7

-----------------------------------------------------------------------------
(* What a failed command leads to                                           *)

\* bcas_transmit() tries again.
Again ==
    /\ Current = "apdu" /\ Attempt > 1
    /\ attempts' = Attempt - 1
    /\ UNCHANGED <<phase, todo, descrambling, gaveUp>>

\* The card is not used.
NoCard ==
    /\ phase = "card" /\ phase' = "tune" /\ todo' = TuneCommands
    /\ attempts' = 0
    /\ \/ Current = "apdu" /\ Attempt = 1 /\ gaveUp' = TRUE
       \/ Current # "apdu" /\ attempts = 0 /\ gaveUp' = gaveUp
    /\ UNCHANGED descrambling

\* A section of the stream is not answered.
SectionLost ==
    /\ phase = "use" /\ Current = "apdu" /\ Attempt = 1
    /\ attempts' = 0 /\ gaveUp' = TRUE
    /\ UNCHANGED <<phase, todo>>

\* The tuner is closed, or close() ends.
Closing ==
    /\ Current # "apdu" /\ attempts = 0
    /\ \/ phase' = "close" /\ todo' = CloseCommands /\ phase \notin {"card", "close"}
       \/ phase = "close" /\ phase' = "off" /\ todo' = <<>>
    /\ UNCHANGED <<attempts, descrambling, gaveUp>>

LEMMA ApduPhase ==
  ASSUME PlanInv, Due, phase \notin Resting, phase \in Phases
  PROVE  /\ Current = "apdu" =>
              /\ phase = "card" \/ (phase = "use" /\ descrambling)
              /\ phase = "card" => todo \in ApduTodos /\ todo # <<>>
         /\ phase = "use" => Current = "apdu" /\ todo = <<>> /\ descrambling
         /\ phase = "lock" => Current = "ask" /\ todo = <<>>
         /\ phase = "init" => Current \in InitSet /\ Rest \in Seq(InitSet) /\ todo # <<>>
         /\ phase = "card" => /\ Current \in {"deactivate", "activate", "apdu"}
                              /\ Rest \in CardTodos /\ todo # <<>>
                              /\ Current = "apdu" <=> todo \in ApduTodos
                              /\ Rest \in ApduTodos <=> Current # "deactivate"
         /\ phase = "tune" => /\ Current \in {"stop", "segment", "freq", "start"}
                              /\ Rest \in TuneTodos /\ todo # <<>>
         /\ phase = "close" => Current \in {"stop", "close"} /\ Rest \in CloseTodos /\ todo # <<>>
<1> USE DEF PlanInv
<1>1. CASE phase = "use"
  BY <1>1 DEF Due, ApduDue, Current
<1>2. CASE phase = "lock"
  BY <1>2 DEF Current
<1>3. ASSUME phase \notin {"use", "lock"}
      PROVE  todo # <<>> /\ Current = Head(todo) /\ Rest = Tail(todo)
  BY <1>3 DEF Due, ApduDue, Current, Rest
<1>4. CASE phase = "init"
  <2>1. Head(todo) \in InitSet /\ Tail(todo) \in Seq(InitSet)
    BY <1>3, <1>4, InitShape
  <2>2. "apdu" \notin InitSet
    BY DEF InitSet
  <2>3. QED
    BY <1>3, <1>4, <2>1, <2>2
<1>5. CASE phase = "card"
  BY <1>3, <1>5, CardShape
<1>6. CASE phase = "tune"
  <2>1. todo \in TuneTodos /\ todo # <<>>
    BY <1>3, <1>6
  <2>2. /\ Head(todo) \in {"stop", "segment", "freq", "start"}
        /\ Tail(todo) \in TuneTodos
    BY <2>1, TuneShape
  <2>3. QED
    BY <1>3, <1>6, <2>1, <2>2
<1>7. CASE phase = "close"
  BY <1>3, <1>7, CloseShape
<1>8. QED
  BY <1>1, <1>2, <1>4, <1>5, <1>6, <1>7 DEF Phases, Resting

LEMMA Outcomes ==
  ASSUME PlanInv, Due, phase \notin Resting, phase \in Phases,
         attempts \in 0..(Retries + 1), gaveUp \in BOOLEAN, Failed
  PROVE  waiting' = FALSE /\ (Again \/ NoCard \/ SectionLost \/ Closing)
<1>1. waiting' = FALSE
  BY DEF Failed
<1>2. CASE Current = "apdu"
  <2>1. Attempt \in 1..(Retries + 1)
    BY ChannelAssumption DEF Attempt
  <2>2. /\ attempts' = Attempt - 1
        /\ gaveUp' = (gaveUp \/ Attempt = 1)
        /\ IF Attempt > 1 THEN UNCHANGED <<phase, todo, descrambling>> ELSE GiveUpCard
    BY <1>2 DEF Failed, ApduFailed
  <2>3. phase \in {"card", "use"}
    BY <1>2, ApduPhase
  <2> HIDE DEF Attempt
  <2>4. CASE Attempt > 1
    <3>1. Attempt # 1
      BY <2>1, <2>4
    <3>2. gaveUp' = gaveUp
      BY <2>2, <3>1, Zenon
    <3>3. QED
      BY <1>1, <1>2, <2>2, <2>4, <3>2, Zenon DEF Again
  <2>5. CASE ~(Attempt > 1)
    <3>1. Attempt = 1
      BY <2>1, <2>5, ChannelAssumption
    <3>2. attempts' = 0 /\ gaveUp' = TRUE /\ GiveUpCard
      <4>1. attempts' = 0
        BY <2>2, <3>1
      <4>2. gaveUp' = TRUE /\ GiveUpCard
        BY <2>2, <2>5, <3>1, Zenon
      <4>3. QED
        BY <4>1, <4>2
    <3>3. CASE phase = "card"
      BY <1>1, <1>2, <3>1, <3>2, <3>3, Zenon DEF GiveUpCard, NoCard
    <3>4. CASE phase = "use"
      <4>1. phase # "card"
        BY <3>4
      <4>2. QED
        BY <1>1, <1>2, <3>1, <3>2, <3>4, <4>1, Zenon DEF GiveUpCard, CallbackFails, SectionLost
    <3>5. QED
      BY <2>3, <3>3, <3>4
  <2>6. QED
    BY <2>4, <2>5
<1>3. CASE Current # "apdu"
  <2>1. attempts = 0
    BY <1>3 DEF PlanInv
  <2>2. /\ UNCHANGED <<attempts, gaveUp>>
        /\ IF phase = "card" THEN GiveUpCard
           ELSE /\ IF phase = "close" THEN phase' = "off" /\ todo' = <<>>
                   ELSE phase' = "close" /\ todo' = CloseCommands
                /\ UNCHANGED descrambling
    BY <1>3, Zenon DEF Failed
  <2>3. CASE phase = "card"
    BY <1>1, <1>3, <2>1, <2>2, <2>3, Zenon DEF NoCard, GiveUpCard
  <2>4. CASE phase # "card"
    BY <1>1, <1>3, <2>1, <2>2, <2>4, Zenon DEF Closing
  <2>5. QED
    BY <2>3, <2>4
<1>4. QED
  BY <1>2, <1>3

-----------------------------------------------------------------------------
(* PlanInv and FlagInv                                                      *)

\* The host variables that PlanInv is about.
plan == <<phase, todo, waiting, attempts, descrambling>>

LEMMA PlanStep ==
  ASSUME TypeOK, PlanInv, [Next]_vars
  PROVE  PlanInv'
<1> USE DEF PlanInv
<1>1. /\ phase \in Phases /\ attempts \in 0..(Retries + 1) /\ gaveUp \in BOOLEAN
      /\ waiting \in BOOLEAN /\ Retries \in Nat
  BY ChannelAssumption DEF TypeOK
<1>2. CASE plan' = plan
  <2>1. Current' = Current /\ Due' = Due
    BY <1>2 DEF plan, Current, Due, ApduDue
  <2>2. QED
    BY <1>2, <2>1 DEF plan
<1>3. CASE phase' \in Resting /\ todo' = <<>> /\ waiting' = FALSE /\ attempts' = 0
  BY <1>3 DEF Resting
<1>4. CASE Open
  BY <1>1, <1>3, <1>4 DEF Open, Resting
<1>5. CASE DrainEnds
  <2>1. waiting = FALSE /\ attempts = 0
    BY <1>1, <1>5 DEF DrainEnds, Resting
  <2>2. phase' = "init" /\ todo' \in Seq(InitSet) /\ waiting' = FALSE /\ attempts' = 0
    BY <1>5, <2>1, Sequences1 DEF DrainEnds
  <2>3. QED
    BY <2>2 DEF Resting
<1>6. CASE Proceed
  <2>1. todo = <<>> /\ waiting' = FALSE /\ attempts' = 0
    BY <1>1, <1>6 DEF Proceed, Idle
  <2>2. \/ phase' = "card" /\ todo' = CardCommands
        \/ phase' = "tune" /\ todo' = TuneCommands
        \/ phase' \in {"lock", "use", "ended"} /\ todo' = <<>>
        \/ phase' = "close" /\ todo' = CloseCommands
    BY <1>6, <2>1, Zenon DEF Proceed
  <2> HIDE DEF TuneCommands, CardCommands, CloseCommands
  <2>3. QED
    BY <2>1, <2>2, Sequences2 DEF Resting
<1>7. CASE Send
  <2>1. /\ phase \notin Resting /\ Due /\ UNCHANGED <<phase, todo, descrambling>>
    BY <1>7 DEF Send, Sends, Idle, Due, Resting
  <2>2. Current' = Current /\ Due' = Due
    BY <2>1 DEF Current, Due, ApduDue
  <2>3. Current = "apdu" => attempts' > 0 /\ phase \in {"card", "use"}
    BY <1>1, <1>7, <2>1, ApduPhase DEF Send, Attempt
  <2>4. Current # "apdu" => attempts' = attempts
    BY <1>7 DEF Send
  <2>5. QED
    BY <1>1, <2>1, <2>2, <2>3, <2>4
<1>8. ASSUME Failed, Due, phase \notin Resting PROVE PlanInv'
  <2>1. waiting' = FALSE /\ (Again \/ NoCard \/ SectionLost \/ Closing)
    BY <1>1, <1>8, Outcomes
  <2>2. CASE Again
    <3>1. UNCHANGED <<phase, todo, descrambling>> /\ Current = "apdu"
      BY <2>2 DEF Again
    <3>2. Current' = Current /\ Due' = Due
      BY <3>1 DEF Current, Due, ApduDue
    <3>3. phase \in {"card", "use"}
      BY <1>1, <1>8, <3>1, ApduPhase
    <3>4. QED
      BY <1>8, <2>1, <3>1, <3>2, <3>3
  <2>3. CASE NoCard
    BY <2>1, <2>3, Sequences2 DEF NoCard, Resting
  <2>4. CASE SectionLost
    BY <2>1, <2>4 DEF SectionLost, Resting
  <2>5. CASE Closing
    BY <2>1, <2>5, Sequences2 DEF Closing, Resting
  <2>6. QED
    BY <2>1, <2>2, <2>3, <2>4, <2>5
<1>9. CASE SendFails
  BY <1>8, <1>9 DEF SendFails, Sends, Idle, Due, Resting
<1>10. ASSUME Succeeded, waiting PROVE PlanInv'
  <2>1. phase' = phase /\ todo' = Rest /\ waiting' = FALSE /\ attempts' = 0
    BY <1>10 DEF Succeeded
  <2>2. phase \notin Resting /\ Due
    BY <1>10
  <2>3. CASE phase \in {"lock", "use"}
    BY <2>1, <2>3 DEF Rest, Resting
  <2>4. CASE phase \notin {"lock", "use"}
    BY <1>1, <2>1, <2>2, <2>4, ApduPhase
  <2>5. QED
    BY <2>3, <2>4
<1>11. CASE Receive \/ ReceiveGarbled \/ TimesOut
  BY <1>8, <1>10, <1>11 DEF Receive, ReceiveGarbled, TimesOut
<1>12. CASE Kill
  BY <1>3, <1>12 DEF Kill, Resting
<1>13. CASE DrainOne \/ Execute \/ Refuse \/ UNCHANGED vars
  BY <1>2, <1>13 DEF DrainOne, Execute, Refuse, vars, host, plan
<1>14. QED
  BY <1>4, <1>5, <1>6, <1>7, <1>9, <1>11, <1>12, <1>13
  DEF Next, HostStep, TunerStep

LEMMA FlagStep ==
  ASSUME TypeOK, PlanInv, FlagInv, [Next]_vars
  PROVE  FlagInv'
<1>1. /\ phase \in Phases /\ attempts \in 0..(Retries + 1) /\ gaveUp \in BOOLEAN
  BY DEF TypeOK
<1>2. ASSUME Failed, Due, phase \notin Resting PROVE FlagInv'
  <2>1. Again \/ NoCard \/ SectionLost \/ Closing
    BY <1>1, <1>2, Outcomes
  <2>2. phase # "drain"
    BY <1>2 DEF Resting
  <2>3. QED
    BY <2>1, <2>2 DEF FlagInv, Again, NoCard, SectionLost, Closing
<1>3. CASE SendFails \/ ReceiveGarbled \/ TimesOut
  BY <1>2, <1>3 DEF SendFails, Sends, Idle, Due, Resting, ReceiveGarbled, TimesOut, PlanInv
<1>4. CASE Receive
  <2>1. CASE Failed
    BY <1>2, <1>4, <2>1 DEF Receive, PlanInv
  <2>2. CASE Succeeded
    <3>1. /\ phase \notin Resting /\ Due
          /\ phase' = phase /\ todo' = Rest /\ descrambling' = descrambling
          /\ gaveUp' => gaveUp
      BY <1>4, <2>2 DEF Receive, Succeeded, PlanInv
    <3>2. phase = "card" /\ Rest \notin ApduTodos => todo \notin ApduTodos
      BY <1>1, <3>1, ApduPhase
    <3>3. QED
      BY <3>1, <3>2 DEF FlagInv
  <2>3. QED
    BY <1>4, <2>1, <2>2 DEF Receive
<1>5. CASE Open \/ DrainOne \/ DrainEnds \/ Kill
  BY <1>5 DEF Open, DrainOne, DrainEnds, Kill, FlagInv, host, history
<1>6. CASE Proceed
  BY <1>6 DEF Proceed, FlagInv, Idle, history
<1>7. CASE Send \/ Execute \/ Refuse
  <2>1. UNCHANGED <<phase, todo, descrambling, gaveUp>>
    BY <1>7, Zenon DEF Send, Execute, Refuse, host, history
  <2>2. QED
    BY <2>1 DEF FlagInv
<1>8. CASE UNCHANGED vars
  BY <1>8 DEF vars, host, history, FlagInv
<1>9. QED
  BY <1>3, <1>4, <1>5, <1>6, <1>7, <1>8 DEF Next, HostStep, TunerStep

-----------------------------------------------------------------------------
(* FlowInv                                                                  *)

LEMMA FlowStep ==
  ASSUME TypeOK, PlanInv, FlowInv, [Next]_vars
  PROVE  FlowInv'
<1>1. /\ phase \in Phases /\ attempts \in 0..(Retries + 1) /\ gaveUp \in BOOLEAN
      /\ waiting \in BOOLEAN /\ late \in BOOLEAN /\ pcb \in 0..1 /\ Retries \in Nat
  BY ChannelAssumption DEF TypeOK
<1>2. CASE phase' \in {"off", "drain"} \/ late'
  BY <1>2 DEF FlowInv
<1>3. CASE Open \/ DrainOne \/ TimesOut \/ Kill
  BY <1>2, <1>3 DEF Open, DrainOne, TimesOut, Kill, host
<1>4. CASE DrainEnds
  <2>1. waiting' = FALSE
    BY <1>1, <1>4 DEF DrainEnds, PlanInv, Resting
  <2>2. late' \/ Silent'
    BY <1>4 DEF DrainEnds, Silent, tuner
  <2>3. QED
    BY <1>2, <2>1, <2>2 DEF FlowInv
<1>5. ASSUME ~late, phase \notin {"off", "drain"}, ~waiting PROVE Silent
  BY <1>5 DEF FlowInv
<1>6. ASSUME ~late, waiting PROVE Asked \/ Answered
  BY <1>6 DEF FlowInv, PlanInv, Resting
<1>7. SUFFICES ASSUME ~late' PROVE FlowInv'
  BY <1>2
<1>8. CASE Proceed
  <2>1. ~late /\ phase \notin {"off", "drain"} /\ ~waiting /\ ~waiting' /\ UNCHANGED <<inbox, fifo>>
    BY <1>7, <1>8 DEF Proceed, Idle, tuner, history
  <2>2. QED
    BY <1>5, <2>1 DEF FlowInv, Silent
<1>9. CASE Send
  <2>1. /\ ~late /\ phase \notin {"off", "drain"} /\ ~waiting /\ waiting'
        /\ UNCHANGED <<phase, todo, wanted>>
    BY <1>7, <1>9 DEF Send, Sends, Idle, history
  <2>2. inbox = <<>> /\ fifo = <<>>
    BY <1>5, <2>1 DEF Silent
  <2>3. Stale(inbox) = <<>> /\ Stale(fifo) = <<>>
    BY <2>2 DEF Stale
  <2>4. /\ fifo' = <<>>
        /\ inbox' = <<[cmd |-> Current, own |-> TRUE, arg |-> wanted, seq |-> pcb]>>
    <3> DEFINE m == [cmd |-> Current, own |-> TRUE, arg |-> wanted, seq |-> pcb]
    <3>1. fifo' = Stale(fifo) /\ inbox' = Append(Stale(inbox), m)
      BY <1>9, Zenon DEF Send
    <3> HIDE DEF m
    <3>2. fifo' = <<>> /\ inbox' = <<m>>
      BY <2>3, <3>1
    <3>3. QED
      BY <3>2 DEF m
  <2>5. Current' = Current /\ (Current = "apdu" => pcb' = 1 - pcb)
    BY <1>9, <2>1 DEF Send, Current
  <2>6. pcb = 1 - (1 - pcb)
    BY <1>1
  <2>7. Asked'
    <3>1. inbox' = <<[cmd |-> Current', own |-> TRUE, arg |-> wanted', seq |-> pcb]>>
      BY <2>1, <2>4, <2>5, Zenon
    <3>2. Current' = "apdu" => pcb = 1 - pcb'
      BY <2>5, <2>6
    <3>3. QED
      BY <1>1, <2>4, <3>1, <3>2, Zenon DEF Asked
  <2>8. QED
    BY <2>1, <2>7 DEF FlowInv
<1>10. CASE SendFails
  <2>1. /\ ~late /\ phase \notin {"off", "drain"} /\ ~waiting /\ waiting' = FALSE
        /\ UNCHANGED <<inbox, fifo>>
    BY <1>7, <1>10 DEF SendFails, Sends, Idle, Failed, tuner
  <2>2. QED
    BY <1>5, <2>1 DEF FlowInv, Silent
<1>11. CASE Receive \/ ReceiveGarbled
  <2>1. /\ ~late /\ waiting /\ fifo # <<>> /\ fifo' = Tail(fifo) /\ UNCHANGED inbox
        /\ waiting' = FALSE
    BY <1>7, <1>11 DEF Receive, ReceiveGarbled, Failed, Succeeded
  <2>2. Answered
    BY <1>6, <2>1 DEF Asked
  <2>3. Silent'
    BY <2>1, <2>2 DEF Answered, Silent
  <2>4. QED
    BY <2>1, <2>3 DEF FlowInv
<1>12. CASE Execute \/ Refuse
  <2>1. /\ ~late /\ inbox # <<>> /\ inbox' = Tail(inbox) /\ UNCHANGED <<phase, waiting>>
        /\ \E ok \in BOOLEAN : Respond(ok)
    <3>1. CASE Execute
      <4> DEFINE ok == Head(inbox).cmd = "apdu" => Head(inbox).seq = cardSeq
      <4>1. ok \in BOOLEAN /\ Respond(ok)
        BY <3>1, Zenon DEF Execute
      <4> HIDE DEF ok
      <4>2. QED
        BY <1>7, <3>1, <4>1, Zenon DEF Execute, host, history
    <3>2. CASE Refuse
      BY <1>7, <3>2, Zenon DEF Refuse, host
    <3>3. QED
      BY <1>12, <3>1, <3>2
  <2>2. CASE phase \notin {"off", "drain"}
    <3>1. waiting /\ Asked
      BY <1>5, <1>6, <2>1, <2>2 DEF Silent, Answered
    <3>2. Answered'
      <4>1. fifo = <<>> /\ Head(inbox).own = TRUE /\ Tail(inbox) = <<>>
        BY <3>1 DEF Asked
      <4>2. PICK ok \in BOOLEAN : fifo' = Append(fifo, [ok |-> ok, own |-> Head(inbox).own])
        BY <2>1, Zenon DEF Respond
      <4>3. fifo' = <<[ok |-> ok, own |-> TRUE]>>
        <5> DEFINE r == [ok |-> ok, own |-> TRUE]
        <5>1. fifo' = Append(<<>>, r)
          BY <4>1, <4>2, Zenon
        <5> HIDE DEF r
        <5>2. fifo' = <<r>>
          BY <5>1
        <5>3. QED
          BY <5>2 DEF r
      <4>4. QED
        BY <2>1, <4>1, <4>3, Zenon DEF Answered
    <3>3. QED
      BY <2>1, <3>1, <3>2 DEF FlowInv
  <2>3. QED
    BY <1>2, <2>1, <2>2
<1>13. CASE UNCHANGED vars
  <2>1. UNCHANGED <<late, phase, waiting, inbox, fifo, wanted, pcb>> /\ Current' = Current
    BY <1>13 DEF vars, host, tuner, history, Current
  <2>2. QED
    BY <2>1 DEF FlowInv, Asked, Answered, Silent
<1>14. QED
  BY <1>3, <1>4, <1>8, <1>9, <1>10, <1>11, <1>12, <1>13
  DEF Next, HostStep, TunerStep

\* What the card may make of a command, or of a block with the number s.
CardAfter(c, s) ==
    IF c = "deactivate" THEN {Off}
    ELSE IF c = "activate" THEN IF cardSeq = Off THEN {0} ELSE {0, cardSeq}
    ELSE IF c = "apdu" /\ s = cardSeq THEN {1 - cardSeq}
    ELSE {cardSeq}

\* As long as nothing is late, the tuner executes or refuses the command that
\* is waited for.
LEMMA TunerActs ==
  ASSUME TypeOK, PlanInv, FlowInv, ~late, phase \notin {"off", "drain"}, Execute \/ Refuse
  PROVE  /\ waiting /\ waiting' /\ phase \notin Resting /\ Due /\ Current' = Current
         /\ UNCHANGED <<phase, todo, attempts, pcb, descrambling, wanted, late, gaveUp>>
         /\ fifo = <<>> /\ fifo' # <<>>
         /\ Execute => \E s \in 0..1 :
              /\ Current = "apdu" => s = 1 - pcb
              /\ Head(fifo').ok = (Current = "apdu" => s = cardSeq)
              /\ streaming' = IF Current = "start" THEN TRUE
                              ELSE IF Current = "stop" THEN FALSE ELSE streaming
              /\ tuned' = IF Current = "freq" THEN wanted ELSE tuned
              /\ cardSeq' \in CardAfter(Current, s)
              /\ refused' = refused \ {Current}
              /\ UNCHANGED mishaps
         /\ Refuse =>
              /\ Head(fifo').ok = FALSE
              /\ Mishap(Current)
              /\ refused' = refused \cup {c \in Unchecked : c = Current}
              /\ UNCHANGED <<streaming, tuned, cardSeq>>
<1>1. inbox # <<>> /\ UNCHANGED host /\ UNCHANGED <<late, gaveUp>>
  BY Zenon DEF Execute, Refuse, history
<1>2. waiting /\ Asked
  BY <1>1 DEF FlowInv, Silent, Answered
<1>3. phase \notin Resting /\ Due
  BY <1>2 DEF PlanInv
<1>4. /\ UNCHANGED <<phase, todo, waiting, attempts, pcb, descrambling, wanted, late, gaveUp>>
      /\ Current' = Current
  BY <1>1 DEF host, Current
<1>5. fifo = <<>>
  BY <1>2 DEF Asked
<1>6. PICK s \in 0..1 :
        /\ inbox = <<[cmd |-> Current, own |-> TRUE, arg |-> wanted, seq |-> s]>>
        /\ Current = "apdu" => s = 1 - pcb
  BY <1>2, Zenon DEF Asked
<1>7. /\ Head(inbox).cmd = Current /\ Head(inbox).arg = wanted /\ Head(inbox).seq = s
  BY <1>6
<1>8. ASSUME NEW ok, Respond(ok) PROVE fifo' # <<>> /\ Head(fifo').ok = ok
  <2> DEFINE r == [ok |-> ok, own |-> Head(inbox).own]
  <2>1. fifo' = Append(<<>>, r)
    BY <1>5, <1>8, Zenon DEF Respond
  <2>2. r.ok = ok
    OBVIOUS
  <2> HIDE DEF r
  <2>3. fifo' = <<r>>
    BY <2>1
  <2>4. QED
    BY <2>2, <2>3
<1>9. ASSUME Execute
      PROVE  /\ fifo' # <<>>
             /\ Head(fifo').ok = (Current = "apdu" => s = cardSeq)
             /\ streaming' = IF Current = "start" THEN TRUE
                             ELSE IF Current = "stop" THEN FALSE ELSE streaming
             /\ tuned' = IF Current = "freq" THEN wanted ELSE tuned
             /\ cardSeq' \in CardAfter(Current, s)
             /\ refused' = refused \ {Current}
             /\ UNCHANGED mishaps
  <2>1. Respond(Current = "apdu" => s = cardSeq)
    BY <1>7, <1>9, Zenon DEF Execute
  <2>2. fifo' # <<>> /\ Head(fifo').ok = (Current = "apdu" => s = cardSeq)
    BY <1>8, <2>1, Zenon
  <2>3. QED
    BY <1>7, <1>9, <2>2, Zenon DEF Execute, CardAfter
<1>10. ASSUME Refuse
       PROVE  /\ fifo' # <<>>
              /\ Head(fifo').ok = FALSE
              /\ Mishap(Current)
              /\ refused' = refused \cup {c \in Unchecked : c = Current}
              /\ UNCHANGED <<streaming, tuned, cardSeq>>
  <2>1. refused' = refused \cup {c \in Unchecked : ~late /\ c = Current}
    BY <1>7, <1>10, Zenon DEF Refuse
  <2>2. {c \in Unchecked : ~late /\ c = Current} = {c \in Unchecked : c = Current}
    OBVIOUS
  <2>3. refused' = refused \cup {c \in Unchecked : c = Current}
    BY <2>1, <2>2, Zenon
  <2>4. QED
    BY <1>7, <1>8, <1>10, <2>3, Zenon DEF Refuse
<1>11. fifo' # <<>>
  BY <1>9, <1>10
<1>12. QED
  BY <1>2, <1>3, <1>4, <1>5, <1>6, <1>9, <1>10, <1>11, Zenon

-----------------------------------------------------------------------------
(* StreamInv and TunedInv                                                   *)

LEMMA StreamStep ==
  ASSUME TypeOK, PlanInv, FlowInv, StreamInv, [Next]_vars
  PROVE  StreamInv'
<1>1. /\ phase \in Phases /\ attempts \in 0..(Retries + 1) /\ gaveUp \in BOOLEAN
      /\ waiting \in BOOLEAN /\ late \in BOOLEAN
      /\ todo \in Seq(Commands)
  BY DEF TypeOK
<1>2. CASE phase' \in {"off", "drain"} \/ late'
  BY <1>2 DEF StreamInv
<1>3. CASE Open \/ DrainOne \/ TimesOut \/ Kill
  BY <1>2, <1>3 DEF Open, DrainOne, TimesOut, Kill, host
<1>4. SUFFICES ASSUME ~late', phase' \notin {"off", "drain"} PROVE StreamInv'
  BY <1>2
\* What is neither executed nor refused leaves the stream as it is.
<1>4a. ASSUME UNCHANGED <<streaming, refused>>
       PROVE  Quiet' = Quiet /\ Streams' = Streams
  BY <1>4a DEF Quiet, Streams
<1>5. CASE DrainEnds
  <2>1. phase' = "init" /\ waiting' = FALSE /\ Holds(todo, "stop")'
    BY <1>1, <1>5, NewSequences DEF DrainEnds, PlanInv, Resting
  <2>2. QED
    BY <2>1 DEF StreamInv, Done
<1>6. CASE Proceed
  <2>1. /\ ~late /\ todo = <<>> /\ waiting' = FALSE
        /\ Quiet' = Quiet /\ Streams' = Streams
    BY <1>4, <1>6, <1>4a DEF Proceed, Idle, tuner, history
  <2>2. \/ phase = "init" /\ phase' \in {"card", "tune"} /\ (phase' = "tune" => todo' = TuneCommands)
        \/ phase = "card" /\ phase' = "tune" /\ todo' = TuneCommands
        \/ phase = "tune" /\ phase' \in {"lock", "use"}
        \/ phase = "lock" /\ phase' = "use"
        \/ phase \in {"lock", "use"} /\ phase' = "close" /\ todo' = CloseCommands
        \/ phase = "close" /\ phase' = "ended"
    BY <1>6, Zenon DEF Proceed
  <2>3. ~Holds(todo, "stop") /\ TuneCommands # <<>> /\ Holds(CloseCommands, "stop")
    BY <2>1, NewSequences DEF TuneCommands
  <2> HIDE DEF TuneCommands, CloseCommands
  <2>4. QED
    BY <2>1, <2>2, <2>3 DEF StreamInv, Done
<1>7. CASE Send
  <2>1. /\ ~late /\ phase \notin {"off", "drain"} /\ ~waiting
        /\ UNCHANGED <<phase, todo>> /\ Quiet' = Quiet /\ Streams' = Streams
    BY <1>4, <1>7, <1>4a DEF Send, Sends, Idle, history
  <2>2. fifo' = <<>>
    BY <1>7, <2>1 DEF FlowInv, Silent, Send, Stale
  <2>3. QED
    BY <2>1, <2>2 DEF StreamInv, Done
<1>8. ASSUME Failed, Due, phase \notin Resting, ~late, Quiet' = Quiet, Streams' = Streams
      PROVE  StreamInv'
  <2>1. waiting' = FALSE /\ (Again \/ NoCard \/ SectionLost \/ Closing)
    BY <1>1, <1>8, Outcomes
  <2>2. Holds(CloseCommands, "stop") /\ TuneCommands # <<>>
    BY NewSequences DEF TuneCommands
  <2>3. CASE Again
    <3>1. phase \in {"card", "use"}
      BY <1>1, <1>8, <2>3, ApduPhase DEF Again
    <3>2. QED
      BY <1>8, <2>1, <2>3, <3>1 DEF StreamInv, Again
  <2> HIDE DEF TuneCommands, CloseCommands
  <2>4. CASE NoCard
    BY <2>1, <2>2, <2>4 DEF NoCard, StreamInv, Done
  <2>5. CASE SectionLost
    BY <1>8, <2>5 DEF SectionLost, StreamInv
  <2>6. CASE Closing
    BY <2>1, <2>2, <2>6 DEF Closing, StreamInv, Done
  <2>7. QED
    BY <2>1, <2>3, <2>4, <2>5, <2>6
<1>9. CASE SendFails \/ ReceiveGarbled
  BY <1>4, <1>8, <1>9, <1>4a DEF SendFails, Sends, Idle, Due, Resting, ReceiveGarbled, PlanInv, tuner
<1>10. CASE Receive
  <2>1. /\ waiting /\ phase \notin Resting /\ Due /\ ~late /\ fifo # <<>>
        /\ Quiet' = Quiet /\ Streams' = Streams
    BY <1>4, <1>10, <1>4a DEF Receive, PlanInv
  <2>2. CASE Failed
    BY <1>8, <2>1, <2>2
  <2>3. CASE Succeeded
    <3>1. phase' = phase /\ todo' = Rest /\ waiting' = FALSE
      BY <2>3 DEF Succeeded
    <3>2. CASE phase \in {"lock", "use", "card", "ended"}
      BY <2>1, <3>1, <3>2 DEF StreamInv
    <3>3. CASE phase \in {"init", "close"}
      <4>1. todo # <<>> /\ Rest = Tail(todo) /\ Current = Head(todo)
        BY <1>1, <2>1, <3>3, ApduPhase DEF Rest, Current
      <4>2. Holds(todo, "stop") /\ Current # "stop" => Holds(Rest, "stop")
        BY <1>1, <4>1, HoldsTail
      <4>3. Current = "stop" => Quiet
        BY <2>1, <3>3 DEF StreamInv, Done
      <4>4. Holds(todo, "stop") \/ Quiet
        BY <2>1, <3>3 DEF StreamInv
      <4>5. Holds(Rest, "stop") \/ Quiet
        BY <4>2, <4>3, <4>4
      <4>6. Holds(todo', "stop") \/ Quiet'
        BY <2>1, <3>1, <4>5
      <4>7. QED
        BY <3>1, <3>3, <4>6 DEF StreamInv, Done, Holds
    <3>4. CASE phase = "tune"
      <4>1. todo \in TuneTodos /\ todo # <<>> /\ Rest = Tail(todo) /\ Current = Head(todo)
        BY <1>1, <2>1, <3>4, ApduPhase DEF Rest, Current, PlanInv
      <4>2. Rest = <<>> => Current = "start"
        BY <4>1, TuneShape
      <4>3. Current = "start" => Streams
        BY <2>1, <3>4 DEF StreamInv, Done
      <4>4. QED
        BY <2>1, <3>1, <3>4, <4>2, <4>3 DEF StreamInv, Done
    <3>5. QED
      BY <1>1, <2>1, <3>2, <3>3, <3>4 DEF Phases, Resting
  <2>4. QED
    BY <1>10, <2>2, <2>3 DEF Receive
<1>11. CASE Execute \/ Refuse
  <2>1. ~late /\ phase \notin {"off", "drain"}
    <3>1. UNCHANGED host /\ late' = late
      BY <1>11, Zenon DEF Execute, Refuse, history
    <3>2. QED
      BY <1>4, <3>1 DEF host
  <2>2. /\ waiting /\ phase \notin Resting /\ Due /\ Current' = Current
        /\ phase' = phase /\ todo' = todo
    BY <1>11, <2>1, TunerActs
  <2>3. "start" \notin InitSet
    BY DEF InitSet
  <2>4. phase # "tune" => Current # "start"
    BY <1>1, <2>2, <2>3, ApduPhase DEF Phases, Resting
  <2>5. phase \in {"card", "lock", "use"} => Current # "stop"
    BY <1>1, <2>2, ApduPhase
  <2>6. phase = "tune" => todo # <<>>
    BY <1>1, <2>2, ApduPhase
  <2>7. CASE Execute
    <3>1. /\ streaming' = IF Current = "start" THEN TRUE
                          ELSE IF Current = "stop" THEN FALSE ELSE streaming
          /\ refused' = refused \ {Current}
      BY <1>11, <2>1, <2>7, TunerActs, Zenon
    <3>2. Current # "start" /\ Quiet => Quiet'
      BY <3>1 DEF Quiet
    <3>3. Current = "stop" => Quiet'
      BY <3>1 DEF Quiet
    <3>4. Current # "stop" /\ Streams => Streams'
      BY <3>1 DEF Streams
    <3>5. Current = "start" => Streams'
      BY <3>1 DEF Streams
    <3>6. QED
      BY <2>1, <2>2, <2>4, <2>5, <2>6, <3>2, <3>3, <3>4, <3>5 DEF StreamInv, Done, Holds
  <2>8. CASE Refuse
    <3>1. /\ streaming' = streaming
          /\ refused' = refused \cup {c \in Unchecked : c = Current}
      BY <1>11, <2>1, <2>8, TunerActs, Zenon
    <3>2. (Quiet => Quiet') /\ (Streams => Streams')
      BY <3>1 DEF Quiet, Streams
    <3>3. (Current = "stop" => Quiet') /\ (Current = "start" => Streams')
      BY <3>1 DEF Quiet, Streams, Unchecked
    <3>4. QED
      BY <2>1, <2>2, <2>6, <3>2, <3>3 DEF StreamInv, Done, Holds
  <2>9. QED
    BY <1>11, <2>7, <2>8
<1>12. CASE UNCHANGED vars
  <2>1. /\ UNCHANGED <<late, phase, todo, waiting, fifo, streaming, refused>>
        /\ Current' = Current
    BY <1>12 DEF vars, host, tuner, history, Current
  <2>2. QED
    BY <1>4a, <2>1 DEF StreamInv, Done, Holds
<1>13. QED
  BY <1>3, <1>5, <1>6, <1>7, <1>9, <1>10, <1>11, <1>12
  DEF Next, HostStep, TunerStep

LEMMA TunedStep ==
  ASSUME TypeOK, PlanInv, FlowInv, TunedInv, [Next]_vars
  PROVE  TunedInv'
<1>1. /\ phase \in Phases /\ attempts \in 0..(Retries + 1) /\ gaveUp \in BOOLEAN
      /\ waiting \in BOOLEAN /\ late \in BOOLEAN
      /\ todo \in Seq(Commands)
  BY DEF TypeOK
<1>2. CASE phase' \notin {"tune", "lock", "use"} \/ late'
  BY <1>2 DEF TunedInv
<1>3. CASE Open \/ DrainOne \/ DrainEnds \/ TimesOut \/ Kill
  BY <1>2, <1>3 DEF Open, DrainOne, DrainEnds, TimesOut, Kill, host
<1>4. SUFFICES ASSUME ~late', phase' \in {"tune", "lock", "use"} PROVE TunedInv'
  BY <1>2
<1>5. CASE Proceed
  <2>1. /\ ~late /\ todo = <<>> /\ waiting' = FALSE /\ UNCHANGED <<tuned, wanted>>
    BY <1>4, <1>5 DEF Proceed, Idle, tuner, history
  <2>2. \/ phase' = "tune" /\ todo' = TuneCommands
        \/ phase \in {"tune", "lock"} /\ phase' \in {"lock", "use"}
    BY <1>4, <1>5, Zenon DEF Proceed
  <2>3. ~Holds(todo, "freq") /\ Holds(TuneCommands, "freq")
    BY <2>1, NewSequences
  <2> HIDE DEF TuneCommands
  <2>4. QED
    BY <2>1, <2>2, <2>3 DEF TunedInv, Done
<1>6. CASE Send
  <2>1. /\ ~late /\ phase \notin {"off", "drain"} /\ ~waiting
        /\ UNCHANGED <<phase, todo, tuned, wanted>>
    BY <1>4, <1>6 DEF Send, Sends, Idle, history
  <2>2. fifo' = <<>>
    BY <1>6, <2>1 DEF FlowInv, Silent, Send, Stale
  <2>3. QED
    BY <2>1, <2>2 DEF TunedInv, Done, Holds
<1>7. ASSUME Failed, Due, phase \notin Resting, ~late, UNCHANGED <<tuned, wanted>>
      PROVE  TunedInv'
  <2>1. waiting' = FALSE /\ (Again \/ NoCard \/ SectionLost \/ Closing)
    BY <1>1, <1>7, Outcomes
  <2>2. Holds(TuneCommands, "freq")
    BY NewSequences
  <2>3. CASE Again
    <3>1. phase \in {"card", "use"}
      BY <1>1, <1>7, <2>3, ApduPhase DEF Again
    <3>2. QED
      BY <1>7, <2>1, <2>3, <3>1 DEF TunedInv, Again
  <2> HIDE DEF TuneCommands, CloseCommands
  <2>4. CASE NoCard
    BY <2>1, <2>2, <2>4 DEF NoCard, TunedInv, Done
  <2>5. CASE SectionLost
    BY <1>7, <2>5 DEF SectionLost, TunedInv
  <2>6. CASE Closing
    BY <1>4, <2>6 DEF Closing
  <2>7. QED
    BY <2>1, <2>3, <2>4, <2>5, <2>6
<1>8. CASE SendFails \/ ReceiveGarbled
  BY <1>4, <1>7, <1>8 DEF SendFails, Sends, Idle, Due, Resting, ReceiveGarbled, PlanInv, tuner
<1>9. CASE Receive
  <2>1. /\ waiting /\ phase \notin Resting /\ Due /\ ~late /\ fifo # <<>> /\ tuned' = tuned
    BY <1>4, <1>9 DEF Receive, PlanInv
  <2>2. CASE Failed /\ wanted' = wanted
    BY <1>7, <2>1, <2>2
  <2>3. CASE Succeeded /\ (Current = "freq" => Head(fifo).ok)
    <3>1. phase' = phase /\ todo' = Rest /\ waiting' = FALSE /\ wanted' = wanted
      BY <2>3 DEF Succeeded
    <3>2. CASE phase \in {"lock", "use"}
      BY <2>1, <3>1, <3>2 DEF TunedInv
    <3>3. CASE phase = "tune"
      <4>1. todo \in TuneTodos /\ todo # <<>> /\ Rest = Tail(todo) /\ Current = Head(todo)
        BY <1>1, <2>1, <3>3, ApduPhase DEF Rest, Current, PlanInv
      <4>2. Holds(Rest, "freq") \/ Current = "freq" \/ ~Holds(todo, "freq")
        BY <4>1, TuneShape
      <4>3. Current = "freq" => tuned = wanted
        BY <2>1, <2>3, <3>3 DEF TunedInv, Done
      <4>4. ~Holds(todo, "freq") => tuned = wanted
        BY <2>1, <3>3 DEF TunedInv
      <4>5. Holds(todo', "freq") \/ tuned' = wanted'
        BY <2>1, <3>1, <4>2, <4>3, <4>4
      <4>6. QED
        BY <3>1, <3>3, <4>5 DEF TunedInv, Done, Holds
    <3>4. QED
      BY <1>4, <3>1, <3>2, <3>3
  <2>4. QED
    BY <1>9, <2>2, <2>3 DEF Receive, Checked
<1>10. CASE Execute \/ Refuse
  <2>1. ~late /\ phase \in {"tune", "lock", "use"}
    <3>1. UNCHANGED host /\ late' = late
      BY <1>10, Zenon DEF Execute, Refuse, history
    <3>2. QED
      BY <1>4, <3>1 DEF host
  <2>2. /\ waiting /\ phase \notin Resting /\ Due /\ Current' = Current
        /\ phase' = phase /\ todo' = todo /\ wanted' = wanted /\ fifo = <<>>
    BY <1>10, <2>1, TunerActs
  <2>3. CASE Execute
    <3>1. tuned' = IF Current = "freq" THEN wanted ELSE tuned
      BY <1>10, <2>1, <2>3, TunerActs, Zenon
    <3>2. phase # "tune" => Current # "freq"
      BY <1>1, <2>1, <2>2, ApduPhase
    <3>3. tuned = wanted => tuned' = wanted'
      BY <2>2, <3>1
    <3>4. Current = "freq" => tuned' = wanted'
      BY <2>2, <3>1
    <3>5. QED
      BY <2>1, <2>2, <3>3, <3>4 DEF TunedInv, Done, Holds
  <2>4. CASE Refuse
    <3>1. tuned' = tuned /\ Head(fifo').ok = FALSE
      BY <1>10, <2>1, <2>4, TunerActs, Zenon
    <3>2. QED
      BY <2>1, <2>2, <3>1 DEF TunedInv, Done, Holds
  <2>5. QED
    BY <1>10, <2>3, <2>4
<1>11. CASE UNCHANGED vars
  <2>1. UNCHANGED <<late, phase, todo, waiting, fifo, tuned, wanted>> /\ Current' = Current
    BY <1>11 DEF vars, host, tuner, history, Current
  <2>2. QED
    BY <2>1 DEF TunedInv, Done, Holds
<1>12. QED
  BY <1>3, <1>5, <1>6, <1>8, <1>9, <1>10, <1>11
  DEF Next, HostStep, TunerStep

-----------------------------------------------------------------------------
(* ResetInv and SeqInv                                                      *)

LEMMA ActivateShape ==
  /\ ActivateTodo \notin ApduTodos /\ ActivateTodo # CardCommands /\ ActivateTodo # <<>>
  /\ Head(ActivateTodo) = "activate" /\ Head(CardCommands) = "deactivate"
  /\ CardTodos = {CardCommands, ActivateTodo} \cup ApduTodos
BY DEF ActivateTodo, ApduTodos, CardCommands, CardTodos

\* bcas_reset() is run in phase "card" only, before the APDUs.
LEMMA ResetPhase ==
  ASSUME PlanInv, Due, phase \notin Resting, phase \in Phases,
         Current \in {"deactivate", "activate"}
  PROVE  /\ phase = "card" /\ todo \notin ApduTodos
         /\ Current = "activate" <=> todo = ActivateTodo
<1>1. "deactivate" \notin InitSet /\ "activate" \notin InitSet
  BY DEF InitSet
<1>2. phase = "card"
  BY <1>1, ApduPhase DEF Phases, Resting
<1>3. todo \in CardTodos /\ todo # <<>> /\ Current = Head(todo)
  BY <1>2, ApduPhase DEF PlanInv, Current
<1>4. todo \notin ApduTodos
  BY <1>2, ApduPhase
<1>5. todo \in {CardCommands, ActivateTodo}
  BY <1>3, <1>4, ActivateShape
<1> HIDE DEF CardCommands
<1>6. QED
  BY <1>2, <1>3, <1>4, <1>5, ActivateShape

LEMMA ResetStep ==
  ASSUME TypeOK, PlanInv, FlowInv, ResetInv, [Next]_vars
  PROVE  ResetInv'
<1>1. /\ phase \in Phases /\ attempts \in 0..(Retries + 1) /\ gaveUp \in BOOLEAN
      /\ waiting \in BOOLEAN /\ late \in BOOLEAN
  BY DEF TypeOK
<1>2. CASE phase' # "card" \/ late'
  BY <1>2 DEF ResetInv
<1>3. CASE Open \/ DrainOne \/ DrainEnds \/ TimesOut \/ Kill
  BY <1>2, <1>3 DEF Open, DrainOne, DrainEnds, TimesOut, Kill, host
<1>4. SUFFICES ASSUME ~late', phase' = "card" PROVE ResetInv'
  BY <1>2
<1>5. CASE Proceed
  <2>1. waiting' = FALSE /\ todo' = CardCommands
    BY <1>1, <1>4, <1>5, Zenon DEF Proceed, Idle
  <2> HIDE DEF CardCommands
  <2>2. QED
    BY <2>1, ActivateShape DEF ResetInv, Done
<1>6. CASE Send
  <2>1. /\ ~late /\ phase = "card" /\ ~waiting
        /\ UNCHANGED <<phase, todo, cardSeq, refused>>
    BY <1>4, <1>6 DEF Send, Sends, Idle, history
  <2>2. fifo' = <<>>
    BY <1>6, <2>1 DEF FlowInv, Silent, Send, Stale
  <2>3. QED
    BY <2>1, <2>2 DEF ResetInv, Done
<1>7. ASSUME Failed, Due, phase \notin Resting PROVE ResetInv'
  <2>1. waiting' = FALSE /\ (Again \/ NoCard \/ SectionLost \/ Closing)
    BY <1>1, <1>7, Outcomes
  <2>2. Again
    BY <1>4, <2>1 DEF NoCard, SectionLost, Closing
  <2>3. phase = "card" /\ todo' = todo /\ Current = "apdu"
    BY <1>4, <2>2 DEF Again
  <2>4. todo' \in ApduTodos
    BY <1>1, <1>7, <2>3, ApduPhase
  <2>5. QED
    BY <2>1, <2>4, ActivateShape DEF ResetInv, Done
<1>8. CASE SendFails \/ ReceiveGarbled
  BY <1>7, <1>8 DEF SendFails, Sends, Idle, Due, Resting, ReceiveGarbled, PlanInv
<1>9. CASE Receive
  <2>1. /\ waiting /\ phase \notin Resting /\ Due /\ ~late /\ fifo # <<>>
        /\ UNCHANGED <<cardSeq, refused>>
    BY <1>4, <1>9 DEF Receive, PlanInv
  <2>2. CASE Failed
    BY <1>7, <2>1, <2>2
  <2>3. CASE Succeeded
    <3>1. phase = "card" /\ todo' = Rest /\ waiting' = FALSE
      BY <1>4, <2>3 DEF Succeeded
    <3>2. Rest = ActivateTodo => Current = "deactivate"
      BY <1>1, <2>1, <3>1, ApduPhase, ActivateShape
    <3>3. QED
      BY <2>1, <3>1, <3>2 DEF ResetInv, Done
  <2>4. QED
    BY <1>9, <2>2, <2>3 DEF Receive
<1>10. CASE Execute \/ Refuse
  <2>1. ~late /\ phase = "card"
    <3>1. UNCHANGED host /\ late' = late
      BY <1>10, Zenon DEF Execute, Refuse
    <3>2. QED
      BY <1>4, <3>1 DEF host
  <2>2. /\ waiting /\ waiting' /\ phase \notin Resting /\ Due /\ Current' = Current
        /\ todo' = todo /\ fifo = <<>> /\ fifo' # <<>>
    BY <1>10, <2>1, TunerActs
  <2>3. todo = ActivateTodo => Done("activate")'
    BY <2>2, ActivateShape DEF Done, Current
  <2>4. Done("deactivate")' <=> Current = "deactivate"
    BY <2>2 DEF Done
  <2>5. Current = "deactivate" => "deactivate" \in refused' \/ cardSeq' = Off
    <3>1. CASE Execute
      <4>1. \E s \in 0..1 : cardSeq' \in CardAfter(Current, s)
        BY <1>10, <2>1, <3>1, TunerActs, Zenon
      <4>2. QED
        BY <4>1 DEF CardAfter
    <3>2. CASE Refuse
      <4>1. refused' = refused \cup {c \in Unchecked : c = Current}
        BY <1>10, <2>1, <3>2, TunerActs, Zenon
      <4>2. QED
        BY <4>1 DEF Unchecked
    <3>3. QED
      BY <1>10, <3>1, <3>2
  <2>6. QED
    BY <2>2, <2>3, <2>4, <2>5 DEF ResetInv
<1>11. CASE UNCHANGED vars
  <2>1. /\ UNCHANGED <<late, phase, todo, waiting, fifo, cardSeq, refused>>
        /\ Current' = Current
    BY <1>11 DEF vars, host, tuner, history, Current
  <2>2. QED
    BY <2>1 DEF ResetInv, Done
<1>12. QED
  BY <1>3, <1>5, <1>6, <1>8, <1>9, <1>10, <1>11
  DEF Next, HostStep, TunerStep

\* How the number of failed attempts changes with the attempts that are left.
LEMMA Attempts ==
  ASSUME attempts \in 0..(Retries + 1), attempts' \in 0..(Retries + 1), Retries >= 2
  PROVE  /\ FailedAttempts \in 0..Retries
         /\ attempts = 0 => FailedAttempts = 0
         /\ attempts' = 0 => FailedAttempts' = 0
         /\ attempts' = attempts => FailedAttempts' = FailedAttempts
         /\ attempts' = Attempt => FailedAttempts' = FailedAttempts
         /\ attempts' = Attempt - 1 /\ Attempt > 1 => FailedAttempts' = FailedAttempts + 1
         /\ Attempt = 1 => FailedAttempts >= 2
<1>1. Retries \in Nat
  BY ChannelAssumption
<1>2. CASE attempts = 0
  <2>1. Attempt = Retries + 1 /\ FailedAttempts = 0
    BY <1>2 DEF Attempt, FailedAttempts
  <2>2. attempts' # 0 => FailedAttempts' = Retries + 1 - attempts'
    BY DEF FailedAttempts
  <2>3. attempts' = 0 => FailedAttempts' = 0
    BY DEF FailedAttempts
  <2> HIDE DEF Attempt, FailedAttempts
  <2>4. QED
    BY <1>1, <1>2, <2>1, <2>2, <2>3
<1>3. CASE attempts # 0
  <2>1. Attempt = attempts /\ FailedAttempts = Retries + 1 - attempts
    BY <1>3 DEF Attempt, FailedAttempts
  <2>2. attempts' # 0 => FailedAttempts' = Retries + 1 - attempts'
    BY DEF FailedAttempts
  <2>3. attempts' = 0 => FailedAttempts' = 0
    BY DEF FailedAttempts
  <2>4. QED
    BY <1>1, <1>3, <2>1, <2>2, <2>3
<1>4. QED
  BY <1>2, <1>3

\* A failure that is the second mishap, or the first attempts after one.
AfterFailure ==
    \/ mishaps' = 2
    \/ mishaps' = 1 /\ FailedAttempts = 0
    \/ mishaps' = 1 /\ FailedAttempts = 1 /\ pcb' = cardSeq'

LEMMA SeqFailed ==
  ASSUME TypeOK, TypeOK', PlanInv, FlagInv, SeqInv, Retries >= 2, ~late,
         CardReset, Failed, Due, phase \notin Resting, cardSeq' = cardSeq,
         mishaps = 2 => mishaps' = 2,
         Current # "apdu" => UNCHANGED <<pcb, mishaps>> /\ ~(waiting /\ Current = "apdu"),
         CardActive /\ Current = "apdu" => AfterFailure
  PROVE  SeqInv'
<1>1. /\ phase \in Phases /\ attempts \in 0..(Retries + 1) /\ gaveUp \in BOOLEAN
      /\ attempts' \in 0..(Retries + 1) /\ mishaps \in 0..2 /\ mishaps' \in 0..2
      /\ pcb \in 0..1 /\ cardSeq \in {0, 1, Off} /\ descrambling \in BOOLEAN
  BY DEF TypeOK
<1>2. waiting' = FALSE /\ (Again \/ NoCard \/ SectionLost \/ Closing)
  BY <1>1, Outcomes
<1>3. ~Done("activate")' /\ ~Done("apdu")'
  BY <1>2 DEF Done
<1>4. /\ gaveUp => mishaps = 2
      /\ CardActive => cardSeq \in 0..1
  BY DEF SeqInv, Resting
<1>5. ASSUME gaveUp' => mishaps' = 2, CardActive' => CardActive,
             CardActive' /\ mishaps' < 2 => InTurn(pcb = cardSeq)'
      PROVE  SeqInv'
  BY <1>2, <1>3, <1>4, <1>5 DEF SeqInv
<1>6. CASE Again
  <2>1. /\ UNCHANGED <<phase, todo, descrambling, gaveUp>> /\ Current = "apdu"
        /\ FailedAttempts' = FailedAttempts + 1
    BY <1>1, <1>6, Attempts DEF Again
  <2>2. CardActive' = CardActive
    BY <2>1 DEF CardActive
  <2>3. gaveUp' => mishaps' = 2
    BY <1>4, <2>1
  <2>4. CardActive' /\ mishaps' < 2 => InTurn(pcb = cardSeq)'
    <3>1. SUFFICES ASSUME CardActive, mishaps' < 2 PROVE InTurn(pcb = cardSeq)'
      BY <2>2
    <3>2. mishaps' = 1 /\ (FailedAttempts = 0 \/ (FailedAttempts = 1 /\ pcb' = cardSeq'))
      BY <2>1, <3>1 DEF AfterFailure
    <3>3. mishaps' = 1 /\ (FailedAttempts' = 1 \/ (FailedAttempts' = 2 /\ pcb' = cardSeq'))
      BY <2>1, <3>2
    <3>4. QED
      BY <3>3 DEF InTurn
  <2>5. QED
    BY <1>5, <2>2, <2>3, <2>4
<1>7. ASSUME Current = "apdu", Attempt = 1 PROVE mishaps' = 2
  <2>1. CardActive
    BY <1>1, <1>7, ApduPhase DEF CardActive
  <2>2. FailedAttempts >= 2
    BY <1>1, <1>7, Attempts
  <2>3. QED
    BY <1>7, <2>1, <2>2 DEF AfterFailure
<1>8. CASE NoCard
  <2>1. ~CardActive'
    BY <1>8 DEF NoCard, FlagInv, CardActive
  <2>2. gaveUp' => mishaps' = 2
    BY <1>4, <1>7, <1>8 DEF NoCard
  <2>3. QED
    BY <1>5, <2>1, <2>2
<1>9. CASE SectionLost
  <2>1. mishaps' = 2
    BY <1>7, <1>9 DEF SectionLost
  <2>2. CardActive
    BY <1>1, <1>9, ApduPhase DEF SectionLost, CardActive
  <2>3. QED
    BY <1>5, <2>1, <2>2
<1>10. CASE Closing
  <2>1. /\ Current # "apdu" /\ UNCHANGED <<pcb, mishaps, attempts, descrambling, gaveUp>>
        /\ attempts = 0
    BY <1>10 DEF Closing
  <2>2. FailedAttempts' = FailedAttempts
    BY <1>1, <2>1, Attempts
  <2>3. CardActive' => CardActive
    <3>1. CardActive' => phase \in {"tune", "lock", "use"} /\ descrambling
      BY <1>1, <1>10 DEF Closing, CardActive, FlagInv, Phases, Resting
    <3>2. QED
      BY <3>1 DEF CardActive
  <2>4. CardActive' /\ mishaps' < 2 => InTurn(pcb = cardSeq)
    BY <2>1, <2>3 DEF SeqInv, Resting
  <2>5. InTurn(pcb = cardSeq) => InTurn(pcb = cardSeq)'
    BY <2>1, <2>2 DEF InTurn
  <2>6. QED
    BY <1>4, <1>5, <2>1, <2>3, <2>4, <2>5
<1>11. QED
  BY <1>2, <1>6, <1>8, <1>9, <1>10

LEMMA SeqStep ==
  ASSUME TypeOK, TypeOK', PlanInv, FlagInv, FlowInv, ResetInv, SeqInv,
         Retries >= 2, [Next]_vars
  PROVE  SeqInv'
<1>1. /\ phase \in Phases /\ attempts \in 0..(Retries + 1) /\ gaveUp \in BOOLEAN
      /\ attempts' \in 0..(Retries + 1) /\ mishaps \in 0..2 /\ mishaps' \in 0..2
      /\ pcb \in 0..1 /\ cardSeq \in {0, 1, Off} /\ descrambling \in BOOLEAN
      /\ waiting \in BOOLEAN /\ late \in BOOLEAN
  BY DEF TypeOK
<1>2. CASE late' \/ phase' = "off" \/ ~CardReset'
  BY <1>2 DEF SeqInv
<1>3. SUFFICES ASSUME ~late', phase' # "off", CardReset' PROVE SeqInv'
  BY <1>2
<1>4. CASE TimesOut
  BY <1>3, <1>4 DEF TimesOut
\* Without a card that is active or a command under way, little remains to show.
<1>5. ASSUME ~CardActive', ~waiting', gaveUp' => mishaps' = 2
      PROVE  SeqInv'
  BY <1>5 DEF SeqInv, Done
<1>6. ASSUME ~late, phase # "off", CardReset
      PROVE  /\ gaveUp => mishaps = 2
             /\ CardActive => cardSeq \in 0..1
  BY <1>6 DEF SeqInv
<1>7. CASE Open
  <2>1. ~CardActive' /\ ~waiting' /\ gaveUp' = FALSE
    BY <1>7 DEF Open, CardActive, PlanInv, Resting
  <2>2. QED
    BY <1>5, <2>1
<1>8. CASE DrainEnds
  <2>1. ~CardActive' /\ ~waiting' /\ gaveUp' = FALSE
    BY <1>1, <1>8 DEF DrainEnds, CardActive, PlanInv, Resting, FlagInv
  <2>2. QED
    BY <1>5, <2>1
<1>9. CASE Kill
  BY <1>3, <1>9 DEF Kill
<1>10. CASE Proceed
  <2>1. /\ ~late /\ ~waiting /\ waiting' = FALSE /\ attempts = 0 /\ todo = <<>>
        /\ UNCHANGED <<attempts, pcb, cardSeq, mishaps, gaveUp>>
        /\ descrambling' = (descrambling \/ phase = "card")
        /\ phase # "off" /\ CardReset
    <3>1. /\ ~waiting /\ attempts = 0 /\ todo = <<>> /\ UNCHANGED history /\ UNCHANGED tuner
          /\ UNCHANGED <<waiting, attempts, pcb>>
          /\ descrambling' = (descrambling \/ phase = "card")
          /\ phase \notin {"off", "ended", "drain"}
      BY <1>10, Zenon DEF Proceed, Idle
    <3>2. UNCHANGED <<cardSeq, mishaps, gaveUp, late, refused>>
      BY <3>1 DEF history, tuner
    <3>3. QED
      BY <1>1, <1>3, <3>1, <3>2 DEF CardReset
  <2>2. CardActive' => CardActive
    <3>1. \/ phase = "init" /\ phase' = "card" /\ todo' = CardCommands
          \/ phase = "init" /\ phase' = "tune"
          \/ phase = "card" /\ phase' = "tune"
          \/ phase = "tune" /\ phase' \in {"lock", "use"}
          \/ phase = "lock" /\ phase' = "use"
          \/ phase \in {"lock", "use"} /\ phase' = "close"
          \/ phase = "close" /\ phase' = "ended"
      BY <1>10, Zenon DEF Proceed
    <3>2. <<>> \in ApduTodos /\ CardCommands \notin ApduTodos
      BY DEF ApduTodos, CardCommands
    <3> HIDE DEF CardCommands
    <3>3. phase = "init" => ~CardActive'
      BY <1>1, <2>1, <3>1, <3>2 DEF CardActive, FlagInv
    <3>4. phase = "card" => CardActive
      BY <2>1, <3>2 DEF CardActive
    <3>5. phase \notin {"init", "card"} /\ CardActive' => CardActive
      BY <2>1, <3>1 DEF CardActive
    <3>6. QED
      BY <3>3, <3>4, <3>5
  <2>3. FailedAttempts' = FailedAttempts
    BY <2>1 DEF FailedAttempts
  <2>4. CardActive' /\ mishaps' < 2 => InTurn(pcb = cardSeq)
    BY <2>1, <2>2 DEF SeqInv
  <2>5. InTurn(pcb = cardSeq) => InTurn(pcb = cardSeq)'
    BY <2>1, <2>3 DEF InTurn
  <2>6. QED
    BY <1>6, <2>1, <2>2, <2>4, <2>5 DEF SeqInv, Done
<1>11. CASE Send
  <2>1. /\ ~late /\ phase \notin {"off", "drain"} /\ ~waiting /\ waiting'
        /\ UNCHANGED <<phase, todo, descrambling, cardSeq, mishaps, gaveUp>> /\ CardReset
    BY <1>3, <1>11 DEF Send, Sends, Idle, history, CardReset
  <2>2. fifo' = <<>>
    BY <1>11, <2>1 DEF FlowInv, Silent, Send, Stale
  <2>3. Current' = Current /\ CardActive' = CardActive
    BY <2>1 DEF Current, CardActive
  <2>4. /\ FailedAttempts' = FailedAttempts
        /\ Current = "apdu" => pcb' = 1 - pcb
        /\ Current # "apdu" => pcb' = pcb
    BY <1>1, <1>11, Attempts DEF Send
  <2>5. CardActive /\ mishaps < 2 => InTurn(pcb = cardSeq)
    BY <2>1 DEF SeqInv
  <2>6. Current = "apdu" /\ InTurn(pcb = cardSeq) => InTurn(pcb # cardSeq)'
    BY <1>1, <2>1, <2>4 DEF InTurn
  <2>7. Current # "apdu" /\ InTurn(pcb = cardSeq) => InTurn(pcb = cardSeq)'
    BY <2>1, <2>4 DEF InTurn
  <2>8. QED
    BY <1>6, <2>1, <2>2, <2>3, <2>5, <2>6, <2>7 DEF SeqInv, Done
<1>12. CASE SendFails
  <2>1. /\ ~late /\ ~waiting /\ phase \notin Resting /\ Due /\ Failed /\ Mishap(Current)
        /\ cardSeq' = cardSeq /\ (Current # "apdu" => pcb' = pcb) /\ CardReset
    BY <1>3, <1>12 DEF SendFails, Sends, Idle, Due, Resting, tuner, CardReset
  <2>2. /\ mishaps = 2 => mishaps' = 2
        /\ Current # "apdu" => mishaps' = mishaps
        /\ Current = "apdu" /\ mishaps < 2 => mishaps' = mishaps + 1
    BY <1>1, <2>1 DEF Mishap
  <2>3. CardActive /\ Current = "apdu" => AfterFailure
    <3>1. SUFFICES ASSUME CardActive, Current = "apdu", mishaps = 0 PROVE AfterFailure
      BY <1>1, <2>2 DEF AfterFailure
    <3>2. InTurn(pcb = cardSeq)
      BY <2>1, <3>1 DEF SeqInv, Resting
    <3>3. QED
      BY <2>2, <3>1, <3>2 DEF InTurn, AfterFailure
  <2>4. QED
    BY <2>1, <2>2, <2>3, SeqFailed
<1>13. CASE ReceiveGarbled
  <2>1. /\ ~late /\ waiting /\ phase \notin Resting /\ Due /\ Failed /\ Mishap(Current)
        /\ cardSeq' = cardSeq /\ pcb' = pcb /\ fifo # <<>> /\ CardReset
    BY <1>3, <1>13 DEF ReceiveGarbled, PlanInv, CardReset
  <2>2. /\ mishaps = 2 => mishaps' = 2
        /\ Current # "apdu" => mishaps' = mishaps
        /\ Current = "apdu" /\ mishaps < 2 => mishaps' = mishaps + 1
    BY <1>1, <2>1 DEF Mishap
  <2>3. CardActive /\ Current = "apdu" => AfterFailure
    <3>1. SUFFICES ASSUME CardActive, Current = "apdu", mishaps = 0 PROVE AfterFailure
      BY <1>1, <2>2 DEF AfterFailure
    <3>2. FailedAttempts = 0
      BY <2>1, <3>1 DEF SeqInv, Done, Resting
    <3>3. QED
      BY <2>2, <3>1, <3>2 DEF AfterFailure
  <2>4. QED
    BY <2>1, <2>2, <2>3, SeqFailed
<1>14. CASE Receive
  <2>1. /\ ~late /\ waiting /\ phase \notin Resting /\ Due
        /\ cardSeq' = cardSeq /\ fifo # <<>> /\ CardReset
    BY <1>3, <1>14 DEF Receive, PlanInv, CardReset
  <2>2. CASE Failed /\ UNCHANGED <<pcb, wanted, mishaps>> /\ ~Head(fifo).ok
    <3>1. CardActive /\ Current = "apdu" => AfterFailure
      BY <1>1, <2>1, <2>2 DEF SeqInv, Done, AfterFailure, Resting
    <3>2. QED
      BY <2>1, <2>2, <3>1, SeqFailed
  <2>3. CASE Succeeded /\ (Current = "apdu" => Head(fifo).ok)
    <3>1. /\ waiting' = FALSE /\ todo' = Rest /\ attempts' = 0
          /\ pcb' = IF Current = "activate" THEN 0 ELSE pcb
          /\ mishaps' = IF Current = "apdu" THEN 0 ELSE mishaps
          /\ gaveUp' = (gaveUp /\ Current # "apdu")
          /\ UNCHANGED <<phase, descrambling>>
      BY <2>3, Zenon DEF Succeeded
    <3>2. gaveUp' => mishaps' = 2
      BY <1>6, <2>1, <3>1 DEF Resting
    <3>3. FailedAttempts' = 0
      BY <3>1 DEF FailedAttempts
    <3>4. /\ CardActive' => cardSeq' \in 0..1
          /\ CardActive' /\ mishaps' < 2 => pcb' = cardSeq'
      <4>1. CASE Current = "activate"
        BY <2>1, <3>1, <4>1 DEF SeqInv, Done, Resting
      <4>2. CASE Current = "apdu"
        <5>1. CardActive
          BY <1>1, <2>1, <4>2, ApduPhase DEF CardActive
        <5>2. QED
          BY <2>1, <2>3, <3>1, <4>2, <5>1 DEF SeqInv, Done, Resting
      <4>3. CASE Current \notin {"activate", "apdu"}
        <5>1. attempts = 0
          BY <1>1, <4>3 DEF PlanInv
        <5>2. FailedAttempts = 0
          BY <5>1 DEF FailedAttempts
        <5>3. CardActive' => CardActive
          <6>1. phase = "card" => todo' \notin ApduTodos
            BY <1>1, <2>1, <3>1, <4>3, ApduPhase
          <6>2. QED
            BY <3>1, <6>1 DEF CardActive
        <5>4. CardActive' /\ mishaps' < 2 => InTurn(pcb = cardSeq)
          BY <2>1, <3>1, <4>3, <5>3 DEF SeqInv, Resting
        <5>5. CardActive' => cardSeq' \in 0..1
          BY <1>6, <2>1, <5>3 DEF Resting
        <5>6. QED
          BY <2>1, <3>1, <4>3, <5>2, <5>4, <5>5 DEF InTurn
      <4>4. QED
        BY <4>1, <4>2, <4>3
    <3>5. QED
      BY <3>1, <3>2, <3>3, <3>4 DEF SeqInv, Done, InTurn
  <2>4. QED
    BY <1>14, <2>2, <2>3 DEF Receive, Checked
<1>15. CASE DrainOne
  <2>1. UNCHANGED <<phase, todo, descrambling, waiting, gaveUp>> /\ phase = "drain"
    BY <1>15 DEF DrainOne, host, history
  <2>2. ~CardActive' /\ ~waiting' /\ ~gaveUp'
    BY <1>1, <2>1 DEF CardActive, PlanInv, FlagInv, Resting
  <2>3. QED
    BY <1>5, <2>2
<1>16. CASE Execute \/ Refuse
  <2>1. UNCHANGED host /\ late' = late /\ gaveUp' = gaveUp
    BY <1>16, Zenon DEF Execute, Refuse
  <2>2. /\ ~late /\ phase # "off"
        /\ UNCHANGED <<phase, todo, waiting, attempts, pcb, descrambling, gaveUp>>
    BY <1>3, <2>1 DEF host
  <2>3. CASE phase = "drain"
    <3>1. ~CardActive' /\ ~waiting' /\ ~gaveUp'
      BY <1>1, <2>2, <2>3 DEF CardActive, PlanInv, FlagInv, Resting
    <3>2. QED
      BY <1>5, <3>1
  <2>4. SUFFICES ASSUME phase # "drain" PROVE SeqInv'
    BY <2>3
  <2>5. /\ waiting /\ waiting' /\ phase \notin Resting /\ Due /\ Current' = Current
        /\ fifo = <<>> /\ fifo' # <<>>
    BY <1>16, <2>2, <2>4, TunerActs
  <2>6. CardActive' = CardActive /\ FailedAttempts' = FailedAttempts
    BY <2>2 DEF CardActive, FailedAttempts
  <2>7. ASSUME Execute
        PROVE  \E s \in 0..1 :
                 /\ Current = "apdu" => s = 1 - pcb
                 /\ Head(fifo').ok = (Current = "apdu" => s = cardSeq)
                 /\ cardSeq' \in CardAfter(Current, s)
                 /\ refused' = refused \ {Current}
                 /\ UNCHANGED mishaps
    BY <1>16, <2>2, <2>4, <2>7, TunerActs, Zenon
  <2>8. ASSUME Refuse
        PROVE  /\ Head(fifo').ok = FALSE /\ Mishap(Current) /\ UNCHANGED cardSeq
               /\ refused' = refused \cup {c \in Unchecked : c = Current}
    BY <1>16, <2>2, <2>4, <2>8, TunerActs, Zenon
  \* The reset itself: not refused, and the activation finds the card off.
  <2>9. CASE Current \in {"deactivate", "activate"}
    <3>1. /\ phase = "card" /\ todo \notin ApduTodos
          /\ Current = "activate" => todo = ActivateTodo
      BY <1>1, <2>5, <2>9, ResetPhase
    <3>2. ~CardActive' /\ ~gaveUp'
      BY <2>2, <2>6, <3>1 DEF CardActive, FlagInv
    <3>3. Execute
      <4>1. SUFFICES ASSUME Refuse PROVE FALSE
        BY <1>16
      <4>2. Current \in refused'
        BY <2>8, <2>9, <4>1 DEF Unchecked
      <4>3. QED
        BY <1>3, <2>9, <4>2 DEF CardReset
    <3>4. Current = "activate" => cardSeq' = 0
      <4>1. SUFFICES ASSUME Current = "activate" PROVE cardSeq' = 0
        OBVIOUS
      <4>2. "deactivate" \notin refused
        BY <1>3, <2>7, <3>3, <4>1 DEF CardReset
      <4>3. cardSeq = Off
        BY <2>2, <2>5, <3>1, <4>1, <4>2 DEF ResetInv, Done
      <4>4. QED
        BY <2>7, <3>3, <4>1, <4>3 DEF CardAfter
    <3>5. QED
      BY <2>5, <2>9, <3>2, <3>4 DEF SeqInv, Done
  <2>10. SUFFICES ASSUME Current \notin {"deactivate", "activate"} PROVE SeqInv'
    BY <2>9
  <2>11. CardReset
    BY <1>3, <1>16, <2>7, <2>8, <2>10 DEF CardReset
  <2>12. /\ Current = "apdu" /\ CardActive /\ mishaps < 2 => InTurn(pcb # cardSeq)
         /\ Current # "apdu" /\ CardActive /\ mishaps < 2 => InTurn(pcb = cardSeq)
    BY <2>2, <2>5, <2>11 DEF SeqInv
  <2>13. CardActive => cardSeq \in 0..1
    BY <1>6, <2>2, <2>11
  <2>14. gaveUp' => mishaps = 2
    BY <1>6, <2>2, <2>11
  <2>15. CASE Execute
    <3>1. PICK s \in 0..1 :
            /\ Current = "apdu" => s = 1 - pcb
            /\ Head(fifo').ok = (Current = "apdu" => s = cardSeq)
            /\ cardSeq' = IF Current = "apdu" /\ s = cardSeq THEN 1 - cardSeq ELSE cardSeq
            /\ UNCHANGED mishaps
      BY <2>7, <2>10, <2>15, Zenon DEF CardAfter
    <3>2. CASE Current = "apdu"
      <4>1. CardActive /\ cardSeq \in 0..1
        BY <1>1, <2>5, <2>13, <3>2, ApduPhase DEF CardActive
      <4>2. Head(fifo').ok <=> pcb # cardSeq
        <5>1. Head(fifo').ok <=> s = cardSeq
          BY <3>1, <3>2, Zenon
        <5>2. s = cardSeq <=> pcb # cardSeq
          BY <1>1, <3>1, <3>2, <4>1
        <5>3. QED
          BY <5>1, <5>2
      <4>3. cardSeq' \in 0..1
        BY <3>1, <4>1
      <4>4. Head(fifo').ok => pcb' = cardSeq'
        BY <1>1, <2>2, <3>1, <3>2, <4>1, <4>2
      <4>5. ~Head(fifo').ok => pcb = cardSeq /\ pcb' = cardSeq'
        BY <1>1, <2>2, <3>1, <3>2, <4>1, <4>2
      <4>6. mishaps < 2 /\ Head(fifo').ok => mishaps' = 1 \/ FailedAttempts' = 0
        BY <2>6, <2>12, <3>1, <3>2, <4>1 DEF InTurn
      <4>7. mishaps < 2 /\ ~Head(fifo').ok => mishaps' = 1 /\ FailedAttempts' = 1
        BY <2>6, <2>12, <3>1, <3>2, <4>1, <4>5 DEF InTurn
      <4>8. QED
        BY <2>5, <2>6, <2>14, <3>1, <3>2, <4>3, <4>4, <4>5, <4>6, <4>7 DEF SeqInv, Done
    <3>3. CASE Current # "apdu"
      <4>1. cardSeq' = cardSeq
        BY <3>1, <3>3
      <4>2. CardActive' /\ mishaps' < 2 => InTurn(pcb = cardSeq)'
        BY <2>2, <2>6, <2>12, <3>1, <3>3, <4>1 DEF InTurn
      <4>3. QED
        BY <2>5, <2>6, <2>10, <2>13, <2>14, <3>1, <3>3, <4>1, <4>2 DEF SeqInv, Done
    <3>4. QED
      BY <3>2, <3>3
  <2>16. CASE Refuse
    <3>1. Head(fifo').ok = FALSE /\ Mishap(Current) /\ UNCHANGED cardSeq
      BY <2>8, <2>16
    <3>2. gaveUp' => mishaps' = 2
      BY <2>14, <3>1 DEF Mishap
    <3>3. CASE Current = "apdu"
      <4>1. CardActive /\ mishaps' < 2 => mishaps = 0 /\ mishaps' = 1
        BY <1>1, <3>1, <3>3 DEF Mishap
      <4>2. CardActive /\ mishaps' < 2 => mishaps' = 1 /\ FailedAttempts' = 0
        BY <2>6, <2>12, <3>3, <4>1 DEF InTurn
      <4>3. QED
        BY <2>5, <2>6, <2>13, <3>1, <3>2, <3>3, <4>2 DEF SeqInv, Done
    <3>4. CASE Current # "apdu"
      <4>1. mishaps' = mishaps
        BY <3>1, <3>4 DEF Mishap
      <4>2. CardActive' /\ mishaps' < 2 => InTurn(pcb = cardSeq)'
        BY <2>2, <2>6, <2>12, <3>1, <3>4, <4>1 DEF InTurn
      <4>3. QED
        BY <2>5, <2>6, <2>10, <2>13, <3>1, <3>2, <3>4, <4>2 DEF SeqInv, Done
    <3>5. QED
      BY <3>3, <3>4
  <2>17. QED
    BY <1>16, <2>15, <2>16
<1>17. CASE UNCHANGED vars
  <2>1. /\ UNCHANGED <<late, phase, todo, waiting, fifo, attempts, pcb, cardSeq, mishaps,
                      gaveUp, descrambling, refused>>
        /\ Current' = Current
    BY <1>17 DEF vars, host, tuner, history, Current
  <2>2. QED
    BY <2>1 DEF SeqInv, Done, InTurn, FailedAttempts, CardActive, CardReset
<1>18. QED
  BY <1>4, <1>7, <1>8, <1>9, <1>10, <1>11, <1>12, <1>13, <1>14, <1>15, <1>16, <1>17
  DEF Next, HostStep, TunerStep

-----------------------------------------------------------------------------
(* The properties                                                           *)

Base == TypeOK /\ PlanInv /\ FlagInv /\ FlowInv

LEMMA BaseInit == Init => Base
<1> SUFFICES ASSUME Init PROVE Base
  OBVIOUS
<1>1. PlanInv
  BY DEF Init, PlanInv, Resting
<1>2. FlagInv /\ FlowInv
  BY DEF Init, FlagInv, FlowInv
<1>3. QED
  BY <1>1, <1>2, TypeInit DEF Base

LEMMA BaseHolds == Spec => []Base
<1>1. Base /\ [Next]_vars => Base'
  BY TypeStep, PlanStep, FlagStep, FlowStep DEF Base
<1>2. QED
  BY <1>1, BaseInit, PTL DEF Spec

\* As long as the tuner answers in time, a command returns its own response:
\* command() cannot tell whose response it reads, but one message at most is
\* under way.
THEOREM CommandInStep == Spec => []InStep
<1>1. Init => InStep
  BY DEF Init, InStep
<1>2. Base /\ InStep /\ [Next]_vars => InStep'
  <2> SUFFICES ASSUME Base, InStep, Next PROVE InStep'
    BY Zenon DEF InStep, vars, history
  <2>1. CASE Receive
    <3>1. CASE late'
      BY <3>1 DEF InStep
    <3>2. CASE ~late'
      <4>1. ~late /\ waiting /\ fifo # <<>>
        BY <2>1, <3>2 DEF Receive
      <4>2. Answered
        BY <4>1 DEF Base, FlowInv, PlanInv, Resting, Asked
      <4>3. Head(fifo).own = TRUE
        BY <4>2 DEF Answered
      <4>4. foreign' = (foreign \/ ~Head(fifo).own) /\ ~foreign
        BY <2>1, <4>1, Zenon DEF Receive, InStep
      <4>5. QED
        BY <4>3, <4>4, Zenon DEF InStep
    <3>3. QED
      BY <3>1, <3>2
  <2>2. CASE Open \/ DrainOne \/ DrainEnds \/ Proceed \/ Send \/ Kill
    BY <2>2, Zenon DEF Open, DrainOne, DrainEnds, Proceed, Send, Kill, history, InStep
  <2>3. CASE SendFails \/ ReceiveGarbled \/ TimesOut \/ Execute \/ Refuse
    BY <2>3, Zenon DEF SendFails, ReceiveGarbled, TimesOut, Execute, Refuse, history, InStep
  <2>4. QED
    BY <2>1, <2>2, <2>3 DEF Next, HostStep, TunerStep
<1>3. QED
  BY <1>1, <1>2, BaseHolds, PTL DEF Spec

\* The stream is off when initialize() discards stale TS, whatever a killed
\* process has left, and after close() has run to its end; only a stop that the
\* tuner has refused, of which the code ignores the status, leaves it on.
THEOREM CommandQuiet == Spec => []QuietWhenExpected
<1>1. Init => StreamInv
  BY DEF Init, StreamInv
<1>2. Base /\ StreamInv /\ [Next]_vars => StreamInv'
  BY StreamStep DEF Base
<1>3. StreamInv => QuietWhenExpected
  BY NewSequences DEF StreamInv, QuietWhenExpected, Quiet
<1>4. QED
  BY <1>1, <1>2, <1>3, BaseHolds, PTL DEF Spec

\* A recording goes on only if the tuner has been tuned to its channel and
\* streams, although set_segment(), set_frequency() and start() may each fail,
\* be refused or be cut short by a kill; only a refused start, of which the code
\* ignores the status, leaves it without a stream.
THEOREM CommandTunedAsAsked == Spec => []TunedAsAsked
<1>1. Init => StreamInv /\ TunedInv
  BY DEF Init, StreamInv, TunedInv
<1>2. Base /\ StreamInv /\ TunedInv /\ [Next]_vars => StreamInv' /\ TunedInv'
  BY StreamStep, TunedStep DEF Base
<1>3. StreamInv /\ TunedInv => TunedAsAsked
  BY DEF StreamInv, TunedInv, TunedAsAsked, Streams
<1>4. QED
  BY <1>1, <1>2, <1>3, BaseHolds, PTL DEF Spec

\* bcas_transmit() gives up only after two mishaps, for any number of retries
\* from the two of its default on: a single lost block may cost a second
\* attempt, which is out of step with the card, but not the third.  The card
\* must have been reset: a refusal of that goes unnoticed.
THEOREM CommandOneMishapIsRetried ==
  ASSUME Retries >= 2
  PROVE  Spec => []OneMishapIsRetried
<1>1. Init => ResetInv /\ SeqInv
  BY DEF Init, ResetInv, SeqInv
<1>2. Base /\ ResetInv /\ SeqInv /\ [Next]_vars => ResetInv' /\ SeqInv'
  BY ResetStep, SeqStep, TypeStep DEF Base
<1>3. SeqInv => OneMishapIsRetried
  BY DEF SeqInv, OneMishapIsRetried, CardReset
<1>4. QED
  BY <1>1, <1>2, <1>3, BaseHolds, PTL DEF Spec

=============================================================================
