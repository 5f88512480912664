---------------------------- MODULE UnmuteHandler ----------------------------
(***************************************************************************)
(* unmute/unmute_handler.py: one conversation.  Four kinds of tasks of one *)
(* event loop share the chat history and the output queue:                 *)
(*   recv     receive(), called by receive_loop() for each audio frame     *)
(*   stt      _stt_loop(): the words and the steps of the speech-to-text   *)
(*   llm[t]   _generate_response_task() of the bot's turn t                *)
(*   tts[t]   the quest "tts" of turn t: its start-up and _tts_loop()      *)
(* A task runs until it suspends, so an action is what a task does between *)
(* two suspensions.  A websocket's close() suspends only while the         *)
(* connection is open.  A cancelled task does nothing more: the quests are *)
(* the subject of QuestManager.tla, here they are cancelled at once.       *)
(*                                                                         *)
(* A turn of the bot is a call of _generate_response().  The word "b1" is  *)
(* any word of turn 1, "u" any word of the user.                           *)
(***************************************************************************)
EXTENDS Chatbot, FiniteSets, TLC

CONSTANTS
    MaxTurns,       \* bound on the turns of the bot
    MaxDeltas,      \* bound on the words the LLM says in a turn
    MaxUserWords,   \* bound on the words of a message of the user
    ByeTurns        \* the turns in which every word of the bot is "bye!"

Turns == 1..MaxTurns

ASSUME BoundsAssumption ==
    /\ MaxTurns \in Nat \ {0} /\ MaxDeltas \in Nat \ {0} /\ MaxUserWords \in Nat \ {0}
    /\ ByeTurns \subseteq Turns

Interrupters == {"recv", "stt"}
BotWord(t) == "b" \o ToString(t)
UserWord == "u"

VARIABLES
    session,        \* "open", or "over": all tasks have been cancelled
    instructions,   \* the client has set its instructions
    history,        \* Chatbot.chat_history
    turn,           \* the turns begun so far; the last one is the current one
    llm,            \* of each turn, what its LLM task is doing
    tts,            \* of each turn, what its TTS quest is doing
    ws,             \* of each turn, the websocket of its TTS
    generating,     \* of each turn, its generating_message_i
    sent,           \* of each turn, the words its TTS has been sent
    spoken,         \* of each turn, the words its TTS has released
    eos,            \* the turns whose TTS has been sent the end of the text
    quest,          \* the turn of the quests registered as "llm" and as "tts", or 0
    queue,          \* what bot turns have put into the output queue since the last swap
    fresh,          \* the turns whose _tts_loop() captured the present output queue
    recv, stt,      \* "idle", "closing" in interrupt_bot(); recv is "sent" once the
                    \* frame has gone to the STT, stt is "over" once it has closed
    awaits,         \* the turn whose websocket an interrupter is closing
    pause,          \* stt.pause_prediction: "low" if it interrupts the bot, "high" if
                    \* it ends what the user says; between the two it does neither
    flush,          \* stt_end_of_flush_time: None, set, set and passed
    shown,          \* the messages that the last LLM request was made of
    interrupted     \* the turns that interrupt_bot() has interrupted

talk == <<history, shown, turn>>
quests == <<llm, tts, ws, generating, sent, spoken, eos, quest>>
output == <<queue, fresh, interrupted>>
input == <<recv, stt, awaits, pause, flush, instructions>>
vars == <<session, talk, quests, output, input>>

State == ConversationState(history)
Running == session = "open"

Init ==
    /\ session = "open" /\ instructions = FALSE
    /\ history = NewHistory /\ turn = 0 /\ shown = <<>>
    /\ llm = [t \in Turns |-> "none"] /\ tts = [t \in Turns |-> "none"]
    /\ ws = [t \in Turns |-> "none"]
    /\ generating = [t \in Turns |-> 0]
    /\ sent = [t \in Turns |-> 0] /\ spoken = [t \in Turns |-> 0] /\ eos = {}
    /\ quest = [llm |-> 0, tts |-> 0]
    /\ queue = {} /\ fresh = {} /\ interrupted = {}
    /\ recv = "idle" /\ stt = "idle" /\ awaits = [w \in Interrupters |-> 0]
    /\ pause = "high" /\ flush = "none"

\* What is left of a task of turn t that is cancelled; no turn is 0.
Cancelled(tasks, t) == IF t = 0 THEN tasks ELSE [tasks EXCEPT ![t] = "done"]

\* The websocket of a TTS after shutdown(), if it has one.
Shut(t) == IF t = 0 \/ ws[t] = "none" THEN ws ELSE [ws EXCEPT ![t] = "gone"]

\* The exception of a task reaches quest_manager.wait() or receive_loop().
Fails == session' = "over"

-----------------------------------------------------------------------------
(* _generate_response and _generate_response_task *)

\* An earlier "llm" quest is replaced, which cancels it.
GenerateResponse ==
    /\ turn < MaxTurns
    /\ turn' = turn + 1
    /\ history' = AddDelta(history, <<>>, "assistant")
    /\ llm' = [Cancelled(llm, quest.llm) EXCEPT ![turn + 1] = "created"]
    /\ quest' = [quest EXCEPT !.llm = turn + 1]
    /\ UNCHANGED <<shown, tts, ws, generating, sent, spoken, eos>>

\* Up to the request: add() closes the earlier "tts" quest, whose websocket is
\* not open (StartsAlone), and cancels it.
LlmStart(t) ==
    /\ Running /\ llm[t] = "created"
    /\ generating' = [generating EXCEPT ![t] = Len(history)]
    /\ tts' = [Cancelled(tts, quest.tts) EXCEPT ![t] = "init"]
    /\ quest' = [quest EXCEPT !.tts = t]
    /\ ws' = Shut(quest.tts)
    /\ shown' = Preprocessed(history)
    /\ llm' = [llm EXCEPT ![t] = "streaming"]
    /\ UNCHANGED <<session, history, turn, sent, spoken, eos, output, input>>

\* Mutant of EndOfText: the TTS is not told.
EndWithoutEos(t, hasTTS) ==
    /\ llm' = [llm EXCEPT ![t] = "done"]
    /\ UNCHANGED <<session, talk, tts, ws, generating, sent, spoken, eos, quest, output, input>>

\* After the stream, or after the break: the TTS is told that the text is over,
\* if the task has got hold of it.  Sending on a connection that broke raises.
EndOfText(t, hasTTS) ==
    /\ llm' = [llm EXCEPT ![t] = "done"]
    /\ IF hasTTS /\ ws[t] = "closed" THEN Fails ELSE UNCHANGED session
    /\ eos' = IF hasTTS /\ ws[t] = "open" THEN eos \cup {t} ELSE eos
    /\ UNCHANGED <<talk, tts, ws, generating, sent, spoken, quest, output, input>>

\* TextToSpeech.send drops what it is given while, and after, it shuts down.
SendDelta(t) ==
    \/ Outdated(history, generating[t]) /\ EndOfText(t, TRUE)
    \/ /\ ~Outdated(history, generating[t])
       /\ ws[t] = "open" => sent[t] < MaxDeltas
       /\ sent' = [sent EXCEPT ![t] = IF ws[t] = "open" THEN @ + 1 ELSE @]
       /\ IF ws[t] = "closed" THEN Fails ELSE UNCHANGED session
       /\ llm' = [llm EXCEPT ![t] = "streaming"]
       /\ UNCHANGED <<talk, tts, ws, generating, spoken, eos, quest, output, input>>

LlmDelta(t) ==
    /\ Running /\ llm[t] = "streaming"
    /\ \/ tts[t] # "init" /\ SendDelta(t)
       \/ /\ tts[t] = "init"
          /\ llm' = [llm EXCEPT ![t] = "connecting"]
          /\ UNCHANGED <<session, talk, tts, ws, generating, sent, spoken, eos, quest,
                         output, input>>

\* quest.get() returns the TTS.
LlmGetsTts(t) ==
    /\ Running
    /\ llm[t] = "connecting" /\ tts[t] # "init" /\ SendDelta(t)

LlmEnd(t) ==
    /\ Running
    /\ llm[t] = "streaming" /\ EndOfText(t, sent[t] > 0)

LlmFails(t) ==
    /\ Running /\ llm[t] \in {"streaming", "connecting"}
    /\ Fails
    /\ UNCHANGED <<talk, quests, output, input>>

-----------------------------------------------------------------------------
(* start_up_tts and _tts_loop *)

TtsReady(t) ==
    /\ Running /\ tts[t] = "init"
    /\ tts' = [tts EXCEPT ![t] = "playing"]
    /\ ws' = [ws EXCEPT ![t] = "open"]
    /\ fresh' = fresh \cup {t}
    /\ UNCHANGED <<session, talk, llm, generating, sent, spoken, eos, quest, queue,
                   interrupted, input>>

\* No instance after five trials: the quest fails.
TtsInitFails(t) ==
    /\ Running /\ tts[t] = "init"
    /\ Fails
    /\ UNCHANGED <<talk, quests, output, input>>

\* Messages still come while shutdown() closes the websocket, and are still
\* released in real time after the server has closed it.
Releases(t) == tts[t] = "playing" /\ ws[t] \in {"open", "closing", "closed"}

\* Mutant of PutCaptured: puts into the queue of the handler.
PutPresent(t, event) == queue \cup {<<event, t>>}

PutCaptured(t, event) == IF t \in fresh THEN queue \cup {<<event, t>>} ELSE queue

TtsAudio(t) ==
    /\ Running /\ Releases(t) /\ sent[t] > 0 /\ ~Outdated(history, generating[t])
    /\ queue' = PutCaptured(t, "audio")
    /\ UNCHANGED <<session, talk, quests, fresh, interrupted, input>>

TtsText(t) ==
    /\ Running /\ Releases(t) /\ spoken[t] < sent[t] /\ ~Outdated(history, generating[t])
    /\ queue' = PutCaptured(t, "text")
    /\ history' = AddDeltaTo(history, <<BotWord(t)>>, "assistant", generating[t])
    /\ spoken' = [spoken EXCEPT ![t] = @ + 1]
    /\ UNCHANGED <<session, shown, turn, llm, tts, ws, generating, sent, eos, quest,
                   fresh, interrupted, input>>

\* What follows the loop, up to the sleep.  Unlike the audio, ResponseAudioDone
\* goes to the present queue.
EndOfTurn(t, websocket) ==
    /\ queue' = queue \cup {<<"audiodone", t>>}
    /\ history' = AddDelta(history, <<>>, "user")
    /\ tts' = [tts EXCEPT ![t] = "sleeping"]
    /\ ws' = [ws EXCEPT ![t] = websocket]
    /\ UNCHANGED <<session, shown, turn, llm, generating, sent, spoken, eos, quest,
                   fresh, interrupted, input>>

\* The loop is left when a message comes and someone has spoken since.
TtsBreak(t) ==
    /\ Running /\ Releases(t) /\ sent[t] > 0 /\ Outdated(history, generating[t])
    /\ EndOfTurn(t, ws[t])

\* The server has said everything; what it sent remains to be released.
TtsServerCloses(t) ==
    /\ Running /\ tts[t] = "playing" /\ ws[t] = "open" /\ t \in eos
    /\ ws' = [ws EXCEPT ![t] = "closed"]
    /\ UNCHANGED <<session, talk, llm, tts, generating, sent, spoken, eos, quest,
                   output, input>>

TtsEnd(t) ==
    /\ Running
    /\ tts[t] = "playing" /\ ws[t] = "closed" /\ EndOfTurn(t, "gone")

\* ConnectionClosedError: what was not yet released is lost.
TtsConnectionFails(t) ==
    /\ Running
    /\ tts[t] = "playing" /\ ws[t] = "open" /\ EndOfTurn(t, "closed")

\* check_for_bot_goodbye
SaysGoodbye(content) == content # <<>> /\ Last(content) \in {BotWord(t) : t \in ByeTurns}

TtsSleepEnds(t) ==
    /\ Running /\ tts[t] = "sleeping"
    /\ tts' = [tts EXCEPT ![t] = "done"]
    /\ queue' = IF SaysGoodbye(LastOf(history, "assistant"))
                THEN queue \cup {<<"closestream", t>>} ELSE queue
    /\ UNCHANGED <<session, talk, llm, ws, generating, sent, spoken, eos, quest,
                   fresh, interrupted, input>>

-----------------------------------------------------------------------------
(* interrupt_bot, and what its two callers do after it *)

\* receive() takes the turn for the user, _stt_loop() adds the word it has got
\* and makes sure that a pause does not follow a message's first word.
AfterInterruption(who, h) ==
    LET delta == IF who = "recv" THEN <<>> ELSE <<UserWord>> IN
    /\ history' = AddDelta(h, delta, "user")
    /\ pause' = IF who = "stt" /\ IsNewMessage(h, "user") THEN "low" ELSE pause
    /\ recv' = IF who = "recv" THEN "idle" ELSE recv
    /\ stt' = IF who = "stt" THEN "idle" ELSE stt

SwapQueue ==
    /\ queue' = {}
    /\ fresh' = {}
    /\ interrupted' = interrupted \cup {turn}

WithDash == AddDelta(history, <<InterruptionChar>>, "assistant")

TtsIsOpen == quest.tts # 0 /\ ws[quest.tts] = "open"

\* Nothing to close: the whole of it is one step.
InterruptAtOnce(who) ==
    /\ ~TtsIsOpen
    /\ SwapQueue
    /\ ws' = Shut(quest.tts)
    /\ tts' = Cancelled(tts, quest.tts) /\ llm' = Cancelled(llm, quest.llm)
    /\ quest' = [llm |-> 0, tts |-> 0]
    /\ AfterInterruption(who, WithDash)
    /\ UNCHANGED <<session, shown, turn, generating, sent, spoken, eos, awaits, flush, instructions>>

\* remove("tts") awaits the closing of the websocket.
InterruptCloses(who) ==
    /\ TtsIsOpen
    /\ SwapQueue
    /\ history' = WithDash
    /\ ws' = [ws EXCEPT ![quest.tts] = "closing"]
    /\ awaits' = [awaits EXCEPT ![who] = quest.tts]
    /\ quest' = [quest EXCEPT !.tts = 0]
    /\ recv' = IF who = "recv" THEN "closing" ELSE recv
    /\ stt' = IF who = "stt" THEN "closing" ELSE stt
    /\ UNCHANGED <<session, shown, turn, llm, tts, generating, sent, spoken, eos,
                   pause, flush, instructions>>

InterruptBot(who) == InterruptAtOnce(who) \/ InterruptCloses(who)

\* Mutant of InterruptContinues: a quest that was closed is not cancelled.
InterruptOnlyCloses(who) ==
    /\ Running /\ awaits[who] # 0
    /\ ws' = Shut(awaits[who])
    /\ llm' = Cancelled(llm, quest.llm)
    /\ quest' = [quest EXCEPT !.llm = 0]
    /\ awaits' = [awaits EXCEPT ![who] = 0]
    /\ AfterInterruption(who, history)
    /\ UNCHANGED <<session, shown, turn, tts, generating, sent, spoken, eos, output, flush, instructions>>

\* The websocket is closed: the TTS is cancelled, and whatever is now "llm".
InterruptContinues(who) ==
    /\ Running /\ awaits[who] # 0
    /\ ws' = Shut(awaits[who])
    /\ tts' = Cancelled(tts, awaits[who]) /\ llm' = Cancelled(llm, quest.llm)
    /\ quest' = [quest EXCEPT !.llm = 0]
    /\ awaits' = [awaits EXCEPT ![who] = 0]
    /\ AfterInterruption(who, history)
    /\ UNCHANGED <<session, shown, turn, generating, sent, spoken, eos, output, flush, instructions>>

-----------------------------------------------------------------------------
(* receive *)

\* Mutant of InitialResponse: nobody speaks, so the bot begins.
SilenceResponse == State = "waiting_for_user" /\ instructions

InitialResponse == Len(history) = 1 /\ instructions

\* Up to send_audio(), which raises once the STT has closed the connection.
Receive ==
    /\ Running /\ recv = "idle"
    /\ recv' = "sent"
    /\ IF stt = "over" THEN Fails ELSE UNCHANGED session
    /\ IF InitialResponse
       THEN GenerateResponse ELSE UNCHANGED <<talk, quests>>
    /\ UNCHANGED <<output, stt, awaits, pause, flush, instructions>>

\* detect_long_silence
LongSilence == State = "waiting_for_user"

AfterSilence == AddDelta(history, <<UserSilenceMarker>>, "user")

\* Mutant of DeterminePause: whoever is speaking.
PauseAnytime(h) == pause = "high"

\* determine_pause, of the history after detect_long_silence
DeterminePause(h) == ConversationState(h) = "user_speaking" /\ pause = "high"

\* A frame without an interruption.  The timeout may or may not have passed.  A
\* pause starts a flush: silence enough is sent to get the STT past what it has heard.
ReceiveFrame ==
    /\ Running /\ recv = "sent" /\ flush = "none"
    /\ recv' = "idle"
    /\ \E h \in {history} \cup (IF LongSilence THEN {AfterSilence} ELSE {}) :
          /\ history' = h
          /\ flush' = IF DeterminePause(h) THEN "pending" ELSE flush
    /\ UNCHANGED <<session, shown, turn, quests, output, stt, awaits, pause, instructions>>

\* Interruption by STT-VAD.  In the first seconds of a session it is not taken:
\* the choice between this action and ReceiveFrame.
ReceiveInterrupts ==
    /\ Running /\ recv = "sent" /\ flush = "none"
    /\ State = "bot_speaking" /\ pause = "low"
    /\ InterruptBot("recv")

\* Mutant of ReceiveFlushing: the end of the flush is only noted.
FlushForgotten ==
    /\ Running /\ recv = "sent" /\ flush # "none"
    /\ recv' = "idle"
    /\ flush' = IF flush = "passed" THEN "none" ELSE flush
    /\ UNCHANGED <<session, talk, quests, output, stt, awaits, pause, instructions>>

ReceiveFlushing ==
    /\ Running /\ recv = "sent" /\ flush # "none"
    /\ recv' = "idle"
    /\ IF flush = "passed" THEN GenerateResponse /\ flush' = "none"
                           ELSE UNCHANGED <<talk, quests, flush>>
    /\ UNCHANGED <<session, output, stt, awaits, pause, instructions>>

\* update_session, which receive_loop() calls between two frames
SetInstructions ==
    /\ Running /\ recv = "idle"
    /\ instructions' = TRUE
    /\ UNCHANGED <<session, talk, quests, output, recv, stt, awaits, pause, flush>>

-----------------------------------------------------------------------------
(* _stt_loop, and the step messages that SpeechToText handles itself *)

\* Mutant of SttStep: steps are received by a task of their own.
StepsAnytime ==
    /\ Running /\ stt # "over"
    /\ pause' \in {"low", "high"}
    /\ flush' \in {flush} \cup (IF flush = "pending" THEN {"passed"} ELSE {})
    /\ UNCHANGED <<session, talk, quests, output, recv, stt, awaits, instructions>>

\* Steps are handled in the iteration that yields the words: none is while
\* _stt_loop() waits in interrupt_bot().
SttStep ==
    /\ Running /\ stt = "idle"
    /\ pause' \in {"low", "high"}
    /\ flush' \in {flush} \cup (IF flush = "pending" THEN {"passed"} ELSE {})
    /\ UNCHANGED <<session, talk, quests, output, recv, stt, awaits, instructions>>

SttWord ==
    /\ Running /\ stt = "idle"
    /\ IF State = "bot_speaking" THEN InterruptBot("stt")
       ELSE /\ Last(history).role = "user" => Len(Last(history).content) < MaxUserWords
            /\ AfterInterruption("stt", history)
            /\ UNCHANGED <<session, shown, turn, quests, output, awaits, flush, instructions>>

SttCloses ==
    /\ Running /\ stt = "idle"
    /\ stt' = "over"
    /\ UNCHANGED <<session, talk, quests, output, recv, awaits, pause, flush, instructions>>

-----------------------------------------------------------------------------
Llm(t) == LlmStart(t) \/ LlmDelta(t) \/ LlmGetsTts(t) \/ LlmEnd(t) \/ LlmFails(t)

Tts(t) ==
    \/ TtsReady(t) \/ TtsInitFails(t) \/ TtsAudio(t) \/ TtsText(t) \/ TtsBreak(t)
    \/ TtsServerCloses(t) \/ TtsEnd(t) \/ TtsConnectionFails(t) \/ TtsSleepEnds(t)

Recv ==
    \/ Receive \/ ReceiveFrame \/ ReceiveInterrupts \/ ReceiveFlushing
    \/ InterruptContinues("recv") \/ SetInstructions

Stt == SttStep \/ SttWord \/ SttCloses \/ InterruptContinues("stt")

Next == Recv \/ Stt \/ \E t \in Turns : Llm(t) \/ Tts(t)

Spec == Init /\ [][Next]_vars

\* The event loop runs every task that can run.  Frames keep coming, an instance
\* is found or is not, streams of text and audio end, a websocket closes or times
\* out, and the STT answers each frame.
Fairness ==
    /\ WF_vars(Receive)
    /\ WF_vars(ReceiveFrame \/ ReceiveInterrupts \/ ReceiveFlushing)
    /\ WF_vars(SttStep /\ flush' # flush)
    /\ \A w \in Interrupters : WF_vars(InterruptContinues(w))
    /\ \A t \in Turns :
          /\ WF_vars(LlmStart(t))
          /\ WF_vars(LlmGetsTts(t))
          /\ WF_vars(LlmEnd(t))
          /\ WF_vars(TtsReady(t) \/ TtsInitFails(t))
          /\ WF_vars(TtsServerCloses(t))
          /\ WF_vars(TtsEnd(t))
          /\ WF_vars(TtsSleepEnds(t))

FairSpec == Spec /\ Fairness

-----------------------------------------------------------------------------
(* Properties *)

BotWords == {BotWord(t) : t \in Turns}
Words == BotWords \cup {UserWord, "prompt", InterruptionChar, UserSilenceMarker}

Events == {"audio", "text", "audiodone", "closestream"}

\* Every variable holds what the code can store in it.
TypeOK ==
    /\ session \in {"open", "over"} /\ instructions \in BOOLEAN
    /\ history \in Seq([role : Roles, content : Seq(Words)])
    /\ turn \in 0..MaxTurns
    /\ llm \in [Turns -> {"none", "created", "streaming", "connecting", "done"}]
    /\ tts \in [Turns -> {"none", "init", "playing", "sleeping", "done"}]
    /\ ws \in [Turns -> {"none", "open", "closing", "closed", "gone"}]
    /\ generating \in [Turns -> Nat]
    /\ sent \in [Turns -> 0..MaxDeltas] /\ spoken \in [Turns -> 0..MaxDeltas]
    /\ eos \subseteq Turns /\ fresh \subseteq Turns /\ interrupted \subseteq Turns
    /\ quest \in [llm : 0..MaxTurns, tts : 0..MaxTurns]
    /\ queue \subseteq Events \X Turns
    /\ recv \in {"idle", "sent", "closing"} /\ stt \in {"idle", "closing", "over"}
    /\ awaits \in [Interrupters -> 0..MaxTurns]
    /\ pause \in {"low", "high"} /\ flush \in {"none", "pending", "passed"}

\* The "llm" quest that interrupt_bot() removes when it resumes is the one of the
\* turn that it has interrupted: no response has begun meanwhile, with no lock held.
HitsItsTurn == \A w \in Interrupters : awaits[w] # 0 => quest.llm \in {0, awaits[w]}

\* The messages of the bot are its turns, in their order: each turn has one message, that
\* has words of no other turn, however late a word or an interruption comes.
HasMessages(h, n, at) ==
    /\ \A t, u \in 1..n : t < u => at[t] < at[u]
    /\ \A i \in DOMAIN h : h[i].role = "assistant" <=> \E t \in 1..n : at[t] = i
    /\ \A t \in 1..n : Range(h[at[t]].content) \subseteq {BotWord(t), InterruptionChar}
MessagePerTurn == \E at \in [1..turn -> DOMAIN history] : HasMessages(history, turn, at)

\* After an interruption the client is sent no audio and no words of the turn
\* that was interrupted.
NoStaleVoice ==
    \A t \in interrupted : {<<"audio", t>>, <<"text", t>>} \cap queue = {}

\* What the LLM is asked to continue ends with what the user said: the bot never
\* answers itself, and is never asked to answer nothing.
AnswersTheUser == shown # <<>> => Last(shown).role = "user"

\* The tasks implement a conversation in which the user and the bot take turns:
\* no path of receive() begins a response that nobody has asked for.
Conversation == INSTANCE TurnTaking WITH floor <- State
TakesTurns == Conversation!Spec

\* An interruption stops the turn for good: its tasks end and its TTS instance is
\* given back, even if the tasks interrupt it together.
Stopped(t) ==
    llm[t] \in {"none", "done"} /\ tts[t] \in {"none", "done"} /\ ws[t] \notin {"open", "closing"}
InterruptedTurnStops ==
    \A t \in Turns : t \in interrupted ~> session = "over" \/ Stopped(t)

\* A turn in which the TTS has got a word comes to an end: the user is waited for.
TurnEnds ==
    \A t \in Turns : sent[t] > 0 ~> session = "over" \/ Outdated(history, generating[t])

\* A pause that was detected is answered, once the STT has been flushed.
PauseIsAnswered ==
    \A t \in 0..(MaxTurns - 1) : flush # "none" /\ turn = t ~> session = "over" \/ turn > t
=============================================================================
