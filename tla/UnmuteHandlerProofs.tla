------------------------- MODULE UnmuteHandlerProofs -------------------------
(* Proofs about UnmuteHandler, for any number of turns and words. *)
EXTENDS UnmuteHandler, FiniteSetTheorems, TLAPS

Messages == [role : Roles, content : Seq(Words)]
Histories == Seq(Messages) \ {<<>>}

-----------------------------------------------------------------------------
(* The operators on histories *)

\* The deltas that are added are words.
LEMMA Deltas ==
    /\ <<>> \in Seq(Words) /\ <<InterruptionChar>> \in Seq(Words)
    /\ <<UserWord>> \in Seq(Words) /\ <<UserSilenceMarker>> \in Seq(Words)
    /\ \A t \in Turns : <<BotWord(t)>> \in Seq(Words)
  BY DEF Words, BotWords, InterruptionChar, UserSilenceMarker, UserWord

LEMMA NewIsHistory == NewHistory \in Histories /\ Len(NewHistory) = 1
  BY DEF NewHistory, Histories, Messages, Message, Roles, Words

LEMMA ContentChanges ==
    ASSUME NEW C, NEW m \in [role : Roles, content : C], NEW x
    PROVE  [m EXCEPT !.content = x] = [role |-> m.role, content |-> x]
<1>1. m = [role |-> m.role, content |-> m.content]  OBVIOUS
<1>2. \A r, c : [[role |-> r, content |-> c] EXCEPT !.content = x] = [role |-> r, content |-> x]
  OBVIOUS
<1> QED  BY <1>1, <1>2, Zenon

\* A delta of the role that spoke last continues its message, any other begins one.
LEMMA AddDeltaEffect ==
    ASSUME NEW h \in Histories, NEW d \in Seq(Words), NEW role \in Roles
    PROVE  LET g == AddDelta(h, d, role)
               n == Len(h)
           IN  /\ g \in Histories /\ Last(g).role = role
               /\ h[n].role = role =>
                    /\ Len(g) = n /\ g[n].content = h[n].content \o d
                    /\ \A i \in 1..n : g[i].role = h[i].role
                    /\ \A i \in 1..n : i # n => g[i] = h[i]
               /\ h[n].role # role =>
                    /\ Len(g) = n + 1 /\ g[n + 1] = Message(role, d)
                    /\ \A i \in 1..n : g[i] = h[i]
<1> DEFINE n == Len(h)
           m == h[n]
<1>1. h \in Seq(Messages) /\ n \in Nat /\ n > 0 /\ m \in Messages  BY DEF Histories
<1>2. m = [role |-> m.role, content |-> m.content] /\ m.content \in Seq(Words)
      /\ Message(role, d) \in Messages /\ Message(role, d).role = role
  BY <1>1 DEF Messages, Message
<1>3. CASE m.role = role
  <2> DEFINE c == [m EXCEPT !.content = @ \o d]
             g == [h EXCEPT ![n] = c]
  <2>1. m.content \o d \in Seq(Words)  BY <1>2
  <2>2. c = [role |-> m.role, content |-> m.content \o d]
    BY <1>1, ContentChanges, Zenon DEF Messages
  <2>3. c \in Messages /\ c.role = m.role /\ c.content = m.content \o d
    BY <1>1, <2>1, <2>2 DEF Messages
  <2> HIDE DEF c
  <2>4. g \in Seq(Messages) /\ Len(g) = n /\ g # <<>> /\ g[n] = c /\ \A i \in 1..n : i # n => g[i] = h[i]
    BY <1>1, <2>3
  <2>5. AddDelta(h, d, role) = g  BY <1>3 DEF AddDelta, c
  <2> QED  BY <1>1, <1>3, <2>3, <2>4, <2>5 DEF Histories, Last
<1>4. CASE m.role # role
  <2>1. AddDelta(h, d, role) = Append(h, Message(role, d))  BY <1>4 DEF AddDelta
  <2>2. Append(h, Message(role, d)) \in Seq(Messages)  BY <1>1, <1>2
  <2> QED  BY <1>1, <1>2, <1>4, <2>1, <2>2 DEF Histories, Last
<1> QED  BY <1>3, <1>4

\* The delta of the role that spoke last begins none.
LEMMA SameMessageEffect ==
    ASSUME NEW h \in Histories, NEW d \in Seq(Words), NEW role \in Roles,
           h[Len(h)].role = role
    PROVE  Len(AddDelta(h, d, role)) = Len(h) /\ Last(AddDelta(h, d, role)).role = role
  BY AddDeltaEffect

\* The delta of another role is a message of its own.
LEMMA NewMessageEffect ==
    ASSUME NEW h \in Histories, NEW d \in Seq(Words), NEW role \in Roles,
           h[Len(h)].role # role
    PROVE  /\ AddDelta(h, d, role) \in Histories /\ Last(AddDelta(h, d, role)).role = role
           /\ Len(AddDelta(h, d, role)) = Len(h) + 1
           /\ AddDelta(h, d, role)[Len(h) + 1] = Message(role, d)
           /\ \A i \in 1..Len(h) : AddDelta(h, d, role)[i] = h[i]
  BY AddDeltaEffect

-----------------------------------------------------------------------------
(* The operators on tasks *)

LEMMA CancelledEffect ==
    ASSUME NEW S, NEW tasks \in [Turns -> S], "done" \in S, NEW t \in 0..MaxTurns
    PROVE  /\ Cancelled(tasks, t) \in [Turns -> S]
           /\ \A u \in Turns : Cancelled(tasks, t)[u] = IF u = t THEN "done" ELSE tasks[u]
  BY DEF Cancelled, Turns

LEMMA ShutEffect ==
    ASSUME TypeOK, NEW t \in 0..MaxTurns
    PROVE  /\ Shut(t) \in [Turns -> {"none", "open", "closing", "closed", "gone"}]
           /\ \A u \in Turns : Shut(t)[u] = IF u = t /\ ws[u] # "none" THEN "gone" ELSE ws[u]
  BY DEF Shut, Turns, TypeOK

LEMMA QuestChanges ==
    ASSUME NEW q \in [llm : 0..MaxTurns, tts : 0..MaxTurns], NEW t
    PROVE  /\ [q EXCEPT !.llm = t] = [llm |-> t, tts |-> q.tts]
           /\ [q EXCEPT !.tts = t] = [llm |-> q.llm, tts |-> t]
<1>1. q = [llm |-> q.llm, tts |-> q.tts]  OBVIOUS
<1>2. \A a, b : [[llm |-> a, tts |-> b] EXCEPT !.llm = t] = [llm |-> t, tts |-> b]  OBVIOUS
<1>3. \A a, b : [[llm |-> a, tts |-> b] EXCEPT !.tts = t] = [llm |-> a, tts |-> t]  OBVIOUS
<1>4. [q EXCEPT !.llm = t] = [llm |-> t, tts |-> q.tts]  BY <1>1, <1>2, Zenon
<1>5. [q EXCEPT !.tts = t] = [llm |-> q.llm, tts |-> t]  BY <1>1, <1>3, Zenon
<1> QED  BY <1>4, <1>5

-----------------------------------------------------------------------------
(* Types *)

Types == TypeOK /\ history \in Histories

LEMMA TypeInit == Init => Types
<1> SUFFICES ASSUME Init PROVE Types
  OBVIOUS
<1>1. history \in Histories /\ history \in Seq([role : Roles, content : Seq(Words)])
  BY NewIsHistory DEF Init, Histories, Messages
<1>2. quest \in [llm : 0..MaxTurns, tts : 0..MaxTurns]
  BY BoundsAssumption DEF Init
<1>3. sent \in [Turns -> 0..MaxDeltas] /\ spoken \in [Turns -> 0..MaxDeltas] /\ turn \in 0..MaxTurns
      /\ awaits \in [Interrupters -> 0..MaxTurns]
  BY BoundsAssumption DEF Init
<1> QED  BY <1>1, <1>2, <1>3 DEF Init, Types, TypeOK

LEMMA GenerateTypes == Types /\ GenerateResponse =>
    /\ history' \in Histories /\ turn' \in 0..MaxTurns
    /\ llm' \in [Turns -> {"none", "created", "streaming", "connecting", "done"}]
    /\ quest' \in [llm : 0..MaxTurns, tts : 0..MaxTurns]
<1> SUFFICES ASSUME Types, GenerateResponse
             PROVE  /\ history' \in Histories /\ turn' \in 0..MaxTurns
                    /\ llm' \in [Turns -> {"none", "created", "streaming", "connecting", "done"}]
                    /\ quest' \in [llm : 0..MaxTurns, tts : 0..MaxTurns]
  OBVIOUS
<1>1. history' \in Histories
  BY AddDeltaEffect, Deltas DEF Types, GenerateResponse, Roles
<1>2. turn + 1 \in Turns /\ turn' = turn + 1
  BY BoundsAssumption DEF Types, TypeOK, GenerateResponse, Turns
<1>3. quest.llm \in 0..MaxTurns  BY DEF Types, TypeOK
<1>4. Cancelled(llm, quest.llm) \in [Turns -> {"none", "created", "streaming", "connecting", "done"}]
  BY <1>3, CancelledEffect DEF Types, TypeOK
<1>5. llm' \in [Turns -> {"none", "created", "streaming", "connecting", "done"}]
  BY <1>4 DEF GenerateResponse
<1>6. quest' \in [llm : 0..MaxTurns, tts : 0..MaxTurns]
  <2>1. quest \in [llm : 0..MaxTurns, tts : 0..MaxTurns]  BY DEF Types, TypeOK
  <2>2. quest' = [llm |-> turn + 1, tts |-> quest.tts]
    BY <2>1, QuestChanges, Zenon DEF GenerateResponse
  <2> QED  BY <1>2, <2>1, <2>2 DEF Turns
<1> QED  BY <1>1, <1>2, <1>5, <1>6 DEF Turns

LEMMA LlmTypes == ASSUME Types, NEW t \in Turns, Llm(t) PROVE Types'
<1>1. CASE LlmStart(t)
  <2>1. quest.tts \in 0..MaxTurns  BY DEF Types, TypeOK
  <2>2. tts' \in [Turns -> {"none", "init", "playing", "sleeping", "done"}]
    BY <1>1, <2>1, CancelledEffect DEF LlmStart, Types, TypeOK
  <2>3. ws' \in [Turns -> {"none", "open", "closing", "closed", "gone"}]
    BY <1>1, <2>1, ShutEffect DEF LlmStart, Types
  <2>4. Len(history) \in Nat  BY DEF Types, Histories
  <2>5. quest' \in [llm : 0..MaxTurns, tts : 0..MaxTurns]
    <3>1. quest \in [llm : 0..MaxTurns, tts : 0..MaxTurns]  BY DEF Types, TypeOK
    <3>2. quest' = [llm |-> quest.llm, tts |-> t]
      BY <1>1, <3>1, QuestChanges, Zenon DEF LlmStart
    <3> QED  BY <3>1, <3>2 DEF Turns
  <2> QED  BY <1>1, <2>2, <2>3, <2>4, <2>5 DEF LlmStart, Types, TypeOK, output, input
<1>2. ASSUME NEW b \in BOOLEAN, EndOfText(t, b) PROVE Types'
  BY <1>2 DEF EndOfText, Types, TypeOK, talk, output, input, Fails
<1>3. CASE SendDelta(t)
  <2>1. CASE EndOfText(t, TRUE)  BY <1>2, <2>1
  <2>2. CASE ~EndOfText(t, TRUE)
    <3>1. sent[t] \in 0..MaxDeltas /\ sent \in [Turns -> 0..MaxDeltas]  BY DEF Types, TypeOK
    <3>2. (IF ws[t] = "open" THEN sent[t] + 1 ELSE sent[t]) \in 0..MaxDeltas
      <4>1. ws[t] = "open" => sent[t] < MaxDeltas  BY <1>3, <2>2 DEF SendDelta
      <4> QED  BY <3>1, <4>1, BoundsAssumption
    <3>3. sent' \in [Turns -> 0..MaxDeltas]
      BY <1>3, <2>2, <3>1, <3>2 DEF SendDelta
    <3>4. session' \in {"open", "over"}  BY <1>3, <2>2 DEF SendDelta, Types, TypeOK, Fails
    <3> QED  BY <1>3, <2>2, <3>3, <3>4 DEF SendDelta, Types, TypeOK, talk, output, input
  <2> QED  BY <2>1, <2>2
<1>4. CASE LlmDelta(t) \/ LlmGetsTts(t)
  <2>1. CASE llm' = [llm EXCEPT ![t] = "connecting"] /\ UNCHANGED <<session, talk, tts, ws,
                generating, sent, spoken, eos, quest, output, input>>
    BY <2>1 DEF Types, TypeOK, talk, output, input
  <2> QED  BY <1>3, <1>4, <2>1 DEF LlmDelta, LlmGetsTts
<1>5. CASE LlmEnd(t)
  <2>1. (sent[t] > 0) \in BOOLEAN  OBVIOUS
  <2> QED  BY <1>2, <1>5, <2>1, Zenon DEF LlmEnd
<1>6. CASE LlmFails(t)
  BY <1>6 DEF LlmFails, Fails, Types, TypeOK, talk, quests, output, input
<1> QED  BY <1>1, <1>4, <1>5, <1>6 DEF Llm

\* The state of a TTS and of its websocket changes for one turn.
LEMMA TtsTypes == ASSUME Types, NEW t \in Turns, Tts(t) PROVE Types'
<1> USE DEF Types, TypeOK, talk, quests, output, input
<1>1. ASSUME NEW x \in {"open", "closing", "closed", "gone", "none"}, EndOfTurn(t, x) PROVE Types'
  <2>1. history' \in Histories
    BY <1>1, AddDeltaEffect, Deltas DEF EndOfTurn, Roles
  <2>2. queue' \subseteq Events \X Turns  BY <1>1 DEF EndOfTurn, Events
  <2>3. history' \in Seq([role : Roles, content : Seq(Words)])  BY <2>1 DEF Histories, Messages
  <2> QED  BY <1>1, <2>1, <2>2, <2>3 DEF EndOfTurn
<1>2. CASE TtsReady(t) \/ TtsInitFails(t)
  <2>1. CASE TtsReady(t)  BY <2>1 DEF TtsReady
  <2>2. CASE TtsInitFails(t)  BY <2>2 DEF TtsInitFails, Fails
  <2> QED  BY <1>2, <2>1, <2>2
<1>3. CASE TtsAudio(t)
  <2>1. queue' \subseteq Events \X Turns  BY <1>3 DEF TtsAudio, PutCaptured, Events
  <2> QED  BY <1>3, <2>1 DEF TtsAudio
<1>4. CASE TtsText(t)
  <2>1. history' \in Histories
    BY <1>4, AddDeltaEffect, Deltas DEF TtsText, AddDeltaTo, Roles
  <2>2. spoken' \in [Turns -> 0..MaxDeltas]
    <3>1. spoken[t] < sent[t] /\ spoken[t] \in 0..MaxDeltas /\ sent[t] \in 0..MaxDeltas
      BY <1>4 DEF TtsText
    <3>2. spoken[t] + 1 \in 0..MaxDeltas  BY <3>1, BoundsAssumption
    <3> QED  BY <1>4, <3>2 DEF TtsText
  <2>3. queue' \subseteq Events \X Turns  BY <1>4 DEF TtsText, PutCaptured, Events
  <2> QED  BY <1>4, <2>1, <2>2, <2>3 DEF TtsText, Histories, Messages
<1>5. CASE TtsBreak(t)
  <2>1. ws[t] \in {"open", "closing", "closed", "gone", "none"}  OBVIOUS
  <2> QED  BY <1>1, <1>5, <2>1 DEF TtsBreak
<1>6. CASE TtsServerCloses(t)  BY <1>6 DEF TtsServerCloses
<1>7. CASE TtsEnd(t)  BY <1>1, <1>7 DEF TtsEnd
<1>8. CASE TtsConnectionFails(t)  BY <1>1, <1>8 DEF TtsConnectionFails
<1>9. CASE TtsSleepEnds(t)  BY <1>9 DEF TtsSleepEnds, Events
<1> QED  BY <1>2, <1>3, <1>4, <1>5, <1>6, <1>7, <1>8, <1>9 DEF Tts

\* What an interrupter leaves of the tasks, and what it says.
LEMMA AfterTypes ==
    ASSUME Types, NEW w \in Interrupters, NEW h \in Histories, AfterInterruption(w, h)
    PROVE  /\ history' \in Histories /\ pause' \in {"low", "high"}
           /\ recv' \in {"idle", "sent", "closing"} /\ stt' \in {"idle", "closing", "over"}
<1>1. history' \in Histories
  BY AddDeltaEffect, Deltas DEF AfterInterruption, Roles
<1> QED  BY <1>1 DEF AfterInterruption, Types, TypeOK

LEMMA DashTypes == Types => WithDash \in Histories
  BY AddDeltaEffect, Deltas DEF Types, WithDash, Roles

LEMMA InterruptTypes ==
    ASSUME Types, turn \in Turns, NEW w \in Interrupters, InterruptBot(w) \/ InterruptContinues(w)
    PROVE  Types'
<1> USE DEF Types, TypeOK
<1>1. quest.tts \in 0..MaxTurns /\ quest.llm \in 0..MaxTurns /\ awaits[w] \in 0..MaxTurns
  OBVIOUS
<1>2. /\ Shut(quest.tts) \in [Turns -> {"none", "open", "closing", "closed", "gone"}]
      /\ Shut(awaits[w]) \in [Turns -> {"none", "open", "closing", "closed", "gone"}]
  BY <1>1, ShutEffect
<1>3. /\ Cancelled(tts, quest.tts) \in [Turns -> {"none", "init", "playing", "sleeping", "done"}]
      /\ Cancelled(tts, awaits[w]) \in [Turns -> {"none", "init", "playing", "sleeping", "done"}]
      /\ Cancelled(llm, quest.llm) \in [Turns -> {"none", "created", "streaming", "connecting", "done"}]
  BY <1>1, CancelledEffect
<1>4. SwapQueue => queue' \subseteq Events \X Turns /\ fresh' \subseteq Turns /\ interrupted' \subseteq Turns
  BY DEF SwapQueue
<1>5. CASE InterruptAtOnce(w)
  <2>1. [llm |-> 0, tts |-> 0] \in [llm : 0..MaxTurns, tts : 0..MaxTurns]  BY BoundsAssumption
  <2>2. AfterInterruption(w, WithDash)  BY <1>5 DEF InterruptAtOnce
  <2> QED  BY <1>2, <1>3, <1>4, <1>5, <2>1, <2>2, AfterTypes, DashTypes DEF InterruptAtOnce, Histories, Messages
<1>6. CASE InterruptCloses(w)
  <2>1. [quest EXCEPT !.tts = 0] \in [llm : 0..MaxTurns, tts : 0..MaxTurns]
    <3>1. [quest EXCEPT !.tts = 0] = [llm |-> quest.llm, tts |-> 0]  BY QuestChanges, Zenon
    <3> QED  BY <1>1, <3>1, BoundsAssumption
  <2> QED  BY <1>1, <1>4, <1>6, <2>1, DashTypes DEF InterruptCloses, Histories, Messages
<1>7. CASE InterruptContinues(w)
  <2>1. [quest EXCEPT !.llm = 0] \in [llm : 0..MaxTurns, tts : 0..MaxTurns]
    <3>1. [quest EXCEPT !.llm = 0] = [llm |-> 0, tts |-> quest.tts]  BY QuestChanges, Zenon
    <3> QED  BY <1>1, <3>1, BoundsAssumption
  <2>2. AfterInterruption(w, history)  BY <1>7 DEF InterruptContinues
  <2>3. [awaits EXCEPT ![w] = 0] \in [Interrupters -> 0..MaxTurns]  BY BoundsAssumption
  <2> QED  BY <1>2, <1>3, <1>7, <2>1, <2>2, <2>3, AfterTypes DEF InterruptContinues, Histories, Messages, output
<1> QED  BY <1>5, <1>6, <1>7 DEF InterruptBot

LEMMA RecvTypes ==
    ASSUME Types, Receive \/ ReceiveFrame \/ ReceiveFlushing \/ SetInstructions
    PROVE  Types'
<1> USE DEF Types, TypeOK, talk, quests, output, input
<1>1. ASSUME GenerateResponse, UNCHANGED <<output, stt, awaits, pause, instructions>>,
             recv' \in {"idle", "sent"}, session' \in {"open", "over"},
             flush' \in {"none", "pending", "passed"}
      PROVE  Types'
  <2>1. /\ history' \in Histories /\ turn' \in 0..MaxTurns
        /\ llm' \in [Turns -> {"none", "created", "streaming", "connecting", "done"}]
        /\ quest' \in [llm : 0..MaxTurns, tts : 0..MaxTurns]
    BY <1>1, GenerateTypes
  <2>2. history' \in Seq([role : Roles, content : Seq(Words)])  BY <2>1 DEF Histories, Messages
  <2> QED  BY <1>1, <2>1, <2>2 DEF GenerateResponse
<1>2. CASE Receive
  <2>1. CASE InitialResponse  BY <1>1, <1>2, <2>1 DEF Receive, Fails
  <2>2. CASE ~InitialResponse  BY <1>2, <2>2 DEF Receive, Fails
  <2> QED  BY <2>1, <2>2
<1>3. CASE ReceiveFrame
  <2>1. AfterSilence \in Histories
    BY AddDeltaEffect, Deltas DEF AfterSilence, Roles
  <2>2. history' \in Histories  BY <1>3, <2>1 DEF ReceiveFrame
  <2> QED  BY <1>3, <2>2 DEF ReceiveFrame, Histories, Messages
<1>4. CASE ReceiveFlushing
  <2>1. CASE flush = "passed"  BY <1>1, <1>4, <2>1 DEF ReceiveFlushing
  <2>2. CASE flush # "passed"  BY <1>4, <2>2 DEF ReceiveFlushing
  <2> QED  BY <2>1, <2>2
<1>5. CASE SetInstructions  BY <1>5 DEF SetInstructions
<1> QED  BY <1>2, <1>3, <1>4, <1>5

LEMMA SttTypes ==
    ASSUME Types, SttStep \/ SttCloses \/ (SttWord /\ State # "bot_speaking")
    PROVE  Types'
<1> USE DEF Types, TypeOK, talk, quests, output, input
<1>1. CASE SttStep \/ SttCloses  BY <1>1 DEF SttStep, SttCloses
<1>2. CASE SttWord /\ State # "bot_speaking"
  <2>1. AfterInterruption("stt", history)  BY <1>2 DEF SttWord
  <2> QED  BY <1>2, <2>1, AfterTypes DEF SttWord, Interrupters, Histories, Messages
<1> QED  BY <1>1, <1>2

LEMMA TypeStep ==
    ASSUME Types, State = "bot_speaking" \/ (\E w \in Interrupters : awaits[w] # 0) => turn \in Turns,
           [Next]_vars
    PROVE  Types'
<1>1. CASE UNCHANGED vars
  BY <1>1 DEF vars, Types, TypeOK, talk, quests, output, input
<1>2. ASSUME NEW t \in Turns, Llm(t) \/ Tts(t) PROVE Types'
  BY <1>2, LlmTypes, TtsTypes
<1>3. CASE ReceiveInterrupts
  BY <1>3, InterruptTypes DEF ReceiveInterrupts, Interrupters
<1>4. ASSUME NEW w \in Interrupters, InterruptContinues(w) PROVE Types'
  BY <1>4, InterruptTypes DEF InterruptContinues
<1>5. CASE SttWord /\ State = "bot_speaking"
  BY <1>5, InterruptTypes DEF SttWord, Interrupters
<1> QED
  BY <1>1, <1>2, <1>3, <1>4, <1>5, RecvTypes, SttTypes DEF Next, Recv, Stt, Interrupters

-----------------------------------------------------------------------------
(* Whose words the messages of the history are *)

\* The user's messages have words of nobody else.
HistoryOK(h) ==
    /\ h[1] = NewHistory[1]
    /\ \A i \in DOMAIN h :
        h[i].role = "user" => Range(h[i].content) \subseteq {UserWord, UserSilenceMarker}

\* The bot's messages are those of its n turns, and a TTS adds to that of its turn.
MessagesOK(h, n, g) ==
    \E at \in [1..n -> DOMAIN h] :
        HasMessages(h, n, at) /\ \A t \in 1..n : g[t] \in {0, at[t]}

LEMMA Floor ==
    ASSUME NEW h \in Histories
    PROVE  /\ ConversationState(h) = "bot_speaking" <=> Last(h).role = "assistant"
           /\ ConversationState(h) = "user_speaking" <=> Last(h).role = "user" /\ Last(h).content # <<>>
           /\ ConversationState(h) = "waiting_for_user"
                <=> Last(h).role # "assistant" /\ ~(Last(h).role = "user" /\ Last(h).content # <<>>)
  BY DEF ConversationState, Last

LEMMA RangeGrows ==
    ASSUME NEW c \in Seq(Words), NEW d \in Seq(Words)
    PROVE  Range(c \o d) = Range(c) \cup Range(d)
<1>1. DOMAIN c = 1..Len(c) /\ DOMAIN d = 1..Len(d) /\ Len(c) \in Nat /\ Len(d) \in Nat  OBVIOUS
<1>2. DOMAIN (c \o d) = 1..(Len(c) + Len(d))  OBVIOUS
<1>3. \A i \in 1..Len(c) : (c \o d)[i] = c[i]  OBVIOUS
<1>4. \A i \in 1..Len(d) : (c \o d)[Len(c) + i] = d[i]  OBVIOUS
<1>5. \A i \in DOMAIN (c \o d) : (c \o d)[i] \in Range(c) \cup Range(d)
  <2> SUFFICES ASSUME NEW i \in DOMAIN (c \o d) PROVE (c \o d)[i] \in Range(c) \cup Range(d)
    OBVIOUS
  <2>1. CASE i \in 1..Len(c)  BY <1>1, <1>3, <2>1 DEF Range
  <2>2. CASE i \notin 1..Len(c)
    <3>1. i - Len(c) \in 1..Len(d) /\ Len(c) + (i - Len(c)) = i  BY <1>1, <1>2, <2>2
    <3>2. (c \o d)[i] = d[i - Len(c)]  BY <1>4, <3>1
    <3> QED  BY <1>1, <3>1, <3>2 DEF Range
  <2> QED  BY <2>1, <2>2
<1>6. \A i \in DOMAIN c : c[i] \in Range(c \o d)
  BY <1>1, <1>2, <1>3 DEF Range
<1>7. \A i \in DOMAIN d : d[i] \in Range(c \o d)
  <2> SUFFICES ASSUME NEW i \in DOMAIN d PROVE d[i] \in Range(c \o d)
    OBVIOUS
  <2>1. Len(c) + i \in DOMAIN (c \o d)  BY <1>1, <1>2
  <2> QED  BY <1>1, <1>4, <2>1 DEF Range
<1> QED  BY <1>5, <1>6, <1>7 DEF Range

LEMMA Lengths ==
    ASSUME NEW h \in Histories
    PROVE  /\ Len(h) \in Nat /\ Len(h) > 0 /\ DOMAIN h = 1..Len(h) /\ h \in Seq(Messages)
           /\ \A i \in 1..Len(h) : h[i] \in Messages /\ h[i].role \in Roles /\ h[i].content \in Seq(Words)
<1>1. h \in Seq(Messages) /\ h # <<>>  BY DEF Histories
<1>2. Len(h) \in Nat /\ Len(h) > 0 /\ DOMAIN h = 1..Len(h)  BY <1>1
<1>3. \A i \in 1..Len(h) : h[i] \in Messages  BY <1>1
<1>4. \A m \in Messages : m.role \in Roles /\ m.content \in Seq(Words)  BY DEF Messages
<1> QED  BY <1>1, <1>2, <1>3, <1>4

LEMMA Turned ==
    ASSUME NEW h \in Histories, NEW n \in 0..MaxTurns, NEW g, HistoryOK(h), MessagesOK(h, n, g)
    PROVE  /\ Last(h).role = "assistant" => n > 0
           /\ n > 0 => Len(h) > 1
           /\ \A t \in 1..n : g[t] # 0 => g[t] \in DOMAIN h /\ h[g[t]].role = "assistant"
<1>1. PICK at \in [1..n -> DOMAIN h] : HasMessages(h, n, at) /\ \A t \in 1..n : g[t] \in {0, at[t]}
  BY DEF MessagesOK
<1>2. DOMAIN h = 1..Len(h) /\ Len(h) \in Nat /\ Len(h) > 0  BY Lengths
<1>3. h[1].role # "assistant"  BY DEF HistoryOK, NewHistory, Message
<1>4. \A t \in 1..n : at[t] \in DOMAIN h /\ h[at[t]].role = "assistant"  BY <1>1 DEF HasMessages
<1>5. n > 0 => 1 \in 1..n  BY BoundsAssumption
<1>6. n > 0 => Len(h) > 1  BY <1>2, <1>3, <1>4, <1>5
<1>7. Last(h).role = "assistant" => n > 0
  <2> SUFFICES ASSUME h[Len(h)].role = "assistant" PROVE n > 0
    BY DEF Last
  <2>1. Len(h) \in DOMAIN h  BY <1>2
  <2>2. \E t \in 1..n : at[t] = Len(h)  BY <1>1, <2>1, Zenon DEF HasMessages
  <2> QED  BY <2>2, BoundsAssumption
<1> QED  BY <1>1, <1>4, <1>6, <1>7

\* What the history h may become with its messages still those of their turns:
\* others may be added that are not the bot's, and to a message of the bot a dash,
\* or a word of the turn whose message it is.
LEMMA StillTheirs ==
    ASSUME NEW h \in Histories, NEW k \in Histories, NEW n \in 0..MaxTurns, NEW g,
           MessagesOK(h, n, g), Len(h) <= Len(k),
           \A i \in 1..Len(h) : k[i].role = h[i].role,
           \A i \in 1..Len(k) : i > Len(h) => k[i].role # "assistant",
           \A i \in 1..Len(h) : h[i].role = "assistant" =>
              \/ Range(k[i].content) \subseteq Range(h[i].content) \cup {InterruptionChar}
              \/ \E t \in 1..n : g[t] = i
                    /\ Range(k[i].content) \subseteq Range(h[i].content) \cup {BotWord(t)}
    PROVE  MessagesOK(k, n, g)
<1>1. PICK at \in [1..n -> DOMAIN h] : HasMessages(h, n, at) /\ \A t \in 1..n : g[t] \in {0, at[t]}
  BY DEF MessagesOK
<1>2. DOMAIN h = 1..Len(h) /\ DOMAIN k = 1..Len(k) /\ Len(h) \in Nat /\ Len(k) \in Nat
  BY Lengths
<1>3. /\ \A t, u \in 1..n : t < u => at[t] < at[u]
      /\ \A i \in DOMAIN h : h[i].role = "assistant" <=> \E t \in 1..n : at[t] = i
      /\ \A t \in 1..n : Range(h[at[t]].content) \subseteq {BotWord(t), InterruptionChar}
  BY <1>1 DEF HasMessages
<1>4. \A t \in 1..n : at[t] \in 1..Len(h)  BY <1>1, <1>2
<1>5. at \in [1..n -> DOMAIN k]
  <2>1. 1..Len(h) \subseteq 1..Len(k)  BY <1>2
  <2> QED  BY <1>1, <1>2, <2>1
<1>6. \A i \in DOMAIN k : k[i].role = "assistant" <=> \E t \in 1..n : at[t] = i
  <2> SUFFICES ASSUME NEW i \in DOMAIN k
               PROVE  k[i].role = "assistant" <=> \E t \in 1..n : at[t] = i
    OBVIOUS
  <2>1. CASE i \in 1..Len(h)  BY <1>2, <1>3, <2>1
  <2>2. CASE i \notin 1..Len(h)
    <3>1. i > Len(h) /\ i \in 1..Len(k)  BY <1>2, <2>2
    <3> QED  BY <1>4, <2>2, <3>1
  <2> QED  BY <2>1, <2>2
<1>7. \A t \in 1..n : Range(k[at[t]].content) \subseteq {BotWord(t), InterruptionChar}
  <2> SUFFICES ASSUME NEW t \in 1..n
               PROVE  Range(k[at[t]].content) \subseteq {BotWord(t), InterruptionChar}
    OBVIOUS
  <2>1. at[t] \in 1..Len(h) /\ h[at[t]].role = "assistant"  BY <1>2, <1>3, <1>4
  <2>2. CASE Range(k[at[t]].content) \subseteq Range(h[at[t]].content) \cup {InterruptionChar}
    BY <1>3, <2>2
  <2>3. CASE \E u \in 1..n : g[u] = at[t]
                /\ Range(k[at[t]].content) \subseteq Range(h[at[t]].content) \cup {BotWord(u)}
    <3>1. PICK u \in 1..n : g[u] = at[t]
                /\ Range(k[at[t]].content) \subseteq Range(h[at[t]].content) \cup {BotWord(u)}
      BY <2>3
    <3>2. at[u] = at[t]  BY <1>1, <2>1, <3>1
    <3>3. u = t
      <4>1. t \in Nat /\ u \in Nat /\ at[t] \in Nat /\ at[u] \in Nat  BY <1>2, <1>4, BoundsAssumption
      <4>2. ~(at[t] < at[u]) /\ ~(at[u] < at[t])  BY <3>2, <4>1
      <4>3. ~(t < u) /\ ~(u < t)  BY <1>3, <4>2
      <4> QED  BY <4>1, <4>3
    <3> QED  BY <1>3, <3>1, <3>3
  <2> QED  BY <2>1, <2>2, <2>3
<1> QED  BY <1>1, <1>3, <1>5, <1>6, <1>7 DEF MessagesOK, HasMessages

\* A delta of the role that is speaking, or that is not the bot's.
LEMMA Grows ==
    ASSUME NEW h \in Histories, NEW d \in Seq(Words), NEW role \in Roles
    PROVE  LET k == AddDelta(h, d, role) IN
           /\ k \in Histories /\ Len(h) <= Len(k)
           /\ \A i \in 1..Len(h) : k[i].role = h[i].role
           /\ \A i \in 1..Len(h) : i # Len(h) \/ h[i].role # role => k[i] = h[i]
           /\ \A i \in 1..Len(h) : Range(k[i].content) \subseteq Range(h[i].content) \cup Range(d)
           /\ \A i \in 1..Len(k) : i > Len(h) =>
                 i = Len(h) + 1 /\ k[i] = Message(role, d) /\ h[Len(h)].role # role
<1>1. Len(h) \in Nat /\ Len(h) > 0 /\ h[Len(h)].content \in Seq(Words)  BY Lengths
<1> DEFINE k == AddDelta(h, d, role)
<1>2. k \in Histories  BY AddDeltaEffect
<1>3. CASE h[Len(h)].role = role
  <2>1. /\ Len(k) = Len(h) /\ k[Len(h)].content = h[Len(h)].content \o d
        /\ \A i \in 1..Len(h) : k[i].role = h[i].role
        /\ \A i \in 1..Len(h) : i # Len(h) => k[i] = h[i]
    BY <1>3, AddDeltaEffect
  <2>2. Range(k[Len(h)].content) = Range(h[Len(h)].content) \cup Range(d)
    BY <1>1, <2>1, RangeGrows
  <2> HIDE DEF k
  <2>3. \A i \in 1..Len(h) : Range(k[i].content) \subseteq Range(h[i].content) \cup Range(d)
    <3> TAKE i \in 1..Len(h)
    <3>1. CASE i = Len(h)  BY <2>2, <3>1
    <3>2. CASE i # Len(h)
      <4>1. k[i] = h[i]  BY <2>1, <3>2
      <4> QED  BY <4>1
    <3> QED  BY <3>1, <3>2
  <2>4. \A i \in 1..Len(k) : ~(i > Len(h))  BY <1>1, <2>1
  <2>5. Len(h) <= Len(k)  BY <1>1, <2>1
  <2>6. \A i \in 1..Len(h) : i # Len(h) \/ h[i].role # role => k[i] = h[i]
    BY <1>3, <2>1
  <2> QED  BY <1>2, <2>1, <2>3, <2>4, <2>5, <2>6 DEF k
<1>4. CASE h[Len(h)].role # role
  <2>1. Len(k) = Len(h) + 1 /\ k[Len(h) + 1] = Message(role, d) /\ \A i \in 1..Len(h) : k[i] = h[i]
    BY <1>4, AddDeltaEffect
  <2> HIDE DEF k
  <2>2. \A i \in 1..Len(h) : k[i].role = h[i].role
        /\ Range(k[i].content) \subseteq Range(h[i].content) \cup Range(d)
    <3> TAKE i \in 1..Len(h)
    <3>1. k[i] = h[i]  BY <2>1
    <3> QED  BY <3>1
  <2>3. \A i \in 1..Len(k) : i > Len(h) => i = Len(h) + 1  BY <1>1, <2>1
  <2>4. Len(h) <= Len(k)  BY <1>1, <2>1
  <2> QED  BY <1>2, <1>4, <2>1, <2>2, <2>3, <2>4 DEF k
<1> QED  BY <1>3, <1>4

LEMMA UserHistory ==
    ASSUME NEW h \in Histories, HistoryOK(h), NEW d \in Seq(Words), NEW role \in {"user", "assistant"},
           role = "user" => Range(d) \subseteq {UserWord, UserSilenceMarker}
    PROVE  HistoryOK(AddDelta(h, d, role))
<1> DEFINE k == AddDelta(h, d, role)
<1>0. role \in Roles  BY DEF Roles
<1>1. /\ k \in Histories /\ Len(h) <= Len(k)
      /\ \A i \in 1..Len(h) : k[i].role = h[i].role
      /\ \A i \in 1..Len(h) : i # Len(h) \/ h[i].role # role => k[i] = h[i]
      /\ \A i \in 1..Len(h) : Range(k[i].content) \subseteq Range(h[i].content) \cup Range(d)
      /\ \A i \in 1..Len(k) : i > Len(h) =>
            i = Len(h) + 1 /\ k[i] = Message(role, d) /\ h[Len(h)].role # role
  BY <1>0, Grows
<1> HIDE DEF k
<1>2. Len(h) \in Nat /\ Len(h) > 0 /\ DOMAIN h = 1..Len(h) /\ DOMAIN k = 1..Len(k) /\ Len(k) \in Nat
  BY <1>1, Lengths
<1>3. 1 \in 1..Len(h) /\ h[1].role # role  BY <1>2 DEF HistoryOK, NewHistory, Message
<1>4. k[1] = h[1]  BY <1>1, <1>3
<1>5. ASSUME NEW i \in DOMAIN k, k[i].role = "user"
      PROVE  Range(k[i].content) \subseteq {UserWord, UserSilenceMarker}
  <2>1. CASE i \in 1..Len(h)
    <3>1. Range(h[i].content) \subseteq {UserWord, UserSilenceMarker}
      BY <1>1, <1>2, <1>5, <2>1 DEF HistoryOK
    <3>2. CASE role = "user"  BY <1>1, <2>1, <3>1, <3>2
    <3>3. CASE role # "user"
      <4>1. k[i] = h[i]  BY <1>1, <1>5, <2>1, <3>3
      <4> QED  BY <3>1, <4>1
    <3> QED  BY <3>2, <3>3
  <2>2. CASE i \notin 1..Len(h)
    <3>1. i \in 1..Len(k) /\ i > Len(h)  BY <1>2, <2>2
    <3>2. k[i] = Message(role, d)  BY <1>1, <3>1
    <3>3. k[i].content = d /\ role = "user"  BY <1>5, <3>2 DEF Message
    <3> QED  BY <3>3
  <2> QED  BY <2>1, <2>2
<1> QED  BY <1>4, <1>5 DEF HistoryOK, k

\* Who says what: the user; the turn whose message is the last one, with an
\* interrupter who adds the dash to it; a turn that begins.
LEMMA UserSays ==
    ASSUME NEW h \in Histories, NEW n \in 0..MaxTurns, NEW g, HistoryOK(h), MessagesOK(h, n, g),
           NEW d \in {<<>>, <<UserWord>>, <<UserSilenceMarker>>}
    PROVE  HistoryOK(AddDelta(h, d, "user")) /\ MessagesOK(AddDelta(h, d, "user"), n, g)
<1> DEFINE k == AddDelta(h, d, "user")
<1>1. d \in Seq(Words)  BY Deltas
<1>2. Range(d) \subseteq {UserWord, UserSilenceMarker}
  <2>1. CASE d = <<>>  BY <2>1 DEF Range
  <2>2. CASE d = <<UserWord>>  BY <2>2 DEF Range
  <2>3. CASE d = <<UserSilenceMarker>>  BY <2>3 DEF Range
  <2> QED  BY <2>1, <2>2, <2>3
<1>3. HistoryOK(k)  BY <1>1, <1>2, UserHistory
<1>4. /\ k \in Histories /\ Len(h) <= Len(k)
      /\ \A i \in 1..Len(h) : k[i].role = h[i].role
      /\ \A i \in 1..Len(h) : i # Len(h) \/ h[i].role # "user" => k[i] = h[i]
      /\ \A i \in 1..Len(k) : i > Len(h) => k[i] = Message("user", d)
  <2>1. "user" \in Roles /\ d \in Seq(Words)  BY <1>1 DEF Roles
  <2> QED  BY <2>1, Grows
<1> HIDE DEF k
<1>5. \A i \in 1..Len(k) : i > Len(h) => k[i].role # "assistant"
  BY <1>4 DEF Message
<1>6. \A i \in 1..Len(h) : h[i].role = "assistant" =>
          Range(k[i].content) \subseteq Range(h[i].content) \cup {InterruptionChar}
  BY <1>4
<1>7. MessagesOK(k, n, g)  BY <1>4, <1>5, <1>6, StillTheirs
<1> QED  BY <1>3, <1>7 DEF k

LEMMA BotSays ==
    ASSUME NEW h \in Histories, NEW n \in 0..MaxTurns, NEW g, HistoryOK(h), MessagesOK(h, n, g),
           Last(h).role = "assistant", NEW c, <<c>> \in Seq(Words),
           c = InterruptionChar \/ \E t \in 1..n : g[t] = Len(h) /\ c = BotWord(t)
    PROVE  HistoryOK(AddDelta(h, <<c>>, "assistant")) /\ MessagesOK(AddDelta(h, <<c>>, "assistant"), n, g)
<1> DEFINE k == AddDelta(h, <<c>>, "assistant")
<1>1. HistoryOK(k)  BY UserHistory
<1>2. /\ k \in Histories /\ Len(h) <= Len(k)
      /\ \A i \in 1..Len(h) : k[i].role = h[i].role
      /\ \A i \in 1..Len(h) : i # Len(h) \/ h[i].role # "assistant" => k[i] = h[i]
      /\ \A i \in 1..Len(h) : Range(k[i].content) \subseteq Range(h[i].content) \cup Range(<<c>>)
      /\ \A i \in 1..Len(k) : i > Len(h) => h[Len(h)].role # "assistant"
  BY Grows DEF Roles
<1>3. Range(<<c>>) = {c}  BY DEF Range
<1>4. \A i \in 1..Len(k) : ~(i > Len(h))  BY <1>2 DEF Last
<1> HIDE DEF k
<1>5. \A i \in 1..Len(h) : h[i].role = "assistant" =>
              \/ Range(k[i].content) \subseteq Range(h[i].content) \cup {InterruptionChar}
              \/ \E t \in 1..n : g[t] = i
                    /\ Range(k[i].content) \subseteq Range(h[i].content) \cup {BotWord(t)}
  <2> TAKE i \in 1..Len(h)
  <2>1. CASE i # Len(h)
    <3>1. k[i] = h[i]  BY <1>2, <2>1
    <3> QED  BY <3>1
  <2>2. CASE i = Len(h)  BY <1>2, <1>3, <2>2
  <2> QED  BY <2>1, <2>2
<1>6. MessagesOK(k, n, g)  BY <1>2, <1>4, <1>5, StillTheirs
<1> QED  BY <1>1, <1>6 DEF k

LEMMA BotBegins ==
    ASSUME NEW h \in Histories, NEW n \in 0..MaxTurns, NEW g, HistoryOK(h), MessagesOK(h, n, g),
           Last(h).role # "assistant", g[n + 1] = 0
    PROVE  /\ HistoryOK(AddDelta(h, <<>>, "assistant"))
           /\ MessagesOK(AddDelta(h, <<>>, "assistant"), n + 1, g)
<1> DEFINE k == AddDelta(h, <<>>, "assistant")
<1>1. HistoryOK(k)  BY Deltas, UserHistory
<1>2. Len(h) \in Nat /\ Len(h) > 0 /\ n \in Nat /\ DOMAIN h = 1..Len(h)  BY Lengths, BoundsAssumption
<1>3. k \in Histories /\ Len(k) = Len(h) + 1 /\ k[Len(h) + 1] = Message("assistant", <<>>)
      /\ \A i \in 1..Len(h) : k[i] = h[i]
  <2>1. <<>> \in Seq(Words) /\ "assistant" \in Roles /\ h[Len(h)].role # "assistant"
    BY Deltas DEF Roles, Last
  <2> QED  BY <2>1, NewMessageEffect, Zenon
<1> HIDE DEF k
<1>4. DOMAIN k = 1..(Len(h) + 1) /\ Len(h) + 1 \in DOMAIN k /\ DOMAIN h \subseteq DOMAIN k
  BY <1>2, <1>3, Lengths
<1>5. PICK at \in [1..n -> DOMAIN h] : HasMessages(h, n, at) /\ \A t \in 1..n : g[t] \in {0, at[t]}
  BY DEF MessagesOK
<1>6. /\ \A t, u \in 1..n : t < u => at[t] < at[u]
      /\ \A i \in DOMAIN h : h[i].role = "assistant" <=> \E t \in 1..n : at[t] = i
      /\ \A t \in 1..n : Range(h[at[t]].content) \subseteq {BotWord(t), InterruptionChar}
      /\ \A t \in 1..n : at[t] \in DOMAIN h
  BY <1>5 DEF HasMessages
<1> DEFINE to == [t \in 1..(n + 1) |-> IF t = n + 1 THEN Len(h) + 1 ELSE at[t]]
<1>7. /\ to[n + 1] = Len(h) + 1 /\ \A t \in 1..n : to[t] = at[t]
      /\ \A t \in 1..(n + 1) : t = n + 1 \/ t \in 1..n
  BY <1>2
<1>8. to \in [1..(n + 1) -> DOMAIN k]
  <2>1. \A t \in 1..(n + 1) : to[t] \in DOMAIN k  BY <1>4, <1>6, <1>7
  <2> QED  BY <2>1
<1> HIDE DEF to
<1>9. \A t, u \in 1..(n + 1) : t < u => to[t] < to[u]
  <2> SUFFICES ASSUME NEW t \in 1..(n + 1), NEW u \in 1..(n + 1), t < u PROVE to[t] < to[u]
    OBVIOUS
  <2>1. t \in 1..n /\ at[t] \in 1..Len(h)  BY <1>2, <1>6
  <2>2. CASE u = n + 1
    <3>1. to[u] = Len(h) + 1 /\ to[t] = at[t]  BY <1>7, <2>1, <2>2
    <3> QED  BY <1>2, <2>1, <3>1
  <2>3. CASE u \in 1..n  BY <1>6, <1>7, <2>1, <2>3
  <2> QED  BY <1>7, <2>2, <2>3
<1>10. \A i \in DOMAIN k : k[i].role = "assistant" <=> \E t \in 1..(n + 1) : to[t] = i
  <2> SUFFICES ASSUME NEW i \in DOMAIN k
               PROVE  k[i].role = "assistant" <=> \E t \in 1..(n + 1) : to[t] = i
    OBVIOUS
  <2>1. CASE i = Len(h) + 1
    <3>1. k[i].role = "assistant"  BY <1>3, <2>1 DEF Message
    <3>2. n + 1 \in 1..(n + 1)  BY <1>2
    <3> QED  BY <1>7, <2>1, <3>1, <3>2
  <2>2. CASE i # Len(h) + 1
    <3>1. i \in DOMAIN h /\ k[i] = h[i]  BY <1>2, <1>3, <1>4, <2>2
    <3>2. h[i].role = "assistant" <=> \E t \in 1..n : at[t] = i  BY <1>6, <3>1
    <3>3. 1..n \subseteq 1..(n + 1)  BY <1>2
    <3>4. (\E t \in 1..n : at[t] = i) <=> \E t \in 1..(n + 1) : to[t] = i
      BY <1>7, <2>2, <3>3
    <3> QED  BY <3>1, <3>2, <3>4
  <2> QED  BY <2>1, <2>2
<1>11. \A t \in 1..(n + 1) : Range(k[to[t]].content) \subseteq {BotWord(t), InterruptionChar}
  <2> TAKE t \in 1..(n + 1)
  <2>1. CASE t = n + 1
    <3>1. k[to[t]].content = <<>>  BY <1>3, <1>7, <2>1 DEF Message
    <3> QED  BY <3>1 DEF Range
  <2>2. CASE t \in 1..n
    <3>1. k[to[t]] = h[at[t]]  BY <1>2, <1>3, <1>6, <1>7, <2>2
    <3> QED  BY <1>6, <2>2, <3>1
  <2> QED  BY <1>7, <2>1, <2>2
<1>12. \A t \in 1..(n + 1) : g[t] \in {0, to[t]}  BY <1>5, <1>7
<1>13. MessagesOK(k, n + 1, g)  BY <1>8, <1>9, <1>10, <1>11, <1>12 DEF MessagesOK, HasMessages
<1> QED  BY <1>1, <1>13 DEF k

\* A delta of the bot or a word of the user is the last message's, as far as the
\* floor is concerned; whoever has the floor only a new message can take it.
LEMMA AfterDelta ==
    ASSUME NEW h \in Histories, NEW d \in Seq(Words), NEW role \in Roles
    PROVE  LET k == AddDelta(h, d, role) IN
           /\ Last(k).role = role
           /\ h[Len(h)].role = role => Len(k) = Len(h) /\ Last(k).content = Last(h).content \o d
           /\ h[Len(h)].role # role => Len(k) = Len(h) + 1 /\ Last(k) = Message(role, d)
<1> DEFINE k == AddDelta(h, d, role)
<1>1. Last(k).role = role  BY AddDeltaEffect
<1>2. CASE h[Len(h)].role = role
  <2>1. Len(k) = Len(h) /\ k[Len(h)].content = h[Len(h)].content \o d  BY <1>2, AddDeltaEffect
  <2> HIDE DEF k
  <2>2. Last(k).content = Last(h).content \o d  BY <2>1 DEF Last
  <2> QED  BY <1>1, <1>2, <2>1, <2>2 DEF k
<1>3. CASE h[Len(h)].role # role
  <2>1. Len(k) = Len(h) + 1 /\ k[Len(h) + 1] = Message(role, d)  BY <1>3, NewMessageEffect
  <2> HIDE DEF k
  <2>2. Last(k) = Message(role, d)  BY <2>1 DEF Last
  <2> QED  BY <1>1, <1>3, <2>1, <2>2 DEF k
<1> QED  BY <1>2, <1>3

\* A message that is not over is that of the current turn.
LEMMA LastIsCurrent ==
    ASSUME NEW h \in Histories, NEW n \in 0..MaxTurns, NEW g, MessagesOK(h, n, g),
           NEW t \in 1..n, g[t] \in Nat, g[t] >= Len(h)
    PROVE  t = n /\ g[t] = Len(h) /\ Last(h).role = "assistant"
<1>1. PICK at \in [1..n -> DOMAIN h] : HasMessages(h, n, at) /\ \A u \in 1..n : g[u] \in {0, at[u]}
  BY DEF MessagesOK
<1>2. DOMAIN h = 1..Len(h) /\ Len(h) \in Nat /\ Len(h) > 0 /\ n \in Nat
  BY Lengths, BoundsAssumption
<1>3. at[t] \in 1..Len(h) /\ g[t] \in {0, at[t]} /\ n \in 1..n /\ at[n] \in 1..Len(h)
  BY <1>1, <1>2
<1>4. g[t] = at[t] /\ at[t] = Len(h)  BY <1>2, <1>3
<1>5. ~(t < n)
  <2>1. t < n => at[t] < at[n]  BY <1>1, <1>3 DEF HasMessages
  <2> QED  BY <1>2, <1>3, <1>4, <2>1
<1>6. h[at[t]].role = "assistant"  BY <1>1, <1>3, <1>2 DEF HasMessages
<1> QED  BY <1>2, <1>4, <1>5, <1>6 DEF Last

\* The message that the current turn has begun is the last one, if it is the bot's.
LEMMA TurnBegins ==
    ASSUME NEW h \in Histories, NEW n \in 1..MaxTurns, NEW g \in [Turns -> Nat], MessagesOK(h, n, g),
           Last(h).role = "assistant"
    PROVE  MessagesOK(h, n, [g EXCEPT ![n] = Len(h)])
<1>1. PICK at \in [1..n -> DOMAIN h] : HasMessages(h, n, at) /\ \A u \in 1..n : g[u] \in {0, at[u]}
  BY DEF MessagesOK
<1>2. DOMAIN h = 1..Len(h) /\ Len(h) \in Nat /\ Len(h) > 0 /\ n \in Nat /\ 1..n \subseteq Turns
  BY Lengths, BoundsAssumption DEF Turns
<1>3. n \in 1..n /\ at[n] \in 1..Len(h)  BY <1>1, <1>2
<1>4. Len(h) \in DOMAIN h /\ h[Len(h)].role = "assistant"  BY <1>2 DEF Last
<1>5. PICK t \in 1..n : at[t] = Len(h)  BY <1>1, <1>4, Zenon DEF HasMessages
<1>6. t < n => at[t] < at[n]  BY <1>1, <1>3 DEF HasMessages
<1>7. at[n] = Len(h)  BY <1>2, <1>3, <1>5, <1>6
<1> DEFINE f == [g EXCEPT ![n] = Len(h)]
<1>8. \A u \in 1..n : f[u] = IF u = n THEN Len(h) ELSE g[u]  BY <1>2
<1> HIDE DEF f
<1>9. \A u \in 1..n : f[u] \in {0, at[u]}  BY <1>1, <1>7, <1>8
<1> QED  BY <1>1, <1>9 DEF MessagesOK, f

-----------------------------------------------------------------------------
(* The inductive invariant *)

\* Turn t is the one that speaks.
Speaks(t) ==
    /\ t = turn /\ quest.tts = t /\ t \notin interrupted
    /\ Last(history).role = "assistant" /\ generating[t] = Len(history)

\* The LLM that works is the registered one, and one that has not started has the
\* last message for its own.
LlmOK ==
    \A t \in Turns :
        /\ llm[t] = "none" <=> t > turn
        /\ llm[t] \in {"created", "streaming", "connecting"} => quest.llm = t
        /\ llm[t] \in {"none", "created"} => tts[t] = "none" /\ t \notin interrupted
        /\ llm[t] = "created" => Last(history) = Message("assistant", <<>>)

\* A TTS whose websocket is not being closed is that of the turn that speaks.
TtsOK ==
    \A t \in Turns :
        /\ tts[t] = "none" => ws[t] = "none" /\ generating[t] = 0
        /\ tts[t] = "init" => ws[t] = "none" /\ Speaks(t)
        /\ tts[t] = "playing" => ws[t] = "closing" \/ (ws[t] \in {"open", "closed"} /\ Speaks(t))
        /\ ws[t] = "open" => tts[t] = "playing"
        /\ ws[t] = "closing" => \E w \in Interrupters : awaits[w] = t

QuestOK ==
    /\ quest.llm \in {0, turn}
    /\ quest.tts # 0 => quest.tts \in Turns /\ tts[quest.tts] # "none"

\* A turn is closed only while it is the current one, and no other begins meanwhile.
AwaitsOK ==
    /\ \A w \in Interrupters : awaits[w] # 0 =>
          awaits[w] = turn /\ turn \in Turns /\ quest.tts = 0 /\ llm[turn] # "created"
    /\ recv = "closing" <=> awaits["recv"] # 0
    /\ stt = "closing" <=> awaits["stt"] # 0
    /\ stt = "closing" => flush # "passed"

TasksOK == LlmOK /\ TtsOK /\ QuestOK /\ AwaitsOK

\* While a pause of the user is flushed, the floor stays the user's.
FlushOK == flush # "none" => Last(history).role = "user" /\ Last(history).content # <<>>

\* The LLM that is about to be asked is to answer what the user has said, or to begin.
AskedOK ==
    (\E t \in Turns : llm[t] = "created") =>
        \/ Len(history) = 2
        \/ LET n == Len(history) IN
           n > 2 /\ history[n - 1].role = "user" /\ history[n - 1].content # <<>>

OutputOK == fresh \cap interrupted = {} /\ NoStaleVoice

WordsOK == HistoryOK(history) /\ MessagesOK(history, turn, generating)

Inv == Types /\ TasksOK /\ FlushOK /\ AskedOK /\ OutputOK /\ WordsOK

LEMMA InvInit == Init => Inv
<1> SUFFICES ASSUME Init PROVE Inv
  OBVIOUS
<1>1. Types  BY TypeInit
<1>2. TasksOK
  <2>1. \A t \in Turns : ~(t <= turn)  BY BoundsAssumption DEF Init, Turns
  <2>2. \A t \in Turns : t > turn  BY BoundsAssumption DEF Init, Turns
  <2> QED  BY <2>1, <2>2 DEF Init, TasksOK, LlmOK, TtsOK, QuestOK, AwaitsOK, Interrupters
<1>3. FlushOK /\ AskedOK /\ OutputOK  BY DEF Init, FlushOK, AskedOK, OutputOK, NoStaleVoice
<1>4. HistoryOK(history)
  BY DEF Init, HistoryOK, NewHistory, Message
<1>5. MessagesOK(history, turn, generating)
  <2>1. 1..turn = {}  BY DEF Init
  <2>2. [t \in 1..turn |-> 1] \in [1..turn -> DOMAIN history]  BY <2>1
  <2>3. HasMessages(history, turn, [t \in 1..turn |-> 1])
    <3>1. history = <<Message("system", <<"prompt">>)>>  BY DEF Init, NewHistory
    <3>2. \A i \in DOMAIN history : history[i].role # "assistant"  BY <3>1 DEF Message
    <3> QED  BY <2>1, <3>2 DEF HasMessages
  <2> QED  BY <2>1, <2>2, <2>3 DEF MessagesOK
<1> QED  BY <1>1, <1>2, <1>3, <1>4, <1>5 DEF Inv, WordsOK

-----------------------------------------------------------------------------
(* Every step keeps the tasks in order *)

LEMMA InvFacts ==
    ASSUME Inv
    PROVE  /\ turn \in Nat /\ turn \in 0..MaxTurns /\ Len(history) \in Nat /\ Len(history) > 0
           /\ State = "bot_speaking" <=> Last(history).role = "assistant"
           /\ State = "user_speaking" <=> Last(history).role = "user" /\ Last(history).content # <<>>
           /\ Last(history).role = "assistant" => turn \in Turns
           /\ Len(history) = 1 => turn = 0 /\ Last(history).role # "assistant"
           /\ \A t \in Turns : t \in Nat /\ t # 0 /\ (t = turn \/ t < turn \/ t > turn)
<1>1. turn \in Nat /\ turn \in 0..MaxTurns /\ history \in Histories
  BY BoundsAssumption DEF Inv, Types, TypeOK
<1>2. Len(history) \in Nat /\ Len(history) > 0  BY <1>1, Lengths
<1>3. /\ Last(history).role = "assistant" => turn > 0
      /\ turn > 0 => Len(history) > 1
  BY <1>1, Turned DEF Inv, WordsOK
<1>4. turn > 0 => turn \in Turns  BY <1>1 DEF Turns
<1>5. Len(history) = 1 => turn = 0 /\ Last(history).role # "assistant"
  BY <1>1, <1>3
<1>6. \A t \in Turns : t \in Nat /\ t # 0 /\ (t = turn \/ t < turn \/ t > turn)
  BY <1>1 DEF Turns
<1> QED  BY <1>1, <1>2, <1>3, <1>4, <1>5, <1>6, Floor DEF State

LEMMA GenerateTasks ==
    ASSUME Inv, Types', GenerateResponse, Last(history).role # "assistant",
           \A w \in Interrupters : awaits[w] = 0, UNCHANGED <<output, awaits>>,
           recv' # "closing", stt' # "closing"
    PROVE  TasksOK'
<1>1. turn' = turn + 1 /\ turn' \in Turns /\ turn \in Nat
  BY InvFacts, BoundsAssumption DEF GenerateResponse, Turns
<1>2. quest.llm \in 0..MaxTurns /\ quest.llm \in {0, turn} /\ quest \in [llm : 0..MaxTurns, tts : 0..MaxTurns]
      /\ tts \in [Turns -> {"none", "init", "playing", "sleeping", "done"}]
      /\ llm \in [Turns -> {"none", "created", "streaming", "connecting", "done"}]
      /\ interrupted \subseteq Turns
  BY DEF Inv, Types, TypeOK, TasksOK, QuestOK
<1>3. \A t \in Turns : llm'[t] = IF t = turn + 1 THEN "created" ELSE IF t = quest.llm THEN "done" ELSE llm[t]
  <2>1. /\ Cancelled(llm, quest.llm) \in [Turns -> {"none", "created", "streaming", "connecting", "done"}]
        /\ \A u \in Turns : Cancelled(llm, quest.llm)[u] = IF u = quest.llm THEN "done" ELSE llm[u]
    BY <1>2 DEF Cancelled, Turns
  <2> QED  BY <1>1, <2>1 DEF GenerateResponse
<1>4. quest'.llm = turn + 1 /\ quest'.tts = quest.tts
  <2>1. quest' = [llm |-> turn + 1, tts |-> quest.tts]
    BY <1>2, QuestChanges, Zenon DEF GenerateResponse
  <2> QED  BY <2>1
<1>5. tts' = tts /\ ws' = ws /\ generating' = generating /\ interrupted' = interrupted /\ awaits' = awaits
  BY DEF GenerateResponse, output
<1>6. Last(history') = Message("assistant", <<>>)
  BY AfterDelta, Deltas DEF GenerateResponse, Inv, Types, Roles, Last
<1>7. \A t \in Turns : tts[t] \notin {"init", "playing"} /\ ws[t] \notin {"open", "closing"} /\ llm[t] # "created"
  <2>1. \A t \in Turns : ~Speaks(t)  BY DEF Speaks
  <2>2. \A t \in Turns : ws[t] # "closing"
    BY InvFacts DEF Inv, TasksOK, TtsOK
  <2>3. \A t \in Turns : tts[t] \notin {"init", "playing"}  BY <2>1, <2>2 DEF Inv, TasksOK, TtsOK
  <2>4. \A t \in Turns : llm[t] # "created"
    <3>1. Message("assistant", <<>>).role = "assistant"  BY DEF Message
    <3> QED  BY <3>1 DEF Inv, TasksOK, LlmOK
  <2> QED  BY <2>2, <2>3, <2>4 DEF Inv, TasksOK, TtsOK
<1>8. LlmOK'
  <2> SUFFICES ASSUME NEW t \in Turns
               PROVE  /\ llm'[t] = "none" <=> t > turn + 1
                      /\ llm'[t] \in {"created", "streaming", "connecting"} => t = turn + 1
                      /\ llm'[t] \in {"none", "created"} => tts[t] = "none" /\ t \notin interrupted
    BY <1>1, <1>4, <1>5, <1>6 DEF LlmOK
  <2>1. /\ llm[t] = "none" <=> t > turn
        /\ llm[t] \in {"created", "streaming", "connecting"} => quest.llm = t
        /\ llm[t] \in {"none", "created"} => tts[t] = "none" /\ t \notin interrupted
        /\ llm[t] # "created" /\ llm[t] \in {"none", "created", "streaming", "connecting", "done"}
    BY <1>2, <1>7 DEF Inv, TasksOK, LlmOK
  <2>2. t \in Nat /\ t # 0  BY InvFacts
  <2>3. CASE t = turn + 1
    <3>1. llm'[t] = "created" /\ llm[t] = "none"  BY <1>1, <1>3, <2>1, <2>3
    <3>2. ~(t > turn + 1)  BY <1>1, <2>3
    <3> QED  BY <2>1, <2>3, <3>1, <3>2
  <2>4. CASE t # turn + 1 /\ t = quest.llm
    <3>1. llm'[t] = "done"  BY <1>3, <2>4
    <3>2. ~(t > turn + 1)  BY <1>1, <1>2, <2>2, <2>4
    <3> QED  BY <3>1, <3>2
  <2>5. CASE t # turn + 1 /\ t # quest.llm
    <3>1. llm'[t] = llm[t]  BY <1>3, <2>5
    <3>2. t > turn <=> t > turn + 1  BY <1>1, <2>2, <2>5
    <3> QED  BY <2>1, <2>5, <3>1, <3>2
  <2> QED  BY <2>3, <2>4, <2>5
<1>9. TtsOK'  BY <1>5, <1>7 DEF Inv, TasksOK, TtsOK
<1>10. QuestOK'  BY <1>1, <1>4, <1>5 DEF Inv, TasksOK, QuestOK
<1>11. AwaitsOK'  BY <1>5 DEF AwaitsOK, Interrupters
<1> QED  BY <1>8, <1>9, <1>10, <1>11 DEF TasksOK

LEMMA LlmTasks == ASSUME Inv, Types', NEW t \in Turns, Llm(t) PROVE TasksOK'
<1>1. /\ quest \in [llm : 0..MaxTurns, tts : 0..MaxTurns] /\ quest.tts \in 0..MaxTurns
      /\ tts \in [Turns -> {"none", "init", "playing", "sleeping", "done"}]
      /\ ws \in [Turns -> {"none", "open", "closing", "closed", "gone"}]
      /\ llm \in [Turns -> {"none", "created", "streaming", "connecting", "done"}]
      /\ generating \in [Turns -> Nat]
  BY DEF Inv, Types, TypeOK
<1>2. CASE LlmStart(t)
  <2>1. quest.llm = t /\ t = turn /\ tts[t] = "none" /\ ws[t] = "none" /\ t \notin interrupted /\ llm[t] = "created"
        /\ Last(history) = Message("assistant", <<>>)
    BY <1>2, InvFacts DEF LlmStart, Inv, TasksOK, LlmOK, TtsOK, QuestOK
  <2>2. \A w \in Interrupters : awaits[w] = 0  BY <2>1 DEF Inv, TasksOK, AwaitsOK
  <2>3. \A u \in Turns : ws[u] \notin {"open", "closing"} /\ tts[u] \notin {"init", "playing"}
    <3>1. \A u \in Turns : ws[u] # "closing"
      BY <2>2, InvFacts DEF Inv, TasksOK, TtsOK
    <3>2. \A u \in Turns : Speaks(u) => tts[u] = "none"  BY <2>1 DEF Speaks
    <3>3. \A u \in Turns : tts[u] \notin {"init", "playing"}  BY <3>1, <3>2 DEF Inv, TasksOK, TtsOK
    <3> QED  BY <3>1, <3>3 DEF Inv, TasksOK, TtsOK
  <2>4. \A u \in Turns : llm'[u] = IF u = t THEN "streaming" ELSE llm[u]
    BY <1>1, <1>2 DEF LlmStart
  <2>5. \A u \in Turns : tts'[u] = IF u = t THEN "init" ELSE IF u = quest.tts THEN "done" ELSE tts[u]
    <3>1. /\ Cancelled(tts, quest.tts) \in [Turns -> {"none", "init", "playing", "sleeping", "done"}]
          /\ \A u \in Turns : Cancelled(tts, quest.tts)[u] = IF u = quest.tts THEN "done" ELSE tts[u]
      BY <1>1 DEF Cancelled, Turns
    <3> QED  BY <1>2, <3>1 DEF LlmStart
  <2>6. \A u \in Turns : ws'[u] = IF u = quest.tts /\ ws[u] # "none" THEN "gone" ELSE ws[u]
    <3>1. TypeOK  BY DEF Inv, Types
    <3>2. ws' = Shut(quest.tts)  BY <1>2 DEF LlmStart
    <3> QED  BY <1>1, <3>1, <3>2, ShutEffect
  <2>7. \A u \in Turns : generating'[u] = IF u = t THEN Len(history) ELSE generating[u]
    BY <1>1, <1>2 DEF LlmStart
  <2>8. quest'.llm = quest.llm /\ quest'.tts = t
    <3>1. quest' = [llm |-> quest.llm, tts |-> t]
      BY <1>1, <1>2, QuestChanges, Zenon DEF LlmStart
    <3> QED  BY <3>1
  <2>9. UNCHANGED <<history, turn, interrupted, awaits, recv, stt, flush>>
    BY <1>2 DEF LlmStart, output, input
  <2>10. LlmOK'
    <3>1. \A u \in Turns : u # t => llm[u] \notin {"created", "streaming", "connecting"}
      BY <2>1 DEF Inv, TasksOK, LlmOK
    <3>2. \A u \in Turns : llm'[u] = "none" <=> u > turn
      BY <2>1, <2>4 DEF Inv, TasksOK, LlmOK
    <3>3. \A u \in Turns : tts[u] = "none" => u # quest.tts  BY DEF Inv, TasksOK, QuestOK, Turns
    <3> QED  BY <2>1, <2>4, <2>5, <2>8, <2>9, <3>1, <3>2, <3>3 DEF Inv, TasksOK, LlmOK
  <2>11. Speaks(t)'
    <3>1. Message("assistant", <<>>).role = "assistant"  BY DEF Message
    <3> QED  BY <2>1, <2>7, <2>8, <2>9, <3>1 DEF Speaks
  <2>12. TtsOK'
    <3> SUFFICES ASSUME NEW u \in Turns
                 PROVE  (/\ tts[u] = "none" => ws[u] = "none" /\ generating[u] = 0
                         /\ tts[u] = "init" => ws[u] = "none" /\ Speaks(u)
                         /\ tts[u] = "playing" => ws[u] = "closing" \/ (ws[u] \in {"open", "closed"} /\ Speaks(u))
                         /\ ws[u] = "open" => tts[u] = "playing"
                         /\ ws[u] = "closing" => \E w \in Interrupters : awaits[w] = u)'
      BY DEF TtsOK
    <3>1. CASE u = t
      <4>1. tts'[u] = "init" /\ ws'[u] = "none"  BY <2>1, <2>5, <2>6, <3>1
      <4> QED  BY <2>11, <3>1, <4>1
    <3>2. CASE u # t
      <4>1. tts'[u] \notin {"init", "playing"} /\ ws'[u] \notin {"open", "closing"}
        BY <2>3, <2>5, <2>6, <3>2
      <4>2. tts'[u] = "none" => tts[u] = "none" /\ u # quest.tts  BY <2>5, <3>2
      <4>3. tts'[u] = "none" => ws'[u] = "none" /\ generating'[u] = 0
        BY <2>6, <2>7, <3>2, <4>2 DEF Inv, TasksOK, TtsOK
      <4> QED  BY <4>1, <4>3
    <3> QED  BY <3>1, <3>2
  <2>13. QuestOK'
    <3>1. tts'[t] # "none"  BY <2>5
    <3> QED  BY <2>1, <2>8, <2>9, <3>1 DEF QuestOK
  <2>14. AwaitsOK'  BY <2>2, <2>9 DEF Inv, TasksOK, AwaitsOK, Interrupters
  <2> QED  BY <2>10, <2>12, <2>13, <2>14 DEF TasksOK
<1>3. CASE ~LlmStart(t)
  <2>1. /\ UNCHANGED <<history, turn, tts, ws, generating, quest, interrupted, awaits, recv, stt, flush>>
        /\ llm' = llm \/ (llm[t] \in {"streaming", "connecting"}
                          /\ \E x \in {"streaming", "connecting", "done"} : llm' = [llm EXCEPT ![t] = x])
    <3>1. ASSUME NEW b, EndOfText(t, b)
          PROVE  /\ UNCHANGED <<history, turn, tts, ws, generating, quest, interrupted, awaits, recv, stt, flush>>
                 /\ llm' = [llm EXCEPT ![t] = "done"]
      BY <3>1 DEF EndOfText, talk, output, input
    <3>2. CASE SendDelta(t) /\ llm[t] \in {"streaming", "connecting"}
      <4>1. CASE EndOfText(t, TRUE)  BY <3>1, <3>2, <4>1
      <4>2. CASE ~EndOfText(t, TRUE)  BY <3>2, <4>2 DEF SendDelta, talk, output, input
      <4> QED  BY <4>1, <4>2
    <3>3. CASE LlmDelta(t)
      <4>1. CASE SendDelta(t)  BY <3>2, <3>3, <4>1 DEF LlmDelta
      <4>2. CASE ~SendDelta(t)  BY <3>3, <4>2 DEF LlmDelta, talk, output, input
      <4> QED  BY <4>1, <4>2
    <3>4. CASE LlmGetsTts(t)  BY <3>2, <3>4 DEF LlmGetsTts
    <3>5. CASE LlmEnd(t)
      <4>1. EndOfText(t, sent[t] > 0) /\ llm[t] \in {"streaming", "connecting"}  BY <3>5 DEF LlmEnd
      <4> QED  BY <3>1, <4>1
    <3>6. CASE LlmFails(t)  BY <3>6 DEF LlmFails, talk, quests, output, input
    <3> QED  BY <1>3, <3>3, <3>4, <3>5, <3>6 DEF Llm
  <2>2. \A u \in Turns : llm'[u] = llm[u]
            \/ (u = t /\ llm[u] \in {"streaming", "connecting"} /\ llm'[u] \in {"streaming", "connecting", "done"})
    BY <1>1, <2>1
  <2>3. LlmOK'  BY <2>1, <2>2 DEF Inv, TasksOK, LlmOK
  <2>4. TtsOK'  BY <2>1 DEF Inv, TasksOK, TtsOK, Speaks
  <2>5. QuestOK'  BY <2>1 DEF Inv, TasksOK, QuestOK
  <2>6. AwaitsOK'
    <3>1. turn \in Turns => (llm[turn] # "created" => llm'[turn] # "created")  BY <2>2
    <3> QED  BY <2>1, <3>1 DEF Inv, TasksOK, AwaitsOK
  <2> QED  BY <2>3, <2>4, <2>5, <2>6 DEF TasksOK
<1> QED  BY <1>2, <1>3

\* What a TTS may know of itself.
LEMMA TtsFacts ==
    ASSUME Inv, NEW t \in Turns
    PROVE  /\ t <= turn <=> llm[t] # "none"
           /\ tts[t] # "none" => t \in 1..turn
           /\ Speaks(t) => t = turn /\ ~Outdated(history, generating[t])
           /\ tts[t] \in {"init", "playing"} => t = turn /\ llm[t] # "created"
           /\ ws[t] = "open" => Speaks(t)
           /\ tts[t] = "playing" /\ ws[t] = "closing" => quest.tts = 0
           /\ ~Outdated(history, generating[t]) /\ tts[t] # "none" =>
                t = turn /\ generating[t] = Len(history) /\ Last(history).role = "assistant"
<1>1. turn \in Nat /\ Len(history) \in Nat /\ t \in Nat /\ t # 0 /\ t >= 1
  BY InvFacts DEF Turns
<1>2. llm[t] = "none" <=> t > turn  BY DEF Inv, TasksOK, LlmOK
<1>3. tts[t] # "none" => llm[t] \notin {"none", "created"}  BY DEF Inv, TasksOK, LlmOK
<1>4. tts[t] # "none" => t \in 1..turn  BY <1>1, <1>2, <1>3
<1>5. Speaks(t) => t = turn /\ ~Outdated(history, generating[t])
  BY <1>1 DEF Speaks, Outdated
<1>6. ws[t] = "closing" => t = turn /\ quest.tts = 0
  BY <1>1 DEF Inv, TasksOK, TtsOK, AwaitsOK
<1>7. tts[t] \in {"init", "playing"} => t = turn
  BY <1>5, <1>6 DEF Inv, TasksOK, TtsOK
<1>8. ws[t] = "open" => Speaks(t)  BY DEF Inv, TasksOK, TtsOK
<1>9. ~Outdated(history, generating[t]) /\ tts[t] # "none" =>
        t = turn /\ generating[t] = Len(history) /\ Last(history).role = "assistant"
  <2> SUFFICES ASSUME ~Outdated(history, generating[t]), tts[t] # "none"
               PROVE  t = turn /\ generating[t] = Len(history) /\ Last(history).role = "assistant"
    OBVIOUS
  <2>1. generating[t] \in Nat /\ history \in Histories /\ turn \in 0..MaxTurns
    BY DEF Inv, Types, TypeOK
  <2>2. generating[t] >= Len(history)  BY <1>1, <2>1 DEF Outdated
  <2> QED  BY <1>4, <2>1, <2>2, LastIsCurrent DEF Inv, WordsOK
<1>10. t <= turn <=> llm[t] # "none"  BY <1>1, <1>2
<1> QED  BY <1>3, <1>4, <1>5, <1>6, <1>7, <1>8, <1>9, <1>10

LEMMA TtsTasks == ASSUME Inv, Types', NEW t \in Turns, Tts(t) PROVE TasksOK'
<1>1. /\ tts \in [Turns -> {"none", "init", "playing", "sleeping", "done"}]
      /\ ws \in [Turns -> {"none", "open", "closing", "closed", "gone"}]
      /\ history \in Histories
  BY DEF Inv, Types, TypeOK
<1>2. UNCHANGED <<turn, llm, generating, quest, interrupted, recv, stt, awaits, flush>>
  <2>1. CASE TtsReady(t) \/ TtsInitFails(t)  BY <2>1 DEF TtsReady, TtsInitFails, talk, quests, output, input
  <2>2. CASE TtsAudio(t) \/ TtsText(t)  BY <2>2 DEF TtsAudio, TtsText, talk, quests, input
  <2>3. ASSUME NEW x, EndOfTurn(t, x)
        PROVE  UNCHANGED <<turn, llm, generating, quest, interrupted, recv, stt, awaits, flush>>
    BY <2>3 DEF EndOfTurn, input
  <2>4. CASE TtsBreak(t) \/ TtsEnd(t) \/ TtsConnectionFails(t)
    BY <2>3, <2>4 DEF TtsBreak, TtsEnd, TtsConnectionFails
  <2>5. CASE TtsServerCloses(t) \/ TtsSleepEnds(t)
    BY <2>5 DEF TtsServerCloses, TtsSleepEnds, talk, output, input
  <2> QED  BY <2>1, <2>2, <2>4, <2>5 DEF Tts
<1>3. QuestOK' <=> (quest.tts # 0 => tts'[quest.tts] # "none")
  BY <1>2 DEF Inv, TasksOK, QuestOK
<1>4. AwaitsOK'  BY <1>2 DEF Inv, TasksOK, AwaitsOK
<1>5. ASSUME history' = history, NEW x \in {"init", "playing", "sleeping", "done"},
             NEW y \in {"none", "open", "closing", "closed", "gone"},
             tts[t] # "none", tts' = [tts EXCEPT ![t] = x], ws' = [ws EXCEPT ![t] = y],
             x \in {"init", "playing"} => x = "playing" /\ y \in {"open", "closed"} /\ Speaks(t),
             y = "open" => x = "playing", y = "closing" => ws[t] = "closing"
      PROVE  TasksOK'
  <2>1. \A u \in Turns : tts'[u] = (IF u = t THEN x ELSE tts[u]) /\ ws'[u] = (IF u = t THEN y ELSE ws[u])
    BY <1>1, <1>5
  <2>2. LlmOK'
    <3> SUFFICES ASSUME NEW u \in Turns
                 PROVE  (/\ llm[u] = "none" <=> u > turn
                         /\ llm[u] \in {"created", "streaming", "connecting"} => quest.llm = u
                         /\ llm[u] \in {"none", "created"} => tts[u] = "none" /\ u \notin interrupted
                         /\ llm[u] = "created" => Last(history) = Message("assistant", <<>>))'
      BY DEF LlmOK
    <3>1. llm[u] \in {"none", "created"} => tts'[u] = "none"
      BY <1>5, <2>1 DEF Inv, TasksOK, LlmOK
    <3> QED  BY <1>2, <1>5, <3>1 DEF Inv, TasksOK, LlmOK
  <2>3. TtsOK'
    <3>1. \A u \in Turns : Speaks(u)' <=> Speaks(u)  BY <1>2, <1>5 DEF Speaks
    <3> QED  BY <1>2, <1>5, <2>1, <3>1 DEF Inv, TasksOK, TtsOK
  <2>4. QuestOK'  BY <1>3, <1>5, <2>1 DEF Inv, TasksOK, QuestOK
  <2> QED  BY <1>4, <2>2, <2>3, <2>4 DEF TasksOK
<1>6. ASSUME Last(history').role = Last(history).role, Len(history') = Len(history),
             UNCHANGED <<tts, ws>>, Last(history).role # "assistant" \/ llm[turn] # "created" \/ history' = history
      PROVE  TasksOK'
  <2>1. LlmOK'
    <3>1. \A u \in Turns : llm[u] = "created" => u = turn /\ Last(history).role = "assistant"
      BY InvFacts DEF Inv, TasksOK, LlmOK, QuestOK, Message
    <3> QED  BY <1>2, <1>6, <3>1 DEF Inv, TasksOK, LlmOK
  <2>2. TtsOK'
    <3>1. \A u \in Turns : Speaks(u)' <=> Speaks(u)  BY <1>2, <1>6 DEF Speaks
    <3> QED  BY <1>2, <1>6, <3>1 DEF Inv, TasksOK, TtsOK
  <2>3. QuestOK'  BY <1>2, <1>6 DEF Inv, TasksOK, QuestOK
  <2> QED  BY <1>4, <2>1, <2>2, <2>3 DEF TasksOK
<1>7. ASSUME NEW y \in {"closing", "closed", "gone"}, EndOfTurn(t, y), tts[t] = "playing", y = "closing" => ws[t] = "closing"
      PROVE  TasksOK'
  <2>1. \A u \in Turns : tts'[u] = (IF u = t THEN "sleeping" ELSE tts[u]) /\ ws'[u] = (IF u = t THEN y ELSE ws[u])
    BY <1>1, <1>7 DEF EndOfTurn
  <2>2. \A u \in Turns : u # t => tts[u] \notin {"init", "playing"}
    BY <1>7, TtsFacts
  <2>3. \A u \in Turns : llm[u] # "created"
    <3>1. \A u \in Turns : llm[u] = "created" => u = turn /\ tts[u] = "none"
      BY InvFacts DEF Inv, TasksOK, LlmOK, QuestOK
    <3> QED  BY <1>7, <3>1, TtsFacts
  <2>4. LlmOK'
    <3>1. \A u \in Turns : tts'[u] = "none" <=> tts[u] = "none"  BY <1>7, <2>1
    <3> QED  BY <1>2, <2>3, <3>1 DEF Inv, TasksOK, LlmOK
  <2>5. TtsOK'
    <3>1. \A u \in Turns : tts'[u] \notin {"init", "playing"}  BY <2>1, <2>2
    <3>2. \A u \in Turns : ws'[u] # "open"
      BY <2>1, <2>2 DEF Inv, TasksOK, TtsOK
    <3>3. \A u \in Turns : ws'[u] = "closing" => ws[u] = "closing"  BY <1>7, <2>1
    <3>4. \A u \in Turns : tts'[u] = "none" => tts[u] = "none" /\ ws'[u] = ws[u]  BY <2>1
    <3> QED  BY <1>2, <3>1, <3>2, <3>3, <3>4 DEF Inv, TasksOK, TtsOK
  <2>6. QuestOK'  BY <1>3, <2>1 DEF Inv, TasksOK, QuestOK
  <2> QED  BY <1>4, <2>4, <2>5, <2>6 DEF TasksOK
<1>8. CASE TtsReady(t)
  <2>1. Speaks(t)  BY <1>8 DEF TtsReady, Inv, TasksOK, TtsOK
  <2>2. /\ history' = history /\ tts[t] = "init" /\ tts' = [tts EXCEPT ![t] = "playing"]
        /\ ws' = [ws EXCEPT ![t] = "open"]
    BY <1>8 DEF TtsReady, talk
  <2> QED  BY <1>5, <2>1, <2>2
<1>9. CASE TtsInitFails(t) \/ TtsAudio(t)
  <2>1. UNCHANGED <<history, tts, ws>>
    BY <1>9 DEF TtsInitFails, TtsAudio, talk, quests
  <2> QED  BY <1>6, <2>1
<1>10. CASE TtsText(t)
  <2>1. tts[t] = "playing" /\ ~Outdated(history, generating[t])  BY <1>10 DEF TtsText, Releases
  <2>2. t = turn /\ Last(history).role = "assistant" /\ llm[turn] # "created"
    BY <2>1, TtsFacts
  <2>3. history' = AddDelta(history, <<BotWord(t)>>, "assistant")
    BY <1>10, <2>1 DEF TtsText, AddDeltaTo
  <2>4. Last(history').role = Last(history).role /\ Len(history') = Len(history)
    <3>1. <<BotWord(t)>> \in Seq(Words) /\ "assistant" \in Roles  BY Deltas DEF Roles
    <3>2. history[Len(history)].role = "assistant"  BY <2>2 DEF Last
    <3>3. Len(history') = Len(history) /\ Last(history').role = "assistant"
      BY <1>1, <2>3, <3>1, <3>2, SameMessageEffect, Zenon
    <3> QED  BY <2>2, <3>3
  <2>5. UNCHANGED <<tts, ws>>  BY <1>10 DEF TtsText
  <2> QED  BY <1>6, <2>2, <2>4, <2>5
<1>11. CASE TtsBreak(t)
  <2>1. tts[t] = "playing" /\ ws[t] \in {"open", "closing", "closed"} /\ EndOfTurn(t, ws[t]) /\ ~Speaks(t)
    BY <1>11, TtsFacts DEF TtsBreak, Releases
  <2>2. ws[t] = "closing"  BY <2>1 DEF Inv, TasksOK, TtsOK
  <2> QED  BY <1>7, <2>1, <2>2
<1>12. CASE TtsServerCloses(t)
  <2>1. Speaks(t)  BY <1>12, TtsFacts DEF TtsServerCloses
  <2>2. /\ history' = history /\ tts[t] = "playing" /\ tts' = [tts EXCEPT ![t] = "playing"]
        /\ ws' = [ws EXCEPT ![t] = "closed"]
    BY <1>1, <1>12 DEF TtsServerCloses, talk
  <2> QED  BY <1>5, <2>1, <2>2
<1>13. CASE TtsEnd(t)  BY <1>7, <1>13 DEF TtsEnd
<1>14. CASE TtsConnectionFails(t)  BY <1>7, <1>14 DEF TtsConnectionFails
<1>15. CASE TtsSleepEnds(t)
  <2>1. /\ history' = history /\ tts[t] = "sleeping" /\ tts' = [tts EXCEPT ![t] = "done"]
        /\ ws' = [ws EXCEPT ![t] = ws[t]] /\ ws[t] \in {"none", "open", "closing", "closed", "gone"}
    BY <1>1, <1>15 DEF TtsSleepEnds, talk
  <2>2. ws[t] # "open"  BY <2>1 DEF Inv, TasksOK, TtsOK
  <2> QED  BY <1>5, <2>1, <2>2
<1> QED  BY <1>8, <1>9, <1>10, <1>11, <1>12, <1>13, <1>14, <1>15 DEF Tts

\* Both ways to go on after an interruption, and to interrupt at once.
LEMMA AfterTasks ==
    ASSUME Inv, Types', NEW w \in Interrupters,
           recv' = (IF w = "recv" THEN "idle" ELSE recv), stt' = (IF w = "stt" THEN "idle" ELSE stt),
           Last(history').role = "user", quest' = [llm |-> 0, tts |-> 0],
           turn \in Turns, turn' = turn, flush' = flush, generating' = generating,
           interrupted' = interrupted \/ interrupted' = interrupted \cup {turn},
           llm' = Cancelled(llm, quest.llm),
           NEW c \in 0..MaxTurns, tts' = Cancelled(tts, c), ws' = Shut(c), c \in {0, turn} \/ tts[c] # "none",
           c # turn => \A t \in Turns : tts[t] \notin {"init", "playing"} \/ ws[t] = "closing",
           \A t \in Turns : ws[t] = "open" => t = c,
           \A t \in Turns : ws[t] = "closing" => t = c \/ \E x \in Interrupters : x # w /\ awaits[x] = t,
           awaits'[w] = 0, \A x \in Interrupters : x # w => awaits'[x] = awaits[x]
    PROVE  TasksOK'
<1>1. /\ tts \in [Turns -> {"none", "init", "playing", "sleeping", "done"}] /\ quest.llm \in 0..MaxTurns
      /\ ws \in [Turns -> {"none", "open", "closing", "closed", "gone"}]
      /\ llm \in [Turns -> {"none", "created", "streaming", "connecting", "done"}] /\ TypeOK
  BY DEF Inv, Types, TypeOK
<1>2. quest'.llm = 0 /\ quest'.tts = 0  OBVIOUS
<1>3. \A t \in Turns : llm'[t] = IF t = quest.llm THEN "done" ELSE llm[t]
  BY <1>1 DEF Cancelled, Turns
<1>4. \A t \in Turns : tts'[t] = IF t = c THEN "done" ELSE tts[t]
  BY <1>1 DEF Cancelled, Turns
<1>5. \A t \in Turns : ws'[t] = IF t = c /\ ws[t] # "none" THEN "gone" ELSE ws[t]
  BY <1>1, ShutEffect
<1>6. \A t \in Turns : llm'[t] \notin {"created", "streaming", "connecting"}
  BY <1>3 DEF Inv, TasksOK, LlmOK
<1>7. \A t \in Turns : /\ llm'[t] = "none" <=> llm[t] = "none"
                       /\ t # turn => (tts'[t] = "none" <=> tts[t] = "none")
  <2>1. quest.llm # 0 => quest.llm = turn  BY DEF Inv, TasksOK, QuestOK
  <2>2. llm[turn] # "none"  BY InvFacts DEF Inv, TasksOK, LlmOK
  <2>3. \A t \in Turns : t # 0  BY DEF Turns
  <2> QED  BY <1>3, <1>4, <2>1, <2>2, <2>3
<1>8. LlmOK'
  <2> SUFFICES ASSUME NEW t \in Turns
               PROVE  /\ llm'[t] = "none" <=> t > turn
                      /\ llm'[t] = "none" => tts'[t] = "none" /\ t \notin interrupted'
    BY <1>6 DEF LlmOK
  <2>1. (llm[t] = "none" <=> t > turn) /\ (llm[t] = "none" => tts[t] = "none" /\ t \notin interrupted)
    BY DEF Inv, TasksOK, LlmOK
  <2>2. llm[t] = "none" => t # turn  BY <2>1, InvFacts
  <2>3. (llm'[t] = "none" <=> llm[t] = "none") /\ (t # turn => (tts'[t] = "none" <=> tts[t] = "none"))
    BY <1>7
  <2>4. t # turn /\ t \notin interrupted => t \notin interrupted'  OBVIOUS
  <2> QED  BY <2>1, <2>2, <2>3, <2>4, Zenon
<1>9. \A t \in Turns : tts'[t] \in {"init", "playing"} => t # c /\ ws[t] = "closing" /\ tts'[t] = "playing"
  <2> SUFFICES ASSUME NEW t \in Turns, tts'[t] \in {"init", "playing"}
               PROVE  t # c /\ ws[t] = "closing" /\ tts'[t] = "playing"
    OBVIOUS
  <2>1. t # c /\ tts'[t] = tts[t]  BY <1>4
  <2>2. CASE c = turn
    <3>1. t # turn /\ ~Speaks(t)  BY <2>1, <2>2 DEF Speaks
    <3> QED  BY <2>1, <3>1 DEF Inv, TasksOK, TtsOK
  <2>3. CASE c # turn
    <3>1. ws[t] = "closing"  BY <2>1, <2>3
    <3> QED  BY <2>1, <3>1 DEF Inv, TasksOK, TtsOK
  <2> QED  BY <2>2, <2>3
<1>10. TtsOK'
  <2> SUFFICES ASSUME NEW t \in Turns
               PROVE  (/\ tts[t] = "none" => ws[t] = "none" /\ generating[t] = 0
                       /\ tts[t] = "init" => ws[t] = "none" /\ Speaks(t)
                       /\ tts[t] = "playing" => ws[t] = "closing" \/ (ws[t] \in {"open", "closed"} /\ Speaks(t))
                       /\ ws[t] = "open" => tts[t] = "playing"
                       /\ ws[t] = "closing" => \E x \in Interrupters : awaits[x] = t)'
    BY DEF TtsOK
  <2>1. tts'[t] = "none" => ws'[t] = "none" /\ generating'[t] = 0
    <3>1. tts'[t] = "none" => tts[t] = "none" /\ ws'[t] = ws[t]  BY <1>4, <1>5
    <3> QED  BY <3>1 DEF Inv, TasksOK, TtsOK
  <2>2. tts'[t] # "init" /\ (tts'[t] = "playing" => ws'[t] = "closing")  BY <1>5, <1>9
  <2>3. ws'[t] # "open"
    <3>1. t = c => ws[t] = "none" \/ ws'[t] = "gone"  BY <1>5
    <3> QED  BY <1>5, <3>1
  <2>4. ws'[t] = "closing" => \E x \in Interrupters : awaits'[x] = t
    <3>1. ws'[t] = "closing" => ws[t] = "closing" /\ t # c  BY <1>5
    <3> QED  BY <3>1
  <2> QED  BY <2>1, <2>2, <2>3, <2>4
<1>11. QuestOK'  BY <1>2 DEF QuestOK
<1>12. AwaitsOK'
  <2>1. \A x \in Interrupters : awaits'[x] # 0 => awaits'[x] = turn
    BY DEF Inv, TasksOK, AwaitsOK
  <2>2. llm'[turn] # "created"  BY <1>6
  <2>3. recv' = "closing" <=> awaits'["recv"] # 0
    BY DEF Inv, TasksOK, AwaitsOK, Interrupters
  <2>4. stt' = "closing" <=> awaits'["stt"] # 0
    BY DEF Inv, TasksOK, AwaitsOK, Interrupters
  <2>5. stt' = "closing" => flush' # "passed"
    BY DEF Inv, TasksOK, AwaitsOK, Interrupters
  <2> QED  BY <1>2, <2>1, <2>2, <2>3, <2>4, <2>5 DEF AwaitsOK
<1> QED  BY <1>8, <1>10, <1>11, <1>12 DEF TasksOK

\* The history after the interruption ends with a message of the user.
LEMMA AfterSays ==
    ASSUME NEW w \in Interrupters, NEW h \in Histories, AfterInterruption(w, h)
    PROVE  /\ Last(history').role = "user"
           /\ Last(h).role = "user" /\ Last(h).content # <<>> => Last(history').content # <<>>
<1>1. PICK d \in {<<>>, <<UserWord>>} : history' = AddDelta(h, d, "user")
  BY DEF AfterInterruption
<1>2. d \in Seq(Words) /\ "user" \in Roles  BY Deltas DEF Roles
<1>3. Last(history').role = "user"  BY <1>1, <1>2, AfterDelta
<1>4. h[Len(h)].role = "user" => Last(history').content = Last(h).content \o d
  BY <1>1, <1>2, AfterDelta
<1>5. Last(h).content \in Seq(Words)  BY Lengths DEF Last
<1>6. \A c \in Seq(Words) : c # <<>> => c \o d # <<>>  BY <1>2
<1> QED  BY <1>3, <1>4, <1>5, <1>6 DEF Last

LEMMA InterruptTasks ==
    ASSUME Inv, Types', NEW w \in Interrupters, awaits[w] = 0, State = "bot_speaking", InterruptBot(w)
    PROVE  TasksOK'
<1>1. turn \in Turns /\ Last(history).role = "assistant"  BY InvFacts
<1>2. /\ tts \in [Turns -> {"none", "init", "playing", "sleeping", "done"}]
      /\ ws \in [Turns -> {"none", "open", "closing", "closed", "gone"}]
      /\ history \in Histories /\ WithDash \in Histories /\ quest.tts \in 0..MaxTurns
      /\ awaits \in [Interrupters -> 0..MaxTurns]
  BY DashTypes DEF Inv, Types, TypeOK
<1>3. CASE InterruptAtOnce(w)
  <2>1. Last(history').role = "user"  BY <1>2, <1>3, AfterSays DEF InterruptAtOnce
  <2>2. \A t \in Turns : ~Speaks(t) \/ quest.tts = t  BY DEF Speaks
  <2>3. quest.tts # turn => \A t \in Turns : tts[t] \notin {"init", "playing"} \/ ws[t] = "closing"
    BY DEF Inv, TasksOK, TtsOK, Speaks
  <2>4. \A t \in Turns : ws[t] = "open" => t = quest.tts
    BY <2>2 DEF Inv, TasksOK, TtsOK
  <2>5. \A t \in Turns : ws[t] = "closing" => \E x \in Interrupters : x # w /\ awaits[x] = t
    BY InvFacts DEF Inv, TasksOK, TtsOK
  <2>6. quest.tts \in {0, turn} \/ tts[quest.tts] # "none"  BY DEF Inv, TasksOK, QuestOK
  <2>7. /\ turn' = turn /\ flush' = flush /\ generating' = generating /\ awaits' = awaits
        /\ interrupted' = interrupted \cup {turn} /\ llm' = Cancelled(llm, quest.llm)
        /\ quest' = [llm |-> 0, tts |-> 0]
        /\ tts' = Cancelled(tts, quest.tts) /\ ws' = Shut(quest.tts)
        /\ recv' = (IF w = "recv" THEN "idle" ELSE recv)
        /\ stt' = (IF w = "stt" THEN "idle" ELSE stt)
    BY <1>3 DEF InterruptAtOnce, SwapQueue, AfterInterruption
  <2> QED  BY <1>1, <1>2, <2>1, <2>3, <2>4, <2>5, <2>6, <2>7, AfterTasks
<1>4. CASE InterruptCloses(w)
  <2>1. quest.tts = turn /\ ws[turn] = "open" /\ Speaks(turn)
    <3>1. quest.tts \in Turns /\ ws[quest.tts] = "open"
      BY <1>4 DEF InterruptCloses, TtsIsOpen, Inv, TasksOK, QuestOK
    <3>2. Speaks(quest.tts)  BY <3>1, TtsFacts
    <3> QED  BY <3>1, <3>2 DEF Speaks
  <2>2. tts[turn] = "playing" /\ llm[turn] \notin {"none", "created"}
    <3>1. tts[turn] = "playing"  BY <1>1, <2>1 DEF Inv, TasksOK, TtsOK
    <3> QED  BY <1>1, <3>1 DEF Inv, TasksOK, LlmOK
  <2>3. \A x \in Interrupters : awaits[x] = 0  BY <1>1, <2>1, InvFacts DEF Inv, TasksOK, AwaitsOK
  <2>4. \A t \in Turns : ws'[t] = IF t = turn THEN "closing" ELSE ws[t]
    BY <1>2, <1>4, <2>1 DEF InterruptCloses
  <2>5. \A x \in Interrupters : awaits'[x] = IF x = w THEN turn ELSE 0
    BY <1>2, <1>4, <2>1, <2>3 DEF InterruptCloses
  <2>6. quest' = [llm |-> quest.llm, tts |-> 0]
    <3>1. quest \in [llm : 0..MaxTurns, tts : 0..MaxTurns]  BY DEF Inv, Types, TypeOK
    <3> QED  BY <1>4, <3>1, QuestChanges, Zenon DEF InterruptCloses
  <2>7. quest'.llm = quest.llm /\ quest'.tts = 0  BY <2>6
  <2>8. /\ UNCHANGED <<turn, llm, tts, generating, flush>> /\ interrupted' = interrupted \cup {turn}
        /\ recv' = (IF w = "recv" THEN "closing" ELSE recv)
        /\ stt' = (IF w = "stt" THEN "closing" ELSE stt)
    BY <1>4 DEF InterruptCloses, SwapQueue
  <2>9. LlmOK'
    <3>1. \A t \in Turns : llm[t] # "created"
      BY <2>2, InvFacts DEF Inv, TasksOK, LlmOK, QuestOK
    <3>2. \A t \in Turns : llm[t] = "none" => t # turn  BY <2>2
    <3> QED  BY <2>7, <2>8, <3>1, <3>2 DEF Inv, TasksOK, LlmOK
  <2>10. TtsOK'
    <3> SUFFICES ASSUME NEW t \in Turns
                 PROVE  (/\ tts[t] = "none" => ws[t] = "none" /\ generating[t] = 0
                         /\ tts[t] = "init" => ws[t] = "none" /\ Speaks(t)
                         /\ tts[t] = "playing" => ws[t] = "closing" \/ (ws[t] \in {"open", "closed"} /\ Speaks(t))
                         /\ ws[t] = "open" => tts[t] = "playing"
                         /\ ws[t] = "closing" => \E x \in Interrupters : awaits[x] = t)'
      BY DEF TtsOK
    <3>1. CASE t = turn  BY <2>2, <2>4, <2>5, <2>8, <3>1
    <3>2. CASE t # turn
      <4>1. tts[t] \notin {"init", "playing"}  BY <3>2, TtsFacts
      <4>2. ws[t] # "closing"  BY <2>3, InvFacts DEF Inv, TasksOK, TtsOK
      <4>3. ws[t] # "open"  BY <4>1 DEF Inv, TasksOK, TtsOK
      <4> QED  BY <2>4, <2>8, <3>2, <4>1, <4>2, <4>3 DEF Inv, TasksOK, TtsOK
    <3> QED  BY <3>1, <3>2
  <2>11. QuestOK'  BY <2>7, <2>8 DEF Inv, TasksOK, QuestOK
  <2>12. AwaitsOK'
    <3>1. flush = "none"  BY <1>1 DEF Inv, FlushOK
    <3>2. turn # 0 /\ "recv" \in Interrupters /\ "stt" \in Interrupters
      BY <1>1, InvFacts DEF Interrupters
    <3>3. \A x \in Interrupters : awaits'[x] # 0 =>
             (awaits[x] = turn /\ turn \in Turns /\ quest.tts = 0 /\ llm[turn] # "created")'
      BY <1>1, <2>2, <2>5, <2>7, <2>8
    <3>4. recv' = "closing" <=> awaits'["recv"] # 0
      BY <2>3, <2>5, <2>8, <3>2 DEF Inv, TasksOK, AwaitsOK
    <3>5. stt' = "closing" <=> awaits'["stt"] # 0
      BY <2>3, <2>5, <2>8, <3>2 DEF Inv, TasksOK, AwaitsOK
    <3> QED  BY <2>8, <3>1, <3>3, <3>4, <3>5 DEF AwaitsOK
  <2> QED  BY <2>9, <2>10, <2>11, <2>12 DEF TasksOK
<1> QED  BY <1>3, <1>4 DEF InterruptBot

LEMMA ContinueTasks ==
    ASSUME Inv, Types', NEW w \in Interrupters, InterruptContinues(w)
    PROVE  TasksOK'
<1>1. awaits[w] = turn /\ turn \in Turns /\ quest.tts = 0
  BY DEF InterruptContinues, Inv, TasksOK, AwaitsOK
<1>2. history \in Histories /\ turn \in 0..MaxTurns /\ awaits \in [Interrupters -> 0..MaxTurns]
      /\ quest \in [llm : 0..MaxTurns, tts : 0..MaxTurns]
  BY DEF Inv, Types, TypeOK
<1>3. Last(history').role = "user"  BY <1>2, AfterSays DEF InterruptContinues
<1>4. quest' = [llm |-> 0, tts |-> 0]
  <2>1. quest' = [llm |-> 0, tts |-> quest.tts]
    BY <1>2, QuestChanges, Zenon DEF InterruptContinues
  <2> QED  BY <1>1, <2>1
<1>5. \A t \in Turns : ws[t] = "open" => t = turn
  BY TtsFacts DEF Speaks
<1>6. \A t \in Turns : ws[t] = "closing" => t = turn
  BY InvFacts DEF Inv, TasksOK, TtsOK, AwaitsOK
<1>7. awaits'[w] = 0 /\ \A x \in Interrupters : x # w => awaits'[x] = awaits[x]
  BY <1>2 DEF InterruptContinues
<1>8. /\ turn' = turn /\ flush' = flush /\ generating' = generating /\ interrupted' = interrupted
      /\ llm' = Cancelled(llm, quest.llm) /\ tts' = Cancelled(tts, turn) /\ ws' = Shut(turn)
      /\ recv' = (IF w = "recv" THEN "idle" ELSE recv)
      /\ stt' = (IF w = "stt" THEN "idle" ELSE stt)
  BY <1>1 DEF InterruptContinues, AfterInterruption, output
<1> QED  BY <1>1, <1>2, <1>3, <1>4, <1>5, <1>6, <1>7, <1>8, AfterTasks

\* A step that leaves the tasks alone; no task minds what the user says while it
\* is not the bot's turn.
LEMMA QuietTasks ==
    ASSUME Inv, UNCHANGED <<turn, llm, tts, ws, generating, quest, interrupted, awaits>>,
           history' = history \/ Last(history).role # "assistant",
           recv' = recv \/ (recv # "closing" /\ recv' # "closing"),
           stt' = stt \/ (stt # "closing" /\ stt' # "closing"),
           flush' = "passed" => flush = "passed" \/ stt' # "closing"
    PROVE  TasksOK'
<1>1. \A t \in Turns : llm[t] = "created" => Last(history).role = "assistant"
  BY DEF Inv, TasksOK, LlmOK, Message
<1>2. \A t \in Turns : Speaks(t) => Last(history).role = "assistant"  BY DEF Speaks
<1>3. \A t \in Turns : Speaks(t) => Speaks(t)'  BY <1>2 DEF Speaks
<1>4. LlmOK'  BY <1>1 DEF Inv, TasksOK, LlmOK
<1>5. TtsOK'  BY <1>3 DEF Inv, TasksOK, TtsOK
<1>6. QuestOK' /\ AwaitsOK'  BY DEF Inv, TasksOK, QuestOK, AwaitsOK
<1> QED  BY <1>4, <1>5, <1>6 DEF TasksOK

\* A response begins only while nobody else's step is under way.
LEMMA BeginsAlone ==
    ASSUME Inv, (Receive /\ InitialResponse) \/ (ReceiveFlushing /\ flush = "passed")
    PROVE  /\ Last(history).role # "assistant" /\ \A w \in Interrupters : awaits[w] = 0
           /\ recv # "closing" /\ stt # "closing"
           /\ GenerateResponse /\ UNCHANGED <<output, awaits>> /\ recv' # "closing" /\ stt' # "closing"
           /\ \/ Len(history) = 1
              \/ Last(history).role = "user" /\ Last(history).content # <<>> /\ flush' = "none"
<1>1. CASE Receive /\ InitialResponse
  <2>1. Len(history) = 1 /\ turn = 0 /\ Last(history).role # "assistant"
    BY <1>1, InvFacts DEF InitialResponse
  <2>2. \A w \in Interrupters : awaits[w] = 0
    BY <2>1 DEF Inv, TasksOK, AwaitsOK, Turns
  <2>3. recv # "closing" /\ stt # "closing"
    BY <2>2 DEF Inv, TasksOK, AwaitsOK, Interrupters
  <2> QED  BY <1>1, <2>1, <2>2, <2>3 DEF Receive
<1>2. CASE ReceiveFlushing /\ flush = "passed"
  <2>1. Last(history).role = "user" /\ Last(history).content # <<>>  BY <1>2 DEF Inv, FlushOK
  <2>2. recv # "closing" /\ stt # "closing"
    BY <1>2 DEF ReceiveFlushing, Inv, TasksOK, AwaitsOK
  <2>3. \A w \in Interrupters : awaits[w] = 0
    BY <2>2 DEF Inv, TasksOK, AwaitsOK, Interrupters
  <2> QED  BY <1>2, <2>1, <2>2, <2>3 DEF ReceiveFlushing
<1> QED  BY <1>1, <1>2

LEMMA RecvTasks ==
    ASSUME Inv, Types', Receive \/ ReceiveFrame \/ ReceiveFlushing \/ SetInstructions
    PROVE  TasksOK'
<1>1. CASE (Receive /\ InitialResponse) \/ (ReceiveFlushing /\ flush = "passed")
  BY <1>1, BeginsAlone, GenerateTasks
<1>2. CASE Receive /\ ~InitialResponse
  BY <1>2, QuietTasks DEF Receive, talk, quests, output
<1>3. CASE ReceiveFlushing /\ flush # "passed"
  BY <1>3, QuietTasks DEF ReceiveFlushing, talk, quests, output
<1>4. CASE ReceiveFrame
  <2>1. history' = history \/ Last(history).role # "assistant"
    BY <1>4, InvFacts DEF ReceiveFrame, LongSilence
  <2>2. UNCHANGED <<turn, llm, tts, ws, generating, quest, interrupted, awaits, stt>>
    BY <1>4 DEF ReceiveFrame, quests, output
  <2>3. recv # "closing" /\ recv' # "closing" /\ flush' # "passed"
    BY <1>4 DEF ReceiveFrame
  <2> QED  BY <2>1, <2>2, <2>3, QuietTasks
<1>5. CASE SetInstructions
  BY <1>5, QuietTasks DEF SetInstructions, talk, quests, output
<1> QED  BY <1>1, <1>2, <1>3, <1>4, <1>5

LEMMA SttTasks ==
    ASSUME Inv, Types', SttStep \/ SttCloses \/ (SttWord /\ State # "bot_speaking")
    PROVE  TasksOK'
<1>1. stt = "idle"  BY DEF SttStep, SttCloses, SttWord
<1>2. CASE SttStep \/ SttCloses
  BY <1>1, <1>2, QuietTasks DEF SttStep, SttCloses, talk, quests, output
<1>3. CASE SttWord /\ State # "bot_speaking"
  <2>1. Last(history).role # "assistant"  BY <1>3, InvFacts
  <2>2. /\ UNCHANGED <<turn, llm, tts, ws, generating, quest, interrupted, awaits, flush>>
        /\ recv' = recv /\ stt' = "idle"
    BY <1>3 DEF SttWord, AfterInterruption, quests, output
  <2> QED  BY <1>1, <2>1, <2>2, QuietTasks
<1> QED  BY <1>2, <1>3

\* Each step is of one of these kinds.
LEMMA NextCases ==
    ASSUME Inv, [Next]_vars
    PROVE  \/ UNCHANGED vars
           \/ \E t \in Turns : Llm(t) \/ Tts(t)
           \/ Receive \/ ReceiveFrame \/ ReceiveFlushing \/ SetInstructions
           \/ SttStep \/ SttCloses \/ (SttWord /\ State # "bot_speaking")
           \/ \E w \in Interrupters :
                 \/ awaits[w] = 0 /\ State = "bot_speaking" /\ InterruptBot(w)
                 \/ InterruptContinues(w)
<1>1. ReceiveInterrupts => awaits["recv"] = 0 /\ State = "bot_speaking" /\ InterruptBot("recv")
  BY DEF ReceiveInterrupts, Inv, TasksOK, AwaitsOK
<1>2. SttWord /\ State = "bot_speaking" => awaits["stt"] = 0 /\ InterruptBot("stt")
  BY DEF SttWord, Inv, TasksOK, AwaitsOK
<1> QED  BY <1>1, <1>2 DEF Next, Recv, Stt, Interrupters

LEMMA InvTypes == ASSUME Inv, [Next]_vars PROVE Types'
<1>1. State = "bot_speaking" => turn \in Turns  BY InvFacts
<1>2. (\E w \in Interrupters : awaits[w] # 0) => turn \in Turns
  BY DEF Inv, TasksOK, AwaitsOK
<1> QED  BY <1>1, <1>2, TypeStep DEF Inv

LEMMA TasksStep == ASSUME Inv, [Next]_vars PROVE TasksOK'
<1>1. Types'  BY InvTypes
<1>2. CASE UNCHANGED vars
  BY <1>2, QuietTasks DEF vars, talk, quests, output, input
<1>3. ASSUME NEW w \in Interrupters,
             \/ awaits[w] = 0 /\ State = "bot_speaking" /\ InterruptBot(w)
             \/ InterruptContinues(w)
      PROVE  TasksOK'
  BY <1>1, <1>3, InterruptTasks, ContinueTasks
<1>4. ASSUME NEW t \in Turns, Llm(t) \/ Tts(t) PROVE TasksOK'
  BY <1>1, <1>4, LlmTasks, TtsTasks
<1> QED  BY <1>1, <1>2, <1>3, <1>4, NextCases, RecvTasks, SttTasks

-----------------------------------------------------------------------------
(* What a step does to the history, and to the words of the turns *)

Deltas4User == {<<>>, <<UserWord>>, <<UserSilenceMarker>>}

NobodySays ==
    /\ UNCHANGED <<history, turn, spoken>>
    /\ \A t \in Turns : llm'[t] = "created" => llm[t] = "created"
    /\ generating' = generating \/ \E t \in Turns : LlmStart(t)

SomeoneElseSays ==
    /\ \E d \in Deltas4User : history' = AddDelta(history, d, "user")
    /\ UNCHANGED <<turn, spoken, generating>>

BotSaysWord ==
    /\ Last(history).role = "assistant" /\ turn \in Turns /\ generating[turn] = Len(history)
    /\ history' = AddDelta(history, <<BotWord(turn)>>, "assistant")
    /\ spoken' = [spoken EXCEPT ![turn] = @ + 1]
    /\ UNCHANGED <<turn, generating>>

BotIsCut ==
    /\ Last(history).role = "assistant"
    /\ history' = WithDash \/ \E d \in Deltas4User : history' = AddDelta(WithDash, d, "user")
    /\ UNCHANGED <<turn, spoken, generating>>

BotIsAsked ==
    /\ Last(history).role # "assistant"
    /\ \/ Len(history) = 1
       \/ Last(history).role = "user" /\ Last(history).content # <<>> /\ flush' = "none"
    /\ GenerateResponse

LEMMA HistoryStep ==
    ASSUME Inv, [Next]_vars
    PROVE  NobodySays \/ SomeoneElseSays \/ BotSaysWord \/ BotIsCut \/ BotIsAsked
<1>1. CASE UNCHANGED vars  BY <1>1 DEF vars, talk, quests, NobodySays
<1>2. ASSUME NEW t \in Turns, Llm(t) PROVE NobodySays
  <2>1. llm \in [Turns -> {"none", "created", "streaming", "connecting", "done"}]
    BY DEF Inv, Types, TypeOK
  <2>2. ASSUME NEW b, EndOfText(t, b) PROVE NobodySays
    BY <2>1, <2>2 DEF EndOfText, talk, NobodySays
  <2>3. CASE SendDelta(t)
    <3>1. CASE EndOfText(t, TRUE)  BY <2>2, <3>1
    <3>2. CASE ~EndOfText(t, TRUE)  BY <2>1, <2>3, <3>2 DEF SendDelta, talk, NobodySays
    <3> QED  BY <3>1, <3>2
  <2>4. CASE LlmStart(t)  BY <2>1, <2>4 DEF LlmStart, NobodySays
  <2>5. CASE LlmDelta(t)
    <3>1. CASE ~SendDelta(t)  BY <2>1, <2>5, <3>1 DEF LlmDelta, talk, NobodySays
    <3> QED  BY <2>3, <3>1
  <2>6. CASE LlmGetsTts(t)  BY <2>3, <2>6 DEF LlmGetsTts
  <2>7. CASE LlmEnd(t)
    <3>1. EndOfText(t, sent[t] > 0)  BY <2>7 DEF LlmEnd
    <3> QED  BY <2>2, <3>1
  <2>8. CASE LlmFails(t)  BY <2>8 DEF LlmFails, talk, quests, NobodySays
  <2> QED  BY <1>2, <2>4, <2>5, <2>6, <2>7, <2>8 DEF Llm
<1>3. ASSUME NEW t \in Turns, Tts(t) PROVE NobodySays \/ SomeoneElseSays \/ BotSaysWord
  <2>1. ASSUME NEW x, EndOfTurn(t, x) PROVE SomeoneElseSays
    BY <2>1 DEF EndOfTurn, SomeoneElseSays, Deltas4User
  <2>2. CASE TtsReady(t) \/ TtsInitFails(t) \/ TtsServerCloses(t) \/ TtsAudio(t) \/ TtsSleepEnds(t)
    BY <2>2 DEF TtsReady, TtsInitFails, TtsServerCloses, TtsAudio, TtsSleepEnds, talk, quests, NobodySays
  <2>3. CASE TtsText(t)
    <3>1. t = turn /\ generating[t] = Len(history) /\ Last(history).role = "assistant"
      BY <2>3, TtsFacts DEF TtsText, Releases
    <3> QED  BY <2>3, <3>1 DEF TtsText, AddDeltaTo, BotSaysWord
  <2>4. CASE TtsBreak(t) \/ TtsEnd(t) \/ TtsConnectionFails(t)
    BY <2>1, <2>4 DEF TtsBreak, TtsEnd, TtsConnectionFails
  <2> QED  BY <1>3, <2>2, <2>3, <2>4 DEF Tts
<1>4. CASE Receive \/ ReceiveFrame \/ ReceiveFlushing \/ SetInstructions
  <2>1. CASE (Receive /\ InitialResponse) \/ (ReceiveFlushing /\ flush = "passed")
    BY <2>1, BeginsAlone DEF BotIsAsked
  <2>2. CASE Receive /\ ~InitialResponse
    BY <2>2 DEF Receive, talk, quests, NobodySays
  <2>3. CASE ReceiveFlushing /\ flush # "passed"
    BY <2>3 DEF ReceiveFlushing, talk, quests, NobodySays
  <2>4. CASE ReceiveFrame
    BY <2>4 DEF ReceiveFrame, quests, NobodySays, SomeoneElseSays, Deltas4User, AfterSilence
  <2>5. CASE SetInstructions
    BY <2>5 DEF SetInstructions, talk, quests, NobodySays
  <2> QED  BY <1>4, <2>1, <2>2, <2>3, <2>4, <2>5
<1>5. CASE SttStep \/ SttCloses \/ (SttWord /\ State # "bot_speaking")
  <2>1. CASE SttStep \/ SttCloses
    BY <2>1 DEF SttStep, SttCloses, talk, quests, NobodySays
  <2>2. CASE SttWord /\ State # "bot_speaking"
    BY <2>2 DEF SttWord, AfterInterruption, quests, SomeoneElseSays, Deltas4User
  <2> QED  BY <1>5, <2>1, <2>2
<1>6. ASSUME NEW w \in Interrupters, State = "bot_speaking", InterruptBot(w) PROVE BotIsCut
  <2>1. Last(history).role = "assistant"  BY <1>6, InvFacts
  <2>2. CASE InterruptAtOnce(w)
    BY <2>1, <2>2 DEF InterruptAtOnce, AfterInterruption, BotIsCut, Deltas4User
  <2>3. CASE InterruptCloses(w)
    BY <2>1, <2>3 DEF InterruptCloses, BotIsCut
  <2> QED  BY <1>6, <2>2, <2>3 DEF InterruptBot
<1>7. ASSUME NEW w \in Interrupters, InterruptContinues(w) PROVE SomeoneElseSays
  BY <1>7 DEF InterruptContinues, AfterInterruption, SomeoneElseSays, Deltas4User
<1> QED  BY <1>1, <1>2, <1>3, <1>4, <1>5, <1>6, <1>7, NextCases

LEMMA DashEffect ==
    ASSUME Inv, Last(history).role = "assistant"
    PROVE  /\ WithDash \in Histories /\ Last(WithDash).role = "assistant" /\ Last(WithDash).content # <<>>
           /\ HistoryOK(WithDash) /\ MessagesOK(WithDash, turn, generating) /\ Len(WithDash) = Len(history)
<1>1. history \in Histories /\ turn \in 0..MaxTurns /\ WithDash \in Histories
  BY DashTypes DEF Inv, Types, TypeOK
<1>2. <<InterruptionChar>> \in Seq(Words) /\ "assistant" \in Roles  BY Deltas DEF Roles
<1>3. HistoryOK(WithDash) /\ MessagesOK(WithDash, turn, generating)
  BY <1>1, <1>2, BotSays DEF Inv, WordsOK, WithDash
<1>4. history[Len(history)].role = "assistant"  BY DEF Last
<1>5. /\ Last(WithDash).role = "assistant" /\ Len(WithDash) = Len(history)
      /\ Last(WithDash).content = Last(history).content \o <<InterruptionChar>>
  BY <1>1, <1>2, <1>4, AfterDelta DEF WithDash
<1>6. Last(history).content \in Seq(Words)  BY <1>1, Lengths DEF Last
<1>7. \A c \in Seq(Words) : \A x : c \o <<x>> # <<>>  OBVIOUS
<1> QED  BY <1>1, <1>3, <1>5, <1>6, <1>7

LEMMA UserEffect ==
    ASSUME NEW h \in Histories, NEW d \in Deltas4User
    PROVE  LET k == AddDelta(h, d, "user") IN
           /\ k \in Histories /\ Last(k).role = "user"
           /\ Last(h).role = "user" /\ Last(h).content # <<>> => Last(k).content # <<>>
<1>1. d \in Seq(Words) /\ "user" \in Roles  BY Deltas DEF Deltas4User, Roles
<1>2. Last(h).content \in Seq(Words)  BY Lengths DEF Last
<1>3. Last(h).role = "user" => Last(AddDelta(h, d, "user")).content = Last(h).content \o d
  BY <1>1, AfterDelta DEF Last
<1>4. \A c \in Seq(Words) : c # <<>> => c \o d # <<>>  BY <1>1
<1>5. AddDelta(h, d, "user") \in Histories /\ Last(AddDelta(h, d, "user")).role = "user"
  BY <1>1, AddDeltaEffect
<1> QED  BY <1>2, <1>3, <1>4, <1>5

LEMMA WordEffect ==
    ASSUME Inv, BotSaysWord
    PROVE  /\ Last(history').role = "assistant" /\ Last(history').content # <<>>
           /\ HistoryOK(history') /\ MessagesOK(history', turn, generating)
<1>1. history \in Histories /\ turn \in 0..MaxTurns /\ turn \in Turns
  BY DEF Inv, Types, TypeOK, BotSaysWord
<1>2. <<BotWord(turn)>> \in Seq(Words) /\ "assistant" \in Roles  BY <1>1, Deltas DEF Roles
<1>3. /\ Last(history).role = "assistant" /\ generating[turn] = Len(history) /\ turn \in 1..turn
      /\ history' = AddDelta(history, <<BotWord(turn)>>, "assistant")
  BY <1>1 DEF BotSaysWord, Turns
<1>4. HistoryOK(history') /\ MessagesOK(history', turn, generating)
  BY <1>1, <1>2, <1>3, BotSays DEF Inv, WordsOK
<1>5. history[Len(history)].role = "assistant"  BY <1>3 DEF Last
<1>6. Last(history').role = "assistant" /\ Last(history').content = Last(history).content \o <<BotWord(turn)>>
  BY <1>1, <1>2, <1>3, <1>5, AfterDelta
<1>7. Last(history).content \in Seq(Words)  BY <1>1, Lengths DEF Last
<1>8. \A c \in Seq(Words) : \A x : c \o <<x>> # <<>>  OBVIOUS
<1> QED  BY <1>4, <1>6, <1>7, <1>8

LEMMA AskEffect ==
    ASSUME Inv, GenerateResponse, Last(history).role # "assistant"
    PROVE  /\ turn + 1 \in Turns /\ turn' = turn + 1 /\ turn' \in 0..MaxTurns
           /\ Len(history') = Len(history) + 1 /\ Last(history').role = "assistant"
           /\ \A i \in 1..Len(history) : history'[i] = history[i]
           /\ HistoryOK(history') /\ MessagesOK(history', turn + 1, generating)
<1>1. history \in Histories /\ turn \in 0..MaxTurns /\ turn \in Nat
  BY InvFacts DEF Inv, Types
<1>2. turn + 1 \in Turns /\ turn' = turn + 1 /\ turn' \in 0..MaxTurns /\ turn + 1 > turn
  BY <1>1, BoundsAssumption DEF GenerateResponse, Turns
<1>3. generating[turn + 1] = 0
  BY <1>2 DEF Inv, TasksOK, LlmOK, TtsOK
<1>4. HistoryOK(history') /\ MessagesOK(history', turn + 1, generating)
  BY <1>1, <1>3, BotBegins DEF Inv, WordsOK, GenerateResponse
<1>5. <<>> \in Seq(Words) /\ "assistant" \in Roles /\ history[Len(history)].role # "assistant"
  BY Deltas DEF Roles, Last
<1>6. /\ Len(history') = Len(history) + 1 /\ Last(history').role = "assistant"
      /\ \A i \in 1..Len(history) : history'[i] = history[i]
  <2>1. history' = AddDelta(history, <<>>, "assistant")  BY DEF GenerateResponse
  <2> QED  BY <1>1, <1>5, <2>1, NewMessageEffect, Zenon
<1> QED  BY <1>2, <1>4, <1>6

LEMMA WordsStep == ASSUME Inv, [Next]_vars PROVE WordsOK'
<1>1. history \in Histories /\ turn \in 0..MaxTurns /\ generating \in [Turns -> Nat]
      /\ HistoryOK(history) /\ MessagesOK(history, turn, generating)
  BY DEF Inv, Types, TypeOK, WordsOK
<1>2. CASE NobodySays
  <2>1. CASE generating' = generating  BY <1>1, <1>2, <2>1 DEF NobodySays, WordsOK
  <2>2. ASSUME NEW t \in Turns, LlmStart(t) PROVE WordsOK'
    <3>1. t = turn /\ Last(history).role = "assistant"
      BY <2>2, InvFacts DEF LlmStart, Inv, TasksOK, LlmOK, QuestOK, Message
    <3>2. turn \in 1..MaxTurns  BY <3>1 DEF Turns
    <3>3. generating' = [generating EXCEPT ![turn] = Len(history)]  BY <2>2, <3>1 DEF LlmStart
    <3>4. MessagesOK(history, turn, generating')  BY <1>1, <3>1, <3>2, <3>3, TurnBegins
    <3> QED  BY <1>1, <1>2, <3>4 DEF NobodySays, WordsOK
  <2> QED  BY <1>2, <2>1, <2>2 DEF NobodySays
<1>3. CASE SomeoneElseSays
  <2>1. PICK d \in Deltas4User : history' = AddDelta(history, d, "user")
    BY <1>3 DEF SomeoneElseSays
  <2>2. HistoryOK(history') /\ MessagesOK(history', turn, generating)
    BY <1>1, <2>1, UserSays DEF Deltas4User
  <2> QED  BY <1>3, <2>2 DEF SomeoneElseSays, WordsOK
<1>4. CASE BotSaysWord
  BY <1>4, WordEffect DEF BotSaysWord, WordsOK
<1>5. CASE BotIsCut
  <2>1. /\ WithDash \in Histories /\ HistoryOK(WithDash) /\ MessagesOK(WithDash, turn, generating)
    BY <1>5, DashEffect DEF BotIsCut
  <2>2. HistoryOK(history') /\ MessagesOK(history', turn, generating)
    <3>1. CASE history' = WithDash  BY <2>1, <3>1
    <3>2. ASSUME NEW d \in Deltas4User, history' = AddDelta(WithDash, d, "user")
          PROVE  HistoryOK(history') /\ MessagesOK(history', turn, generating)
      BY <1>1, <2>1, <3>2, UserSays DEF Deltas4User
    <3> QED  BY <1>5, <3>1, <3>2 DEF BotIsCut
  <2> QED  BY <1>5, <2>2 DEF BotIsCut, WordsOK
<1>6. CASE BotIsAsked
  <2>1. HistoryOK(history') /\ MessagesOK(history', turn + 1, generating) /\ turn' = turn + 1
    BY <1>6, AskEffect DEF BotIsAsked
  <2>2. generating' = generating  BY <1>6 DEF BotIsAsked, GenerateResponse
  <2> QED  BY <2>1, <2>2 DEF WordsOK
<1> QED  BY <1>2, <1>3, <1>4, <1>5, <1>6, HistoryStep

LEMMA AskedStep == ASSUME Inv, [Next]_vars PROVE AskedOK'
<1>1. history \in Histories  BY DEF Inv, Types
<1>2. Last(history') # Message("assistant", <<>>) => \A t \in Turns : llm'[t] # "created"
  BY TasksStep DEF TasksOK, LlmOK
<1>3. Last(history').role # "assistant" \/ Last(history').content # <<>> => AskedOK'
  BY <1>2 DEF AskedOK, Message
<1>4. CASE NobodySays  BY <1>4 DEF NobodySays, Inv, AskedOK
<1>5. CASE SomeoneElseSays
  BY <1>1, <1>3, <1>5, UserEffect DEF SomeoneElseSays
<1>6. CASE BotSaysWord  BY <1>3, <1>6, WordEffect
<1>7. CASE BotIsCut
  <2>1. WithDash \in Histories /\ Last(WithDash).content # <<>>  BY <1>7, DashEffect DEF BotIsCut
  <2> QED  BY <1>3, <1>7, <2>1, UserEffect DEF BotIsCut
<1>8. CASE BotIsAsked
  <2>1. Len(history') = Len(history) + 1 /\ \A i \in 1..Len(history) : history'[i] = history[i]
    BY <1>8, AskEffect DEF BotIsAsked
  <2>2. Len(history) \in Nat /\ Len(history) > 0  BY <1>1, Lengths
  <2>3. CASE Len(history) = 1  BY <2>1, <2>3 DEF AskedOK
  <2>4. CASE Len(history) # 1
    <3>1. Last(history).role = "user" /\ Last(history).content # <<>>
      BY <1>8, <2>4 DEF BotIsAsked
    <3>2. history'[Len(history') - 1] = history[Len(history)] /\ Len(history') > 2
      BY <2>1, <2>2, <2>4
    <3> QED  BY <3>1, <3>2 DEF AskedOK, Last
  <2> QED  BY <2>3, <2>4
<1> QED  BY <1>4, <1>5, <1>6, <1>7, <1>8, HistoryStep

\* A flush that is under way was so before, unless a pause of the user starts it.
LEMMA FlushFrom ==
    ASSUME Inv, [Next]_vars, flush' # "none"
    PROVE  flush # "none" \/ (Last(history').role = "user" /\ Last(history').content # <<>>)
<1> SUFFICES ASSUME flush = "none"
             PROVE  Last(history').role = "user" /\ Last(history').content # <<>>
  OBVIOUS
<1>1. ~UNCHANGED vars  BY DEF vars, input
<1>2. ~\E t \in Turns : Llm(t) \/ Tts(t)
  <2>1. ASSUME NEW t \in Turns, Llm(t) PROVE flush' = flush
    <3>1. ASSUME NEW b, EndOfText(t, b) PROVE flush' = flush  BY <3>1 DEF EndOfText, input
    <3>2. SendDelta(t) => flush' = flush  BY <3>1 DEF SendDelta, input
    <3>3. LlmEnd(t) => flush' = flush
      <4>1. LlmEnd(t) => EndOfText(t, sent[t] > 0)  BY DEF LlmEnd
      <4> QED  BY <3>1, <4>1
    <3> QED  BY <2>1, <3>2, <3>3 DEF Llm, LlmStart, LlmDelta, LlmGetsTts, LlmFails, input
  <2>2. ASSUME NEW t \in Turns, Tts(t) PROVE flush' = flush
    BY <2>2 DEF Tts, TtsReady, TtsInitFails, TtsAudio, TtsText, TtsBreak, TtsServerCloses, TtsEnd,
                TtsConnectionFails, TtsSleepEnds, EndOfTurn, input
  <2> QED  BY <2>1, <2>2
<1>3. ~(\E w \in Interrupters : InterruptBot(w) \/ InterruptContinues(w))
  BY DEF InterruptBot, InterruptAtOnce, InterruptCloses, InterruptContinues
<1>4. ~(Receive \/ ReceiveFlushing \/ SetInstructions \/ SttStep \/ SttCloses)
  BY DEF Receive, ReceiveFlushing, SetInstructions, SttStep, SttCloses
<1>5. ~(SttWord /\ State # "bot_speaking")  BY DEF SttWord
<1>6. ReceiveFrame  BY <1>1, <1>2, <1>3, <1>4, <1>5, NextCases
<1>7. ConversationState(history') = "user_speaking"  BY <1>6 DEF ReceiveFrame, DeterminePause
<1>8. history' \in Histories  BY InvTypes DEF Types
<1> QED  BY <1>7, <1>8, Floor

LEMMA FlushStep == ASSUME Inv, [Next]_vars PROVE FlushOK'
<1> SUFFICES ASSUME flush' # "none", flush # "none"
             PROVE  Last(history').role = "user" /\ Last(history').content # <<>>
  BY FlushFrom DEF FlushOK
<1>1. history \in Histories /\ Last(history).role = "user" /\ Last(history).content # <<>>
  BY DEF Inv, FlushOK, Types
<1>2. CASE NobodySays  BY <1>1, <1>2 DEF NobodySays
<1>3. CASE SomeoneElseSays  BY <1>1, <1>3, UserEffect DEF SomeoneElseSays
<1>4. ~BotIsAsked
  <2>1. Len(history) = 1 => Last(history).role = "system"
    BY DEF Inv, WordsOK, HistoryOK, NewHistory, Message, Last
  <2> QED  BY <1>1, <2>1 DEF BotIsAsked
<1> QED  BY <1>1, <1>2, <1>3, <1>4, HistoryStep DEF BotSaysWord, BotIsCut

LEMMA OutputStep == ASSUME Inv, [Next]_vars PROVE OutputOK'
<1> USE DEF Inv, OutputOK, NoStaleVoice
<1>1. CASE UNCHANGED <<fresh, interrupted>> /\ queue' = queue  BY <1>1
<1>2. CASE UNCHANGED vars  BY <1>1, <1>2 DEF vars, output
<1>3. ASSUME NEW t \in Turns, Llm(t) PROVE UNCHANGED <<fresh, interrupted, queue>>
  <2>1. ASSUME NEW b, EndOfText(t, b) PROVE UNCHANGED output  BY <2>1 DEF EndOfText
  <2>2. SendDelta(t) => UNCHANGED output  BY <2>1 DEF SendDelta
  <2>3. LlmEnd(t) => UNCHANGED output
    <3>1. LlmEnd(t) => EndOfText(t, sent[t] > 0)  BY DEF LlmEnd
    <3> QED  BY <2>1, <3>1
  <2> QED  BY <1>3, <2>2, <2>3 DEF Llm, LlmStart, LlmDelta, LlmGetsTts, LlmFails, output
<1>4. ASSUME NEW t \in Turns, Tts(t) PROVE OutputOK'
  <2>1. ASSUME NEW x, EndOfTurn(t, x) PROVE OutputOK'  BY <2>1 DEF EndOfTurn
  <2>2. CASE TtsReady(t)
    <3>1. t \notin interrupted  BY <2>2 DEF TtsReady, TasksOK, TtsOK, Speaks
    <3> QED  BY <2>2, <3>1 DEF TtsReady
  <2>3. CASE TtsInitFails(t) \/ TtsServerCloses(t)
    BY <2>3 DEF TtsInitFails, TtsServerCloses, output
  <2>4. CASE TtsAudio(t)
    <3>1. t \in fresh => t \notin interrupted  OBVIOUS
    <3> QED  BY <2>4, <3>1 DEF TtsAudio, PutCaptured
  <2>5. CASE TtsText(t)
    <3>1. t \in fresh => t \notin interrupted  OBVIOUS
    <3> QED  BY <2>5, <3>1 DEF TtsText, PutCaptured
  <2>6. CASE TtsSleepEnds(t)  BY <2>6 DEF TtsSleepEnds
  <2> QED  BY <1>4, <2>1, <2>2, <2>3, <2>4, <2>5, <2>6 DEF Tts, TtsBreak, TtsEnd, TtsConnectionFails
<1>5. CASE Receive \/ ReceiveFrame \/ ReceiveFlushing \/ SetInstructions
  BY <1>1, <1>5 DEF Receive, ReceiveFrame, ReceiveFlushing, SetInstructions, output
<1>6. CASE SttStep \/ SttCloses \/ (SttWord /\ State # "bot_speaking")
  BY <1>1, <1>6 DEF SttStep, SttCloses, SttWord, output
<1>7. ASSUME NEW w \in Interrupters, InterruptBot(w) \/ InterruptContinues(w) PROVE OutputOK'
  BY <1>7 DEF InterruptBot, InterruptAtOnce, InterruptCloses, InterruptContinues, SwapQueue, output
<1> QED  BY <1>1, <1>2, <1>3, <1>4, <1>5, <1>6, <1>7, NextCases

-----------------------------------------------------------------------------
(* What the LLM is shown *)

\* Induction over a number: among those that fail there is a least one.
LEMMA Least ==
    ASSUME NEW n \in Nat, NEW T \in SUBSET (0..n), T # {}
    PROVE  \E k \in T : \A m \in T : k <= m
<1> DEFINE U == {0..t : t \in T}
           S == StrictSubsetOrdering(0..n)
<1>1. IsFiniteSet(0..n)  BY FS_Interval
<1>2. FiniteSubsetsOf(0..n) = SUBSET (0..n)  BY <1>1, FS_Subset DEF FiniteSubsetsOf
<1>3. IsWellFoundedOn(S, SUBSET (0..n))
  BY <1>1, <1>2, FS_StrictSubsetOrderingWellFounded, FS_FiniteSubsetsOfFinite
<1>4. U \subseteq SUBSET (0..n) /\ U # {}
  <2>1. \A t \in 0..n : 0..t \subseteq 0..n  OBVIOUS
  <2> QED  BY <2>1
<1>5. PICK u \in U : \A v \in U : ~(<<v, u>> \in S)
  <2> HIDE DEF U, S
  <2> QED  BY <1>3, <1>4, WFMin
<1>6. PICK k \in T : u = 0..k  BY <1>5
<1>7. \A m \in T : k <= m
  <2> SUFFICES ASSUME NEW m \in T, m < k PROVE FALSE
    OBVIOUS
  <2>1. 0..m \in U /\ 0..m \subseteq 0..k /\ 0..m # 0..k  BY <1>6
  <2>2. <<0..m, 0..k>> \in S  BY <2>1 DEF StrictSubsetOrdering
  <2> QED  BY <1>5, <1>6, <2>1, <2>2
<1> QED  BY <1>7

\* A value is defined for each number up to N by its step from the one before.
Steps(N, S) == [1..N -> [S -> S]]

FollowsSteps(N, S, base, step) ==
    \E f \in [0..N -> S] : f[0] = base /\ \A n \in 1..N : f[n] = step[n][f[n - 1]]

LEMMA StepByStep ==
    ASSUME NEW N \in Nat, NEW S, NEW base \in S, NEW step \in Steps(N, S)
    PROVE  FollowsSteps(N, S, base, step)
<1> USE DEF Steps
<1> SUFFICES \E f \in [0..N -> S] : f[0] = base /\ \A n \in 1..N : f[n] = step[n][f[n - 1]]
  BY DEF FollowsSteps
<1> DEFINE Upto(k, f) == f[0] = base /\ \A n \in 1..k : f[n] = step[n][f[n - 1]]
           T == {k \in 0..N : ~\E f \in [0..k -> S] : Upto(k, f)}
<1> SUFFICES ASSUME T # {} PROVE FALSE
  <2>1. N \in 0..N  OBVIOUS
  <2> QED  BY <2>1
<1>1. PICK k \in T : \A m \in T : k <= m
  <2>1. T \in SUBSET (0..N)  OBVIOUS
  <2> HIDE DEF T
  <2> QED  BY <2>1, Least
<1>2. k \in 0..N /\ ~\E f \in [0..k -> S] : Upto(k, f)  BY <1>1
<1>3. k # 0
  <2> SUFFICES ASSUME k = 0 PROVE FALSE
    OBVIOUS
  <2> DEFINE g == [n \in 0..0 |-> base]
  <2>1. g \in [0..k -> S] /\ g[0] = base /\ 1..0 = {}  OBVIOUS
  <2> QED  BY <1>2, <2>1
<1>4. k - 1 \in 0..N /\ k - 1 \notin T
  <2>1. k \in 0..N  BY <1>2
  <2> HIDE DEF T
  <2> QED  BY <1>1, <1>3, <2>1
<1>5. PICK f \in [0..(k - 1) -> S] : Upto(k - 1, f)  BY <1>4
<1> DEFINE g == [n \in 0..k |-> IF n = k THEN step[k][f[k - 1]] ELSE f[n]]
<1>6. k \in 1..N /\ f[k - 1] \in S /\ step[k] \in [S -> S]  BY <1>2, <1>3
<1>7. g[k] = step[k][f[k - 1]] /\ \A n \in 0..(k - 1) : g[n] = f[n]  BY <1>6
<1>8. g \in [0..k -> S]  BY <1>6
<1>9. Upto(k, g)
  <2>1. g[0] = base  BY <1>5, <1>6, <1>7
  <2>2. ASSUME NEW n \in 1..k PROVE g[n] = step[n][g[n - 1]]
    <3>1. CASE n = k
      <4>1. g[k - 1] = f[k - 1]  BY <1>6, <1>7
      <4> QED  BY <1>7, <3>1, <4>1
    <3>2. CASE n # k
      <4>1. n \in 1..(k - 1) /\ n - 1 \in 0..(k - 1) /\ n \in 0..(k - 1)  BY <1>6, <3>2
      <4> HIDE DEF g
      <4>2. g[n] = f[n] /\ g[n - 1] = f[n - 1]  BY <1>7, <4>1
      <4> QED  BY <1>5, <4>1, <4>2
    <3> QED  BY <3>1, <3>2
  <2> QED  BY <2>1, <2>2
<1> QED  BY <1>2, <1>8, <1>9

Told == [role : Roles, content : Seq(Words \cup {"Hello!", "Hello."})]

LEMMA WithoutDashEffect ==
    ASSUME NEW V, NEW c \in Seq(V)
    PROVE  WithoutDash(c) \in Seq(V)
<1>1. CASE c # <<>> /\ Last(c) = InterruptionChar
  <2>1. Len(c) \in Nat /\ Len(c) > 0  BY <1>1
  <2>2. SubSeq(c, 1, Len(c) - 1) \in Seq(V)  BY <2>1
  <2> QED  BY <1>1, <2>2 DEF WithoutDash, Front
<1>2. CASE ~(c # <<>> /\ Last(c) = InterruptionChar)
  BY <1>2 DEF WithoutDash
<1> QED  BY <1>1, <1>2

\* Whatever it is merged with, the message that is merged last tells who spoke last.
LEMMA MergeEffect ==
    ASSUME NEW o \in Seq(Told), NEW m \in Told
    PROVE  Merge(o, m) \in Seq(Told) /\ Merge(o, m) # <<>> /\ Last(Merge(o, m)).role = m.role
<1> DEFINE n == Len(o)
<1>1. CASE o # <<>> /\ Last(o).role = m.role
  <2>1. n \in Nat /\ n > 0 /\ o[n] \in Told  BY <1>1
  <2>2. o[n].content \in Seq(Words \cup {"Hello!", "Hello."}) /\ o[n].role \in Roles
        /\ m.content \in Seq(Words \cup {"Hello!", "Hello."})
    BY <2>1 DEF Told
  <2> DEFINE c == [o[n] EXCEPT !.content = @ \o m.content]
             g == [o EXCEPT ![n] = c]
  <2>3. c = [role |-> o[n].role, content |-> o[n].content \o m.content]
    BY <2>1, ContentChanges, Zenon DEF Told
  <2>4. o[n].content \o m.content \in Seq(Words \cup {"Hello!", "Hello."})  BY <2>2
  <2>5. c \in Told /\ c.role = o[n].role  BY <2>2, <2>3, <2>4 DEF Told
  <2> HIDE DEF c
  <2>6. g \in Seq(Told) /\ Len(g) = n /\ g # <<>> /\ g[n] = c  BY <2>1, <2>5
  <2>7. Merge(o, m) = g  BY <1>1 DEF Merge, c
  <2> QED  BY <1>1, <2>5, <2>6, <2>7 DEF Last
<1>2. CASE ~(o # <<>> /\ Last(o).role = m.role)
  <2>1. Merge(o, m) = Append(o, m)  BY <1>2 DEF Merge
  <2>2. Append(o, m) \in Seq(Told) /\ Len(Append(o, m)) = n + 1 /\ Append(o, m)[n + 1] = m
        /\ Append(o, m) # <<>>
    OBVIOUS
  <2> QED  BY <2>1, <2>2 DEF Last
<1> QED  BY <1>1, <1>2

LEMMA CleanedEffect ==
    ASSUME NEW h \in Seq(Told)
    PROVE  LET f == CleanedUpTo(h) IN
           /\ f \in [0..Len(h) -> Seq(Told)]
           /\ \A n \in 1..Len(h) :
                f[n] = IF SaysNothing(h[n]) THEN f[n - 1]
                       ELSE Merge(f[n - 1], Message(h[n].role, WithoutDash(h[n].content)))
<1> DEFINE N == Len(h)
           said(n) == Message(h[n].role, WithoutDash(h[n].content))
           next(n, o) == IF SaysNothing(h[n]) THEN o ELSE Merge(o, said(n))
           step == [n \in 1..N |-> [o \in Seq(Told) |-> next(n, o)]]
           Cleans(f) == f = [n \in 0..N |-> IF n = 0 THEN <<>> ELSE next(n, f[n - 1])]
<1>1. N \in Nat /\ <<>> \in Seq(Told)  OBVIOUS
<1>2. \A n \in 1..N : said(n) \in Told
  <2> TAKE n \in 1..N
  <2>1. h[n] \in Told  OBVIOUS
  <2>2. h[n].role \in Roles /\ h[n].content \in Seq(Words \cup {"Hello!", "Hello."})
    BY <2>1 DEF Told
  <2>3. WithoutDash(h[n].content) \in Seq(Words \cup {"Hello!", "Hello."})
    BY <2>2, WithoutDashEffect
  <2> QED  BY <2>2, <2>3 DEF Message, Told
<1>3. \A n \in 1..N, o \in Seq(Told) : next(n, o) \in Seq(Told)
  BY <1>2, MergeEffect
<1>4. step \in [1..N -> [Seq(Told) -> Seq(Told)]]  BY <1>3
<1>5. \A n \in 1..N, o \in Seq(Told) : step[n][o] = next(n, o)  OBVIOUS
<1> HIDE DEF step, next
<1>6. PICK f \in [0..N -> Seq(Told)] : f[0] = <<>> /\ \A n \in 1..N : f[n] = step[n][f[n - 1]]
  <2> DEFINE S == Seq(Told)
  <2>1. N \in Nat /\ <<>> \in S /\ step \in Steps(N, S)  BY <1>1, <1>4 DEF Steps
  <2> HIDE DEF N, S
  <2>2. FollowsSteps(N, S, <<>>, step)  BY <2>1, StepByStep
  <2> QED  BY <2>2 DEF S, FollowsSteps
<1>7. Cleans(f)
  <2>1. ASSUME NEW n \in 0..N PROVE f[n] = IF n = 0 THEN <<>> ELSE next(n, f[n - 1])
    <3>1. CASE n = 0  BY <1>6, <3>1
    <3>2. CASE n # 0
      <4>1. n \in 1..N /\ n - 1 \in 0..N  BY <1>1, <3>2
      <4>2. f[n - 1] \in Seq(Told)  BY <4>1
      <4> QED  BY <1>5, <1>6, <3>2, <4>1, <4>2
    <3> QED  BY <3>1, <3>2
  <2> QED  BY <2>1
<1> DEFINE g == CHOOSE x : Cleans(x)
<1>8. CleanedUpTo(h) = g  BY DEF CleanedUpTo, next
<1>9. Cleans(g)  BY <1>7
<1> HIDE DEF g
<1>10. g[0] = <<>> /\ \A n \in 1..N : g[n] = next(n, g[n - 1])  BY <1>1, <1>9
<1>11. \A n \in 0..N : g[n] \in Seq(Told)
  <2> DEFINE T == {n \in 0..N : g[n] \notin Seq(Told)}
  <2> SUFFICES ASSUME T # {} PROVE FALSE
    OBVIOUS
  <2>1. PICK k \in T : \A m \in T : k <= m
    <3>1. T \in SUBSET (0..N)  OBVIOUS
    <3> HIDE DEF T
    <3> QED  BY <1>1, <3>1, Least
  <2>2. k \in 0..N /\ g[k] \notin Seq(Told)  BY <2>1
  <2>3. k # 0  BY <1>1, <1>10, <2>2
  <2>4. k \in 1..N /\ k - 1 \in 0..N /\ ~(k <= k - 1)  BY <1>1, <2>2, <2>3
  <2>5. k - 1 \notin T
    <3> HIDE DEF T
    <3> QED  BY <2>1, <2>4
  <2>6. g[k - 1] \in Seq(Told)  BY <2>4, <2>5
  <2> QED  BY <1>3, <1>10, <2>2, <2>4, <2>6
<1>12. g \in [0..N -> Seq(Told)]
  <2>1. DOMAIN g = 0..N  BY <1>9
  <2>2. g = [n \in 0..N |-> g[n]]  BY <1>9
  <2> QED  BY <1>11, <2>2
<1> QED  BY <1>8, <1>10, <1>12 DEF next

\* Whoever said the last thing that says anything is the last one to speak.
LEMMA CleanEffect ==
    ASSUME NEW h \in Seq(Told), NEW n \in 1..Len(h), ~SaysNothing(h[n]),
           n = Len(h) \/ (n = Len(h) - 1 /\ SaysNothing(h[Len(h)]))
    PROVE  Clean(h) \in Seq(Told) /\ Clean(h) # <<>> /\ Last(Clean(h)).role = h[n].role
<1> DEFINE f == CleanedUpTo(h)
           m == Message(h[n].role, WithoutDash(h[n].content))
<1>1. /\ f \in [0..Len(h) -> Seq(Told)]
      /\ \A i \in 1..Len(h) :
            f[i] = IF SaysNothing(h[i]) THEN f[i - 1]
                   ELSE Merge(f[i - 1], Message(h[i].role, WithoutDash(h[i].content)))
  BY CleanedEffect
<1> HIDE DEF f
<1>2. Len(h) \in Nat /\ n \in Nat /\ n - 1 \in 0..Len(h) /\ h[n] \in Told  OBVIOUS
<1>3. m \in Told /\ m.role = h[n].role
  <2>1. h[n].role \in Roles /\ h[n].content \in Seq(Words \cup {"Hello!", "Hello."})
    BY <1>2 DEF Told
  <2>2. WithoutDash(h[n].content) \in Seq(Words \cup {"Hello!", "Hello."})
    BY <2>1, WithoutDashEffect
  <2> QED  BY <2>1, <2>2 DEF Message, Told
<1>4. f[n] = Merge(f[n - 1], m) /\ f[n - 1] \in Seq(Told)  BY <1>1, <1>2
<1>5. f[Len(h)] = f[n]
  <2>1. CASE n = Len(h)  BY <2>1
  <2>2. CASE n = Len(h) - 1 /\ SaysNothing(h[Len(h)])
    <3>1. Len(h) \in 1..Len(h) /\ n = Len(h) - 1  BY <1>2, <2>2
    <3> QED  BY <1>1, <2>2, <3>1
  <2> QED  BY <2>1, <2>2
<1>6. Clean(h) = f[n]  BY <1>5 DEF Clean, f
<1> HIDE DEF m
<1>7. /\ Merge(f[n - 1], m) \in Seq(Told) /\ Merge(f[n - 1], m) # <<>>
      /\ Last(Merge(f[n - 1], m)).role = m.role
  BY <1>3, <1>4, MergeEffect
<1> QED  BY <1>3, <1>4, <1>6, <1>7

LEMMA ToldConcat ==
    ASSUME NEW a \in Seq(Told), NEW b \in Seq(Told)
    PROVE  /\ a \o b \in Seq(Told)
           /\ Len(a \o b) = Len(a) + Len(b)
           /\ \A i \in 1..Len(b) : (a \o b)[Len(a) + i] = b[i]
<1>1. a \o b \in Seq(Told)  OBVIOUS
<1>2. Len(a \o b) = Len(a) + Len(b)  OBVIOUS
<1>3. \A i \in 1..Len(b) : (a \o b)[Len(a) + i] = b[i]  OBVIOUS
<1> QED  BY <1>1, <1>2, <1>3

\* The dummy message and the markers leave the last word to who had it.
LEMMA PreprocessEffect ==
    ASSUME NEW h \in Seq(Told), Clean(h) \in Seq(Told), Clean(h) # <<>>, Last(Clean(h)).role = "user"
    PROVE  Last(PreprocessMessages(h)).role = "user"
<1> DEFINE c == Clean(h)
           o == WithUserFirst(c)
<1>1. c \in Seq(Told) /\ Len(c) \in Nat /\ Len(c) > 0 /\ c[Len(c)].role = "user"
  BY DEF Last
<1> HIDE DEF c
<1>2. o \in Seq(Told) /\ Len(o) > 0 /\ o[Len(o)].role = "user"
  <2>1. CASE c # <<>> /\ c[1].role = "system" /\ (Len(c) = 1 \/ c[2].role = "assistant")
    <3>1. Len(c) > 1 /\ 1 \in 1..Len(c)  BY <1>1, <2>1
    <3>2. Dummy \in Told /\ c[1] \in Told
      <4>1. <<"Hello.">> \in Seq(Words \cup {"Hello!", "Hello."}) /\ "user" \in Roles
        BY DEF Roles
      <4>2. Dummy = [role |-> "user", content |-> <<"Hello.">>]  BY DEF Dummy, Message
      <4>3. Dummy \in Told  BY <4>1, <4>2 DEF Told
      <4>4. c[1] \in Told  BY <1>1, <3>1
      <4> QED  BY <4>3, <4>4
    <3>3. Tail(c) \in Seq(Told) /\ Len(Tail(c)) = Len(c) - 1 /\ Tail(c)[Len(c) - 1] = c[Len(c)]
      BY <1>1, <3>1
    <3> DEFINE a == <<c[1], Dummy>>
               b == Tail(c)
    <3>4. a \in Seq(Told) /\ Len(a) = 2  BY <3>2
    <3> HIDE DEF a, b
    <3>5. b \in Seq(Told) /\ Len(b) = Len(c) - 1 /\ b[Len(c) - 1] = c[Len(c)]  BY <3>3 DEF b
    <3>6. a \o b \in Seq(Told) /\ Len(a \o b) = Len(a) + Len(b)
          /\ \A i \in 1..Len(b) : (a \o b)[Len(a) + i] = b[i]
      BY <3>4, <3>5, ToldConcat
    <3>7. Len(a \o b) = Len(c) + 1 /\ (a \o b)[Len(c) + 1] = b[Len(c) - 1]
      <4>1. Len(c) - 1 \in 1..Len(b) /\ Len(a) + Len(b) = Len(c) + 1 /\ Len(a) + (Len(c) - 1) = Len(c) + 1
        BY <1>1, <3>1, <3>4, <3>5
      <4>2. (a \o b)[Len(a) + (Len(c) - 1)] = b[Len(c) - 1]  BY <3>6, <4>1
      <4> QED  BY <3>6, <4>1, <4>2
    <3>8. o = a \o b  BY <2>1 DEF WithUserFirst, a, b
    <3> HIDE DEF o
    <3>9. o \in Seq(Told) /\ Len(o) = Len(c) + 1 /\ o[Len(c) + 1] = c[Len(c)]
      BY <3>5, <3>6, <3>7, <3>8
    <3> QED  BY <1>1, <3>9
  <2>2. CASE ~(c # <<>> /\ c[1].role = "system" /\ (Len(c) = 1 \/ c[2].role = "assistant"))
    <3>1. o = c  BY <2>2 DEF WithUserFirst
    <3> QED  BY <1>1, <3>1
  <2> QED  BY <2>1, <2>2
<1>3. PreprocessMessages(h) = [i \in DOMAIN o |-> WithoutMarker(o[i])]
  BY DEF PreprocessMessages, c
<1> HIDE DEF o
<1>4. DOMAIN o = 1..Len(o) /\ Len(o) \in Nat /\ Len(o) \in 1..Len(o)  BY <1>2
<1>5. Last(PreprocessMessages(h)) = WithoutMarker(o[Len(o)])
  <2>1. Len([i \in 1..Len(o) |-> WithoutMarker(o[i])]) = Len(o)  BY <1>4
  <2> QED  BY <1>3, <1>4, <2>1 DEF Last
<1>6. \A m \in Told : WithoutMarker(m).role = m.role
  <2> TAKE m \in Told
  <2>1. [m EXCEPT !.content = Tail(m.content)] = [role |-> m.role, content |-> Tail(m.content)]
    BY ContentChanges, Zenon DEF Told
  <2>2. [m EXCEPT !.content = Tail(m.content)].role = m.role  BY <2>1
  <2> QED  BY <2>2 DEF WithoutMarker
<1>7. o[Len(o)] \in Told  BY <1>2, <1>4
<1> QED  BY <1>2, <1>5, <1>6, <1>7

LEMMA AsksUser ==
    ASSUME Inv, NEW t \in Turns, llm[t] = "created"
    PROVE  Last(Preprocessed(history)).role = "user"
<1> DEFINE n == Len(history)
<1>1. /\ history \in Histories /\ AskedOK /\ HistoryOK(history) /\ n \in Nat /\ n > 0
      /\ Last(history) = Message("assistant", <<>>)
  BY InvFacts DEF Inv, Types, WordsOK, TasksOK, LlmOK
<1>2. history \in Seq(Messages) /\ DOMAIN history = 1..n
      /\ \A i \in 1..n : history[i] \in Messages /\ history[i].content \in Seq(Words)
  BY <1>1, Lengths
<1>3. Messages \subseteq Told
  <2>1. Seq(Words) \subseteq Seq(Words \cup {"Hello!", "Hello."})
    <3>1. \A c \in Seq(Words) : c \in Seq(Words \cup {"Hello!", "Hello."})  OBVIOUS
    <3> QED  BY <3>1
  <2> QED  BY <2>1 DEF Messages, Told
<1>4. history \in Seq(Told)  BY <1>2, <1>3
<1>5. CASE n > 2
  <2>1. history[n - 1].role = "user" /\ history[n - 1].content # <<>> /\ n - 1 \in 1..n
    <3>1. n \in Nat  BY <1>1
    <3> HIDE DEF n
    <3>2. n # 2 /\ n - 1 \in 1..n  BY <1>5, <3>1
    <3>3. AskedOK  BY <1>1
    <3> QED  BY <3>2, <3>3, Zenon DEF AskedOK, n
  <2>2. SaysNothing(history[n])  BY <1>1 DEF Last, Message, SaysNothing
  <2>3. ~SaysNothing(history[n - 1])
    <3>1. Range(history[n - 1].content) \subseteq {UserWord, UserSilenceMarker}
      BY <1>1, <1>2, <2>1 DEF HistoryOK
    <3>2. InterruptionChar \notin {UserWord, UserSilenceMarker}
      BY DEF InterruptionChar, UserWord, UserSilenceMarker
    <3>3. InterruptionChar \in Range(<<InterruptionChar>>)  BY DEF Range
    <3> QED  BY <2>1, <3>1, <3>2, <3>3 DEF SaysNothing
  <2>4. Clean(history) \in Seq(Told) /\ Clean(history) # <<>> /\ Last(Clean(history)).role = "user"
    BY <1>4, <2>1, <2>2, <2>3, CleanEffect
  <2>5. Preprocessed(history) = PreprocessMessages(history)  BY <1>5 DEF Preprocessed
  <2> QED  BY <1>4, <2>4, <2>5, PreprocessEffect
<1>6. CASE ~(n > 2)
  <2> DEFINE h == <<history[1], Message("user", <<"Hello!">>)>>
  <2>1. Message("user", <<"Hello!">>) \in Told  BY DEF Message, Told, Roles
  <2>2. history[1] \in Told  BY <1>1, <1>2, <1>3
  <2>3. h \in Seq(Told) /\ Len(h) = 2 /\ h[2] = Message("user", <<"Hello!">>)  BY <2>1, <2>2
  <2>4. ~SaysNothing(Message("user", <<"Hello!">>))
    BY DEF SaysNothing, Message, InterruptionChar
  <2>5. Message("user", <<"Hello!">>).role = "user"  BY DEF Message
  <2>6. Preprocessed(history) = PreprocessMessages(h)  BY <1>6 DEF Preprocessed
  <2> HIDE DEF h
  <2>7. 2 \in 1..Len(h) /\ 2 = Len(h)  BY <2>3
  <2>8. Clean(h) \in Seq(Told) /\ Clean(h) # <<>> /\ Last(Clean(h)).role = "user"
    BY <2>3, <2>4, <2>5, <2>7, CleanEffect
  <2> QED  BY <2>3, <2>6, <2>8, PreprocessEffect
<1> QED  BY <1>5, <1>6

LEMMA ShownStep ==
    ASSUME Inv, [Next]_vars
    PROVE  shown' = shown \/ \E t \in Turns : llm[t] = "created" /\ shown' = Preprocessed(history)
<1>1. CASE UNCHANGED vars  BY <1>1 DEF vars, talk
<1>2. ASSUME NEW t \in Turns, Llm(t), ~LlmStart(t) PROVE shown' = shown
  <2>1. ASSUME NEW b, EndOfText(t, b) PROVE shown' = shown  BY <2>1 DEF EndOfText, talk
  <2>2. SendDelta(t) => shown' = shown  BY <2>1 DEF SendDelta, talk
  <2>3. LlmEnd(t) => shown' = shown
    <3>1. LlmEnd(t) => EndOfText(t, sent[t] > 0)  BY DEF LlmEnd
    <3> QED  BY <2>1, <3>1
  <2> QED  BY <1>2, <2>2, <2>3 DEF Llm, LlmDelta, LlmGetsTts, LlmFails, talk
<1>3. ASSUME NEW t \in Turns, LlmStart(t)
      PROVE  llm[t] = "created" /\ shown' = Preprocessed(history)
  BY <1>3 DEF LlmStart
<1>4. ASSUME NEW t \in Turns, Tts(t) PROVE shown' = shown
  BY <1>4 DEF Tts, TtsReady, TtsInitFails, TtsAudio, TtsText, TtsBreak, TtsServerCloses, TtsEnd,
              TtsConnectionFails, TtsSleepEnds, EndOfTurn, talk
<1>5. CASE Receive \/ ReceiveFrame \/ ReceiveFlushing \/ SetInstructions
  BY <1>5 DEF Receive, ReceiveFrame, ReceiveFlushing, SetInstructions, GenerateResponse, talk
<1>6. CASE SttStep \/ SttCloses \/ (SttWord /\ State # "bot_speaking")
  BY <1>6 DEF SttStep, SttCloses, SttWord, talk
<1>7. ASSUME NEW w \in Interrupters, InterruptBot(w) \/ InterruptContinues(w) PROVE shown' = shown
  BY <1>7 DEF InterruptBot, InterruptAtOnce, InterruptCloses, InterruptContinues
<1> QED  BY <1>1, <1>2, <1>3, <1>4, <1>5, <1>6, <1>7, NextCases

-----------------------------------------------------------------------------
(* The theorems *)

\* At every step of any interleaving of receive(), the tasks of the turns and the
\* speech-to-text loop, the quests, the history and the queue are in agreement.
THEOREM InvIsInvariant == Spec => []Inv
<1>1. Inv /\ [Next]_vars => Inv'
  BY InvTypes, TasksStep, FlushStep, AskedStep, OutputStep, WordsStep DEF Inv
<1> QED  BY InvInit, <1>1, PTL DEF Spec

\* Every variable holds what the code can store in it, for any number of turns.
THEOREM TypesHold == Spec => []TypeOK
<1>1. Inv => TypeOK  BY DEF Inv, Types
<1> QED  BY <1>1, InvIsInvariant, PTL

\* interrupt_bot() that resumes after it has closed a websocket cancels the LLM of
\* the turn it has interrupted, and never that of an answer begun meanwhile.
THEOREM InterruptionHitsItsTurn == Spec => []HitsItsTurn
<1>1. Inv => HitsItsTurn  BY DEF Inv, TasksOK, QuestOK, AwaitsOK, HitsItsTurn
<1> QED  BY <1>1, InvIsInvariant, PTL

\* Each turn of the bot has one message, in the order of the turns, with no word of
\* another turn, whatever the interleaving of the tasks of any number of turns.
THEOREM EachTurnHasItsMessage == Spec => []MessagePerTurn
<1>1. Inv => MessagePerTurn  BY DEF Inv, WordsOK, MessagesOK, MessagePerTurn
<1> QED  BY <1>1, InvIsInvariant, PTL

\* No voice of a turn that was interrupted is in the queue that the client reads.
THEOREM InterruptedIsSilent == Spec => []NoStaleVoice
<1>1. Inv => NoStaleVoice  BY DEF Inv, OutputOK
<1> QED  BY <1>1, InvIsInvariant, PTL

\* Each request to the LLM ends with a message of the user: a turn is only asked for
\* when the user has said something or when nobody has yet.
THEOREM LlmAnswersTheUser == Spec => []AnswersTheUser
<1>1. Init => AnswersTheUser  BY DEF Init, AnswersTheUser
<1>2. Inv /\ AnswersTheUser /\ [Next]_vars => AnswersTheUser'
  BY ShownStep, AsksUser DEF AnswersTheUser
<1> QED  BY <1>1, <1>2, InvIsInvariant, PTL DEF Spec

\* The tasks take turns: every step of theirs is one of the conversation, or none.
THEOREM TasksTakeTurns == Spec => TakesTurns
<1>1. Init => Conversation!Init
  <2> SUFFICES ASSUME Init PROVE Conversation!Init
    OBVIOUS
  <2>1. history = <<Message("system", <<"prompt">>)>>  BY DEF Init, NewHistory
  <2>2. history \in Histories /\ Last(history).role = "system"
    BY <2>1, NewIsHistory DEF Init, Last, Message
  <2>3. State = "waiting_for_user"  BY <2>2, Floor DEF State
  <2> QED  BY <2>3 DEF Conversation!Init, Init
<1>2. Inv /\ [Next]_vars => [Conversation!Next]_(Conversation!vars)
  <2> SUFFICES ASSUME Inv, [Next]_vars PROVE Conversation!Next \/ UNCHANGED Conversation!vars
    OBVIOUS
  <2>1. history \in Histories /\ history' \in Histories
    BY InvTypes DEF Inv, Types
  <2>2. /\ State = "bot_speaking" <=> Last(history).role = "assistant"
        /\ State = "user_speaking" <=> Last(history).role = "user" /\ Last(history).content # <<>>
        /\ State = "waiting_for_user"
             <=> Last(history).role # "assistant" /\ ~(Last(history).role = "user" /\ Last(history).content # <<>>)
    BY <2>1, Floor DEF State
  <2>3. /\ State' = "bot_speaking" <=> Last(history').role = "assistant"
        /\ State' = "user_speaking" <=> Last(history').role = "user" /\ Last(history').content # <<>>
        /\ State' = "waiting_for_user"
             <=> Last(history').role # "assistant" /\ ~(Last(history').role = "user" /\ Last(history').content # <<>>)
    BY <2>1, Floor DEF State
  <2>4. CASE NobodySays
    <3>1. State' = State  BY <2>4 DEF NobodySays, State
    <3> QED  BY <2>4, <3>1 DEF NobodySays, Conversation!vars
  <2>5. CASE SomeoneElseSays
    <3>1. /\ Last(history').role = "user"
          /\ Last(history).role = "user" /\ Last(history).content # <<>> => Last(history').content # <<>>
      BY <2>1, <2>5, UserEffect DEF SomeoneElseSays
    <3>2. turn' = turn /\ spoken' = spoken  BY <2>5 DEF SomeoneElseSays
    <3>3. CASE State = "bot_speaking"
      <4>1. State' \in {"waiting_for_user", "user_speaking"}  BY <2>3, <3>1
      <4> QED  BY <3>2, <3>3, <4>1 DEF Conversation!Next, Conversation!BotEnds
    <3>4. CASE State = "user_speaking"
      <4>1. State' = State  BY <2>2, <2>3, <3>1, <3>4
      <4> QED  BY <3>2, <4>1 DEF Conversation!vars
    <3>5. CASE State = "waiting_for_user"
      <4>1. State' \in {"waiting_for_user", "user_speaking"}  BY <2>3, <3>1
      <4> QED  BY <3>2, <3>5, <4>1 DEF Conversation!Next, Conversation!UserSpeaks, Conversation!vars
    <3> QED  BY <2>2, <3>3, <3>4, <3>5
  <2>6. CASE BotSaysWord
    <3>1. State = "bot_speaking" /\ State' = "bot_speaking"
      BY <2>2, <2>3, <2>6, WordEffect DEF BotSaysWord
    <3> QED  BY <2>6, <3>1 DEF BotSaysWord, Conversation!Next, Conversation!BotSpeaks
  <2>7. CASE BotIsCut
    <3>1. State = "bot_speaking" /\ turn' = turn /\ spoken' = spoken  BY <2>2, <2>7 DEF BotIsCut
    <3>2. WithDash \in Histories /\ Last(WithDash).role = "assistant"
      BY <2>7, DashEffect DEF BotIsCut
    <3>3. CASE history' = WithDash
      <4>1. State' = State  BY <2>3, <3>1, <3>2, <3>3
      <4> QED  BY <3>1, <4>1 DEF Conversation!vars
    <3>4. CASE history' # WithDash
      <4>1. Last(history').role = "user"  BY <2>7, <3>2, <3>4, UserEffect DEF BotIsCut
      <4>2. State' \in {"waiting_for_user", "user_speaking"}  BY <2>3, <4>1
      <4> QED  BY <3>1, <4>2 DEF Conversation!Next, Conversation!BotEnds
    <3> QED  BY <3>3, <3>4
  <2>8. CASE BotIsAsked
    <3>1. turn + 1 \in Turns /\ turn' = turn + 1 /\ State' = "bot_speaking"
      BY <2>3, <2>8, AskEffect DEF BotIsAsked
    <3>2. State = "user_speaking" \/ turn = 0  BY <2>2, <2>8, InvFacts DEF BotIsAsked
    <3>3. spoken' = spoken  BY <2>8 DEF BotIsAsked, GenerateResponse
    <3> QED  BY <3>1, <3>2, <3>3 DEF Conversation!Next, Conversation!BotBegins
  <2> QED  BY <2>4, <2>5, <2>6, <2>7, <2>8, HistoryStep
<1> QED  BY <1>1, <1>2, InvIsInvariant, PTL DEF Spec, TakesTurns, Conversation!Spec
=============================================================================
