------------------------------ MODULE LoadTest ------------------------------
(***************************************************************************)
(* loadtest_client.py: a client that answers each turn of the bot with a   *)
(* recorded file and times the phases of the turns by the messages of the  *)
(* session.  The session is modelled by what it sends: the bot may answer  *)
(* in the middle of a file, and is then interrupted by the rest of it.     *)
(* Instead of the time, the models note which file or turn a phase was     *)
(* timed by.                                                               *)
(***************************************************************************)
EXTENDS Naturals, Sequences, FiniteSets, SequencesExt

CONSTANTS
    MaxNMessages,  \* the client stops at a history of that length
    MaxTurns,      \* bound on the turns of the bot
    MaxDisturbed,  \* bound on the turns that are disturbed
    MaxWire        \* bound on the messages under way

LoadTestAssumption ==
    /\ MaxNMessages \in Nat \ {0} /\ MaxTurns \in Nat \ {0}
    /\ MaxDisturbed \in Nat /\ MaxWire \in Nat \ {0}

VARIABLES
    \* the session
    hist,          \* its chat history, each message with the files or turns it is of
    turn,          \* the turn of the bot
    stage,         \* what of it was put out: "", "created", "text", "audio"; or "over"
    inbox,         \* the pieces of files the STT has not come to
    wire,          \* the messages to the client
    told,          \* the history last sent
    disturbed,     \* the turns that did not wait for the end of a file, or were not put out whole
    stale,         \* the turns after which the bot answered before it told the history
    \* the client
    emitting,      \* "before" the connection, "start", "loop", "over"
    file,          \* the file being sent, and how many pieces are left of it
    queue,         \* audio_to_emit
    recv,          \* receive_loop(): "run", "report", "lost", "error"
    seen,          \* chat_history
    user, bot,     \* the stopwatches
    files,         \* how many files were put into the queue
    report         \* benchmark_chat_history

sessionVars == <<hist, turn, stage, inbox, wire, told, disturbed, stale>>
emitVars == <<emitting, file, queue>>
recvVars == <<recv, seen, user, bot, files, report>>
vars == <<sessionVars, emitVars, recvVars>>

Pieces == 2
None == 0
Silence == 0
CloseStream == 0

UserReset == [audio_start |-> None, text_start |-> None, audio_end |-> None]
BotReset == [created |-> None, text |-> None, audio |-> None, done |-> None]

Init ==
    /\ hist = <<>> /\ turn = 0 /\ stage = "" /\ inbox = <<>> /\ wire = <<>>
    /\ told = <<>> /\ disturbed = {} /\ stale = {}
    /\ emitting = "before" /\ file = [id |-> None, left |-> 0] /\ queue = <<>>
    /\ recv = "run" /\ seen = <<>> /\ user = UserReset /\ bot = BotReset
    /\ files = 0 /\ report = <<>>

Message(role, said) == [role |-> role, said |-> said]

\* The end of _main() closes the connection, as does the error of either loop.
Connected == stage # "over" /\ recv # "error" /\ ~(recv = "report" /\ emitting = "over")

-----------------------------------------------------------------------------
(* The session *)

News(type) == [type |-> type, of |-> turn, hist |-> <<>>]
Outputs(history) == [type |-> "outputs", of |-> turn, hist |-> history]

\* The last file is not over, or not begun.
UserSpeaks ==
    inbox # <<>> \/ file.left > 0 \/ queue # <<>> \/ \E i \in DOMAIN wire : wire[i].type = "done"

HasRoom == Connected /\ emitting \in {"loop", "over"} /\ Len(wire) < MaxWire

Disturbed(n) ==
    /\ disturbed' = disturbed \cup {n}
    /\ Cardinality(disturbed') <= MaxDisturbed

LongSilence ==
    /\ Connected /\ stage = "" /\ hist # <<>> /\ Last(hist).said = {}
    /\ hist' = [hist EXCEPT ![Len(hist)].said = {Silence}]
    /\ UNCHANGED <<turn, stage, inbox, wire, told, disturbed, stale, emitVars, recvVars>>

\* The greeting, and the response to a pause.
Answers ==
    /\ HasRoom /\ stage = "" /\ turn < MaxTurns
    /\ hist # <<>> => Last(hist).said # {}
    /\ hist' = Append(hist, Message("assistant", {}))
    /\ IF UserSpeaks THEN Disturbed(turn + 1) ELSE UNCHANGED disturbed
    /\ stale' = IF told = hist THEN stale ELSE stale \cup {turn}
    /\ turn' = turn + 1 /\ stage' = "created"
    /\ wire' = Append(wire, [News("created") EXCEPT !.of = turn + 1])
    /\ UNCHANGED <<inbox, told, emitVars, recvVars>>

\* The first word of the LLM, and the first audio of the TTS.
BotGoesOn ==
    /\ HasRoom
    /\ \E step \in {<<"created", "text">>, <<"text", "audio">>} :
        /\ stage = step[1] /\ stage' = step[2]
        /\ wire' = Append(wire, News(step[2]))
    /\ UNCHANGED <<hist, turn, inbox, told, disturbed, stale, emitVars, recvVars>>

\* The history gets the words as the TTS comes to them.
BotSays ==
    /\ Connected /\ stage \in {"text", "audio"} /\ Last(hist).said = {}
    /\ hist' = [hist EXCEPT ![Len(hist)].said = {turn}]
    /\ UNCHANGED <<turn, stage, inbox, wire, told, disturbed, stale, emitVars, recvVars>>

\* The silence that flushes the encoder is audio, if the encoder puts it out.
Flush == {<<>>, <<News("audio")>>}

EndOfTurn == <<Outputs(hist), News("done")>>

\* The TTS has said everything, or its connection was lost: wherever the turn is.
BotEnds ==
    /\ HasRoom /\ stage \notin {"", "over"} /\ stage' = ""
    /\ \E flush \in (IF stage = "audio" THEN {<<>>} ELSE Flush) : wire' = wire \o flush \o EndOfTurn
    /\ told' = hist
    /\ hist' = Append(hist, Message("user", {}))
    /\ IF stage = "audio" /\ Last(hist).said # {} THEN UNCHANGED disturbed ELSE Disturbed(turn)
    /\ UNCHANGED <<turn, inbox, stale, emitVars, recvVars>>

\* The bot was speaking: what was not sent yet is dropped.
Interrupted(news) ==
    /\ stage \notin {"", "over"} /\ stage' = ""
    /\ \E sent \in 0..Len(news), flush \in Flush : wire' = SubSeq(news, 1, sent) \o flush
    /\ Disturbed(turn)

\* The STT comes to a piece and to a word of it.  The client is sent the word before the
\* bot is interrupted by it.
Hears ==
    /\ HasRoom /\ inbox # <<>> /\ turn > 0
    /\ inbox' = Tail(inbox)
    /\ LET news == Append(wire, [News("word") EXCEPT !.of = Head(inbox)]) IN
        \/ /\ stage = "" /\ wire' = news
           /\ hist' = [hist EXCEPT ![Len(hist)].said = @ \cup {Head(inbox)}]
           /\ UNCHANGED <<stage, disturbed>>
        \/ /\ Interrupted(news)
           /\ hist' = Append(hist, Message("user", {Head(inbox)}))
    /\ UNCHANGED <<turn, told, stale, emitVars, recvVars>>

\* The STT takes the user to speak, before it has a word.
InterruptedByVAD ==
    /\ HasRoom /\ Interrupted(wire)
    /\ hist' = Append(hist, Message("user", {}))
    /\ UNCHANGED <<turn, inbox, told, stale, emitVars, recvVars>>

HearsNothing ==
    /\ Connected /\ inbox # <<>> /\ inbox' = Tail(inbox)
    /\ UNCHANGED <<hist, turn, stage, wire, told, disturbed, stale, emitVars, recvVars>>

\* emit() has had nothing else to send for a second.
Updates ==
    /\ HasRoom /\ told # hist
    /\ wire' = Append(wire, Outputs(hist)) /\ told' = hist
    /\ UNCHANGED <<hist, turn, stage, inbox, disturbed, stale, emitVars, recvVars>>

SessionEnds ==
    /\ Connected /\ emitting # "before" /\ stage' = "over"
    /\ \E how \in {"closed", "lost"} : wire' = Append(wire, News(how))
    /\ UNCHANGED <<hist, turn, inbox, told, disturbed, stale, emitVars, recvVars>>

-----------------------------------------------------------------------------
(* emit_loop() *)

\* The backend is healthy, and its first voice is one to ask for.
Begins ==
    /\ emitting = "before" /\ emitting' = "start"
    /\ UNCHANGED <<sessionVars, file, queue, recvVars>>

BeginsNot ==
    /\ emitting = "before" /\ emitting' = "over"
    /\ recv' = "lost" /\ stage' = "over"
    /\ UNCHANGED <<hist, turn, inbox, wire, told, disturbed, stale, file, queue,
                   seen, user, bot, files, report>>

SendsUpdate ==
    /\ emitting = "start" /\ emitting' = "loop"
    /\ UNCHANGED <<sessionVars, file, queue, recvVars>>

\* The queue is looked at when the audio before has been sent, in real time.
Takes ==
    /\ emitting = "loop" /\ file.left = 0 /\ queue # <<>>
    /\ queue' = Tail(queue)
    /\ IF Head(queue) = CloseStream THEN emitting' = "over" /\ file' = file
       ELSE emitting' = "loop" /\ file' = [id |-> Head(queue), left |-> Pieces]
    /\ UNCHANGED <<sessionVars, recvVars>>

Sends ==
    /\ emitting = "loop" /\ file.left > 0 /\ Connected
    /\ file' = [file EXCEPT !.left = @ - 1] /\ inbox' = Append(inbox, file.id)
    /\ UNCHANGED <<hist, turn, stage, wire, told, disturbed, stale, emitting, queue, recvVars>>

EmitBreaks ==
    /\ emitting \in {"start", "loop"} /\ ~Connected /\ emitting' = "over"
    /\ UNCHANGED <<sessionVars, file, queue, recvVars>>

-----------------------------------------------------------------------------
(* receive_loop() and PhasesStopwatch *)

\* time_phase_if_not_started()
Timed(watch, phase, by) == IF watch[phase] = None THEN [watch EXCEPT ![phase] = by] ELSE watch

Done(watch, phases) == \A p \in phases : watch[p] # None

Receives(type) ==
    /\ recv = "run" /\ wire # <<>> /\ Head(wire).type = type
    /\ wire' = Tail(wire)
    /\ UNCHANGED <<hist, turn, stage, inbox, told, disturbed, stale, emitting, file>>

Fails == recv' = "error" /\ UNCHANGED <<queue, seen, user, bot, files, report>>

Entry(role, said, times) == [role |-> role, said |-> said, times |-> times]

\* Mutant of Reported: the stopwatch goes on.
ReportedNoReset(role, said, watch, reset) ==
    report' = Append(report, Entry(role, said, watch)) /\ reset = watch

\* phase_dict() and reset()
Reported(role, said, watch, reset) ==
    /\ report' = Append(report, Entry(role, said, watch))
    /\ reset = [p \in DOMAIN watch |-> None]

OnCreated ==
    /\ Receives("created")
    /\ LET by == Head(wire).of
           watch == IF user.audio_start = None THEN user
                    ELSE Timed(user, "text_start", files)
           users == {i \in DOMAIN seen : seen[i].role = "user"}
       IN IF users = {} \/ seen[Max(users)].said = {}
          THEN user' = watch /\ bot' = Timed(bot, "created", by)
               /\ UNCHANGED <<recv, queue, seen, files, report>>
          ELSE IF ~Done(watch, DOMAIN watch) THEN Fails
          ELSE /\ Reported("user", seen[Max(users)].said, watch, user')
               /\ bot' = Timed(bot, "created", by)
               /\ UNCHANGED <<recv, queue, seen, files>>

OnText ==
    /\ Receives("text")
    /\ IF ~Done(bot, {"created"}) THEN Fails
       ELSE bot' = Timed(bot, "text", Head(wire).of)
            /\ UNCHANGED <<recv, queue, seen, user, files, report>>

OnAudio ==
    /\ Receives("audio")
    /\ bot' = Timed(bot, "audio", Head(wire).of)
    /\ UNCHANGED <<recv, queue, seen, user, files, report>>

\* An empty history has no last message.
OnDone ==
    /\ Receives("done")
    /\ IF ~Done(bot, {"created", "text", "audio"}) \/ seen = <<>> THEN Fails
       ELSE LET n == files + 1
                stops == Len(seen) >= MaxNMessages
            IN /\ Reported("assistant", Last(seen).said,
                           Timed(bot, "done", Head(wire).of), bot')
               /\ files' = n
               /\ queue' = queue \o (IF stops THEN <<n, CloseStream>> ELSE <<n>>)
               /\ user' = Timed(Timed(user, "audio_start", n), "audio_end", n)
               /\ recv' = (IF stops THEN "report" ELSE "run")
               /\ UNCHANGED seen

OnWord ==
    /\ Receives("word")
    /\ IF ~Done(user, {"audio_start"}) THEN Fails
       ELSE user' = Timed(user, "text_start", Head(wire).of)
            /\ UNCHANGED <<recv, queue, seen, bot, files, report>>

OnOutputs ==
    /\ Receives("outputs") /\ seen' = Head(wire).hist
    /\ UNCHANGED <<recv, queue, user, bot, files, report>>

\* The iteration over a connection that was closed properly just ends.
OnClosed ==
    /\ Receives("closed")
    /\ recv' = "report" /\ queue' = Append(queue, CloseStream)
    /\ UNCHANGED <<seen, user, bot, files, report>>

OnLost ==
    /\ Receives("lost") /\ recv' = "lost"
    /\ UNCHANGED <<queue, seen, user, bot, files, report>>

Next ==
    \/ LongSilence \/ Answers \/ BotGoesOn \/ BotSays \/ BotEnds \/ Hears \/ InterruptedByVAD
    \/ HearsNothing \/ Updates \/ SessionEnds
    \/ Begins \/ BeginsNot \/ SendsUpdate \/ Takes \/ Sends \/ EmitBreaks
    \/ OnCreated \/ OnText \/ OnAudio \/ OnDone \/ OnWord \/ OnOutputs \/ OnClosed \/ OnLost

Spec == Init /\ [][Next]_vars

-----------------------------------------------------------------------------
(* Properties *)

\* The turn of the bot that an entry is of, or answers.
TurnOf(i) == report[IF report[i].role = "assistant" THEN i ELSE i - 1].times.done

TimedBy(times, n) == \A p \in DOMAIN times : times[p] = n

\* The bot's entries are of one turn after the other.  The user's is missing only where the
\* bot answered before the client was told what the user had said.
OfTheBot(i) ==
    LET n == TurnOf(i) IN
    /\ n = (IF i = 1 THEN 1 ELSE TurnOf(i - 1) + 1)
    /\ TimedBy(report[i].times, n) /\ report[i].said = {n}
    /\ i > 1 /\ report[i - 1].role = "assistant" => TurnOf(i - 1) \in stale

\* The user's entry follows the turn that it answers.  Its words are of the file before
\* only where the bot answered too early, its times of a file before only after an entry
\* that is missing, and never of two files.
OfTheUser(i) ==
    LET n == TurnOf(i) IN
    /\ i > 1 /\ report[i - 1].role = "assistant"
    /\ report[i].said # {}
    /\ \/ report[i].said \subseteq {Silence, n}
       \/ n \in stale /\ report[i].said \subseteq {Silence, n - 1}
    /\ \E j \in 1..n : TimedBy(report[i].times, j)
    /\ i = 2 \/ report[i - 2].role = "user" => TimedBy(report[i].times, n)

\* In a conversation in which the bot waits for the end of each file and puts its turns out
\* to their ends, the phase checks never fail, and a history that comes too late for an
\* answer leaves out or mixes up at most the user's entries until it is in time again.
RightTimes ==
    disturbed = {} =>
        /\ recv # "error"
        /\ \A i \in DOMAIN report :
            IF report[i].role = "assistant" THEN OfTheBot(i) ELSE OfTheUser(i)
=============================================================================
