------------------------------- MODULE MCChat -------------------------------
(* What is made of a conversation, for TLC: the recording (Recorder), the LLM's
   prompt (ChatHistory), the words the TTS is given of its answer (Rechunk), and the
   report of the load test (LoadTest).  The four have no state in common, so a
   behaviour is one of one of them. *)
EXTENDS Recorder

CONSTANTS
    UserWords, BotWords, MaxMessages, MaxWords,
    Letters, MaxChunk, MaxText, MaxNMessages, MaxTurns, MaxDisturbed, MaxWire

VARIABLES
    part,       \* which of the four
    history,
    stream, text, buffer, prefix, words,
    hist, turn, stage, inbox, wire, told, disturbed, stale, emitting, sentFile, queue,
    recv, seen, user, bot, files, report

Chat == INSTANCE ChatHistory
R == INSTANCE Rechunk
Test == INSTANCE LoadTest WITH file <- sentFile

ASSUME ChatAssumption == Chat!BoundsAssumption /\ R!RechunkAssumption /\ Test!LoadTestAssumption

rechunkVars == <<stream, text, buffer, prefix, words>>
testVars == <<hist, turn, stage, inbox, wire, told, disturbed, stale, emitting, sentFile, queue,
              recv, seen, user, bot, files, report>>
MCvars == <<part, vars, history, rechunkVars, testVars>>

MCInit ==
    /\ part \in {"recording", "prompt", "answer", "test"}
    /\ Init /\ Chat!Init /\ R!Init /\ Test!Init

MCRecording ==
    part = "recording" /\ Next /\ UNCHANGED <<part, history, rechunkVars, testVars>>
MCPrompt ==
    part = "prompt" /\ Chat!Next /\ UNCHANGED <<part, vars, rechunkVars, testVars>>
MCAnswer ==
    part = "answer" /\ R!Next /\ UNCHANGED <<part, vars, history, testVars>>
MCTest ==
    part = "test" /\ Test!Next /\ UNCHANGED <<part, vars, history, rechunkVars>>

MCNext == MCRecording \/ MCPrompt \/ MCAnswer \/ MCTest

MCSpec == MCInit /\ [][MCNext]_MCvars

\* ChatHistory: what the LLM is shown takes turns, and begins and ends with the user.
ContextShape == Chat!ContextShape

\* ChatHistory: the LLM is shown every word that was said, in order.
ContextKeepsWords == Chat!ContextKeepsWords

\* ChatHistory: an em-dash reaches the LLM only from a message that was
\* interrupted twice or continued after its interruption.
DashOnlyIfContinued == Chat!DashOnlyIfContinued

\* Rechunk: the TTS is given the words of the text, whole and in order.
WholeWords == R!WholeWords

\* LoadTest: the report of an undisturbed conversation times each turn by itself.
RightTimes == Test!RightTimes
=============================================================================
