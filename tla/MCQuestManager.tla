--------------------------- MODULE MCQuestManager ---------------------------
(* Instances of QuestManager: quests named as in unmute_handler.py, "stt", "llm"
   and "tts", an LLM and a TTS quest to a turn, and the receive loop. *)
EXTENDS QuestManager

CONSTANTS recv, qstt, qllm1, qllm2, qllm3, qtts1, qtts2, qtts3

MCNames == {"stt", "llm", "tts"}

MCNameOf == [q \in Quests |-> CASE q = qstt -> "stt"
                                [] q \in {qllm1, qllm2, qllm3} -> "llm"
                                [] OTHER -> "tts"]

MCHasClose == {"stt", "tts"}

\* start_up adds the STT, the receive loop the LLM of a turn, and the task of that
\* LLM the TTS of the turn.
CodeMadeBy == [q \in Quests |-> CASE q = qtts1 -> qllm1
                                  [] q = qtts2 -> qllm2
                                  [] q = qtts3 -> qllm3
                                  [] OTHER -> recv]

\* interrupt_bot removes the TTS and the LLM, from the receive or the STT loop.
CodeRemovedBy == [n \in MCNames |-> IF n = "stt" THEN {} ELSE {recv, "stt"}]

\* The bounds of the turns: the session goes on and no step of a quest fails (a
\* callback then changes nothing), the receive loop does not wait for an LLM, as
\* _generate_response awaits add() and never get(), the turns are numbered in the
\* order they are made, and the last one is made when the LLM of the first is over and
\* followed until its TTS takes its first step.
ThreeTurns ==
    /\ phase[recv] = "run" /\ ~cancelling[recv] /\ pc[recv] # "get"
    /\ reported = {} /\ \A q \in Quests : outcome[q] # "raised"
    /\ phase[qllm2] # "unborn" => phase[qllm1] # "unborn"
    /\ phase[qllm3] # "unborn" => phase[qllm2] # "unborn" /\ phase[qllm1] = "done"
    /\ phase[qtts3] \in {"unborn", "made", "created"}
=============================================================================
