------------------------------ MODULE Chatbot ------------------------------
(***************************************************************************)
(* unmute/llm/chatbot.py and llm/llm_utils.py: the chat history and what   *)
(* the LLM is shown of it, as operators on values.                         *)
(*                                                                         *)
(* The content of a message is the sequence of the words that were added   *)
(* to it: the space that joins two deltas separates two words.  Two words  *)
(* are special, the em-dash that marks an interruption and the "..." that  *)
(* marks a silence of the user; no other word contains them.  The empty    *)
(* delta is the empty sequence, any other delta is one word.               *)
(***************************************************************************)
EXTENDS Naturals, Sequences, SequencesExt

InterruptionChar == "--"
UserSilenceMarker == "..."

Roles == {"system", "user", "assistant"}

Message(role, content) == [role |-> role, content |-> content]

\* Chatbot.__init__: a new history is the system prompt alone.
NewHistory == <<Message("system", <<"prompt">>)>>

(* Chatbot.conversation_state *)
ConversationState(history) ==
    LET last == history[Len(history)] IN
    CASE last.role = "assistant" -> "bot_speaking"
      [] last.role = "user" /\ last.content # <<>> -> "user_speaking"
      [] OTHER -> "waiting_for_user"

\* Mutant of Outdated: the caller's message is never over.
NeverOutdated(history, generating) == FALSE

\* The test of generating_message_i: someone has added a message since.
Outdated(history, generating) == Len(history) > generating

(* Chatbot.add_chat_message_delta without generating_message_i *)
AddDelta(history, delta, role) ==
    LET n == Len(history) IN
    IF history[n].role # role
    THEN Append(history, Message(role, delta))
    ELSE [history EXCEPT ![n].content = @ \o delta]

\* ... and with it: a delta of a message that is over is dropped.
AddDeltaTo(history, delta, role, generating) ==
    IF Outdated(history, generating) THEN history ELSE AddDelta(history, delta, role)

\* What it returns: a message has begun, or an empty one has got its first words.
IsNewMessage(history, role) ==
    LET last == history[Len(history)] IN last.role # role \/ last.content = <<>>

\* The last message of a role as check_for_bot_goodbye looks for it, said or not
LastOf(history, role) ==
    LET at == {i \in DOMAIN history : history[i].role = role} IN
    IF at = {} THEN <<>> ELSE history[CHOOSE i \in at : \A j \in at : j <= i].content

-----------------------------------------------------------------------------
(* preprocess_messages_for_llm *)

\* Nothing but (at most) the em-dash: the LLM had not said anything.
SaysNothing(m) == m.content \in {<<>>, <<InterruptionChar>>}

\* Mutant of WithoutDash: strips the other end.
WithoutFirstDash(content) ==
    IF content # <<>> /\ content[1] = InterruptionChar THEN Tail(content) ELSE content

\* str.removesuffix: one em-dash, at the end.
WithoutDash(content) ==
    IF content # <<>> /\ Last(content) = InterruptionChar THEN Front(content) ELSE content

\* Mutants of Merge: keeps every message apart; replaces what it should continue.
MergeNothing(output, m) == Append(output, m)
MergeReplacing(output, m) ==
    IF output # <<>> /\ Last(output).role = m.role
    THEN [output EXCEPT ![Len(output)] = m]
    ELSE Append(output, m)

\* Consecutive messages of a role, which dropping a message can leave, are merged.
Merge(output, m) ==
    IF output # <<>> /\ Last(output).role = m.role
    THEN [output EXCEPT ![Len(output)].content = @ \o m.content]
    ELSE Append(output, m)

\* What is left of each number of first messages.
CleanedUpTo(history) ==
    LET output[n \in 0..Len(history)] ==
        IF n = 0 THEN <<>>
        ELSE LET m == history[n] IN
             IF SaysNothing(m) THEN output[n - 1]
             ELSE Merge(output[n - 1], Message(m.role, WithoutDash(m.content)))
    IN  output

Clean(history) == CleanedUpTo(history)[Len(history)]

Dummy == Message("user", <<"Hello.">>)

\* Some LLMs are confused by an assistant message before any user message.
WithUserFirst(output) ==
    IF output # <<>> /\ output[1].role = "system"
       /\ (Len(output) = 1 \/ output[2].role = "assistant")
    THEN <<output[1], Dummy>> \o Tail(output)
    ELSE output

\* The marker of a silence goes once the user has said something after it.
WithoutMarker(m) ==
    IF m.role = "user" /\ Len(m.content) > 1 /\ m.content[1] = UserSilenceMarker
    THEN [m EXCEPT !.content = Tail(@)]
    ELSE m

PreprocessMessages(history) ==
    LET output == WithUserFirst(Clean(history)) IN
    [i \in DOMAIN output |-> WithoutMarker(output[i])]

(* Chatbot.preprocessed_messages *)
Preprocessed(history) ==
    PreprocessMessages(IF Len(history) > 2 THEN history
                       ELSE <<history[1], Message("user", <<"Hello!">>)>>)
=============================================================================
