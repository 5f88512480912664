---------------------------- MODULE ChatHistory ----------------------------
(***************************************************************************)
(* Every chat history that calls of add_chat_message_delta can make, in    *)
(* any order, and what the LLM is shown of it.  A caller that names the    *)
(* message it generates is one whose message may be over by the time of    *)
(* its call.                                                               *)
(***************************************************************************)
EXTENDS Chatbot, FiniteSets

CONSTANTS
    UserWords,       \* what the STT hears
    BotWords,        \* what the TTS speaks
    MaxMessages,     \* bound on the messages of a history
    MaxWords         \* bound on the words of a message

\* The marks, and the words of the dummy message, are not what was said.
BoundsAssumption ==
    /\ MaxMessages \in Nat \ {0} /\ MaxWords \in Nat
    /\ {InterruptionChar, UserSilenceMarker} \cap (UserWords \cup BotWords) = {}
    /\ Range(Dummy.content) \cap (UserWords \cup BotWords) = {}

VARIABLE history

Init == history = NewHistory

Bounded(h) == Len(h) <= MaxMessages /\ \A i \in DOMAIN h : Len(h[i].content) <= MaxWords

UserDeltas == {<<>>, <<UserSilenceMarker>>} \cup {<<w>> : w \in UserWords}
BotDeltas == {<<>>, <<InterruptionChar>>} \cup {<<w>> : w \in BotWords}

UserDelta ==
    \E delta \in UserDeltas : history' = AddDelta(history, delta, "user")

BotDelta ==
    \E delta \in BotDeltas : history' = AddDelta(history, delta, "assistant")

LateBotDelta ==
    \E w \in BotWords, generating \in 1..MaxMessages :
        history' = AddDeltaTo(history, <<w>>, "assistant", generating)

Next == (UserDelta \/ BotDelta \/ LateBotDelta) /\ Bounded(history')

Spec == Init /\ [][Next]_history

-----------------------------------------------------------------------------
(* Properties *)

\* What the user and the bot have said in a message, and in all of them.
SpokenIn(content) ==
    FlattenSeq([i \in DOMAIN content |->
        IF content[i] \in UserWords \cup BotWords THEN <<content[i]>> ELSE <<>>])

Spoken(messages) ==
    FlattenSeq([i \in DOMAIN messages |-> SpokenIn(messages[i].content)])

\* The messages are texts, and only the first one is the system prompt.
TypeOK ==
    /\ history \in Seq([role : Roles,
                        content : Seq(UserWords \cup BotWords \cup
                                      {"prompt", InterruptionChar, UserSilenceMarker})])
    /\ \A i \in DOMAIN history : history[i].role = "system" <=> i = 1

\* The LLM sees the system prompt, then a user message, then the two roles in
\* turn, and no empty message, whatever was interrupted or left unsaid.
ContextShape ==
    LET context == Preprocessed(history) IN
    /\ Len(context) >= 2 /\ context[1].role = "system" /\ context[2].role = "user"
    /\ \A i \in 2..Len(context) : context[i].role # context[i - 1].role
    /\ \A i \in DOMAIN context : context[i].content # <<>>

\* Dropping, merging and stripping lose, repeat and reorder no word that the
\* user or the bot has said.
ContextKeepsWords ==
    Len(history) > 2 => Spoken(Preprocessed(history)) = Spoken(history)

Dashes(content) == {i \in DOMAIN content : content[i] = InterruptionChar}

\* An em-dash reaches the LLM only from a message that was interrupted twice or
\* that was continued after its interruption.
DashOnlyIfContinued ==
    (\E m \in Range(Preprocessed(history)) : InterruptionChar \in Range(m.content)) =>
        \E i \in DOMAIN history :
            Dashes(history[i].content) \ {Len(history[i].content)} # {}
=============================================================================
