----------------------------- MODULE TurnTaking -----------------------------
(***************************************************************************)
(* What a conversation promises, whatever its tasks do: the user and the   *)
(* bot take turns.  The bot begins a turn only to greet, when nobody has   *)
(* spoken yet, or to answer the user; it speaks only in its present turn;  *)
(* and the user, once heard, keeps the floor until answered.               *)
(***************************************************************************)
EXTENDS Naturals

CONSTANTS Turns      \* 1..n, the turns of the bot

VARIABLES
    floor,      \* Chatbot.conversation_state
    turn,       \* the turns the bot has begun
    spoken      \* the words the bot has said in each turn

vars == <<floor, turn, spoken>>

Init == floor = "waiting_for_user" /\ turn = 0 /\ spoken = [t \in Turns |-> 0]

UserSpeaks ==
    /\ floor = "waiting_for_user"
    /\ floor' = "user_speaking"
    /\ UNCHANGED <<turn, spoken>>

BotBegins ==
    /\ floor = "user_speaking" \/ turn = 0
    /\ turn + 1 \in Turns
    /\ turn' = turn + 1
    /\ floor' = "bot_speaking"
    /\ UNCHANGED spoken

BotSpeaks ==
    /\ floor = "bot_speaking"
    /\ spoken' = [spoken EXCEPT ![turn] = @ + 1]
    /\ UNCHANGED <<floor, turn>>

\* By itself, or interrupted with or without a word of the user.
BotEnds ==
    /\ floor = "bot_speaking"
    /\ floor' \in {"waiting_for_user", "user_speaking"}
    /\ UNCHANGED <<turn, spoken>>

Next == UserSpeaks \/ BotBegins \/ BotSpeaks \/ BotEnds

Spec == Init /\ [][Next]_vars
=============================================================================
