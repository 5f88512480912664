------------------------------- MODULE Session -------------------------------
(***************************************************************************)
(* unmute/main_websocket.py: the life of a session, from the connection of *)
(* a browser to the release of its slot, with the STT client it holds      *)
(* (unmute/stt/speech_to_text.py).                                         *)
(*                                                                         *)
(* A running session is a task group of the receive loop, the emit loop    *)
(* and quest_manager.wait(); the first of them that fails cancels the      *)
(* others, and the session ends when all three are over.  Quest.remove()   *)
(* swallows a cancellation: a receive loop that is cancelled while it      *)
(* interrupts the bot goes on.  The LLM and the TTS appear only as the     *)
(* quests that fail, QuestManager.tla and UnmuteHandler.tla model them.    *)
(***************************************************************************)
EXTENDS Naturals, FiniteSets

CONSTANTS
    Clients,        \* the connections made to /v1/realtime
    MaxClients      \* MAX_CLIENTS, the slots of SEMAPHORE

ASSUME SlotsAssumption == IsFiniteSet(Clients) /\ MaxClients \in Nat \ {0}

Loops == {"recv", "emit", "wait"}
\* What ends a session: WebSocketClosedError, a service that is at capacity or timed
\* out, or any other exception.
Errors == {"closed", "service", "internal"}
ServiceErrors == Errors \ {"closed"}

VARIABLES
    client,     \* the browser: "away", "here" or "left"
    route,      \* websocket_route: where it is
    socket,     \* what the backend made of the websocket: "none", "open", "closed"
    loop,       \* of each client and loop, what it awaits, or "over"
    cancelled,  \* the loops with a cancellation that has not reached them
    aborted,    \* the task group has cancelled its tasks
    raised,     \* the exceptions the session ends with
    stt,        \* the STT: "none", "open", "lost" once the server closed it, "over"
    gauge,      \* the session's share of STT_ACTIVE_SESSIONS
    told        \* what the browser was told: "nothing", "goodbye", "unhealthy", "fatal"

tasks == <<loop, cancelled, aborted, raised>>
vars == <<client, route, socket, tasks, stt, gauge, told>>

Init ==
    /\ client = [c \in Clients |-> "away"] /\ route = [c \in Clients |-> "none"]
    /\ socket = [c \in Clients |-> "none"]
    /\ loop = [c \in Clients |-> [t \in Loops |-> "none"]]
    /\ cancelled = [c \in Clients |-> {}] /\ aborted = [c \in Clients |-> FALSE]
    /\ raised = [c \in Clients |-> {}]
    /\ stt = [c \in Clients |-> "none"] /\ gauge = [c \in Clients |-> 0]
    /\ told = [c \in Clients |-> "nothing"]

-----------------------------------------------------------------------------
(* The browser *)

Connect(c) ==
    /\ client[c] = "away"
    /\ client' = [client EXCEPT ![c] = "here"]
    /\ route' = [route EXCEPT ![c] = "waiting"]
    /\ UNCHANGED <<socket, tasks, stt, gauge, told>>

Leave(c) ==
    /\ client[c] = "here"
    /\ client' = [client EXCEPT ![c] = "left"]
    /\ UNCHANGED <<route, socket, tasks, stt, gauge, told>>

-----------------------------------------------------------------------------
(* The start of a session *)

HasSlot(c) == route[c] \in {"starting", "checking", "running", "exiting", "closing", "reporting"}

\* Mutant of SlotIsFree: the slot that is given back at the end is not counted.
SlotNotGivenBack == Cardinality({c \in Clients : HasSlot(c) \/ route[c] = "over"}) < MaxClients
SlotIsFree == Cardinality({c \in Clients : HasSlot(c)}) < MaxClients

Accept(c) ==
    /\ route[c] = "waiting" /\ SlotIsFree
    /\ route' = [route EXCEPT ![c] = "starting"]
    /\ socket' = [socket EXCEPT ![c] = "open"]
    /\ UNCHANGED <<client, tasks, stt, gauge, told>>

SttReady(c) ==
    /\ route[c] = "starting"
    /\ route' = [route EXCEPT ![c] = "checking"]
    /\ stt' = [stt EXCEPT ![c] = "open"]
    /\ gauge' = [gauge EXCEPT ![c] = 1]
    /\ UNCHANGED <<client, socket, tasks, told>>

\* find_instance() has tried its instances in vain.
SttFails(c) ==
    /\ route[c] = "starting"
    /\ \E e \in ServiceErrors : raised' = [raised EXCEPT ![c] = {e}]
    /\ route' = [route EXCEPT ![c] = "exiting"]
    /\ UNCHANGED <<client, socket, loop, cancelled, aborted, stt, gauge, told>>

Servers == {"tts", "stt", "llm", "voice_cloning"}

\* _check_server_status(): what a server answers in time, if it does.
IsUp(answer) == answer = "200"

\* The servers that are up, of all of which are asked at the same time.
HealthStatuses ==
    {{s \in Servers : IsUp(answer[s])} : answer \in [Servers -> {"200", "error", "none"}]}

\* Voice cloning is not required.
IsOk(health) == {"tts", "stt", "llm"} \subseteq health

Healthy(c) ==
    /\ route[c] = "checking" /\ \E health \in HealthStatuses : IsOk(health)
    /\ route' = [route EXCEPT ![c] = "running"]
    /\ loop' = [loop EXCEPT ![c] = [recv |-> "reading", emit |-> "sending", wait |-> "waiting"]]
    /\ UNCHANGED <<client, socket, cancelled, aborted, raised, stt, gauge, told>>

Unhealthy(c) ==
    /\ route[c] = "checking" /\ \E health \in HealthStatuses : ~IsOk(health)
    /\ socket' = [socket EXCEPT ![c] = "closed"]
    /\ told' = [told EXCEPT ![c] = IF client[c] = "here" THEN "unhealthy" ELSE @]
    /\ route' = [route EXCEPT ![c] = "exiting"]
    /\ UNCHANGED <<client, tasks, stt, gauge>>

-----------------------------------------------------------------------------
(* The task group of _run_route *)

Step(c, t, at) == loop' = [loop EXCEPT ![c][t] = at]
Awaits(c, t, at) == route[c] = "running" /\ loop[c][t] = at /\ t \notin cancelled[c]
Reachable(c) == client[c] = "here" /\ socket[c] = "open"

RaiseIn(c, t, e) ==
    /\ Step(c, t, "over")
    /\ raised' = [raised EXCEPT ![c] = @ \cup {e}]
    /\ UNCHANGED <<client, route, socket, cancelled, aborted, stt, gauge, told>>

Goes(c, t, from, to) ==
    /\ Awaits(c, t, from)
    /\ Step(c, t, to)
    /\ UNCHANGED <<client, route, socket, cancelled, aborted, raised, stt, gauge, told>>

\* receive_loop: a message, whose handling may interrupt the bot.
Receive(c) == Reachable(c) /\ Goes(c, "recv", "reading", "handling")
Handled(c) == Goes(c, "recv", "handling", "reading")
Interrupt(c) == Goes(c, "recv", "handling", "interrupting")
Interrupted(c) == Goes(c, "recv", "interrupting", "reading")

\* Mutant of Disconnected: the end of the receive loop is no failure.
DisconnectedQuietly(c) == ~Reachable(c) /\ Goes(c, "recv", "reading", "over")
Disconnected(c) ==
    /\ Awaits(c, "recv", "reading") /\ ~Reachable(c)
    /\ RaiseIn(c, "recv", "closed")

\* receive(): the STT does not take the audio.
HandlingFails(c) ==
    /\ Awaits(c, "recv", "handling") /\ stt[c] # "open"
    /\ RaiseIn(c, "recv", "internal")

EmitFails(c) ==
    /\ Awaits(c, "emit", "sending") /\ ~Reachable(c)
    /\ RaiseIn(c, "emit", "closed")

\* The bot has said goodbye: CloseStream.
EmitCloses(c) ==
    /\ Awaits(c, "emit", "sending") /\ socket[c] = "open"
    /\ Step(c, "emit", "over")
    /\ socket' = [socket EXCEPT ![c] = "closed"]
    /\ told' = [told EXCEPT ![c] = IF client[c] = "here" THEN "goodbye" ELSE @]
    /\ UNCHANGED <<client, route, cancelled, aborted, raised, stt, gauge>>

QuestFails(c) ==
    /\ Awaits(c, "wait", "waiting")
    /\ \E e \in ServiceErrors : RaiseIn(c, "wait", e)

\* The group notices the first failure a step later, and only the first.
Abort(c) ==
    /\ route[c] = "running" /\ raised[c] # {} /\ ~aborted[c]
    /\ aborted' = [aborted EXCEPT ![c] = TRUE]
    /\ cancelled' = [cancelled EXCEPT ![c] = {t \in Loops : loop[c][t] # "over"}]
    /\ UNCHANGED <<client, route, socket, loop, raised, stt, gauge, told>>

Cancelled(c, t) ==
    /\ t \in cancelled[c] /\ loop[c][t] # "interrupting"
    /\ Step(c, t, "over")
    /\ cancelled' = [cancelled EXCEPT ![c] = @ \ {t}]
    /\ UNCHANGED <<client, route, socket, aborted, raised, stt, gauge, told>>

\* Quest.remove(): the close step is cut short, and the loop goes on.
CancelSwallowed(c) ==
    /\ "recv" \in cancelled[c] /\ loop[c]["recv"] = "interrupting"
    /\ Step(c, "recv", "reading")
    /\ cancelled' = [cancelled EXCEPT ![c] = @ \ {"recv"}]
    /\ UNCHANGED <<client, route, socket, aborted, raised, stt, gauge, told>>

AllOver(c) == \A t \in Loops : loop[c][t] = "over"

GroupEnds(c) ==
    /\ route[c] = "running" /\ AllOver(c)
    /\ route' = [route EXCEPT ![c] = "exiting"]
    /\ UNCHANGED <<client, socket, tasks, stt, gauge, told>>

-----------------------------------------------------------------------------
(* The STT: its server, the end of its iteration, and shutdown() *)

SttServerCloses(c) ==
    /\ stt[c] = "open"
    /\ stt' = [stt EXCEPT ![c] = "lost"]
    /\ UNCHANGED <<client, route, socket, tasks, gauge, told>>

\* The STT loop may be busy interrupting the bot, and sees the end only later.
SttIterationEnds(c) ==
    /\ stt[c] \in {"lost", "shut"}
    /\ stt' = [stt EXCEPT ![c] = "over"]
    /\ UNCHANGED <<client, route, socket, tasks, gauge, told>>

Afterwards(c) == IF raised[c] = {} THEN "over" ELSE "reporting"

\* Mutant of ShutdownStt: shutdown() does not wait for the iteration.
ShutdownUnawaited(c) ==
    /\ route[c] = "exiting" /\ stt[c] \in {"open", "lost"}
    /\ gauge' = [gauge EXCEPT ![c] = @ - 1]
    /\ stt' = [stt EXCEPT ![c] = "shut"]
    /\ route' = [route EXCEPT ![c] = Afterwards(c)]
    /\ UNCHANGED <<client, socket, tasks, told>>

ShutdownStt(c) ==
    /\ route[c] = "exiting" /\ stt[c] \in {"open", "lost"}
    /\ gauge' = [gauge EXCEPT ![c] = @ - 1]
    /\ stt' = [stt EXCEPT ![c] = "shut"]
    /\ route' = [route EXCEPT ![c] = "closing"]
    /\ UNCHANGED <<client, socket, tasks, told>>

\* shutdown() has nothing to do any more, or nothing was started.
IsShut(c) ==
    \/ route[c] = "exiting" /\ stt[c] \in {"none", "over"}
    \/ route[c] = "closing" /\ stt[c] = "over"

Exited(c) ==
    /\ IsShut(c)
    /\ route' = [route EXCEPT ![c] = Afterwards(c)]
    /\ UNCHANGED <<client, socket, tasks, stt, gauge, told>>

\* After the STT, the first of its quests, QuestManager.__aexit__ comes to those
\* that change its dict meanwhile.
ExitRaises(c) ==
    /\ IsShut(c) /\ aborted[c]
    /\ raised' = [raised EXCEPT ![c] = {"internal"}]
    /\ route' = [route EXCEPT ![c] = "reporting"]
    /\ UNCHANGED <<client, socket, loop, cancelled, aborted, stt, gauge, told>>

-----------------------------------------------------------------------------
(* The end *)

\* Mutant of HasMessage: a service that is missing is passed over like a closed socket.
HasInternalMessage(errors) == "internal" \in errors
HasMessage(errors) == errors \cap ServiceErrors # {}

Report(c) ==
    /\ route[c] = "reporting"
    /\ IF HasMessage(raised[c])
       THEN /\ told' = [told EXCEPT ![c] = IF Reachable(c) THEN "fatal" ELSE @]
            /\ socket' = [socket EXCEPT ![c] = "closed"]
       ELSE UNCHANGED <<told, socket>>
    /\ route' = [route EXCEPT ![c] = "over"]
    /\ UNCHANGED <<client, tasks, stt, gauge>>

\* What the route and the three loops do when nobody calls them.
RouteStep(c) ==
    \/ SttReady(c) \/ SttFails(c) \/ Healthy(c) \/ Unhealthy(c)
    \/ Abort(c) \/ GroupEnds(c)
    \/ ShutdownStt(c) \/ Exited(c) \/ ExitRaises(c) \/ Report(c)
RecvStep(c) ==
    \/ Handled(c) \/ HandlingFails(c) \/ Interrupted(c) \/ Disconnected(c)
    \/ Cancelled(c, "recv") \/ CancelSwallowed(c)

Next ==
    \E c \in Clients :
        \/ Connect(c) \/ Leave(c)
        \/ Accept(c) \/ RouteStep(c)
        \/ Receive(c) \/ Interrupt(c) \/ RecvStep(c)
        \/ EmitFails(c) \/ EmitCloses(c) \/ Cancelled(c, "emit")
        \/ QuestFails(c) \/ Cancelled(c, "wait")
        \/ SttServerCloses(c) \/ SttIterationEnds(c)

Spec == Init /\ [][Next]_vars

\* Every await of the backend returns: start_up() has its timeouts, a handler's
\* calls end, and a loop sees that its websocket is gone.  Nothing is assumed of
\* the browser, of the servers, or of whether a quest fails.
Fairness ==
    \A c \in Clients :
        /\ WF_vars(Accept(c)) /\ WF_vars(RouteStep(c)) /\ WF_vars(RecvStep(c))
        /\ WF_vars(EmitFails(c) \/ Cancelled(c, "emit")) /\ WF_vars(Cancelled(c, "wait"))
        /\ WF_vars(SttIterationEnds(c))

FairSpec == Spec /\ Fairness

-----------------------------------------------------------------------------
(* Properties *)

Routes == {"none", "waiting", "starting", "checking", "running", "exiting", "closing",
           "reporting", "over"}

\* Every variable holds what the code can store in it.  The gauge of a session is
\* never below nothing.
TypeOK ==
    /\ client \in [Clients -> {"away", "here", "left"}]
    /\ route \in [Clients -> Routes]
    /\ socket \in [Clients -> {"none", "open", "closed"}]
    /\ loop \in [Clients -> [Loops -> {"none", "reading", "handling", "interrupting",
                                       "sending", "waiting", "over"}]]
    /\ cancelled \in [Clients -> SUBSET Loops] /\ aborted \in [Clients -> BOOLEAN]
    /\ raised \in [Clients -> SUBSET Errors]
    /\ stt \in [Clients -> {"none", "open", "lost", "shut", "over"}]
    /\ gauge \in [Clients -> {0, 1}]
    /\ told \in [Clients -> {"nothing", "goodbye", "unhealthy", "fatal"}]

\* The slots bound what the backend asks of the STT servers: websocket_route() gives
\* its slot back only after the STT connection of the session is gone.
SttHeldWithSlot ==
    Cardinality({c \in Clients : stt[c] \in {"open", "lost", "shut"}}) <= MaxClients

\* A session that ends under a user who is still there has told them so: whatever
\* failed, at whatever moment, is reported, or the bot had said goodbye.
NoSilentEnd ==
    \A c \in Clients : route[c] = "over" /\ client[c] = "here" => told[c] # "nothing"

\* The slot of a user who leaves becomes free, whatever the session is doing: also
\* when its loops were cancelled and one of them went on.
LeftIsFreed ==
    \A c \in Clients : client[c] = "left" /\ HasSlot(c) ~> ~HasSlot(c)

\* If every user leaves some day, everyone who waits for a slot gets one.
WaiterIsServed ==
    (\A c \in Clients : client[c] = "here" ~> client[c] = "left")
        => \A c \in Clients : route[c] = "waiting" ~> route[c] # "waiting"

\* quest_manager.py: gathering manager.wait() gets any quest exception bubbled up.
\* A user whose session has failed is told, unless they leave first.
FailureBubblesUp ==
    \A c \in Clients :
        loop[c]["wait"] = "over" ~> told[c] # "nothing" \/ client[c] = "left"
=============================================================================
