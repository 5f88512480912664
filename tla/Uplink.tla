-------------------------------- MODULE Uplink --------------------------------
(***************************************************************************)
(* The user's voice, from the microphone to the Opus decoder of the server:*)
(* the page (frontend/src/app/Unmute.tsx), its audio set-up                *)
(* (useAudioProcessor.ts, useMicrophoneAccess.ts), the queue of its        *)
(* websocket hook, and the receive_loop() of the session                   *)
(* (backend-custom/main_websocket.py, as in unmute/main_websocket.py).     *)
(*                                                                         *)
(* A recording is a sequence of OGG pages of which the first is marked.    *)
(* Only a decoder that was fed the first page of a recording can make      *)
(* sense of its others.  The hook, react-use-websocket, is external: it    *)
(* keeps what is sent while there is no connection, and sends it when the  *)
(* next one opens, before the page's own effects run.  A press of the      *)
(* button that finds the page not connected starts a set-up, of which      *)
(* several can be under way.                                               *)
(***************************************************************************)
EXTENDS Naturals, Sequences

CONSTANTS
    Setups,     \* the set-ups: presses of the button while not connected
    Pages       \* bound: pages of one recording

UplinkAssumption == Pages \in Nat \ {0}

VARIABLES
    health,     \* healthStatus of the page
    want,       \* shouldConnect
    setup,      \* where each set-up, or its recorder, is
    made,       \* the pages that each recorder has made
    ref,        \* audioProcessorRef: nothing, or the set-up it is from
    ready,      \* readyState of the hook
    queue,      \* what the hook keeps until it is connected
    wire,       \* what is on its way in the present connection
    first,      \* wait_for_first_opus
    fed         \* the pages fed to the decoder of the present connection

vars == <<health, want, setup, made, ref, ready, queue, wire, first, fed>>
page == <<health, want, setup, ref>>
server == <<first, fed>>

Init ==
    /\ health = "null" /\ want = FALSE
    /\ setup = [i \in Setups |-> "free"] /\ made = [i \in Setups |-> 0]
    /\ ref = {} /\ ready = "closed" /\ queue = <<>>
    /\ wire = <<>> /\ first = TRUE /\ fed = {}

-----------------------------------------------------------------------------
(* The page *)

\* The fetch of /v1/health, given up after 3 s.
CheckHealth ==
    /\ health = "null" /\ health' \in {"ok", "bad"}
    /\ UNCHANGED <<want, setup, made, ref, ready, queue, wire, server>>

\* The button and the configurator are there.
Shown == health = "ok"

\* The end of a connection loses what is on its way; the decoder goes with its session.
Closed == ready' = "closed" /\ wire' = <<>> /\ first' = TRUE /\ fed' = {}

\* opusRecorder.stop(): the encoder still hands out its last page.
ShutdownAudio ==
    /\ ref' = {}
    /\ setup' = [i \in Setups |-> IF i \in ref THEN "stopping" ELSE setup[i]]

Disconnect == want' = FALSE /\ ShutdownAudio /\ Closed /\ UNCHANGED <<health, made, queue>>

\* onConnectButtonPress
PressConnect(i) ==
    /\ Shown /\ ~want /\ setup[i] = "free"
    /\ setup' = [setup EXCEPT ![i] = "asking"]
    /\ UNCHANGED <<health, want, made, ref, ready, queue, wire, server>>

PressDisconnect == Shown /\ want /\ Disconnect

\* The effect of a new voice or instructions.
Reconfigure == Shown /\ Disconnect

\* The connection fails or ends, and the effect of readyState runs.
Lost == ready # "closed" /\ Disconnect

\* setShouldConnect(true): the hook connects, unless it does so already.
SetShouldConnect == want' = TRUE /\ ready' = IF want THEN ready ELSE "connecting"

Refused(i) ==
    /\ setup[i] = "asking"
    /\ setup' = [setup EXCEPT ![i] = "over"]
    /\ UNCHANGED <<health, want, made, ref, ready, queue, wire, server>>

\* setupAudio: what was set up already is used.
SetUpAlready(i) ==
    /\ setup[i] = "asking" /\ ref # {}
    /\ setup' = [setup EXCEPT ![i] = "over"] /\ SetShouldConnect
    /\ UNCHANGED <<health, made, ref, queue, wire, server>>

LoadsWorklet(i) ==
    /\ setup[i] = "asking" /\ ref = {}
    /\ setup' = [setup EXCEPT ![i] = "loading"]
    /\ UNCHANGED <<health, want, made, ref, ready, queue, wire, server>>

\* addModule() has loaded: the ref is set without a second look at it.  The encoder of a
\* recorder that was stopped is done by then.
SetUp(i) ==
    /\ setup[i] = "loading" /\ \A j \in Setups : setup[j] # "stopping"
    /\ setup' = [setup EXCEPT ![i] = "running"] /\ ref' = {i} /\ SetShouldConnect
    /\ UNCHANGED <<health, made, queue, wire, server>>

-----------------------------------------------------------------------------
(* The recorder and the hook *)

\* onOpusRecorded: sendMessage() of the hook.
SendMessage(i) ==
    /\ made' = [made EXCEPT ![i] = @ + 1]
    /\ IF ready = "open"
       THEN wire' = Append(wire, <<i, made[i]>>) /\ UNCHANGED queue
       ELSE queue' = Append(queue, <<i, made[i]>>) /\ UNCHANGED wire
    /\ UNCHANGED <<health, want, ref, ready, server>>

Records(i) ==
    /\ setup[i] = "running" /\ made[i] < Pages
    /\ SendMessage(i) /\ UNCHANGED setup

LastPage(i) ==
    /\ setup[i] = "stopping"
    /\ setup' = [setup EXCEPT ![i] = "over"] /\ SendMessage(i)

Opens ==
    /\ ready = "connecting" /\ ready' = "open"
    /\ wire' = queue /\ queue' = <<>>
    /\ UNCHANGED <<page, made, server>>

-----------------------------------------------------------------------------
(* receive_loop *)

\* opus_bytes[5] & 2
IsFirst(opus) == opus[2] = 0

\* Mutant of Goes: the server does not wait for a first page.
AnyGoes(opus) == TRUE
Goes(opus) == ~first \/ IsFirst(opus)

Skips ==
    /\ wire # <<>> /\ ~Goes(Head(wire))
    /\ wire' = Tail(wire)
    /\ UNCHANGED <<page, made, ready, queue, server>>

Decodes ==
    /\ wire # <<>> /\ Goes(Head(wire))
    /\ wire' = Tail(wire) /\ first' = FALSE /\ fed' = fed \cup {Head(wire)}
    /\ UNCHANGED <<page, made, ready, queue>>

-----------------------------------------------------------------------------
Next ==
    \/ CheckHealth \/ PressDisconnect \/ Reconfigure \/ Lost \/ Opens \/ Skips \/ Decodes
    \/ \E i \in Setups :
        \/ PressConnect(i) \/ Refused(i) \/ SetUpAlready(i) \/ LoadsWorklet(i) \/ SetUp(i)
        \/ Records(i) \/ LastPage(i)

Spec == Init /\ [][Next]_vars

-----------------------------------------------------------------------------
(* Properties *)

\* Two set-ups that overlap leave a recorder that nothing refers to and nothing stops.
Orphans == {i \in Setups : setup[i] = "running"} \ ref

\* receive_loop's comment on old packets: whatever the queue has kept of earlier
\* recordings and connections, the decoder gets no page of a recording without its first
\* page before, unless a recorder was orphaned.
HeaderFirst == Orphans = {} => \A opus \in fed : <<opus[1], 0>> \in fed
=============================================================================
