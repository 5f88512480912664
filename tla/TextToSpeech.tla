---------------------------- MODULE TextToSpeech ----------------------------
(***************************************************************************)
(* unmute/tts/text_to_speech.py and tts/realtime_queue.py: one TTS client. *)
(* Its tasks are the quest that starts it up and then iterates over it,    *)
(* the LLM task that sends it text, and the tasks that remove the quest,   *)
(* which shut it down and then cancel the iteration.  The iteration keeps  *)
(* what the server sends in a heap and releases it in real time.           *)
(*                                                                         *)
(* Time is counted in audio chunks.  A chunk is due AudioBuffer before the *)
(* audio received so far has been played, a word at the time it starts,    *)
(* which may be ahead of the audio.                                        *)
(***************************************************************************)
EXTENDS Integers, Sequences, FiniteSets

CONSTANTS
    Removers,       \* the tasks that may remove the quest
    StartPackets,   \* the messages start_up() looks at for the "Ready" one
    AudioBuffer,    \* AUDIO_BUFFER_SEC
    MaxItems,       \* bound on the messages of the server
    MaxTime         \* bound on the time, late enough for every message

ASSUME BoundsAssumption ==
    /\ {"iter", ""} \cap Removers = {}
    /\ StartPackets \in Nat \ {0} /\ AudioBuffer \in Nat
    /\ MaxItems \in Nat /\ MaxTime \in Nat /\ MaxTime >= MaxItems

Closers == Removers \cup {"iter"}
NotStarted == -1

VARIABLES
    start,      \* start_up(): what it awaits, "up", "failed" or "cancelled"
    packets,    \* the messages it has looked at in vain
    ws,         \* self.websocket: "none", "open", "closing" by shutdown(), and closed
                \* by the server: "ended" properly, "broken" otherwise
    iter,       \* __aiter__: what it does
    heap,       \* RealtimeQueue.queue
    clock,      \* the time since RealtimeQueue.start_time, if it has one
    audio,      \* received_samples
    arrived,    \* the messages received so far
    released,   \* the messages released, in order
    lock,       \* the holder of shutdown_lock, "" if it is free
    complete,   \* shutdown_complete
    closing,    \* of each closer, where it is in shutdown()
    gauge,      \* this client's share of TTS_ACTIVE_SESSIONS
    sendError   \* the state of the websocket when a send() raised

starting == <<start, packets>>
playing == <<iter, heap, clock, audio, arrived, released>>
shutting == <<lock, complete, closing, gauge>>
vars == <<starting, ws, playing, shutting, sendError>>

Init ==
    /\ start = "connecting" /\ packets = 0 /\ ws = "none"
    /\ iter = "no" /\ heap = {} /\ clock = NotStarted /\ audio = 0
    /\ arrived = 0 /\ released = <<>>
    /\ lock = "" /\ complete = FALSE /\ closing = [c \in Closers |-> "no"]
    /\ gauge = 0 /\ sendError = "none"

Tick ==
    /\ clock # NotStarted /\ clock < MaxTime
    /\ clock' = clock + 1
    /\ UNCHANGED <<starting, ws, iter, heap, audio, arrived, released, shutting, sendError>>

-----------------------------------------------------------------------------
(* start_up *)

Connected ==
    /\ start = "connecting"
    /\ start' = "greeting" /\ ws' = "open"
    /\ UNCHANGED <<packets, playing, shutting, sendError>>

\* TTSReadyMessage.  The quest goes on to the iteration without suspending.
Ready ==
    /\ start = "greeting"
    /\ start' = "up"
    /\ iter' = "receiving" /\ gauge' = gauge + 1
    /\ UNCHANGED <<packets, ws, heap, clock, audio, arrived, released,
                   lock, complete, closing, sendError>>

\* TTSErrorMessage: the websocket is closed before the exception goes on.
Rejected ==
    /\ start = "greeting"
    /\ start' = "rejecting" /\ ws' = "closing"
    /\ UNCHANGED <<packets, playing, shutting, sendError>>

RejectionCloses ==
    /\ start = "rejecting"
    /\ start' = "failed" /\ ws' = "none"
    /\ UNCHANGED <<packets, playing, shutting, sendError>>

\* The connection cannot be made or is lost: there is nothing left to close.
StartBreaks ==
    /\ start \in {"connecting", "greeting"}
    /\ start' = "failed" /\ ws' = "none"
    /\ UNCHANGED <<packets, playing, shutting, sendError>>

\* A packet of an earlier client.  After the last one an AssertionError is raised,
\* behind the clause that closes the websocket.
UnexpectedPacket ==
    /\ start = "greeting"
    /\ packets' = packets + 1
    /\ start' = IF packets' = StartPackets THEN "failed" ELSE start
    /\ UNCHANGED <<ws, playing, shutting, sendError>>

\* The timeout of find_instance() or a cancelled quest: no "except Exception" of it.
StartCancelled ==
    /\ start \in {"connecting", "greeting", "rejecting"}
    /\ start' = "cancelled"
    /\ UNCHANGED <<packets, ws, playing, shutting, sendError>>

-----------------------------------------------------------------------------
(* RealtimeQueue *)

Item(kind, at) == [id |-> arrived, kind |-> kind, at |-> at]

Due(items) ==
    IF clock = NotStarted THEN {} ELSE {i \in items : i.at <= clock}

\* Mutant of Earlier: first in, first out.
ArrivedEarlier(i, j) == i.id < j.id

\* The order of the heap.  Items of the same time come in any order; one is chosen.
Earlier(i, j) == i.at < j.at \/ (i.at = j.at /\ i.id < j.id)

Top(items) == CHOOSE i \in items : \A j \in items \ {i} : Earlier(i, j)

\* Some of the items in the order in which the heap pops them.
Popped(some) ==
    CHOOSE s \in [1..Cardinality(some) -> some] :
        \A k, l \in DOMAIN s : k < l => Earlier(s[k], s[l])

\* Releases some of the items, the earliest first, and keeps the others.
Release(some, items) ==
    /\ heap' = items \ some
    /\ LET popped == Popped(some) IN
       released' = released \o [k \in DOMAIN popped |-> [item |-> popped[k], when |-> clock]]

-----------------------------------------------------------------------------
(* __aiter__ *)

Receiving == iter = "receiving" /\ ws \in {"open", "closing"} /\ arrived < MaxItems

\* A chunk starts the clock; it is put, and then recorded, which may suspend.
AudioArrives ==
    /\ Receiving
    /\ heap' = heap \cup {Item("audio", audio - AudioBuffer)}
    /\ clock' = IF clock = NotStarted THEN 0 ELSE clock
    /\ audio' = audio + 1 /\ arrived' = arrived + 1
    /\ iter' = "recording"
    /\ UNCHANGED <<starting, ws, released, shutting, sendError>>

Recorded ==
    /\ iter = "recording"
    /\ iter' = "receiving"
    /\ Release(Due(heap), heap)
    /\ UNCHANGED <<starting, ws, clock, audio, arrived, shutting, sendError>>

TextArrives ==
    /\ Receiving
    /\ \E at \in audio..(audio + 1) :
          LET items == heap \cup {Item("text", at)} IN Release(Due(items), items)
    /\ arrived' = arrived + 1
    /\ UNCHANGED <<starting, ws, iter, clock, audio, shutting, sendError>>

ServerCloses ==
    /\ start = "up" /\ ws = "open"
    /\ ws' \in {"ended", "broken"}
    /\ UNCHANGED <<starting, playing, shutting, sendError>>

\* The loop over the websocket ends, maybe before shutdown() hears that it is closed;
\* an end that is neither intended nor proper raises.
ReceivingEnds ==
    /\ iter = "receiving" /\ ws \in {"ended", "broken", "closing"}
    /\ iter' = IF ws = "broken" /\ ~complete THEN "raised" ELSE "draining"
    /\ UNCHANGED <<starting, ws, heap, clock, audio, arrived, released, shutting, sendError>>

\* Mutants of Drained: does not wait for the next item; does not look at the clock.
NothingDue == Due(heap) = {}
HeapEmpty == heap = {}

\* Without audio the clock never started, and nothing is waited for.
Drained == clock = NotStarted \/ heap = {}

\* After the sleep until the next item is due: once shut down it is popped only.
DrainNext ==
    /\ iter = "draining" /\ ~Drained
    /\ Top(heap) \in Due(heap)
    /\ IF complete
       THEN /\ iter' = "leaving" /\ heap' = heap \ {Top(heap)} /\ UNCHANGED released
       ELSE /\ Release({Top(heap)}, heap) /\ UNCHANGED iter
    /\ UNCHANGED <<starting, ws, clock, audio, arrived, shutting, sendError>>

-----------------------------------------------------------------------------
(* shutdown, by a remover or by the iteration at its end *)

\* A remover cancels the iteration after shutdown().  The iteration ends by itself.
Returns(c) ==
    /\ closing' = [closing EXCEPT ![c] = "done"]
    /\ iter' = CASE c = "iter" -> "done"
                 [] iter \in {"done", "raised"} -> iter
                 [] OTHER -> "cancelled"

AlreadyShut == complete

\* With the lock.  The websocket of a closed connection closes without suspending.
ShutDown(c) ==
    IF AlreadyShut
    THEN Returns(c) /\ UNCHANGED <<lock, complete, gauge, ws>>
    ELSE /\ gauge' = gauge - 1 /\ complete' = TRUE
         /\ IF ws = "open"
            THEN /\ ws' = "closing" /\ lock' = c
                 /\ closing' = [closing EXCEPT ![c] = "closing"]
                 /\ UNCHANGED iter
            ELSE ws' = "none" /\ Returns(c) /\ UNCHANGED lock

\* The iteration calls it at its end, a remover once the quest has its TTS.
Calls(c) ==
    IF c = "iter" THEN iter = "leaving" \/ (iter = "draining" /\ Drained) ELSE start = "up"

ShutdownCalled(c) ==
    /\ closing[c] = "no" /\ Calls(c)
    /\ IF lock = "" THEN ShutDown(c)
       ELSE /\ closing' = [closing EXCEPT ![c] = "waiting"]
            /\ iter' = IF c = "iter" THEN "leaving" ELSE iter
            /\ UNCHANGED <<lock, complete, gauge, ws>>
    /\ UNCHANGED <<starting, heap, clock, audio, arrived, released, sendError>>

\* A waiter that was cancelled no longer takes the lock.
LockAcquired(c) ==
    /\ closing[c] = "waiting" /\ lock = ""
    /\ c = "iter" => iter = "leaving"
    /\ ShutDown(c)
    /\ UNCHANGED <<starting, heap, clock, audio, arrived, released, sendError>>

\* Mutant of WebsocketClosed: keeps the lock.
WebsocketClosedLocked(c) ==
    /\ closing[c] = "closing"
    /\ ws' = "none"
    /\ Returns(c)
    /\ UNCHANGED <<starting, heap, clock, audio, arrived, released, lock, complete, gauge, sendError>>

WebsocketClosed(c) ==
    /\ closing[c] = "closing"
    /\ ws' = "none" /\ lock' = ""
    /\ Returns(c)
    /\ UNCHANGED <<starting, heap, clock, audio, arrived, released, complete, gauge, sendError>>

-----------------------------------------------------------------------------
(* send *)

\* Mutant of MaySend: does not mind the lock.
MaySendAlways == ws # "none"
MaySend == lock = "" /\ ws # "none"

\* What may not be sent is dropped; sending to a closed connection raises.
Send ==
    /\ start = "up" /\ sendError = "none"
    /\ MaySend /\ ws # "open"
    /\ sendError' = ws
    /\ UNCHANGED <<starting, ws, playing, shutting>>

-----------------------------------------------------------------------------
Next ==
    \/ Tick \/ Connected \/ Ready \/ Rejected \/ RejectionCloses \/ StartBreaks
    \/ UnexpectedPacket \/ StartCancelled
    \/ AudioArrives \/ Recorded \/ TextArrives \/ ServerCloses \/ ReceivingEnds \/ DrainNext
    \/ \E c \in Closers : ShutdownCalled(c) \/ LockAcquired(c) \/ WebsocketClosed(c)
    \/ Send

Spec == Init /\ [][Next]_vars

\* Time passes, the iteration runs when it can, and a websocket closes or times out.
Fairness ==
    /\ WF_vars(Tick) /\ WF_vars(Recorded) /\ WF_vars(ReceivingEnds) /\ WF_vars(DrainNext)
    /\ WF_vars(ShutdownCalled("iter"))
    /\ \A c \in Closers : WF_vars(LockAcquired(c)) /\ WF_vars(WebsocketClosed(c))

FairSpec == Spec /\ Fairness

-----------------------------------------------------------------------------
(* Properties *)

Items == [id : 0..MaxItems, kind : {"audio", "text"}, at : Int]

\* Every variable holds what the code can store in it.
TypeOK ==
    /\ packets \in 0..StartPackets
    /\ start \in {"connecting", "greeting", "rejecting", "up", "failed", "cancelled"}
    /\ ws \in {"none", "open", "closing", "ended", "broken"}
    /\ iter \in {"no", "receiving", "recording", "draining", "leaving", "done", "raised", "cancelled"}
    /\ heap \subseteq Items /\ clock \in NotStarted..MaxTime
    /\ audio \in 0..MaxItems /\ arrived \in 0..MaxItems
    /\ released \in Seq([item : Items, when : 0..MaxTime])
    /\ lock \in Closers \cup {""} /\ complete \in BOOLEAN
    /\ closing \in [Closers -> {"no", "waiting", "closing", "done"}]
    /\ gauge \in Int /\ sendError \in {"none", "ended", "broken", "closing"}

\* Nothing is released while something that is due earlier has arrived and waits.
InOrder ==
    [][\A k \in (Len(released) + 1)..Len(released') :
        LET at == released'[k].item.at IN
        /\ \A i \in heap' : at <= i.at
        /\ \A l \in k..Len(released') : at <= released'[l].item.at]_vars

\* Message n was released, and once.
ReleasedOnce(n) ==
    \E k \in DOMAIN released : {l \in DOMAIN released : released[l].item.id = n} = {k}

\* An iteration that nobody removes releases everything it received before the
\* connection ended, each message once, if it received audio; if it did not, nothing,
\* as the clock that the words wait for never started.
NothingHeldBack ==
    iter = "done" /\ (\A c \in Removers : closing[c] = "no") =>
        IF audio = 0 THEN released = <<>> ELSE \A n \in 0..(arrived - 1) : ReleasedOnce(n)

\* The gauge of the active sessions counts the client while it is iterated over and
\* not shut down: the end of the iteration and the removers take it off once.
CountedOnce == gauge = IF iter # "no" /\ ~complete THEN 1 ELSE 0

\* send() raises because the server has closed the connection, never because of a
\* shutdown: an interruption does not make the LLM task fail.
OnlyServerFailsSend == sendError # "closing"

\* A shutdown that was called returns, whoever else is in it.
ShutdownReturns == \A c \in Removers : closing[c] # "no" ~> closing[c] = "done"

\* The iteration over a connection that is no more comes to an end.
IterationEnds == iter = "draining" ~> iter \in {"done", "cancelled"}
=============================================================================
