------------------------------- MODULE Downlink -------------------------------
(***************************************************************************)
(* What the bot says, from the tasks of a session to the page: the output  *)
(* queue of the handler (backend-custom/unmute_handler.py), the emit_loop()*)
(* of its websocket (backend-custom/main_websocket.py) and the messages    *)
(* that frontend/src/app/Unmute.tsx shows or plays.  The same code, with   *)
(* debugging output, is in unmute/.                                        *)
(*                                                                         *)
(* An interruption replaces the queue.  The TTS task of a turn goes on     *)
(* with the queue that it took when it began; the other tasks put into the *)
(* present one; emit() waits on the one that was present when it was       *)
(* called.  Turns and queues are numbered.  The task of a turn that was    *)
(* interrupted lives until its shutdown is done.                           *)
(***************************************************************************)
EXTENDS Naturals, Sequences

CONSTANTS
    MaxTurns,       \* bound: turns of the bot
    MaxQueued,      \* bound: what a queue holds before anything but an end is put
    MaxRequests     \* bound: messages from the page that are answered

DownlinkAssumption == MaxTurns \in Nat /\ MaxQueued \in Nat /\ MaxRequests \in Nat

VARIABLES
    conn,       \* the connection: open, left by the page, known to be lost, closed
    requests,   \* the messages of the page that were answered
    emitq,      \* emit_queue, from the receive_loop()
    gen,        \* the present output queue
    outq,       \* what is in each output queue
    turn,       \* the last turn
    task,       \* the TTS task of each turn and the queue it took
    emit,       \* where emit_loop() is
    told        \* the turns that the page was told are interrupted

vars == <<conn, requests, emitq, gen, outq, turn, task, emit, told>>
tasks == <<gen, outq, turn, task>>

Turns == 1..MaxTurns
Queues == 0..MaxTurns
Kinds == {"speech", "event", "interrupted", "close", "none"}
Items == [what : Kinds, turn : 0..MaxTurns]
Item(what, t) == [what |-> what, turn |-> t]
At(stage) == emit.at = stage
Top == [at |-> "top", q |-> 0, item |-> Item("none", 0)]

Init ==
    /\ conn = "open" /\ requests = 0 /\ emitq = <<>>
    /\ gen = 0 /\ outq = [q \in Queues |-> <<>>]
    /\ turn = 0 /\ task = [t \in Turns |-> [at |-> "none", q |-> 0]]
    /\ emit = Top /\ told = {}

\* A queue that was replaced has no reader, but for an emit() that waits on it.
HasReader(q) == q = gen \/ (emit.at = "waiting" /\ emit.q = q)
Put(q, item) == outq' = IF HasReader(q) THEN [outq EXCEPT ![q] = Append(@, item)] ELSE outq
Bounded(q) == Len(outq[q]) < MaxQueued

-----------------------------------------------------------------------------
(* The tasks of the session *)

Alive == conn # "closed" /\ emit.at # "ended"
Rest == UNCHANGED <<conn, requests, emitq, emit, told>>

\* receive_loop: session.update, or a message that is not valid.
Receive ==
    /\ Alive /\ conn = "open" /\ requests < MaxRequests
    /\ requests' = requests + 1 /\ emitq' = Append(emitq, Item("event", 0))
    /\ UNCHANGED <<conn, tasks, emit, told>>

\* _stt_loop: the transcription of the user's words.
Transcribe ==
    /\ Alive /\ Bounded(gen) /\ Put(gen, Item("event", 0))
    /\ UNCHANGED <<gen, turn, task>> /\ Rest

\* The TTS has started up, and _tts_loop() takes the present queue.
StartTurn ==
    /\ Alive /\ turn < MaxTurns
    /\ turn > 0 => task[turn].at # "speaking"
    /\ turn' = turn + 1
    /\ task' = [task EXCEPT ![turn + 1] = [at |-> "speaking", q |-> gen]]
    /\ UNCHANGED <<gen, outq>> /\ Rest

Runs(t) == Alive /\ task[t].at \in {"speaking", "cut"}

\* Mutant of QueueOf: the present queue.
QueueOfNow(t) == gen
QueueOf(t) == task[t].q

\* Audio or a word.
Says(t) ==
    /\ Runs(t) /\ Bounded(QueueOf(t)) /\ Put(QueueOf(t), Item("speech", t))
    /\ UNCHANGED <<gen, turn, task>> /\ Rest

\* The LLM task: ResponseCreated, a text delta that is ready, ResponseTextDone.
Generates(t) ==
    /\ Runs(t) /\ Bounded(gen) /\ Put(gen, Item("event", t))
    /\ UNCHANGED <<gen, turn, task>> /\ Rest

\* The end of _tts_loop(), also of one that noticed the interruption.
Finishes(t) ==
    /\ Runs(t)
    /\ task' = [task EXCEPT ![t].at = IF @ = "cut" THEN "over" ELSE "finished"]
    /\ Put(gen, Item("event", t))
    /\ UNCHANGED <<gen, turn>> /\ Rest

\* A second later, check_for_bot_goodbye().
Goodbye(t) ==
    /\ Alive /\ task[t].at = "finished"
    /\ task' = [task EXCEPT ![t].at = "over"]
    /\ \/ Put(gen, Item("close", t))
       \/ UNCHANGED outq
    /\ UNCHANGED <<gen, turn>> /\ Rest

\* interrupt_bot, of the receive_loop() or of the STT.
Interrupt ==
    /\ Alive /\ turn > 0 /\ task[turn].at = "speaking"
    /\ gen' = gen + 1
    /\ outq' = [q \in Queues |->
                    IF q = gen + 1 THEN <<Item("interrupted", turn)>>
                    ELSE IF At("waiting") /\ emit.q = q THEN outq[q] ELSE <<>>]
    /\ task' = [task EXCEPT ![turn].at = "cut"]
    /\ UNCHANGED turn /\ Rest

\* quest_manager.remove() has come to the cancellation.
Cancelled(t) ==
    /\ task[t].at = "cut" /\ task' = [task EXCEPT ![t].at = "over"]
    /\ UNCHANGED <<gen, outq, turn>> /\ Rest

-----------------------------------------------------------------------------
(* emit_loop *)

Unsent == UNCHANGED <<conn, requests, turn, task, gen, told>>

Ends == emit' = [Top EXCEPT !.at = "ended"]

Raises ==
    /\ At("top") /\ conn = "known" /\ Ends
    /\ UNCHANGED <<emitq, outq>> /\ Unsent

TakesAnswer ==
    /\ At("top") /\ conn # "known" /\ emitq # <<>>
    /\ emit' = [Top EXCEPT !.at = "sending", !.item = Head(emitq)] /\ emitq' = Tail(emitq)
    /\ UNCHANGED outq /\ Unsent

\* handler.emit(): wait_for_item(self.output_queue)
Waits ==
    /\ At("top") /\ conn # "known" /\ emitq = <<>>
    /\ emit' = [Top EXCEPT !.at = "waiting", !.q = gen]
    /\ UNCHANGED <<emitq, outq>> /\ Unsent

\* Mutant of TimesOut: emit() waits for as long as it takes.
TimesOutNever == FALSE /\ UNCHANGED vars
\* Nothing for 0.1 s.
TimesOut ==
    /\ At("waiting") /\ outq[emit.q] = <<>> /\ emit' = Top
    /\ UNCHANGED <<emitq, outq>> /\ Unsent

Emitted == Head(outq[emit.q])
Takes ==
    /\ At("waiting") /\ outq[emit.q] # <<>> /\ Emitted.what # "close"
    /\ \E next \in {"sending"} \cup IF Emitted.what = "speech" THEN {"encoding"} ELSE {} :
            emit' = [Top EXCEPT !.at = next, !.item = Emitted]
    /\ outq' = [outq EXCEPT ![emit.q] = IF emit.q = gen THEN Tail(@) ELSE <<>>]
    /\ UNCHANGED emitq /\ Unsent

\* CloseStream; what is still in the queues is not sent.
Closes ==
    /\ At("waiting") /\ outq[emit.q] # <<>> /\ Emitted.what = "close"
    /\ Ends /\ conn' = "closed"
    /\ UNCHANGED <<requests, emitq, tasks, told>>

\* In a thread; Opus may keep the audio until there is more.
Encodes ==
    /\ At("encoding")
    /\ \/ emit' = [emit EXCEPT !.at = "sending"]
       \/ emit' = Top
    /\ UNCHANGED <<emitq, outq>> /\ Unsent

Sends ==
    /\ At("sending") /\ conn = "open" /\ emit' = Top
    /\ told' = IF emit.item.what = "interrupted" THEN told \cup {emit.item.turn} ELSE told
    /\ UNCHANGED <<conn, requests, emitq, tasks>>

\* The page has gone: the message is lost, or send_text() raises.
SendsInVain ==
    /\ At("sending") /\ conn \in {"left", "known"}
    /\ \/ Ends
       \/ conn = "left" /\ emit' = Top
    /\ UNCHANGED <<emitq, outq>> /\ Unsent

-----------------------------------------------------------------------------
(* The connection *)

Leaves ==
    /\ conn = "open" /\ conn' = "left"
    /\ UNCHANGED <<requests, emitq, tasks, emit, told>>

\* receive_text() gets the disconnect and raises.
Notices ==
    /\ conn = "left" /\ conn' = "known"
    /\ UNCHANGED <<requests, emitq, tasks, emit, told>>

\* _run_route: the task group cancels emit_loop(), unless that noticed it too.
CutOff ==
    /\ conn = "known" /\ emit.at # "ended" /\ Ends
    /\ UNCHANGED <<emitq, outq>> /\ Unsent

-----------------------------------------------------------------------------
EmitLoop ==
    Raises \/ TakesAnswer \/ Waits \/ TimesOut \/ Takes \/ Closes \/ Encodes \/ Sends \/ SendsInVain

Next ==
    \/ Receive \/ Transcribe \/ StartTurn \/ Interrupt \/ EmitLoop \/ Leaves \/ Notices \/ CutOff
    \/ \E t \in Turns : Says(t) \/ Generates(t) \/ Finishes(t) \/ Goodbye(t) \/ Cancelled(t)

Spec == Init /\ [][Next]_vars

\* The event loop runs emit_loop(), and wait_for_item() gives up; nothing is assumed of
\* the bot or of the page.
FairSpec == Spec /\ WF_vars(EmitLoop)

-----------------------------------------------------------------------------
(* Properties *)

TypeOK ==
    /\ conn \in {"open", "left", "known", "closed"}
    /\ requests \in 0..MaxRequests /\ emitq \in Seq(Items)
    /\ gen \in Queues /\ turn \in 0..MaxTurns
    /\ outq \in [Queues -> Seq(Items)]
    /\ task \in [Turns -> [at : {"none", "speaking", "cut", "finished", "over"}, q : Queues]]
    /\ emit \in [at : {"top", "waiting", "encoding", "sending", "ended"}, q : Queues, item : Items]
    /\ told \in SUBSET Turns

\* UnmuteInterruptedByVAD draws a line: once the page was told that a turn is interrupted
\* it gets no audio and no word of it any more, although the task of the turn still runs
\* and emit() may have waited on the queue of before.
InterruptedIsLast == emit.item.what = "speech" => emit.item.turn \notin told

\* An interruption comes through to the page, or a later one does, even if emit() waits
\* on a queue into which nothing is put any more; with it comes all that follows.
InterruptionArrives ==
    \A t \in Turns :
        task[t].at = "cut" ~> conn # "open" \/ At("ended") \/ \E u \in told : u >= t
=============================================================================
