# Unmute, specified in TLA+

Unmute wraps a text LLM in a voice interface. A browser streams microphone audio over a
websocket to a Python backend; the backend streams it to a speech-to-text server (STT), decides
from the STT's words and pause predictions whose turn it is, streams an LLM's answer into a
text-to-speech server (TTS), and streams the resulting audio back. The user can interrupt the
bot at any moment. Everything in the backend is one asyncio event loop, so nothing races inside
a step, and everything races between steps: that is what this project specifies.

The modules model the code under `src/unmute/`, the page under `src/frontend/`, and
`src/backend-custom/`. The last is a fork of `unmute/` (quest manager, handler, chatbot, service
discovery, STT and TTS clients) with one-shot transcription and synthesis endpoints in place of
recording, metrics and voice cloning. Where the code of the fork is the same but for debugging
output, one module stands for both, and `PROJECT.json` maps its definitions to either of the two.

## The system and its parts

| Part | Code | State | Operations | What is hard |
|---|---|---|---|---|
| Quest manager | `quest_manager.py` | the dict of quests, each with its task, init future and close step; the aggregate future | `add`, `remove`, `get`, `wait`, `__aexit__` | every operation awaits a close step in the middle; tasks cancel one another; the exit iterates a dict others change |
| Handler (turn taking) | `unmute_handler.py` | chat history, output queue, flush deadline, silence clock; the STT, LLM and TTS quests | `receive`, `emit`, `_stt_loop`, `_generate_response_task`, `_tts_loop`, `interrupt_bot`, `detect_long_silence`, `update_session` | four tasks write one chat history; two of them may interrupt the bot, and the interruption suspends half way |
| Chatbot and prompt preparation | `llm/chatbot.py`, `llm/llm_utils.py` | the chat history | `add_chat_message_delta`, `conversation_state`, `preprocessed_messages`, `rechunk_to_words` | what the LLM is shown must survive every history the handler can make |
| TTS client | `tts/text_to_speech.py` | websocket, shutdown flag and lock, the queue of timed messages, session gauge | `start_up`, `send`, `shutdown`, `__aiter__` | shut down from outside while it iterates, while it starts, or twice |
| Real-time queue | `tts/realtime_queue.py` | a heap of timed items and a start time | `put`, `get`, `get_nowait`, iteration | nothing is released early, and nothing is lost once audio has started the clock; waits with a time that was read before |
| STT client | `stt/speech_to_text.py` | websocket, sent samples, STT time, pause prediction, shutdown event, session gauge | `start_up`, `send_audio`, `shutdown`, `__aiter__` | the STT clock is what ends a flush; the gauge must balance whoever closes first |
| Service discovery | `service_discovery.py` | a time-to-live cache of instances with its lock, the connection attempts | `find_instance`, `get_instances`, `async_ttl_cached`, and the `start_up` they call | a timeout racing the answer; which failure is reported; callers queueing for one resolution; an event loop that is blocked |
| Session | `main_websocket.py` | the semaphore of sessions, the task group, the websocket | `websocket_route`, `_run_route`, `receive_loop`, `emit_loop`, `_report_websocket_exception`, `_get_health` | the first failing task ends the others; every way out must free the slot and tell the client |
| Recorder | `recorder.py` | the recording file | `add_event`, `shutdown` | recording without consent must leave no file, while three tasks write to it |
| Cache, voice donation and cloning | `cache.py`, `tts/voice_donation.py`, `tts/voice_cloning.py` | verifications and embeddings with a time to live, in the process or in Redis; the files of a donation | `get`, `set`, `delete`, `cleanup`; `generate_verification`, `submit_voice_donation`, `clone_voice` | expiry against use; one verification, two submissions; crashes and errors between its steps |
| One-shot endpoints | `backend-custom/main_websocket.py`, `backend-custom/audio_codec.py` | one STT or TTS connection per request, a route and a collector task | transcribe, synthesize | end of audio against late words; a route that waits for its collector |
| Frontend: voice | `frontend/src/app/Unmute.tsx`, `useAudioProcessor.ts`, `useMicrophoneAccess.ts` | the connection, the audio set-up, the hook's queue of unsent messages | press, disconnect, record, send | presses and closings overlap set-ups; old pages reach a new decoder |
| Frontend: messages | `Unmute.tsx`, `emit_loop()` | the output queue and its predecessors | emit, show, play | an interruption replaces the queue while a reader waits on it |
| Audio playback | `frontend/public/audio-output-processor.js` | the frames to be played, its adaptive buffers | `onmessage`, `process` | lag and remains of a turn |
| Load test | `loadtest/loadtest_client.py` | the history, two stopwatches | emit and receive loop | what is timed under which turn |
| Recording viewer, prompts, news, voices, metrics, scripts, services | the rest | none or external | | no behaviour that interacts |

How they interact: the receive loop, the emit loop and `quest_manager.wait()` are tasks of one
task group; the STT, LLM and TTS are tasks of the quest manager. They share the chat history
(`Chatbot`), the output queue (swapped for a new one at each interruption) and the quests
themselves: the receive loop adds the LLM, the LLM adds the TTS, and the receive loop or the STT
loop removes both to interrupt the bot.


What makes each part correct:

- **Quest manager**: one running quest per name; what an init step acquired is released by a
  close step; a failure reaches whoever awaits the manager; a cancelled quest ends.
- **Handler**: the bot and the user take turns; an interruption stops the turn it was meant for
  and no other; words and audio of one turn never appear in another; a pause is answered.
- **Chat history and prompt**: the LLM is shown alternating roles starting with the user, every
  word that was said, and no bookkeeping marks.
- **TTS client and real-time queue**: messages are released in time order, not before their
  time, each once; words of a turn that has no audio at all are dropped. Concurrent shutdowns
  happen once and disturb no sender.
- **Session**: slots bound the load and always come back; a user who is there is told why the
  session ended.
- **Recorder**: a refused recording is deleted; recording never breaks a session.
- **Service discovery**: an attempt that is given up leaves nothing behind; the error reported
  distinguishes "full" from "missing"; a cached list is not used beyond its time.
- **Voice donation and cache**: after a success nobody is let in with the verification again, nor
  after it expired. With Redis two who were let in before may both succeed. What was answered with
  success is kept, and an uploaded voice is found for its hour.
- **One-shot endpoints**: a success is whole, and every request is answered.
- **Frontend**: a decoder is fed only recordings it has the header of; no speech of a turn is played
  or shown after the news of its interruption; the lag of the playback is bounded.
- **Load test**: what is reported of a turn of the bot was measured on that turn, and what is
  reported of the user follows the turn that it answers.

The hazards, each with its line and the properties aimed at it, are listed in `PROJECT.json`.

## Conventions

asyncio runs one task at a time and switches only at an `await` that really suspends. An action
is therefore the code a task runs between two suspensions, with everything it calls; a suspended
task is a control state ("closing", "connecting", "writing") and the other tasks' actions
interleave there. Code that awaits something that is already done does not suspend, and is not
split. `except Exception` does not catch `CancelledError`: a task that is cancelled ends at its
suspension, except in the close step of `Quest.remove()`, which swallows it.

Operators are named after the functions they model; `PROJECT.json` maps every definition to its
lines. An operator commented as a *mutant* is a plausible bug of the definition it precedes; it
is used only to see that the properties notice it.

## The modules

### QuestManager.tla (`quest_manager.py`)

The dict of quests is kept twice: `registry` by name, and `entries` in insertion order with
holes, because `__aexit__` runs a dict iterator over it. `phase`, `outcome` and `data` are the
quest's task and its init future, `closer` says that `Quest.close` is still set, `resource` what
its init step acquired. A caller (a session task or another quest) is suspended in `pc` on
`target`; `cancelReq` is a cancellation that has not been delivered, `cancelling` remembers that
there was one.

| Actions | Code |
|---|---|
| `AddFirst`, `AddReplacing`, `AddClosing` | `add()`: no previous quest, one without and one with a close step to await |
| `RemoveCancelling`, `RemoveClosing` | `remove()` |
| `CloseReturns`, `CloseSwallowsCancel`, `CloseRaises` | the close step in `Quest.remove()`, and the rest of the `add()` behind it |
| `GetWaits`, `GetReturns`, `GetRaises` | `Quest.get()` on the bare future |
| `InitStarts`, `InitReturns`, `InitReturnsTooLate`, `InitRaises`, `RunEnds`, `CancelDelivered` | `Quest._run()` |
| `OneIsDone` | the done callback that sets the aggregate future |
| `ExitStarts`, `ExitCancels`, `ExitCloses`, `ExitCloseEnds`, `ExitIteratorRaises`, `ExitClears` | `__aexit__` and its iterator |

Who makes and adds each quest and who removes which names are parameters (`MadeBy`, `RemovedBy`);
`MCQuestManager.tla` gives the callers of `unmute_handler.py`: each turn has an LLM quest of its
own, and the task of that LLM adds the TTS of the turn. Init and run steps are arbitrary: they may
suspend, return or raise.

Two turns may so be in `add("tts")` at a time: the LLM of the first was cancelled while it awaits
the close step of the TTS before, swallows the cancellation (`CloseSwallowsCancel`) and registers
its TTS after all, while the LLM that took its place starts. What decides who comes first is
asyncio's ready queue, first in, first out: `Task.cancel()` cancels the future that the caller
awaits, which wakes it in the next round of the loop, and the first step of a task made by
`create_task()` later comes behind it. `ahead` holds the callers that a new quest so comes behind.
It is exact for a close step that awaits something of its own, as `TextToSpeech.shutdown()` does
with its lock and the websocket's close; a close step that waited for another task would take more
rounds to wake its caller.

### Chatbot.tla, ChatHistory.tla and Rechunk.tla (`llm/chatbot.py`, `llm/llm_utils.py`)

`Chatbot.tla` has the functions on histories as operators: `AddDelta`, `AddDeltaTo` (with
`generating_message_i`), `ConversationState`, `LastOf`, `PreprocessMessages`, `Preprocessed`. A
content is a sequence of words; the em-dash and the "..." are words of their own, the empty
delta is the empty sequence. `ChatHistory.tla` makes every history of bounded size.
`Rechunk.tla` is the generator `rechunk_to_words()` over a `VLLMStream`: chunks of characters,
cut anywhere, come in (`Arrives`), are split at the next run of spaces (`Split`), and what is
left is yielded at the end (`Ends`, `Rest`). Here the text is characters, because where it is cut
is what can go wrong.

### TurnTaking.tla and UnmuteHandler.tla (`unmute_handler.py`)

`TurnTaking.tla` is the abstract conversation: a floor, turns of the bot, words said in each.
`UnmuteHandler.tla` is the code: the receive loop (`recv`), the STT loop (`stt`), and of each
turn its LLM task, TTS quest and TTS websocket. It extends `Chatbot.tla`, so it writes and reads
the very histories those operators define, and implements `TurnTaking` with
`floor <- ConversationState(history)`.

| Actions | Code |
|---|---|
| `Receive`, `ReceiveFrame`, `ReceiveInterrupts`, `ReceiveFlushing` | `receive()` up to and after `send_audio()`: first response, long silence, pause, VAD interruption, end of the flush |
| `SttStep`, `SttWord`, `SttCloses` | the STT iteration and `_stt_loop()` |
| `LlmStart`, `LlmDelta`, `LlmGetsTts`, `LlmEnd`, `LlmFails` | `_generate_response_task()` |
| `TtsReady`, `TtsInitFails`, `TtsAudio`, `TtsText`, `TtsBreak`, `TtsServerCloses`, `TtsEnd`, `TtsConnectionFails`, `TtsSleepEnds` | `start_up_tts()`, `_tts_loop()`, `check_for_bot_goodbye()` |
| `InterruptAtOnce`, `InterruptCloses`, `InterruptContinues` | `interrupt_bot()`: with nothing to close, up to and after the closing of the websocket |
| `SetInstructions` | `update_session()` |

The output queue is the set of what bot turns have put into it since the last swap, and `fresh`
tells which TTS loops captured the present one. What no property is about is left out: `emit()`,
the events of the LLM's text (the frontend ignores them), speech-started and transcription
events, debug output. The pause prediction has two values, below the interruption threshold or
above the pause threshold; the seconds in which the VAD is not heeded, the silence timeout and
the one-second sleep are open choices, so no property depends on timing. Cancelled tasks end at
once here: a task of a turn could swallow its cancellation only in the close step of an earlier
TTS, and a response starts only while the floor is the user's, after the end or the interruption
of the turn before. The general case is in `QuestManager.tla` and, for the receive loop, in
`Session.tla`. What `emit()` makes of the output queue is in `Downlink.tla`. Recording and voice
selection are not in this module.

### TextToSpeech.tla (`tts/text_to_speech.py`, `tts/realtime_queue.py`)

`start` follows `start_up()` with its packets of earlier clients, rejections and cancellations;
`iter` follows `__aiter__`: receiving, recording, then draining the queue; `closing` and `lock`
follow `shutdown()` of each caller. The queue is a set ordered by time (a heap whose order among
equal times is arbitrary: one order is chosen, by arrival). `clock` is the time since the first
audio in chunks; without audio it does not start, and the queue drops what it holds. `Send` models only the sends that raise; the others change nothing here.
`RealtimeQueue.get()`, which the client never uses, is left out.

### Recorder.tla (`recorder.py`)

Three tasks record: the receive loop, the emit loop and the TTS iteration. File operations run
in threads, so opening, writing and closing are actions of their own, and an operation of a
cancelled task still happens. A file handle has the name of the task that opened it, and whoever
writes or closes, `cleanup()` too, goes on with the handle it had when it began (`target`). The module
composes the recorder with the part of `update_session()`, of `cleanup()` and of the session's
end that it interacts with.

### Session.tla (`main_websocket.py`, `stt/speech_to_text.py`)

`route` follows `websocket_route()`: waiting for a slot, starting the STT, checking health,
running, exiting the quest manager, reporting. The health of a backend is that of its four
servers (`Servers`, `HealthStatuses`, `IsOk`), of which voice cloning may be down. `loop` has the
three tasks of `_run_route()`, with the task group's single abort (`Abort`, `cancelled`);
`CancelSwallowed` is the receive loop that was cancelled inside `Quest.remove()`. `stt` and
`gauge` are the STT client and its share of `STT_ACTIVE_SESSIONS`. The LLM and the TTS appear as
the quests that fail; the messages a browser sends are one kind, whose handling may interrupt
the bot; messages buffered when it leaves are dropped; closing a websocket does not raise. The
STT is the first quest in the dict, so it is always closed before the exit's iterator may raise
(`ExitRaises`).

### Discovery.tla (`service_discovery.py`, both `start_up()`s, `voice_cloning.py`)

A finder is one call of `find_instance()`. `find` says where it is suspended: in the queue of the
resolver's lock (`line`), in the thread that resolves, connecting, waiting for the first packet,
or closing the websocket of an instance that refused. `Try` picks the next instance of the
shuffled list, any that is left; `Fails` is the except branch that goes on to it or raises.
`cache` is the entry of `async_ttl_cached`; besides its time it has `seen`, the time at which the
name service really gave the addresses, which the code does not know and the property compares
with. `TimedOut` and `Cancel` cut `start_up()` off where it is. `blocked` is `clone_voice()`, a
blocking request on the event loop: no finder moves while it lasts, but time does.

### Voices.tla (`cache.py`, `voice_donation.py`, `voice_cloning.py`, their endpoints)

One verification and one uploaded voice, several backend processes, with Redis (one cache) or
without (one `LocalCache` each; `CacheOf`). `Submit`, `WriteAudio`, `WriteMetadata` and `Finish`
are the parts of `submit_voice_donation()` between which another process or a crash may come;
each write may fail and leave a torn file. `rivals` notes, for `OkIsKept`, which submissions were
handled while another was: with Redis nothing keeps those apart. `StartVoice` is the start-up of the TTS that looks for
the embedding. `Restart` may come at any time. Reading and checking the submission's own contents
is left out: a wrong one changes nothing.

### OneShot.tla (`backend-custom/main_websocket.py`, `stt/`, `tts/`)

A request is a record: `at` is where its route is (connecting, sending, flushing, waiting for its
collector, closing), `col` is the collector task, `link` the connection. The unit of audio is
half a second, a batch of six frames, because the server's `asr_delay_in_tokens` is six
(`services/moshi-server/configs/stt.toml`); so `Delay` is 1. The server answers what it has got
`Delay` units more of, may be full, and may die.

### Uplink.tla, Downlink.tla, Playback.tla (the page and the two websocket loops)

`Uplink.tla`: presses of the button, the asynchronous set-up of the audio, the recorder with its
OGG pages, the queue that `react-use-websocket` keeps while it is not connected (external, from
how the page uses it), and `receive_loop()`, which waits for a first page. `Downlink.tla`: the
tasks of a turn that put into the output queue, `interrupt_bot()` that replaces it, `emit()` that
may still wait on the old one, `emit_loop()`, and what the page is told. A queue that nobody can
read any more keeps nothing (`HasReader`). `Playback.tla`: the two callbacks of the audio
worklet, on counts of samples; the code's buffer lengths are its constants.

### LoadTest.tla (`loadtest/loadtest_client.py`)

The client is whole: `emit_loop()` with its queue, `receive_loop()` with one action per message
type, and the two `PhasesStopwatch`es. The session it talks to is only what it sends: turns, news
of the history, words of the files it hears, interruptions by a word or by the VAD. A turn of the
bot has stages; `BotEnds` may come at any of them, because `_tts_loop()` puts its history and
`ResponseAudioDone` also if no word or audio came, behind the silence that flushes the encoder.
`disturbed` and `stale` note what the client cannot know: the turns that began before the end of a
file or were not put out whole, and those after which the bot answered before it had sent the
history. Instead of seconds a stopwatch notes *which* file or turn a phase was timed by, which is
what can be wrong.

### MCEndpoints.tla, MCFrontend.tla, MCChat.tla

Modules with no state in common are checked in one run: `part` says which of them a behaviour is
of, and the variables of the others stay as they are. So the states add up and do not multiply,
and each property is checked on the behaviours of its own module.

## The runs

| Run | Instance | What it shows |
|---|---|---|
| `qm_turns` | three turns, each with an LLM quest that adds the TTS of the turn | `NoOrphan`, `NoLeak`: adds and removes that overlap, cancel each other and swallow the cancellation |
| `qm_live` | one turn: an STT, an LLM and the TTS it adds, removed by two callers; failures and aborts | `LeavesAllClosed`, `FailureSurfaces` |
| `qm_exit` | STT, LLM, TTS with the handler's callers | violation of `ExitClosesAll` (below) |
| `chat_history` | 5 messages of up to 3 words; texts of 5 characters in chunks of up to 3; the three recording tasks, unbounded; 3 turns of a load test, one of them disturbed | `ContextShape`, `ContextKeepsWords`, `DashOnlyIfContinued`; `WholeWords`; `PastIsDeleted`; `RightTimes` |
| `turns` | 2 turns, one word each, a goodbye in the first | `HitsItsTurn`, `MessagePerTurn`, `NoStaleVoice`, `AnswersTheUser` and the refinement `TakesTurns` |
| `turns_live` | 1 turn of up to 2 words | `InterruptedTurnStops`, `TurnEnds`, `PauseIsAnswered` |
| `tts` | two removers, 3 messages, time to 4 chunks | `InOrder`, `NothingHeldBack` (each message once if audio came), `OnlyServerFailsSend`, `ShutdownReturns`, `IterationEnds` |
| `session` | two users, one slot | `SttHeldWithSlot`, `NoSilentEnd`, `LeftIsFreed`, `WaiterIsServed` |
| `session_silent` | one user | violation of `FailureBubblesUp` |
| `discovery` | two finders, two instances, three trials | `FreshInstances`, `AlwaysDecides`, `FindEnds` |
| `endpoints` | two requests and a server with one place; two processes, two submissions, three ticks | `WholeAnswer`, `AudioAnswerComes`; `OkIsKept`, `SpentOnce`, `SharedAnHour` |
| `frontend` | three set-ups of two pages; two turns; a buffer of 3 to 14 samples | `HeaderFirst`; `InterruptedIsLast`, `InterruptionArrives`; `LagIsBounded`, `PlaysOn` |

Bounds. A quest that is orphaned by a race of two adds takes three turns: a TTS that is being
closed, the LLM that closes it to add the second and is cancelled meanwhile, and the LLM that takes
its place and adds the third. `ThreeTurns` keeps `qm_turns` to the order in which they are made, to
a third turn that starts when the LLM of the first is over and is followed until its TTS takes its
first step, to a receive loop that never calls `get()` (`_generate_response` only awaits `add()`),
and to a session that goes on, with init and run steps that do not fail; `qm_live` has failures and
aborts, with one turn, and the theorems have all of it. Only the receive loop removes in
`qm_turns`, as there is no STT quest in it.
Two turns of `UnmuteHandler` let every late step of the first meet the second, and the goodbye in the first
only is what could end the second. Five messages of three words are the system prompt and two
exchanges, enough for every merge of neighbours and for a marker, a word and a dash in one
message. Five characters are two words with a run of spaces before, between or after them, and
chunks of three cut them everywhere. Two removers, and the iteration itself, are the callers of
`shutdown()` that the handler has; three messages let a word come ahead of the audio and two
items share a time. A session shares nothing with another but the slots, so two users and one
slot are the contention there is. Two finders are a holder of the lock and a waiter; with two
ticks an entry of the cache expires while one of them resolves. Two submissions on two processes
are every overlap of two handlers; three ticks pass both times to live. Three set-ups are one
that was orphaned, one that replaced it and one that follows; two pages are the header and one
that needs it. Three turns of the load test are the greeting and two answers, the second of which
could be timed with what was left of the first. `RightTimes` speaks of conversations without a
disturbance; one disturbed turn (`MaxDisturbed`) shows the actions that make one, and that the
property does not depend on their never being taken. The lengths of `Playback.tla` keep the order of
the code's: a frame may be shorter or longer than a block, and the buffer to start with is more
than a block.

The bounds are `MaxTurns`, `MaxDeltas`, `MaxUserWords`, `MaxMessages`, `MaxWords`, `MaxItems`,
`MaxTime`, `MaxChunk`, `MaxText`, `MaxWire`, `MaxDisturbed`, `Horizon`, `Pages`, `MaxQueued` and `MaxRequests`;
they appear in the guards that would exceed them. `StartPackets`, `MaxTrials`, `MaxBatches`,
`MaxNMessages` and the buffer lengths are parameters of the code. Deadlock is not checked,
because every instance may come to its end: a session that is over, a history at its bound, a
client that is shut down, a time that is past the horizon.

## Fairness

Weak fairness, per task, of the steps the event loop owes: a task that can run runs. That is what
asyncio's ready queue gives. Beyond it:

- *an await returns*: init and close steps have timeouts (`find_instance()`, the websocket
  library's close timeout), LLM and TTS streams end once they have been told the text is over;
  quests' run steps are not assumed to end;
- `UnmuteHandler`: frames keep coming, which is what the browser does while the microphone is
  open, and the STT answers frames with steps;
- `TextToSpeech`: time passes; neither the server nor a remover has to do anything;
- `Session`: users need neither connect nor leave (`WaiterIsServed` assumes, in its statement,
  that they leave), servers need not close, quests need not fail;
- `Discovery`: time passes and a resolution ends; the fairness of a finder is strong, because
  `clone_voice()` may block the loop again and again. `FindEnds` assumes in its statement that it
  does not stay blocked; instances need not answer;
- `OneShot`: the server answers or dies, as there is no timeout: a server that hangs, hangs the
  request;
- `Downlink`: `emit_loop()` goes on and `wait_for_item()` gives up after 0.1 s; neither the bot nor
  the page has to do anything;
- `Playback`: the audio thread asks for the next block.

## What the code does differently from what it says

Two runs look for a documented promise and find it broken; `PROJECT.json` quotes the lines.

- `qm_exit`: `__aexit__` iterates over the live dict and awaits inside the loop. A quest that
  removes or adds another meanwhile makes the iterator raise, and the rest is never closed. If
  quests only remove each other, the exit at least does not pass over any in silence
  (`LeavesAllClosed`); a quest that *replaces* another leaves the size as it is, and then it does.
- `session_silent`: the cancellation that `Quest.remove()` swallows may be the task group's only
  one; the session then goes on without an emit loop until the user leaves, and the failure that
  caused it is not reported before.

Seen while modelling, with no run of their own. In the backend:

- words that are released while an interruption closes the TTS websocket come behind the
  interruption mark, which is then no longer at the end of the message, where the comment at
  `llm/llm_utils.py:28-30` has it taken off, and the LLM is shown it (`unmute_handler.py:548`);
- a refusal leaves a recording on disk if another task opens the file again, or if the session
  ends between the closing and the unlinking (`recorder.py:53-57`);
- a start-up of the TTS or STT that times out or is cancelled once its websocket is open does not
  close it, and neither does the TTS when it has read its ten packets in vain
  (`text_to_speech.py:239-246`, `service_discovery.py:86`), although the comment in the except
  branch says "Make sure we don't leave a dangling websocket connection";
- `_tts_loop()` puts `ResponseAudioDone`, and possibly `CloseStream`, into the present queue
  (`unmute_handler.py:574`), unlike what the comment at line 509 is careful about; the goodbye
  check reads the present history, and may close the session on a goodbye that was interrupted;
- `turn_transition_lock` (`unmute_handler.py:104`) is never taken; that no two responses overlap
  rests on the empty assistant message that is added without an await (`HitsItsTurn` holds);
- an STT connection that the server ends makes `shutdown()` return before it decrements
  `STT_ACTIVE_SESSIONS`: the gauge stays one too high (`stt/speech_to_text.py:159`);
- a cancellation during a quest's init leaves its future pending (`quest_manager.py:69`);
- a caller that is cancelled in `Quest.get()` cancels the future with it: `set_result()` then raises,
  the quest fails and is reported (`FailureSurfaces`), but what its init step opened is never closed
  (`quest_manager.py:59`, `InitReturnsTooLate`). In the handler the waiters are `start_up()`
  and the LLM of a turn; an interruption that cancels the LLM removes the TTS first, which cancels
  its init step before it returns;
- a turn whose LLM answers nothing has no end of its own: the TTS is never told that the text is
  over, and the turn lasts until it is interrupted;
- `process_recording.py` says at line 3 that it reads a `.msgpack` recording of what `recorder.py`
  records; `recorder.py` writes JSON lines without the audio that the tool aligns;
- the fork's endpoint calls `handler.cleanup()` (`backend-custom/main_websocket.py:422`), which the
  fork's handler does not define.

In the page:

- microphone audio that `react-use-websocket` kept while not connected reaches the server before
  `session.update`; two presses during one set-up leave a recorder nobody stops, which keeps
  sending (why `HeaderFirst` is about what the decoder is fed and not about who sends);
- "Increased maxBuffer" (`audio-output-processor.js:87-92`) takes the minimum with a bound that is
  below the value at the start, so the first packet that is dropped shrinks the buffer from 30 s
  to 80 ms;
- the callback behind `anyAudio` returns nothing, so the partial buffer grows at every underrun,
  unlike what the comment at lines 218-219 says; a rest of less than 80 ms at the end of a turn
  stays until the next one.

In the load test:

- a user's entry is left out, has the words of the turn before, or is measured from an earlier
  file, if the history has not arrived at `ResponseCreated`, because the entry is made of the last
  message the client was told of, and the stopwatch is reset only with it
  (`loadtest_client.py:181-193`). `RightTimes` confines this to the turns after which the history
  was late (`stale`) and to the entries that follow a missing one;
- a response that ends without a word or without audio, as one whose TTS connection was lost, a
  bot that is interrupted, and a file that is answered before its end may make the checks of the
  phases raise `RuntimeError` (`loadtest_client.py:212`, `timer.py:43-49`), and the worker ends.
  `RightTimes` speaks of conversations without such turns (`disturbed`);
- at the end `receive_loop()` queues `CloseStream` behind the audio it has queued before
  (`loadtest_client.py:265`), so `emit_loop()` sends that file to its end before it closes.

## Proofs

`tlapm` proves that every invariant the passing runs check, the action properties `InOrder`,
`SpentOnce` and `SharedAnHour`, and the refinement `TakesTurns` hold for every value of the
constants that satisfies the named assumptions. These are on sizes (finite sets, bounds that are
natural numbers, names of which some differ), except for those that say something of the system:

- `CallersAssumption` of the quest manager: a quest does not remove its own name;
- `MakersAssumption` of the quest manager: the quests of a name are all made by one task, as the
  STT and the LLMs are by the receive loop's, or each by a quest of its own that has no close step,
  makes that one quest, and removes none, as the TTS of a turn is by the LLM of the turn;
- `BoundsAssumption` of `TextToSpeech`: there are at least as many start times as items;
- `VoicesAssumption`: a verification lives no longer than a voice, an hour;
- `PlaybackAssumption`: the order of the buffer lengths, as the numbers in
  `audio-output-processor.js` have it;
- `OneShotAssumption`: `Delay` is at most one unit, as the half second of the STT's delay is one
  batch of the six frames the route sends at once;
- `BoundsAssumption` of `ChatHistory`: the words of the dummy message and the marks are not words
  that were said. A word is where it comes from, and a user who says "Hello." says another one.

The type correctness of each module with proofs but `Uplink`, `Downlink`, `OneShot`, `ChatHistory`,
`Rechunk` and `Discovery` is a theorem, and is therefore not an invariant of a run; of these six
the types that matter are part of the invariants.

**QuestManagerProofs.tla.** `TypeCorrect` is `Spec => []TypeOK`. `TypeOK` alone is not inductive:
a caller that resumes registers the quest it holds and cancels its target, so one has to know
that these exist, are of the same name, and that no other caller holds the same new quest.
`TypeInv` adds that (`CallersOK`), and that a registered quest has its name and has been started
(`RegistryOK`). `AddCancelsThePrevious` is `Spec => []NoOrphan`: no running quest is forgotten, although every
turn's LLM adds a TTS. The invariant adds to `TypeInv` that the name an `add()` is about to
overwrite still refers to the quest it is closing, or to nothing, and that no other `add()` of the
name is under way (`SlotOK`). The second half is what two turns put at risk, and `RivalInv` is why
it holds. Of the quests of a name that a task makes and that have no close step, as the LLMs, one at
most was not cancelled: a new one cancels the one before, which `NoOrphan` has registered. A maker
that was cancelled goes on only if it swallows its cancellation in its one `add()` (`CancelsOK`); and
while such a one has yet to wake up, the maker that was not cancelled has not started, because it
comes behind it in the loop's queue (`TurnsOK`). So when a maker calls `add()`, every other has
registered what it made (`NoRival`). Without the order of the queue this is false: TLC finds the
orphan in `qm_turns` when `InitStarts` does not wait for `ahead`.

`NothingLeaks` (`NoLeak`) and `ExitClosesTheOwned` (`LeavesAllClosed`) need one invariant more,
`LeakInv`: what init and close step of a quest have done goes with the stage of its task
(`StagesOK`, `ClosersOK`), the dict iterator's entries are the keys of the dict (`EntriesOK`), and
a quest that matters is `Reachable`: registered, and during the exit at a place the iterator has
still to come to (`ReachOK`). Which quests matter changes when the exit starts. Before, it is all
of them; then, quests may replace and remove one another behind the iterator, and it is those that
only the session's own tasks add and remove (`Owned`), because these tasks are over by then
(`ExitOK`). `LeavesAllClosed` speaks of these: of the others `ExitClosesAll` is violated. Both
properties exempt a quest whose init future was cancelled under it by a waiter: what its init step
opens after that is closed by nobody (below).

**UnmuteHandlerProofs.tla.** `TypesHold`, `InterruptionHitsItsTurn`, `EachTurnHasItsMessage`,
`InterruptedIsSilent`, `LlmAnswersTheUser` and `TasksTakeTurns` are `TypeOK`, `HitsItsTurn`,
`MessagePerTurn`, `NoStaleVoice`, `AnswersTheUser` and the refinement `TakesTurns`, for any number
of turns and words and any set of goodbyes. One invariant, `Inv`, carries them all.

- *Who may do what* (`TasksOK`). An LLM that works is the registered one, and one that has not
  started yet has the empty last message for its own. A TTS whose websocket is not being closed is
  that of the turn that speaks (`Speaks`): it is the current, registered, not interrupted turn, the
  last message is the bot's, and it is the message this TTS adds to. An interrupter that is
  suspended closes the websocket of the current turn, has taken its TTS off the registry, and no
  response begins until it has come back. This is what stands in for the `turn_transition_lock`
  that the code declares and never takes.
- *What was decided before an await still holds after it* (`FlushOK`, `AskedOK`): while a pause is
  flushed the floor stays the user's, and an LLM that is about to be asked finds a message of the
  user before its own.
- *What was said* (`WordsOK`): there is a function from turns to their messages, increasing, such
  that the words of a turn are in its message alone, and the user's messages hold only the user's
  words. `MessagePerTurn` is this function.
- *What is heard* (`OutputOK`): a TTS loop that holds the present queue is not interrupted.

Each action is sorted once by what it does to the history (`NobodySays`, `SomeoneElseSays`,
`BotSaysWord`, `BotIsCut`, `BotIsAsked`), and `WordsOK`, `AskedOK` and the step of `TurnTaking` are
shown for these five cases. `LlmAnswersTheUser` also needs what the prompt is made of:
`Preprocessed` drops, merges and completes messages, and its last one has to be the user's.
`CleanedUpTo` is a recursive function, so that it is defined for every length, and what it returns,
are shown with `StepByStep` and `Induction`: the least length that fails (`Least`) has none before
it. These are first-order lemmas about natural numbers and finite sets, and need no operator for a
parameter.

**SessionProofs.tla.** `TypeCorrect`, `SttIsHeldWithSlot` and `EndsWithAWord` are
`Spec => []TypeOK`, `Spec => []SttHeldWithSlot` and `Spec => []NoSilentEnd`, for any number of
users and slots. The invariant `IInv` has a global part, that the sessions with a slot are no
more than the slots (`SlotsOK`), and one per session: where the STT can be connected and counted
(`SttOK`), and what the reason for a session's end leaves behind (`EndOK`): a task is over
because something was raised, and a closed websocket means that the user has left or has been
told. A step changes one session (`StepOfOne`), so each action is shown for its own session; only
`Accept` touches the count of slots (`SlotTaken`), by the cardinality theorems of the library.

**TextToSpeechProofs.tla.** `GaugeIsBalanced` and `ShutdownFailsNoSend` are
`Spec => []CountedOnce` and `Spec => []OnlyServerFailsSend`, for every set of removers and all
bounds. The invariant says that before `start_up()` has returned nobody iterates or shuts down
(`StartOK`), and that whoever closes the websocket holds the lock (`LockOK`): without the first
a start-up could be counted after its shutdown, without the second the lock would not tell
`send()` anything. `DrainsCompletely` is `NothingHeldBack`: while nobody removes the quest, the
iteration shuts the client down only when it no longer receives, and is done only when the heap is
empty or the clock never started (`DrainOK`). Each message that came waits in the heap or was
released, never both and never twice (`Apart`), and, while nobody removes the quest, none is
neither (`Accounted`); the clock starts with the first audio, and nothing is released before
(`KeptOK`). `ReleasedInOrder` is the action property `InOrder`. Items arrive once (`HeapOK`), a
release takes what is earlier than all it leaves (`Releases`), and `Popped` orders it; that a finite
set of items with distinct identities can be put in that order is shown by taking its last
(`Earlier` is total), on the cardinality of the set.

**ChatProofs.tla.** *Recorder*: `TypeCorrect`, `RefusalDeletes` and `ConsentIsUndisturbed` are
`TypeOK`, `PastIsDeleted` and `NoErrorWithConsent`. The argument for the second is that a task
opens the file at most once (`OnceOK`): it starts to open only while the recorder has no handle,
and once it has opened one, either the recorder keeps a handle for good or the task was cancelled.
So a file that is created after the deletion is one that nothing old was written to (`FilesOK`).

*Histories*: `ContextTakesTurns`, `DashesEndMessages` and `ContextKeepsWhatWasSaid` are
`ContextShape`, `DashOnlyIfContinued` and `ContextKeepsWords`, for histories of any length over any
words. The histories that the calls make are `Conversations`: a system prompt, then messages of the
user and the bot. No invariant is stronger than that, and the theorems are about what the steps of
`PreprocessMessages` make of any of them: dropping and stripping (`Kept`), merging (`Merge`, which
leaves roles that take turns and no empty message: `TakesTurns`), a user who speaks first, the
marker. That merged messages have the words they were merged of, in order, is carried through the
same steps with the lemmas on `FlattenSeq` (`FlatMap`: it distributes over concatenation).

*Chunks*: `WordsAreWhole` is `WholeWords`, for texts of any length cut anywhere. The text is
`t \o buffer` for a `t` whose words have been given: they join to what `Merged` makes of `t`, and
the prefix is the space `t` ends in (`Passed`). Before the first word `t` has none: leading spaces
are the prefix of the first word. A split moves the end of `t` behind the next run of spaces, and
`Merged`, defined character by character, does not depend on where it is cut (`Added`).

*Load test*: `ReportIsRight` is `RightTimes`, for conversations of any length and wires of any
capacity. Both ends are at a place of the conversation: the turn of the bot, what has been put out
of it, and the history that was last sent (`Places`). The client is at one place, by its
stopwatches (`ClientAt`), the session at another (`SessionAt`), and what is on the wire leads from
the first to the second, one message after the other (`Leads`, `WireLeads`). So whatever the client
reads next, it is at the place at which that message was sent. The other direction is simpler,
because only one side speaks: while a file is on its way to the session no news of a turn is on the
wire, and nothing of a turn follows its end (`FilesAt`). What a late history does is in two places.
A history that was told ends in the whole turn of the bot, or in what the user says to it
(`ToldIn`), and unless the turn is `stale`, in what the user has said (`InTime`): so the entry made
of it has the words of this turn or of the one before. And the stopwatch of the user is at the file
that was just queued, or, if the entry before is missing, at an earlier one (`Waits`, `UserDone`,
`UserMissing`). An entry is judged by itself and the two before it (`EntryKept`), so the report
stays right as it grows. All this holds while nothing is `disturbed`, and a disturbance stays one
(`DisturbedStays`).

**EndpointsProofs.tla.** *Donations*: `AcknowledgedIsKept`, `GoodForOne` and `VoiceIsShared` are
`OkIsKept`, `SpentOnce` and `SharedAnHour`, for any number of processes and submissions and any
times to live. Without Redis, only one process ever has the verification or handles a submission
of it (`OneHolder`), and it handles one at a time (`Handling`). With Redis, `OkIsKept` speaks of a
submission during which no other was handled (`Alone`; those that are handled together have met:
`Together`). In both cases nobody else writes the files meanwhile, so `Files` can say of each step
of a submission what is on disk by then; `UsedUp` says that after a success no cache has the
verification, and no handler is under way if the successful submission was alone.
`VoiceIsShared` needs only that with Redis an uploaded voice is in the cache until an hour has
passed (`VoiceKept`); a restart of a process does not touch it.

*One-shot endpoints*: `SuccessIsWhole` is `WholeAnswer`, for any number of requests and files of
any length. `AudioInv` says of a route that has announced its end that the silence it has sent is
enough for the last word (`Enough`), and of a collector that has ended, and not because the server
died, that it has heard all the server owed it by then (`Rest`); an answer joins the two
(`AnswerOK`).

**DiscoveryProofs.tla.** `Decided` and `FreshAlways` are `AlwaysDecides` and `FreshInstances`, for
any number of finders, instances and trials. `Decided` rests on the trials that are left being one
less than the instances that are still to be tried, at most (`ListSize`, and in the invariant the
comparison of `left` with the cardinality of `todo`): so `pop()` is never called on an empty list,
and a loop that ends has raised. `FreshAlways` rests on an entry's time being no later than that of
the resolution it stores, so that a list that is young by its entry is young.

**FrontendProofs.tla.** *Playback*: `TypeCorrect`, `Lag` and `LeftBehind` are `TypeOK`,
`LagIsBounded` and `NothingLeftBehind`, for buffers of every length that keeps the order
`PlaybackAssumption` gives. Each callback ends with the loop that drops what is too much, so the
bound holds after every step if it does not vanish: `Room` says that it stays above zero when it
shrinks.

*Up*: `DecoderHasHeader` is `HeaderFirst`. On the way to the decoder (`Stream`, the wire or the
queue of the hook) a page follows one of its own recording, or precedes every first page and is
skipped (`Follows`); what a recorder will send next may follow what is there already
(`PagesOK`). That holds while one recorder at a time makes pages (`OneLive`), and two of them need
an orphan, which stays one.

*Down*: `NoSpeechAfterTheNews` is `InterruptedIsLast`. Speech of a turn is only in the queue the
turn began with, the news of its interruption only in a later one (`ItemOK`), a turn that still
speaks has the present queue (`TurnsOK`), and `emit()` waits on queues in the order of their
numbers (`EmitOK`). So what is read after the news is not of the interrupted turn, although it may
be read from the old queue by an `emit()` that was waiting on it.

### Only model-checked

- Liveness, which is under fairness: `FailureSurfaces`, `InterruptedTurnStops`, `TurnEnds`,
  `PauseIsAnswered`, `ShutdownReturns`, `IterationEnds`, `LeftIsFreed`, `WaiterIsServed`,
  `FindEnds`, `AudioAnswerComes`, `PlaysOn`, `InterruptionArrives`.
- The two violations, which are single behaviours.

## Not modelled

Metrics are declarations, event types are data; prompts, news and voice tooling are text templates
and offline scripts; gradio and the scripts are debugging aids around the same handler. None has a
state that interacts. The recording viewer is an offline tool for a format the recorder no longer
writes. The moving average and the timers are real-valued; where a decision hangs on them the
models leave the outcome open. Of the page, the configurator, the visualisation and the rendering
are left out; of the backend's HTTP endpoints, what does not touch sessions, voices or health; of
the load test, the processes that run several conversations and the statistics made of them.

## Plan

Done: the core (QuestManager, Chatbot, UnmuteHandler, TextToSpeech, Recorder, Session), service
discovery, voices and caches, the one-shot endpoints of the fork, the page with both websocket
loops and its playback, the chunking of words, and the load test; every safety property of theirs
as a theorem. What is left:

1. Pure algorithms: the alignment in `process_recording.py` against its definition, `VLLMStream`'s
   handling of empty chunks, each with bounded inputs.
2. Abstract specifications: a mutually exclusive "one voice" that the quest manager with its
   callers implements, a timed buffer that `TextToSpeech` implements, a counting semaphore that
   `Session` implements, and the refinement of the last as a theorem.
3. Compositions: `Downlink` and `Playback` with the handler's interruption, so that what the user
   still hears of an interrupted turn is bounded too.

Each run answers a question of its own; as modules are added, the questions of one component are
put into as few runs as its bounds allow.
