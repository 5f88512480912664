------------------------------- MODULE OneShot -------------------------------
(***************************************************************************)
(* The audio endpoints of the custom backend: one request transcribes a    *)
(* file or synthesizes a text (backend-custom/main_websocket.py), with the *)
(* STT and TTS clients of backend-custom/stt and backend-custom/tts.       *)
(*                                                                         *)
(* A request has two tasks: the route, which sends, and the collector,     *)
(* which reads.  The unit of audio is a batch of silence, 0.5 s; the text  *)
(* of a speech is one unit.  The server answers unit i once it has got     *)
(* Delay units more: a word of the file, or the audio of the text.  A      *)
(* request is not under SEMAPHORE and does not use find_instance(): it     *)
(* shares the server's places with everyone and has no timeout.            *)
(***************************************************************************)
EXTENDS Naturals, FiniteSets, FiniteSetsExt

CONSTANTS
    Requests,       \* the requests to the two endpoints
    Length,         \* the units of an audio file
    Delay,          \* STT_DELAY_SEC, in units: it is 0.5 s
    MaxBatches,     \* max_batches
    Capacity        \* the clients a server takes

OneShotAssumption ==
    /\ IsFiniteSet(Requests)
    /\ Length \in Nat \ {0} /\ Delay \in 0..1 /\ MaxBatches \in Nat \ {0} /\ Capacity \in Nat

VARIABLES
    kind,   \* the endpoint of each request
    said,   \* the units of its file that have a word; whether its text is not blank
    req     \* its route, its collector and its connection

vars == <<kind, said, req>>

Kinds == {"transcribe", "synthesize"}
Links == {"none", "open", "up", "refused", "ended", "lost", "closed"}
Stages == {"start", "waiting", "sending", "flush", "asleep", "end", "collect", "closing", "done"}
New == [at |-> "start", link |-> "none", sent |-> 0, eof |-> FALSE,
        col |-> "none", heard |-> {}, count |-> 0, batch |-> 0, exc |-> FALSE,
        died |-> FALSE, reply |-> "none"]

Units(r) == IF kind[r] = "transcribe" THEN Length ELSE 1
DelayOf(r) == IF kind[r] = "transcribe" THEN Delay ELSE 0

Init ==
    /\ kind \in [Requests -> Kinds]
    /\ said \in [Requests -> SUBSET (1..Length)]
    /\ \A r \in Requests : said[r] \subseteq 1..Units(r)
    /\ req = [r \in Requests |-> New]

Is(r, stage) == req[r].at = stage
Becomes(r, to) == req' = [req EXCEPT ![r] = to] /\ UNCHANGED <<kind, said>>
Answer(r, how) ==
    Becomes(r, [New EXCEPT !.at = "done", !.link = "closed", !.reply = how,
                           !.heard = req[r].heard, !.died = req[r].died])

-----------------------------------------------------------------------------
(* The server *)

Served(r) == Cardinality({q \in Requests : kind[q] = kind[r] /\ req[q].link = "up"})

Accepts(r) ==
    /\ req[r].link = "open"
    /\ Becomes(r, [req[r] EXCEPT !.link = IF Served(r) < Capacity THEN "up" ELSE "refused"])

\* The server closes the connection when it has processed what came before \0 or Eos;
\* its answers are on their way.
ServerEnds(r) ==
    /\ req[r].link = "up" /\ req[r].eof
    /\ Becomes(r, [req[r] EXCEPT !.link = "ended"])

ServerDies(r) ==
    /\ req[r].link \in {"open", "up"}
    /\ Becomes(r, [req[r] EXCEPT !.link = "lost", !.died = TRUE])

-----------------------------------------------------------------------------
(* The collector *)

\* What the server makes of what it got, and the collector has not read.
Coming(r) == {i \in said[r] : i + DelayOf(r) <= req[r].sent} \ req[r].heard
Reads(r) == req[r].col = "running"

\* The server may have taken any time for it.
Collects(r) ==
    /\ Reads(r) /\ Coming(r) # {}
    /\ Becomes(r, [req[r] EXCEPT !.heard = @ \cup {Min(Coming(r))}])

\* The iterator of the STT swallows ConnectionClosed, that of the TTS only when the
\* server closed properly.
CollectorEnds(r) ==
    /\ Reads(r)
    /\ \/ /\ req[r].link = "ended" /\ Coming(r) = {}
          /\ Becomes(r, [req[r] EXCEPT !.col = "ended"])
       \/ /\ req[r].link = "lost"
          /\ Becomes(r, [req[r] EXCEPT !.col = IF kind[r] = "transcribe" THEN "ended" ELSE "failed"])

\* An error message or a message that does not validate.
CollectorFails(r) ==
    /\ Reads(r) /\ req[r].link = "up"
    /\ Becomes(r, [req[r] EXCEPT !.col = "failed"])

-----------------------------------------------------------------------------
(* The route *)

\* decode_audio_to_pcm() or the connection fails.
CannotStart(r) == Is(r, "start") /\ Answer(r, "500")

Connect(r) == Is(r, "start") /\ Becomes(r, [req[r] EXCEPT !.at = "waiting", !.link = "open"])

StartedUp(r) ==
    /\ Is(r, "waiting") /\ req[r].link = "up"
    /\ Becomes(r, [req[r] EXCEPT !.at = "sending", !.col = "running"])

\* start_up closes the websocket and raises.
NotStarted(r) == Is(r, "waiting") /\ req[r].link \in {"refused", "lost"} /\ Answer(r, "500")

\* A blank text is not sent.
Payload(r) == IF kind[r] = "synthesize" /\ said[r] = {} THEN 0 ELSE 1

Send(r) ==
    /\ Is(r, "sending") /\ req[r].sent < Units(r) * Payload(r)
    /\ Becomes(r, [req[r] EXCEPT !.sent = @ + 1])

AllSent(r) ==
    /\ Is(r, "sending") /\ req[r].sent = Units(r) * Payload(r)
    /\ Becomes(r, [req[r] EXCEPT !.at = IF kind[r] = "transcribe" THEN "flush" ELSE "end",
                                 !.count = Cardinality(req[r].heard)])

Flush(r) ==
    /\ Is(r, "flush")
    /\ Becomes(r, [req[r] EXCEPT !.at = "asleep", !.sent = @ + 1, !.batch = @ + 1])

\* No new words in this batch, or the last batch.
Checks(r) ==
    /\ Is(r, "asleep")
    /\ Becomes(r, [req[r] EXCEPT
            !.at = IF Cardinality(req[r].heard) = req[r].count \/ req[r].batch = MaxBatches
                   THEN "end" ELSE "flush",
            !.count = Cardinality(req[r].heard)])

\* Mutant of SendEnd: the server is not told.
SendEndNot(r) == Is(r, "end") /\ Becomes(r, [req[r] EXCEPT !.at = "collect"])
SendEnd(r) == Is(r, "end") /\ Becomes(r, [req[r] EXCEPT !.at = "collect", !.eof = TRUE])

\* websocket.send() raises once the connection is known to be lost: the transcription
\* still waits for its collector, the synthesis does not.
SendFails(r) ==
    /\ req[r].at \in {"sending", "flush", "end"} /\ req[r].link = "lost"
    /\ Becomes(r, [req[r] EXCEPT !.exc = TRUE,
                                 !.at = IF kind[r] = "transcribe" THEN "collect" ELSE "closing"])

\* Mutant of Join: the route does not wait for the collector.
JoinNow(r) == Is(r, "collect") /\ Becomes(r, [req[r] EXCEPT !.at = "closing"])
Join(r) == Is(r, "collect") /\ ~Reads(r) /\ Becomes(r, [req[r] EXCEPT !.at = "closing"])

Failed(r) == req[r].exc \/ req[r].col = "failed"

\* shutdown(), then the answer; the format of the audio may be unknown.
Close(r) ==
    /\ Is(r, "closing")
    /\ \/ Failed(r) /\ Answer(r, "500")
       \/ /\ ~Failed(r) /\ req[r].heard = {}
          /\ Answer(r, IF kind[r] = "transcribe" THEN "500" ELSE "400")
       \/ /\ ~Failed(r) /\ req[r].heard # {}
          /\ \/ Answer(r, "200")
             \/ kind[r] = "synthesize" /\ Answer(r, "500")

-----------------------------------------------------------------------------
Server(r) == Accepts(r) \/ ServerEnds(r)
Collector(r) == Collects(r) \/ CollectorEnds(r)
Route(r) ==
    \/ CannotStart(r) \/ Connect(r) \/ StartedUp(r) \/ NotStarted(r) \/ Send(r) \/ AllSent(r)
    \/ Flush(r) \/ Checks(r) \/ SendEnd(r) \/ SendFails(r) \/ Join(r) \/ Close(r)

Next == \E r \in Requests : Server(r) \/ ServerDies(r) \/ Collector(r) \/ CollectorFails(r) \/ Route(r)

Spec == Init /\ [][Next]_vars

\* The tasks go on.  A server that hangs, hangs the request: there is no timeout.
FairSpec ==
    /\ Spec
    /\ \A r \in Requests : WF_vars(Server(r)) /\ WF_vars(Collector(r)) /\ WF_vars(Route(r))

-----------------------------------------------------------------------------
(* Properties *)

TypeOK ==
    /\ kind \in [Requests -> Kinds] /\ said \in [Requests -> SUBSET (1..Length)]
    /\ req \in [Requests ->
            [at : Stages, link : Links, sent : Nat, eof : BOOLEAN,
             col : {"none", "running", "ended", "failed"}, heard : SUBSET (1..Length),
             count : Nat, batch : 0..MaxBatches, exc : BOOLEAN, died : BOOLEAN,
             reply : {"none", "200", "400", "500"}]]

\* A success is whole: all the words of the file, or the audio of the whole text, however
\* slow the server is, unless the STT died in between, which looks like its normal end.
WholeAnswer ==
    \A r \in Requests :
        req[r].reply = "200" /\ (kind[r] = "transcribe" => ~req[r].died) => req[r].heard = said[r]

\* Every request is answered, as long as the servers do their part or die.
AnswerComes == \A r \in Requests : Is(r, "start") ~> Is(r, "done")
=============================================================================
