-------------------------------- MODULE Voices --------------------------------
(***************************************************************************)
(* The short-lived data of the voice features: the verification of a voice *)
(* donation (unmute/tts/voice_donation.py) and the embedding of an         *)
(* uploaded voice (unmute/tts/voice_cloning.py), in the cache of           *)
(* unmute/cache.py, behind the endpoints of unmute/main_websocket.py.      *)
(*                                                                         *)
(* Several backend processes serve the same users.  With KYUTAI_REDIS_URL  *)
(* they share one cache; without it each has a LocalCache of its own, lost *)
(* when it restarts.  The donation directory is shared.  The module        *)
(* follows one verification and one voice; a handler never awaits, so a    *)
(* process does one step after another of it, and only other processes and *)
(* crashes come in between.                                                *)
(***************************************************************************)
EXTENDS Naturals

CONSTANTS
    Processes,      \* the backend processes
    Submissions,    \* the POSTs of the verification: a donor may send it again
    Minutes,        \* MINUTES_TO_VERIFY, in ticks
    Hour,           \* ttl_seconds of both caches, in ticks
    Horizon         \* bound: the ticks that are looked at

ASSUME VoicesAssumption ==
    /\ Minutes \in Nat \ {0} /\ Hour \in Nat /\ Horizon \in Nat
    /\ Minutes <= Hour

VARIABLES
    redis,      \* KYUTAI_REDIS_URL is set
    now,        \* the time
    cache,      \* what each cache holds: the time it was set, or nothing
    asked,      \* the verification that the donor was given: created_at, or nothing
    doing,      \* where each process is in submit_voice_donation()
    reply,      \* the answer to each submission
    wav, json,  \* whose audio and whose metadata the two files of the verification hold
    uploaded,   \* the time of the upload of the voice, or nothing
    voice,      \* the voice that the last session of the donor got
    rivals      \* of each submission, those that were handled while it was

vars == <<redis, now, cache, asked, doing, reply, wav, json, uploaded, voice, rivals>>

Nothing == {}
Kinds == {"verification", "voice"}
None == [sub |-> Nothing, step |-> "idle"]

\* get_cache: the shared cache, or that of the process.
Caches == {{}} \cup {{p} : p \in Processes}
\* Mutant of CacheOf: KYUTAI_REDIS_URL is ignored.
CacheOfOwn(p) == {p}
CacheOf(p) == IF redis THEN {} ELSE {p}

Init ==
    /\ redis \in BOOLEAN /\ now = 0
    /\ cache = [k \in Kinds |-> [c \in Caches |-> Nothing]]
    /\ asked = Nothing /\ doing = [p \in Processes |-> None]
    /\ reply = [s \in Submissions |-> "none"]
    /\ wav = "none" /\ json = "none"
    /\ uploaded = Nothing /\ voice = "none" /\ rivals = [s \in Submissions |-> {}]

-----------------------------------------------------------------------------
(* unmute/cache.py *)

Expired(entry) == \E t \in entry : now >= t + Hour
Set(k, p) == [cache EXCEPT ![k][CacheOf(p)] = {now}]
Delete(k, p) == [cache EXCEPT ![k][CacheOf(p)] = Nothing]

\* get: an expired entry is not found, and removed.
Get(k, p) == IF Expired(cache[k][CacheOf(p)]) THEN Nothing ELSE cache[k][CacheOf(p)]
AfterGet(k, p) == IF Expired(cache[k][CacheOf(p)]) THEN Delete(k, p) ELSE cache

\* cleanup of a LocalCache is called whenever another entry is set: exp < now.
Cleanup(k, p) ==
    /\ doing[p] = None /\ ~redis
    /\ \E t \in cache[k][{p}] : t + Hour < now
    /\ cache' = Delete(k, p)
    /\ UNCHANGED <<redis, now, asked, doing, reply, wav, json, uploaded, voice, rivals>>

\* Redis removes by itself what has expired.
RedisExpires(k) ==
    /\ redis /\ Expired(cache[k][{}])
    /\ cache' = [cache EXCEPT ![k][{}] = Nothing]
    /\ UNCHANGED <<redis, now, asked, doing, reply, wav, json, uploaded, voice, rivals>>

-----------------------------------------------------------------------------
(* Voice donation *)

\* GET /v1/voice-donation: generate_verification().
Generate(p) ==
    /\ doing[p] = None /\ asked = Nothing
    /\ asked' = {now} /\ cache' = Set("verification", p)
    /\ UNCHANGED <<redis, now, doing, reply, wav, json, uploaded, voice, rivals>>

Ends(p, s, answer) ==
    /\ doing' = [doing EXCEPT ![p] = None]
    /\ reply' = [reply EXCEPT ![s] = answer]

IsOld(t) == now > t + Minutes
Valid(p) == \E t \in Get("verification", p) : ~IsOld(t)

InHand == {s \in Submissions : \E p \in Processes : doing[p].sub = {s}}

\* Those in hand and s meet.
Meets(s) ==
    [t \in Submissions |->
        rivals[t] \cup (IF t = s THEN InHand ELSE IF t \in InHand THEN {s} ELSE {})]

\* POST /v1/voice-donation: the checks of submit_voice_donation().
Submit(p, s) ==
    /\ doing[p] = None /\ reply[s] = "none" /\ asked # Nothing
    /\ \A q \in Processes : doing[q].sub # {s}
    /\ cache' = AfterGet("verification", p)
    /\ IF Valid(p)
       THEN doing' = [doing EXCEPT ![p] = [sub |-> {s}, step |-> "audio"]]
            /\ rivals' = Meets(s) /\ UNCHANGED reply
       ELSE Ends(p, s, "400") /\ UNCHANGED rivals
    /\ UNCHANGED <<redis, now, asked, wav, json, uploaded, voice>>

\* CacheError is no ValueError: the request fails.
SubmitFails(p, s) ==
    /\ redis /\ doing[p] = None /\ reply[s] = "none" /\ asked # Nothing
    /\ \A q \in Processes : doing[q].sub # {s}
    /\ reply' = [reply EXCEPT ![s] = "500"]
    /\ UNCHANGED <<redis, now, cache, asked, doing, wav, json, uploaded, voice, rivals>>

\* write_bytes() truncates the file first; the disk may be full.
WriteAudio(p, s) ==
    /\ doing[p] = [sub |-> {s}, step |-> "audio"]
    /\ \/ wav' = s /\ doing' = [doing EXCEPT ![p].step = "metadata"] /\ UNCHANGED reply
       \/ wav' = "torn" /\ Ends(p, s, "500")
    /\ UNCHANGED <<redis, now, cache, asked, json, uploaded, voice, rivals>>

\* Mutant of WriteMetadata: an error of the disk is ignored.
WriteMetadataIgnored(p, s) ==
    /\ doing[p] = [sub |-> {s}, step |-> "metadata"]
    /\ json' \in {s, "torn"} /\ doing' = [doing EXCEPT ![p].step = "delete"]
    /\ UNCHANGED <<redis, now, cache, asked, reply, wav, uploaded, voice, rivals>>

WriteMetadata(p, s) ==
    /\ doing[p] = [sub |-> {s}, step |-> "metadata"]
    /\ \/ json' = s /\ doing' = [doing EXCEPT ![p].step = "delete"] /\ UNCHANGED reply
       \/ json' = "torn" /\ Ends(p, s, "500")
    /\ UNCHANGED <<redis, now, cache, asked, wav, uploaded, voice, rivals>>

\* Mutant of Spent: the verification is not deleted.
SpentNever(p) == cache
Spent(p) == Delete("verification", p)

Finish(p, s) ==
    /\ doing[p] = [sub |-> {s}, step |-> "delete"]
    /\ \/ cache' = Spent(p) /\ Ends(p, s, "ok")
       \/ redis /\ UNCHANGED cache /\ Ends(p, s, "500")
    /\ UNCHANGED <<redis, now, asked, wav, json, uploaded, voice, rivals>>

-----------------------------------------------------------------------------
(* Voice cloning *)

\* POST /v1/voices, when the voice cloning server has answered.
CloneVoice(p) ==
    /\ doing[p] = None /\ uploaded = Nothing
    /\ uploaded' = {now} /\ cache' = Set("voice", p)
    /\ UNCHANGED <<redis, now, asked, doing, reply, wav, json, voice, rivals>>

\* start_up() of the TTS: the embedding, or a warning and the default voice; with
\* Redis, it may fail.
StartVoice(p) ==
    /\ doing[p] = None /\ uploaded # Nothing
    /\ \/ /\ cache' = AfterGet("voice", p)
          /\ voice' = IF Get("voice", p) # Nothing THEN "custom" ELSE "default"
       \/ redis /\ voice' = "failed" /\ UNCHANGED cache
    /\ UNCHANGED <<redis, now, asked, doing, reply, wav, json, uploaded, rivals>>

-----------------------------------------------------------------------------
Tick ==
    /\ now < Horizon /\ now' = now + 1
    /\ UNCHANGED <<redis, cache, asked, doing, reply, wav, json, uploaded, voice, rivals>>

\* A process dies, whatever it does, and another takes its place.
Restart(p) ==
    /\ cache' = [k \in Kinds |-> [cache[k] EXCEPT ![{p}] = Nothing]]
    /\ doing' = [doing EXCEPT ![p] = None]
    /\ reply' = [s \in Submissions |-> IF doing[p].sub = {s} THEN "lost" ELSE reply[s]]
    /\ wav' \in (IF doing[p].step = "audio" THEN {wav, "torn"} ELSE {wav})
    /\ json' \in (IF doing[p].step = "metadata" THEN {json, "torn"} ELSE {json})
    /\ UNCHANGED <<redis, now, asked, uploaded, voice, rivals>>

Next ==
    \/ Tick
    \/ \E k \in Kinds : RedisExpires(k) \/ \E p \in Processes : Cleanup(k, p)
    \/ \E p \in Processes :
        \/ Generate(p) \/ CloneVoice(p) \/ StartVoice(p) \/ Restart(p)
        \/ \E s \in Submissions :
            Submit(p, s) \/ SubmitFails(p, s) \/ WriteAudio(p, s) \/ WriteMetadata(p, s) \/ Finish(p, s)

Spec == Init /\ [][Next]_vars

-----------------------------------------------------------------------------
(* Properties *)

TypeOK ==
    /\ redis \in BOOLEAN /\ now \in 0..Horizon
    /\ cache \in [Kinds -> [Caches -> SUBSET Nat]]
    /\ asked \in SUBSET Nat /\ uploaded \in SUBSET Nat
    /\ doing \in [Processes -> [sub : SUBSET Submissions, step : {"idle", "audio", "metadata", "delete"}]]
    /\ reply \in [Submissions -> {"none", "ok", "400", "500", "lost"}]
    /\ wav \in Submissions \cup {"none", "torn"} /\ json \in Submissions \cup {"none", "torn"}
    /\ voice \in {"none", "custom", "default", "failed"}
    /\ rivals \in [Submissions -> SUBSET Submissions]

\* A verification is good for one donation: once a submission was answered with
\* success, no process lets another one in, whatever it held when it came.
SpentOnce ==
    [][\A p \in Processes, s \in Submissions :
        reply[s] = "ok" => ~(doing[p].step = "idle" /\ doing'[p].step = "audio")]_vars

\* A donation that was answered with success stays on disk, audio and metadata of
\* the same submission, whatever is sent before or after it, fails or dies; with Redis
\* only if no other submission was handled while it was.
OkIsKept ==
    \A s \in Submissions :
        reply[s] = "ok" /\ (~redis \/ rivals[s] = {}) => wav = s /\ json = s

\* VoiceUpload.tsx says that the embedding is kept for one hour: when the processes share
\* a cache, whichever of them gets the session of the user, and however often they
\* restart, nobody falls back to the default voice before.
SharedAnHour ==
    [][redis /\ voice' = "default" /\ voice # "default" => \E t \in uploaded : now >= t + Hour]_vars
=============================================================================
