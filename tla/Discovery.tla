------------------------------ MODULE Discovery ------------------------------
(***************************************************************************)
(* unmute/service_discovery.py: find_instance() with the resolver it asks  *)
(* through async_ttl_cached, the start_up() of the STT and TTS clients it  *)
(* calls, and the event loop they share with clone_voice()                 *)
(* (unmute/tts/voice_cloning.py), which blocks it.                         *)
(*                                                                         *)
(* One service with several instances; a finder is one call of             *)
(* find_instance(), of a session or of a turn.  Time is in ticks: the TTL  *)
(* of the resolver and the timeout of an attempt are both 0.5 s.  A        *)
(* variable says where each finder is suspended; the instances, the name   *)
(* service and the time go on while the event loop is blocked.             *)
(***************************************************************************)
EXTENDS Naturals, Sequences, FiniteSets, FiniteSetsExt

CONSTANTS
    Finders,        \* the calls of find_instance()
    Instances,      \* the addresses the service can have
    MaxTrials,      \* max_trials
    Timeout,        \* timeout_sec, in ticks
    Ttl,            \* ttl_sec, in ticks
    Horizon         \* bound: the ticks that are looked at

ASSUME DiscoveryAssumption ==
    /\ IsFiniteSet(Finders) /\ IsFiniteSet(Instances)
    /\ MaxTrials \in Nat \ {0} /\ Timeout \in Nat \ {0} /\ Ttl \in Nat \ {0}
    /\ Horizon \in Nat

VARIABLES
    now,        \* the time
    alive,      \* the instances the name service knows of
    cache,      \* of _resolve: nothing, or the addresses with their time; seen is
                \* the time at which the name service gave them
    line,       \* the lock of the cache: who holds it, then who waits for it
    find,       \* where each finder is
    link,       \* the websocket of a finder to the instance it tries
    blocked     \* clone_voice() waits for its server, on the event loop

vars == <<now, alive, cache, line, find, link, blocked>>

Ends == {"found", "failed", "cancelled", "unreachable"}
Links == {"none", "open", "ready", "refused", "closing"}
NoEntry == [time |-> 0, ips |-> {}, seen |-> 0]
Idle == [at |-> "idle", todo |-> {}, left |-> 0, on |-> {}, by |-> 0,
         asked |-> 0, seen |-> 0, stale |-> FALSE, exc |-> "none"]

Init ==
    /\ now = 0 /\ alive \in (SUBSET Instances) \ {{}}
    /\ cache = NoEntry /\ line = <<>>
    /\ find = [f \in Finders |-> Idle]
    /\ link = [f \in Finders |-> "none"]
    /\ blocked = FALSE

-----------------------------------------------------------------------------
(* The world outside *)

Tick == now < Horizon /\ now' = now + 1 /\ UNCHANGED <<alive, cache, line, find, link, blocked>>

Rescale ==
    /\ alive' \in (SUBSET Instances) \ {{}, alive}
    /\ UNCHANGED <<now, cache, line, find, link, blocked>>

\* post_voices: clone_voice() calls requests.post() without a timeout.
CloneStarts ==
    /\ ~blocked /\ blocked' = TRUE
    /\ UNCHANGED <<now, alive, cache, line, find, link>>
CloneEnds ==
    /\ blocked /\ blocked' = FALSE
    /\ UNCHANGED <<now, alive, cache, line, find, link>>

SetLink(f, to) == link' = [link EXCEPT ![f] = to]

\* An instance serves the clients of every backend process: it may have a place or not.
Answers(f) ==
    /\ link[f] = "open"
    /\ \E answer \in {"ready", "refused"} : SetLink(f, answer)
    /\ UNCHANGED <<now, alive, cache, line, find, blocked>>

ServerCloses(f) ==
    /\ link[f] # "none"
    /\ SetLink(f, "none")
    /\ UNCHANGED <<now, alive, cache, line, find, blocked>>

-----------------------------------------------------------------------------
(* The trials of find_instance *)

End(f, how, exc) == find' = [find EXCEPT ![f] = [Idle EXCEPT !.at = how, !.exc = exc]]

\* The shuffled list is an order in which the instances that are left are tried.
Try(f, to) ==
    IF to.todo = {} THEN End(f, "unreachable", "none")
    ELSE \E i \in to.todo :
            find' = [find EXCEPT ![f] = [to EXCEPT !.at = "connecting", !.todo = @ \ {i},
                                                   !.on = {i}, !.by = now + Timeout]]

Trials(ips) == Min({Cardinality(ips), MaxTrials})

\* get_instances() has returned.
Begin(f, ips, asked, seen) ==
    Try(f, [find[f] EXCEPT !.todo = ips, !.left = Trials(ips), !.asked = 0, !.seen = 0, !.stale = seen + Ttl <= asked])

\* Mutant of Attempts: the trial that has failed is not counted yet.
AttemptsBefore(f) == find[f].left
Attempts(f) == find[f].left - 1

\* The except branch: the next instance, or the exception that the caller gets.
Fails(f, exc) ==
    IF Attempts(f) > 0 THEN Try(f, [find[f] EXCEPT !.left = Attempts(f), !.on = {}])
    ELSE End(f, "failed", exc)

-----------------------------------------------------------------------------
(* async_ttl_cached around _resolve *)

At(f, place) == ~blocked /\ find[f].at = place
Goes(f, to) == find' = [find EXCEPT ![f].at = to]

Call(f) ==
    /\ At(f, "idle")
    /\ line' = Append(line, f) /\ Goes(f, "lock")
    /\ UNCHANGED <<now, alive, cache, link, blocked>>

HasLock(f) == line # <<>> /\ Head(line) = f
IsFresh == cache.ips # {} /\ now - cache.time < Ttl

Hit(f) ==
    /\ At(f, "lock") /\ HasLock(f) /\ IsFresh
    /\ line' = Tail(line) /\ Begin(f, cache.ips, now, cache.seen)
    /\ UNCHANGED <<now, alive, cache, link, blocked>>

Miss(f) ==
    /\ At(f, "lock") /\ HasLock(f) /\ ~IsFresh
    /\ find' = [find EXCEPT ![f].at = "resolving", ![f].asked = now]
    /\ UNCHANGED <<now, alive, cache, line, link, blocked>>

\* gethostbyname_ex, in a thread.
Resolved(f) ==
    /\ find[f].at = "resolving"
    /\ find' = [find EXCEPT ![f].at = "resolved", ![f].todo = alive, ![f].seen = now]
    /\ UNCHANGED <<now, alive, cache, line, link, blocked>>

ResolveFails(f) ==
    /\ At(f, "resolving")
    /\ line' = Tail(line)
    /\ End(f, "failed", "internal")
    /\ UNCHANGED <<now, alive, cache, link, blocked>>

\* Mutant of Entry: the time at which the value is stored.
EntryNow(f) == [time |-> now, ips |-> find[f].todo, seen |-> find[f].seen]
\* The entry has the time before the value was computed.
Entry(f) == [time |-> find[f].asked, ips |-> find[f].todo, seen |-> find[f].seen]

Store(f) ==
    /\ At(f, "resolved")
    /\ cache' = Entry(f) /\ line' = Tail(line)
    /\ Begin(f, find[f].todo, find[f].asked, find[f].seen)
    /\ UNCHANGED <<now, alive, link, blocked>>

-----------------------------------------------------------------------------
(* One attempt: start_up() of a client, under asyncio.timeout *)

Connect(f) ==
    /\ At(f, "connecting") /\ find[f].on \subseteq alive
    /\ SetLink(f, "open") /\ Goes(f, "waiting")
    /\ UNCHANGED <<now, alive, cache, line, blocked>>

ConnectFails(f) ==
    /\ At(f, "connecting") /\ Fails(f, "internal")
    /\ UNCHANGED <<now, alive, cache, line, link, blocked>>

\* The client is the caller's from here on.
Ready(f) ==
    /\ At(f, "waiting") /\ link[f] = "ready"
    /\ SetLink(f, "none") /\ End(f, "found", "none")
    /\ UNCHANGED <<now, alive, cache, line, blocked>>

\* MissingServiceAtCapacity; `except Exception` closes the websocket.
Rejected(f) ==
    /\ At(f, "waiting") /\ link[f] = "refused"
    /\ SetLink(f, "closing") /\ Goes(f, "closing")
    /\ UNCHANGED <<now, alive, cache, line, blocked>>

Rejects(f) ==
    /\ At(f, "closing") /\ link[f] = "none"
    /\ Fails(f, "capacity")
    /\ UNCHANGED <<now, alive, cache, line, link, blocked>>

\* recv() raises, and closing a websocket that is closed returns at once.
Breaks(f) ==
    /\ At(f, "waiting") /\ link[f] = "none"
    /\ Fails(f, "internal")
    /\ UNCHANGED <<now, alive, cache, line, link, blocked>>

\* CancelledError is no Exception: start_up leaves the websocket behind as it is.
CutOff(f) == SetLink(f, "none")

\* Mutant of MayTimeOut: closing the websocket is not under the timeout.
MayTimeOutOpening == {"connecting", "waiting"}
MayTimeOut == {"connecting", "waiting", "closing"}

\* A ready message that has come in does not help, when the timeout is due before
\* start_up resumes.  The last tick stands for any later time.
TimedOut(f) ==
    /\ ~blocked /\ find[f].at \in MayTimeOut /\ now >= Min({find[f].by, Horizon})
    /\ CutOff(f) /\ Fails(f, "timeout")
    /\ UNCHANGED <<now, alive, cache, line, blocked>>

\* The session, or the quest of the turn, is cancelled.
Cancel(f) ==
    /\ ~blocked /\ find[f].at \notin Ends \cup {"idle"}
    /\ CutOff(f) /\ End(f, "cancelled", "none")
    /\ line' = SelectSeq(line, LAMBDA g : g # f)
    /\ UNCHANGED <<now, alive, cache, blocked>>

-----------------------------------------------------------------------------
Proceeds(f) ==
    \/ Hit(f) \/ Miss(f) \/ Resolved(f) \/ ResolveFails(f) \/ Store(f)
    \/ ConnectFails(f) \/ TimedOut(f)
    \/ Ready(f) \/ Rejected(f) \/ Rejects(f) \/ Breaks(f)

Next ==
    \/ Tick \/ Rescale \/ CloneStarts \/ CloneEnds
    \/ \E f \in Finders :
        Call(f) \/ Connect(f) \/ Answers(f) \/ ServerCloses(f) \/ Proceeds(f) \/ Cancel(f)

Spec == Init /\ [][Next]_vars

\* The event loop runs what is ready, a thread ends and time passes.  Nothing is
\* assumed of the instances or of the voice cloning server.
FairSpec == Spec /\ WF_vars(Tick) /\ \A f \in Finders : SF_vars(Proceeds(f))

-----------------------------------------------------------------------------
(* Properties *)

TypeOK ==
    /\ now \in 0..Horizon /\ alive \in SUBSET Instances /\ blocked \in BOOLEAN
    /\ cache \in [time : Nat, ips : SUBSET Instances, seen : Nat]
    /\ line \in Seq(Finders)
    /\ find \in [Finders ->
            [at : {"idle", "lock", "resolving", "resolved", "connecting", "waiting", "closing"} \cup Ends,
             todo : SUBSET Instances, left : Nat, on : SUBSET Instances, by : Nat, asked : Nat,
             seen : Nat, stale : BOOLEAN, exc : {"none", "internal", "capacity", "timeout"}]]
    /\ link \in [Finders -> Links]

\* async_ttl_cached: addresses are used only if the name service gave them less
\* than a TTL before they were asked for, however long it took to give them.
FreshInstances ==
    \A f \in Finders : ~find[f].stale

\* find_instance ends with "Should not be reached.": the trials never run past the
\* list, whatever the instances answer.
AlwaysDecides == \A f \in Finders : find[f].at # "unreachable"

\* Every call of find_instance() comes to an end, however slow the instances are,
\* unless the event loop stays blocked.
FindEnds ==
    []<>(~blocked) => \A f \in Finders : find[f].at # "idle" ~> find[f].at \in Ends
=============================================================================
