---------------------------- MODULE QuestManager ----------------------------
(***************************************************************************)
(* unmute/quest_manager.py: the manager that owns the asynchronous units   *)
(* of work of a session (the connections to the STT, the LLM and the TTS). *)
(*                                                                         *)
(* asyncio runs one task at a time and switches only where a coroutine     *)
(* really suspends, so an action is the code between two suspensions.  A   *)
(* caller of the manager suspends in the close step of a quest and in      *)
(* Quest.get(); a quest suspends in its init and run steps; the exit of    *)
(* the manager suspends in every close step it awaits.                     *)
(***************************************************************************)
EXTENDS Naturals, Sequences, FiniteSets

CONSTANTS
    Names,       \* the keys of QuestManager.quests
    Quests,      \* the Quest objects made during a session
    Tasks,       \* the session's own tasks, which end before __aexit__ starts
    NoQuest,     \* no entry, or no quest of interest to a caller
    NameOf,      \* [Quests -> Names]: Quest.name
    HasClose,    \* the names whose quests have a close step
    MadeBy,      \* [Quests -> Procs]: who makes a quest, adds it and awaits it
    RemovedBy    \* [Names -> SUBSET (Tasks \cup Names)]: who calls remove

Procs == Tasks \cup Quests

\* A caller is one of the session's tasks, or any quest of a name.
Calls(p, who) == p \in who \/ (p \in Quests /\ NameOf[p] \in who)

ASSUME QuestsAssumption ==
    /\ NoQuest \notin Quests \cup Names
    /\ IsFiniteSet(Names)
    /\ Tasks \cap Quests = {}
    /\ NameOf \in [Quests -> Names]
    /\ HasClose \subseteq Names

ASSUME CallersAssumption ==
    /\ RemovedBy \in [Names -> SUBSET (Tasks \cup Names)]
    /\ \A n \in Names : n \notin RemovedBy[n]

\* The quests of a name are all made by one task of the session, or each by a
\* quest of its own, as the "tts" of a turn by the "llm" of the turn: a maker has
\* no close step, makes one quest, removes none and is itself made by a task.
ASSUME MakersAssumption ==
    /\ MadeBy \in [Quests -> Procs]
    /\ \A q1, q2 \in Quests : NameOf[q1] = NameOf[q2] =>
         \/ MadeBy[q1] \in Tasks /\ MadeBy[q1] = MadeBy[q2]
         \/ MadeBy[q1] \in Quests /\ MadeBy[q2] \in Quests
            /\ NameOf[MadeBy[q1]] = NameOf[MadeBy[q2]]
    /\ \A q \in Quests : MadeBy[q] \in Quests =>
         /\ MadeBy[MadeBy[q]] \in Tasks
         /\ NameOf[MadeBy[q]] \notin HasClose
         /\ \A n \in Names : ~Calls(MadeBy[q], RemovedBy[n])
         /\ \A o \in Quests : MadeBy[o] = MadeBy[q] => o = q

VARIABLES
    registry,    \* QuestManager.quests, a map from names
    entries,     \* the same dict in insertion order, a removed key leaving a hole
    phase,       \* where the task of a quest (or a session task) is
    outcome,     \* how the task of a quest ended
    reported,    \* the quests whose done callback has run
    data,        \* Quest._data, the future of the init step's result
    closer,      \* Quest.close is not None
    resource,    \* what the init step acquired and the close step releases
    pc,          \* what a caller is suspended in
    target,      \* ... on which quest
    adding,      \* the quest an add() in progress will register
    cancelReq,   \* task.cancel() was called and is not delivered yet
    cancelling,  \* Task.cancelling() > 0: task.cancel() was called at some time
    ahead,       \* the cancellations that reach their task before a quest's first step
    exit,        \* __aexit__: where it is and its dict iterator
    future       \* QuestManager._future, what wait() awaits

\* __aexit__ suspended at a point, its iterator before entry pos with left keys
\* to come of the size it started with, and the quest it is closing.
Exit(at, pos, left, size, q) ==
    [at |-> at, pos |-> pos, left |-> left, size |-> size, quest |-> q]

vars == <<registry, entries, phase, outcome, reported, data, closer, resource,
          pc, target, adding, cancelReq, cancelling, ahead, exit, future>>

Hole == NoQuest
Registered == {n \in Names : registry[n] # NoQuest}

TypeOK ==
    /\ registry \in [Names -> Quests \cup {NoQuest}]
    /\ entries \in Seq(Names \cup {Hole})
    /\ phase \in [Procs -> {"unborn", "made", "created", "init", "run", "done"}]
    /\ outcome \in [Quests -> {"none", "ok", "raised", "cancelled"}]
    /\ reported \in SUBSET Quests
    /\ data \in [Quests -> {"pending", "ready", "failed", "cancelled"}]
    /\ closer \in [Quests -> BOOLEAN]
    /\ resource \in [Quests -> {"none", "open", "closed", "abandoned"}]
    /\ pc \in [Procs -> {"idle", "add", "remove", "get"}]
    /\ target \in [Procs -> Quests \cup {NoQuest}]
    /\ adding \in [Procs -> Quests \cup {NoQuest}]
    /\ cancelReq \in [Procs -> BOOLEAN]
    /\ cancelling \in [Procs -> BOOLEAN]
    /\ ahead \in [Quests -> SUBSET Procs]
    /\ exit \in [at : {"no", "walk", "closing", "left", "raised"},
                 pos : Nat, left : Nat, size : Nat, quest : Quests \cup {NoQuest}]
    /\ future \in {"pending", "exception", "result"}

Init ==
    /\ registry = [n \in Names |-> NoQuest]
    /\ entries = <<>>
    /\ phase = [p \in Procs |-> IF p \in Tasks THEN "run" ELSE "unborn"]
    /\ outcome = [q \in Quests |-> "none"]
    /\ reported = {}
    /\ data = [q \in Quests |-> "pending"]
    /\ closer = [q \in Quests |-> NameOf[q] \in HasClose]
    /\ resource = [q \in Quests |-> "none"]
    /\ pc = [p \in Procs |-> "idle"]
    /\ target = [p \in Procs |-> NoQuest]
    /\ adding = [p \in Procs |-> NoQuest]
    /\ cancelReq = [p \in Procs |-> FALSE]
    /\ cancelling = [p \in Procs |-> FALSE]
    /\ ahead = [q \in Quests |-> {}]
    /\ exit = Exit("no", 1, 0, 0, NoQuest)
    /\ future = "pending"

-----------------------------------------------------------------------------
(* Helpers: what cancelling, registering and closing do to the state. *)

Live(p) == phase[p] \in {"created", "init", "run"}

\* A quest that runs and that nobody has ever asked to stop.
Uncancelled(q) == Live(q) /\ ~cancelling[q]

Closing(p, q) == pc[p] \in {"add", "remove"} /\ target[p] = q

\* Somebody is suspended in the close step of q.
BeingClosed(q) ==
    \/ \E p \in Procs : Closing(p, q)
    \/ exit.at = "closing" /\ exit.quest = q

\* Quest.remove awaits the close step only if there is one and the init
\* step has succeeded; otherwise it goes straight to task.cancel().
NeedsClose(q) == closer[q] /\ data[q] = "ready"

\* A task that is cancelled while it awaits the bare future of another quest
\* cancels that future with it.
DataAfterCancel(q) ==
    [x \in Quests |-> IF Live(q) /\ pc[q] = "get" /\ target[q] = x /\ data[x] = "pending"
                      THEN "cancelled" ELSE data[x]]

\* task.cancel() on the task of q: nothing on a finished task.
AskCancel(q) ==
    /\ cancelReq' = [cancelReq EXCEPT ![q] = @ \/ Live(q)]
    /\ cancelling' = [cancelling EXCEPT ![q] = @ \/ Live(q)]
    /\ data' = DataAfterCancel(q)

\* self.quests[name] = quest; a new key goes last, an old one keeps its place.
Register(q) ==
    /\ registry' = [registry EXCEPT ![NameOf[q]] = q]
    /\ entries' = IF registry[NameOf[q]] = NoQuest THEN Append(entries, NameOf[q])
                                                   ELSE entries

\* self.quests.pop(name)
Unregister(n) ==
    /\ registry' = [registry EXCEPT ![n] = NoQuest]
    /\ entries' = [i \in DOMAIN entries |-> IF entries[i] = n THEN Hole ELSE entries[i]]

\* The callers a close step of theirs was cancelled under, given the flags of
\* task.cancel(): the loop is about to wake them.
Woken(flags) == {p \in Procs : flags[p] /\ pc[p] \in {"add", "remove"}}

\* asyncio.create_task(): the loop's queue is first in, first out, so the first
\* step of the quest comes behind the callers it is about to wake.
Starts(q, first) ==
    /\ phase' = [phase EXCEPT ![q] = "created"]
    /\ ahead' = [ahead EXCEPT ![q] = first]

Ends(p, how) ==
    /\ phase' = [phase EXCEPT ![p] = "done"]
    /\ outcome' = [q \in Quests |-> IF q = p THEN how ELSE outcome[q]]

MayCall(p) ==
    /\ phase[p] = "run"
    /\ pc[p] = "idle"
    /\ ~cancelReq[p]

Back(p) ==
    /\ pc' = [pc EXCEPT ![p] = "idle"]
    /\ target' = [target EXCEPT ![p] = NoQuest]
    /\ adding' = [adding EXCEPT ![p] = NoQuest]

-----------------------------------------------------------------------------
(* QuestManager.add *)

\* No quest of that name: register the new one and start its task.
AddFirst(p, q) ==
    /\ MayCall(p) /\ p = MadeBy[q]
    /\ phase[q] = "unborn" /\ registry[NameOf[q]] = NoQuest
    /\ Register(q)
    /\ Starts(q, Woken(cancelReq))
    /\ UNCHANGED <<outcome, reported, data, closer, resource, pc, target, adding,
                   cancelReq, cancelling, exit, future>>

\* Mutant of AddReplacing: takes the place of the previous quest, which goes on.
AddOverwriting(p, q) ==
    /\ MayCall(p) /\ p = MadeBy[q]
    /\ phase[q] = "unborn"
    /\ registry[NameOf[q]] # NoQuest /\ ~NeedsClose(registry[NameOf[q]])
    /\ Register(q)
    /\ Starts(q, Woken(cancelReq))
    /\ UNCHANGED <<outcome, reported, data, closer, resource, pc, target, adding,
                   cancelReq, cancelling, exit, future>>

\* The previous quest needs no close step: cancel it and take its place.
AddReplacing(p, q) ==
    LET old == registry[NameOf[q]] IN
    /\ MayCall(p) /\ p = MadeBy[q]
    /\ phase[q] = "unborn" /\ old # NoQuest /\ ~NeedsClose(old)
    /\ AskCancel(old)
    /\ closer' = [closer EXCEPT ![old] = FALSE]
    /\ Register(q)
    /\ Starts(q, Woken(cancelReq'))
    /\ UNCHANGED <<outcome, reported, resource, pc, target, adding, exit, future>>

\* The previous quest has something to release: wait for its close step.
AddClosing(p, q) ==
    LET old == registry[NameOf[q]] IN
    /\ MayCall(p) /\ p = MadeBy[q]
    /\ phase[q] = "unborn" /\ old # NoQuest /\ NeedsClose(old)
    /\ pc' = [pc EXCEPT ![p] = "add"]
    /\ target' = [target EXCEPT ![p] = old]
    /\ adding' = [adding EXCEPT ![p] = q]
    /\ phase' = [phase EXCEPT ![q] = "made"]
    /\ UNCHANGED <<registry, entries, outcome, reported, data, closer, resource,
                   cancelReq, cancelling, ahead, exit, future>>

(* QuestManager.remove *)

\* Mutant of RemoveCancelling: cancels a quest without awaiting its close step.
RemoveAtOnce(p, n) ==
    /\ MayCall(p) /\ Calls(p, RemovedBy[n]) /\ registry[n] # NoQuest
    /\ Unregister(n)
    /\ AskCancel(registry[n])
    /\ UNCHANGED <<phase, outcome, reported, closer, resource, pc, target, adding, exit,
                   ahead, future>>

RemoveCancelling(p, n) ==
    LET old == registry[n] IN
    /\ MayCall(p) /\ Calls(p, RemovedBy[n])
    /\ old # NoQuest /\ ~NeedsClose(old)
    /\ Unregister(n)
    /\ AskCancel(old)
    /\ closer' = [closer EXCEPT ![old] = FALSE]
    /\ UNCHANGED <<phase, outcome, reported, resource, pc, target, adding, ahead,
                   exit, future>>

RemoveClosing(p, n) ==
    LET old == registry[n] IN
    /\ MayCall(p) /\ Calls(p, RemovedBy[n])
    /\ old # NoQuest /\ NeedsClose(old)
    /\ Unregister(n)
    /\ pc' = [pc EXCEPT ![p] = "remove"]
    /\ target' = [target EXCEPT ![p] = old]
    /\ UNCHANGED <<phase, outcome, reported, data, closer, resource, adding,
                   cancelReq, cancelling, ahead, exit, future>>

-----------------------------------------------------------------------------
(* The rest of Quest.remove, and of the add() or remove() that awaits it. *)

\* What an add() does once the previous quest is out of the way; a caller that
\* runs again is ahead of no quest.
Resume(p) ==
    /\ IF pc[p] = "add"
       THEN Register(adding[p]) /\ phase' = [phase EXCEPT ![adding[p]] = "created"]
       ELSE UNCHANGED <<registry, entries, phase>>
    /\ ahead' = [q \in Quests |-> (IF pc[p] = "add" /\ q = adding[p]
                                   THEN Woken(cancelReq') ELSE ahead[q]) \ {p}]

\* The close step returns: self.close = None, then task.cancel().
CloseReturns(p) ==
    /\ pc[p] \in {"add", "remove"} /\ ~cancelReq[p]
    /\ resource' = [resource EXCEPT ![target[p]] = "closed"]
    /\ closer' = [closer EXCEPT ![target[p]] = FALSE]
    /\ AskCancel(target[p])
    /\ Resume(p)
    /\ Back(p)
    /\ UNCHANGED <<outcome, reported, exit, future>>

Abandon(q) ==
    resource' = [resource EXCEPT ![q] = IF @ = "open" THEN "abandoned" ELSE @]

\* The caller was cancelled while it awaited the close step: `except
\* CancelledError: pass` swallows the cancellation, and the caller goes on.
CloseSwallowsCancel(p) ==
    /\ pc[p] \in {"add", "remove"} /\ cancelReq[p]
    /\ Abandon(target[p])
    /\ closer' = [closer EXCEPT ![target[p]] = FALSE]
    /\ cancelReq' = [cancelReq EXCEPT ![p] = FALSE, ![target[p]] = @ \/ Live(target[p])]
    /\ cancelling' = [cancelling EXCEPT ![target[p]] = @ \/ Live(target[p])]
    /\ data' = DataAfterCancel(target[p])
    /\ Resume(p)
    /\ Back(p)
    /\ UNCHANGED <<outcome, reported, exit, future>>

\* The close step raises: the task is cancelled all the same, and the
\* exception ends the caller before it registers anything.
CloseRaises(p) ==
    /\ pc[p] \in {"add", "remove"} /\ ~cancelReq[p]
    /\ Abandon(target[p])
    /\ AskCancel(target[p])
    /\ Ends(p, "raised")
    /\ Back(p)
    /\ UNCHANGED <<registry, entries, reported, closer, ahead, exit, future>>

-----------------------------------------------------------------------------
(* Quest.get: a caller awaits the result of the init step of a quest. *)

GetWaits(p, q) ==
    /\ MayCall(p) /\ p = MadeBy[q]
    /\ phase[q] \in {"created", "init"} /\ registry[NameOf[q]] = q
    /\ pc' = [pc EXCEPT ![p] = "get"]
    /\ target' = [target EXCEPT ![p] = q]
    /\ UNCHANGED <<registry, entries, phase, outcome, reported, data, closer,
                   resource, adding, cancelReq, cancelling, ahead, exit, future>>

End(p, how) ==
    /\ Ends(p, how)
    /\ cancelReq' = [cancelReq EXCEPT ![p] = FALSE]
    /\ Back(p)

GetReturns(p) ==
    /\ pc[p] = "get" /\ ~cancelReq[p] /\ data[target[p]] = "ready"
    /\ Back(p)
    /\ UNCHANGED <<registry, entries, phase, outcome, reported, data, closer,
                   resource, cancelReq, cancelling, ahead, exit, future>>

\* The init step failed, or its future was cancelled by another waiter.
GetRaises(p) ==
    /\ pc[p] = "get" /\ ~cancelReq[p] /\ data[target[p]] \in {"failed", "cancelled"}
    /\ End(p, IF data[target[p]] = "failed" THEN "raised" ELSE "cancelled")
    /\ UNCHANGED <<registry, entries, reported, data, closer, resource, cancelling,
                   ahead, exit, future>>

-----------------------------------------------------------------------------
(* Quest._run, the body of a quest's task. *)

InitStarts(q) ==
    /\ phase[q] = "created" /\ ~cancelReq[q] /\ ahead[q] = {}
    /\ phase' = [phase EXCEPT ![q] = "init"]
    /\ UNCHANGED <<registry, entries, outcome, reported, data, closer, resource,
                   pc, target, adding, cancelReq, cancelling, ahead, exit, future>>

InitReturns(q) ==
    /\ phase[q] = "init" /\ ~cancelReq[q] /\ data[q] = "pending"
    /\ phase' = [phase EXCEPT ![q] = "run"]
    /\ data' = [data EXCEPT ![q] = "ready"]
    /\ resource' = [resource EXCEPT ![q] = IF NameOf[q] \in HasClose THEN "open" ELSE @]
    /\ UNCHANGED <<registry, entries, outcome, reported, closer, pc, target, adding,
                   cancelReq, cancelling, ahead, exit, future>>

\* A waiter that was cancelled in get() took the future with it: set_result
\* (or set_exception) raises InvalidStateError and the run step never starts.
InitReturnsTooLate(q) ==
    /\ phase[q] = "init" /\ ~cancelReq[q] /\ data[q] = "cancelled"
    /\ \/ resource' = [resource EXCEPT ![q] = IF NameOf[q] \in HasClose THEN "open" ELSE @]
       \/ UNCHANGED resource
    /\ End(q, "raised")
    /\ UNCHANGED <<registry, entries, reported, data, closer, cancelling, ahead,
                   exit, future>>

InitRaises(q) ==
    /\ phase[q] = "init" /\ ~cancelReq[q] /\ data[q] = "pending"
    /\ data' = [data EXCEPT ![q] = "failed"]
    /\ End(q, "raised")
    /\ UNCHANGED <<registry, entries, reported, closer, resource, cancelling, ahead,
                   exit, future>>

\* The run step of a quest, or a session task, comes to its end.
RunEnds(p) ==
    /\ MayCall(p)
    /\ \E how \in {"ok", "raised"} : End(p, how)
    /\ UNCHANGED <<registry, entries, reported, data, closer, resource, cancelling,
                   ahead, exit, future>>

\* CancelledError reaches a coroutine that does not catch it; a task that was
\* cancelled before its first step never takes one.
CancelDelivered(p) ==
    /\ Live(p) /\ cancelReq[p] /\ pc[p] \in {"idle", "get"}
    /\ End(p, "cancelled")
    /\ UNCHANGED <<registry, entries, reported, data, closer, resource, cancelling,
                   ahead, exit, future>>

\* Mutant of OneIsDone: reports the failures of the quests still registered.
OneRegisteredIsDone(q) ==
    /\ phase[q] = "done" /\ q \notin reported
    /\ reported' = reported \cup {q}
    /\ future' = IF outcome[q] = "raised" /\ future = "pending" /\ registry[NameOf[q]] = q
                 THEN "exception" ELSE future
    /\ UNCHANGED <<registry, entries, phase, outcome, data, closer, resource, pc, target,
                   adding, cancelReq, cancelling, ahead, exit>>

\* QuestManager._one_is_done, called by the loop once a quest's task is done.
OneIsDone(q) ==
    /\ phase[q] = "done" /\ q \notin reported
    /\ reported' = reported \cup {q}
    /\ future' = IF outcome[q] = "raised" /\ future = "pending" THEN "exception" ELSE future
    /\ UNCHANGED <<registry, entries, phase, outcome, data, closer, resource, pc,
                   target, adding, cancelReq, cancelling, ahead, exit>>

-----------------------------------------------------------------------------
(* The end of a session: its task group cancels the session's tasks, and
   once they are done QuestManager.__aexit__ removes every quest. *)

\* The task group of the session aborts, cancelling each of its tasks once; wait()
\* failing is one reason to.
SessionAborts(t) ==
    /\ t \in Tasks /\ phase[t] = "run" /\ ~cancelling[t]
    /\ AskCancel(t)
    /\ UNCHANGED <<registry, entries, phase, outcome, reported, closer, resource,
                   pc, target, adding, ahead, exit, future>>

ExitStarts ==
    /\ exit.at = "no" /\ \A t \in Tasks : phase[t] = "done"
    /\ exit' = Exit("walk", 1, Cardinality(Registered), Cardinality(Registered), NoQuest)
    /\ UNCHANGED <<registry, entries, phase, outcome, reported, data, closer,
                   resource, pc, target, adding, cancelReq, cancelling, ahead, future>>

Changed == exit.size # Cardinality(Registered)
ToVisit == {i \in exit.pos..Len(entries) : entries[i] # Hole}

\* The iterator moves to entry i, the first one at or after its position.
Visits(i) ==
    /\ exit.at = "walk" /\ ~Changed /\ exit.left > 0
    /\ i \in ToVisit /\ \A j \in ToVisit : i <= j

Visited(i, at, q) == Exit(at, i + 1, exit.left - 1, exit.size, q)
ExitGoes(at) == Exit(at, exit.pos, exit.left, exit.size, NoQuest)

\* next() on the dict iterator: RuntimeError if the dict changed size, or if
\* there is an entry more than there was.  It leaves __aexit__ at once.
ExitIteratorRaises ==
    /\ exit.at = "walk"
    /\ Changed \/ (ToVisit # {} /\ exit.left = 0)
    /\ exit' = ExitGoes("raised")
    /\ UNCHANGED <<registry, entries, phase, outcome, reported, data, closer,
                   resource, pc, target, adding, cancelReq, cancelling, ahead, future>>

\* Mutant of ExitCancels: cancels whatever it visits.
ExitOnlyCancels(i) ==
    /\ Visits(i)
    /\ AskCancel(registry[entries[i]])
    /\ exit' = Visited(i, "walk", NoQuest)
    /\ UNCHANGED <<registry, entries, phase, outcome, reported, closer, resource, pc,
                   target, adding, ahead, future>>

ExitCancels(i) ==
    LET q == registry[entries[i]] IN
    /\ Visits(i) /\ ~NeedsClose(q)
    /\ AskCancel(q)
    /\ closer' = [closer EXCEPT ![q] = FALSE]
    /\ exit' = Visited(i, "walk", NoQuest)
    /\ UNCHANGED <<registry, entries, phase, outcome, reported, resource, pc, target,
                   adding, ahead, future>>

ExitCloses(i) ==
    LET q == registry[entries[i]] IN
    /\ Visits(i) /\ NeedsClose(q)
    /\ exit' = Visited(i, "closing", q)
    /\ UNCHANGED <<registry, entries, phase, outcome, reported, data, closer,
                   resource, pc, target, adding, cancelReq, cancelling, ahead, future>>

\* An exception of the close step is logged and the loop goes on.
ExitCloseEnds ==
    /\ exit.at = "closing"
    /\ AskCancel(exit.quest)
    /\ \/ /\ resource' = [resource EXCEPT ![exit.quest] = "closed"]
          /\ closer' = [closer EXCEPT ![exit.quest] = FALSE]
       \/ Abandon(exit.quest) /\ UNCHANGED closer
    /\ exit' = ExitGoes("walk")
    /\ UNCHANGED <<registry, entries, phase, outcome, reported, pc, target, adding,
                   future, ahead>>

\* The loop is over: self.quests.clear(), then the future gets its result.
ExitClears ==
    /\ exit.at = "walk" /\ ~Changed /\ ToVisit = {}
    /\ registry' = [n \in Names |-> NoQuest]
    /\ entries' = <<>>
    /\ future' = IF future = "pending" THEN "result" ELSE future
    /\ exit' = ExitGoes("left")
    /\ UNCHANGED <<phase, outcome, reported, data, closer, resource, pc, target,
                   adding, cancelReq, cancelling, ahead>>

-----------------------------------------------------------------------------

CallerStep(p) ==
    \/ \E q \in Quests : AddFirst(p, q) \/ AddReplacing(p, q) \/ AddClosing(p, q)
                         \/ GetWaits(p, q)
    \/ \E n \in Names : RemoveCancelling(p, n) \/ RemoveClosing(p, n)
    \/ RunEnds(p)

\* The steps the event loop owes: a future that is done, a pending
\* cancellation, a close or init step that comes to its end.
WakeUp(p) ==
    \/ CloseReturns(p) \/ CloseSwallowsCancel(p) \/ CloseRaises(p)
    \/ GetReturns(p) \/ GetRaises(p) \/ CancelDelivered(p)

QuestStep(q) ==
    \/ InitStarts(q) \/ InitReturns(q) \/ InitReturnsTooLate(q) \/ InitRaises(q)
    \/ OneIsDone(q)

ExitWalks ==
    \/ ExitIteratorRaises \/ ExitClears
    \/ \E i \in 1..Len(entries) : ExitCancels(i) \/ ExitCloses(i)

\* Between two suspensions __aexit__ runs alone, the others while it awaits.
Next ==
    \/ ExitStarts
    \/ ExitWalks
    \/ ExitCloseEnds
    \/ /\ exit.at # "walk"
       /\ \/ \E p \in Procs : CallerStep(p) \/ WakeUp(p)
          \/ \E q \in Quests : QuestStep(q)
          \/ \E t \in Tasks : SessionAborts(t)

Fairness ==
    /\ \A p \in Procs : WF_vars(exit.at # "walk" /\ WakeUp(p))
    /\ \A q \in Quests : WF_vars(exit.at # "walk" /\ QuestStep(q))
    /\ WF_vars(ExitWalks)
    /\ WF_vars(ExitCloseEnds)

Spec == Init /\ [][Next]_vars /\ Fairness

-----------------------------------------------------------------------------
(* Properties *)

\* Adding a quest under a name cancels the previous one: while the session
\* lasts, a running quest that nobody cancelled is the one its name refers to,
\* or somebody is suspended in its close step and will cancel it next.
NoOrphan ==
    exit.at = "no" =>
        \A q \in Quests : Uncancelled(q) => registry[NameOf[q]] = q \/ BeingClosed(q)

\* What an init step acquired stays within reach of a close step: it belongs to
\* a registered quest or is being released, unless the future of the init step
\* was cancelled under the quest by a waiter.
NoLeak ==
    exit.at = "no" =>
        \A q \in Quests : resource[q] = "open" =>
            data[q] = "cancelled" \/ registry[NameOf[q]] = q \/ BeingClosed(q)

\* __aexit__ is the guarantee on when the close steps are run: once it is over,
\* whatever an init step delivered has been through its close step.
AllClosed == \A q \in Quests : resource[q] = "open" => data[q] = "cancelled"
ExitClosesAll == exit.at \in {"left", "raised"} => AllClosed

\* A name whose quests only the session's own tasks add and remove, as the STT's.
Owned(n) ==
    /\ \A q \in Quests : NameOf[q] = n => MadeBy[q] \in Tasks
    /\ \A p \in Procs : Calls(p, RemovedBy[n]) => p \in Tasks

\* An exit that comes to its end without "dictionary changed size during iteration"
\* has closed every quest that only the session's own tasks add and remove, whatever
\* the quests did to each other while it awaited.  (One that a quest replaces leaves
\* the size as it is, and the iteration goes on past it; one that a quest was closing
\* may still be open.)
LeavesAllClosed ==
    exit.at = "left" =>
        \A q \in Quests : Owned(NameOf[q]) /\ resource[q] = "open" => data[q] = "cancelled"

\* A quest that fails makes wait() fail: the session learns of it (or is over).
FailureSurfaces ==
    \A q \in Quests : outcome[q] = "raised" ~> future # "pending"
=============================================================================
