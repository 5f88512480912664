------------------------- MODULE QuestManagerProofs -------------------------
(***************************************************************************)
(* Proofs about QuestManager: type correctness, that no quest is orphaned, *)
(* that nothing an init step acquired is out of reach, and what an exit    *)
(* has closed.                                                             *)
(***************************************************************************)
EXTENDS QuestManager, FiniteSetTheorems, TLAPS

-----------------------------------------------------------------------------
(* Lemmas about the operators the actions are built from. *)

\* The number of keys of the dict is a natural number.
LEMMA RegisteredIsFinite == Cardinality(Registered) \in Nat
  <1>1. Registered \subseteq Names  BY DEF Registered
  <1>2. IsFiniteSet(Names)  BY QuestsAssumption
  <1>3. IsFiniteSet(Registered)  BY <1>1, <1>2, FS_Subset
  <1> QED  BY <1>3, FS_CardinalityType

\* task.cancel() keeps the types of what it changes.
LEMMA AskCancelType ==
  ASSUME TypeOK, NEW q, AskCancel(q)
  PROVE  /\ cancelReq' \in [Procs -> BOOLEAN]
         /\ cancelling' \in [Procs -> BOOLEAN]
         /\ data' \in [Quests -> {"pending", "ready", "failed", "cancelled"}]
  BY DEF TypeOK, AskCancel, DataAfterCancel, Live

\* Registering a quest keeps the types of the dict.
LEMMA RegisterType ==
  ASSUME TypeOK, NEW q \in Quests, Register(q)
  PROVE  /\ registry' \in [Names -> Quests \cup {NoQuest}]
         /\ entries' \in Seq(Names \cup {Hole})
  <1>1. NameOf[q] \in Names  BY QuestsAssumption
  <1>2. registry' \in [Names -> Quests \cup {NoQuest}]  BY <1>1 DEF TypeOK, Register
  <1>3. Append(entries, NameOf[q]) \in Seq(Names \cup {Hole})  BY <1>1 DEF TypeOK
  <1> QED  BY <1>2, <1>3 DEF TypeOK, Register

\* Popping a name keeps the types of the dict.
LEMMA UnregisterType ==
  ASSUME TypeOK, NEW n \in Names, Unregister(n)
  PROVE  /\ registry' \in [Names -> Quests \cup {NoQuest}]
         /\ entries' \in Seq(Names \cup {Hole})
  <1>1. entries \in [1..Len(entries) -> Names \cup {Hole}] /\ Len(entries) \in Nat
    BY DEF TypeOK
  <1>2. entries' = [i \in 1..Len(entries) |-> IF entries[i] = n THEN Hole ELSE entries[i]]
    BY <1>1 DEF Unregister
  <1>3. entries' \in Seq(Names \cup {Hole})
    BY <1>1, <1>2
  <1> QED  BY <1>3 DEF TypeOK, Unregister

-----------------------------------------------------------------------------
(* The inductive invariant behind type correctness. *)

\* A caller that is suspended runs, and waits for a quest; one that is suspended
\* in add() holds the quest it made, of the name of the one it closes.
CallersOK ==
    \A p \in Procs :
        /\ pc[p] # "idle" => /\ phase[p] = "run" /\ target[p] \in Quests
                             /\ phase[target[p]] \notin {"unborn", "made"}
        /\ pc[p] = "add" =>
             /\ adding[p] \in Quests /\ phase[adding[p]] = "made"
             /\ NameOf[target[p]] = NameOf[adding[p]] /\ MadeBy[adding[p]] = p
        /\ pc[p] = "remove" => Calls(p, RemovedBy[NameOf[target[p]]])

\* A registered quest has the name it is registered under, and was started.
RegistryOK ==
    \A n \in Names : registry[n] # NoQuest =>
        NameOf[registry[n]] = n /\ phase[registry[n]] \notin {"unborn", "made"}

TypeInv == TypeOK /\ CallersOK /\ RegistryOK

LEMMA TypeInit == Init => TypeInv
  <1> SUFFICES ASSUME Init PROVE TypeInv  OBVIOUS
  <1>1. entries \in Seq(Names \cup {Hole})  BY DEF Init
  <1>2. TypeOK  BY <1>1 DEF Init, Exit, TypeOK, Procs
  <1>3. CallersOK  BY DEF Init, CallersOK
  <1>4. RegistryOK  BY DEF Init, RegistryOK
  <1> QED  BY <1>2, <1>3, <1>4 DEF TypeInv

\* Resuming an add() registers the quest it holds; a remove() changes nothing.
LEMMA ResumeType ==
  ASSUME TypeInv, NEW p \in Procs, pc[p] \in {"add", "remove"}, Resume(p)
  PROVE  /\ registry' \in [Names -> Quests \cup {NoQuest}]
         /\ entries' \in Seq(Names \cup {Hole})
         /\ phase' \in [Procs -> {"unborn", "made", "created", "init", "run", "done"}]
         /\ ahead' \in [Quests -> SUBSET Procs]
         /\ RegistryOK'
  <1> USE DEF TypeInv
  <1>0. ahead' \in [Quests -> SUBSET Procs]  BY DEF Resume, Woken, TypeOK
  <1>1. CASE pc[p] = "add"
    <2>1. adding[p] \in Quests /\ Register(adding[p])
          /\ phase' = [phase EXCEPT ![adding[p]] = "created"]
      BY <1>1 DEF Resume, CallersOK
    <2>2. RegistryOK'
      BY <2>1, QuestsAssumption DEF RegistryOK, Register, TypeOK, Procs
    <2> QED  BY <1>0, <2>1, <2>2, RegisterType DEF TypeOK
  <1>2. CASE pc[p] = "remove"
    BY <1>0, <1>2 DEF Resume, TypeOK, RegistryOK
  <1> QED  BY <1>1, <1>2

LEMMA ResumeCallers ==
  ASSUME TypeInv, NEW p \in Procs, pc[p] \in {"add", "remove"}, Resume(p), Back(p)
  PROVE  CallersOK'
  <1> USE DEF TypeInv
  <1>1. CASE pc[p] = "add"
    <2>1. phase' = [phase EXCEPT ![adding[p]] = "created"] /\ phase[adding[p]] = "made"
      BY <1>1 DEF Resume, CallersOK
    <2> QED  BY <1>1, <2>1 DEF CallersOK, Back, TypeOK, Calls
  <1>2. CASE pc[p] = "remove"
    BY <1>2 DEF Resume, CallersOK, Back, TypeOK
  <1> QED  BY <1>1, <1>2

\* A running caller or quest that ends disturbs no other.
LEMMA EndType ==
  ASSUME TypeInv, NEW p \in Procs, NEW how \in {"ok", "raised", "cancelled"},
         Live(p), pc[p] \in {"idle", "get"}, End(p, how), UNCHANGED registry
  PROVE  /\ phase' \in [Procs -> {"unborn", "made", "created", "init", "run", "done"}]
         /\ outcome' \in [Quests -> {"none", "ok", "raised", "cancelled"}]
         /\ cancelReq' \in [Procs -> BOOLEAN]
         /\ pc' \in [Procs -> {"idle", "add", "remove", "get"}]
         /\ target' \in [Procs -> Quests \cup {NoQuest}]
         /\ adding' \in [Procs -> Quests \cup {NoQuest}]
         /\ CallersOK'
         /\ RegistryOK'
  <1> USE DEF TypeInv, End, Ends, Back
  <1>1. CallersOK'  BY DEF CallersOK, TypeOK, Live, Calls
  <1>2. RegistryOK'  BY DEF RegistryOK, TypeOK, Live
  <1> QED  BY <1>1, <1>2 DEF TypeOK

LEMMA TypeStep == TypeInv /\ [Next]_vars => TypeInv'
  <1> SUFFICES ASSUME TypeInv, [Next]_vars PROVE TypeInv'
    OBVIOUS
  <1> USE DEF TypeInv
  <1>1. ASSUME NEW p \in Procs, NEW q \in Quests, AddFirst(p, q) PROVE TypeInv'
    <2>1. TypeOK'  BY <1>1, RegisterType DEF AddFirst, Starts, Woken, TypeOK
    <2>2. CallersOK'  BY <1>1 DEF AddFirst, Starts, CallersOK, TypeOK, Calls
    <2>3. RegistryOK'
      BY <1>1, QuestsAssumption DEF AddFirst, Starts, Register, RegistryOK, TypeOK, Procs
    <2> QED  BY <2>1, <2>2, <2>3
  <1>2. ASSUME NEW p \in Procs, NEW q \in Quests, AddReplacing(p, q) PROVE TypeInv'
    <2>1. TypeOK'  BY <1>2, RegisterType, AskCancelType DEF AddReplacing, Starts, Woken, TypeOK
    <2>2. CallersOK'  BY <1>2 DEF AddReplacing, Starts, CallersOK, TypeOK, Calls
    <2>3. RegistryOK'
      BY <1>2, QuestsAssumption DEF AddReplacing, Starts, Register, RegistryOK, TypeOK, Procs
    <2> QED  BY <2>1, <2>2, <2>3
  <1>3. ASSUME NEW p \in Procs, NEW q \in Quests, AddClosing(p, q) PROVE TypeInv'
    <2>1. NameOf[q] \in Names /\ registry[NameOf[q]] \in Quests
      BY <1>3, QuestsAssumption DEF AddClosing, TypeOK
    <2>2. TypeOK'  BY <1>3, <2>1 DEF AddClosing, TypeOK
    <2>3. CallersOK'
      BY <1>3, <2>1 DEF AddClosing, MayCall, CallersOK, RegistryOK, TypeOK, Calls, Procs
    <2>4. RegistryOK'  BY <1>3 DEF AddClosing, RegistryOK, TypeOK
    <2> QED  BY <2>2, <2>3, <2>4
  <1>4. ASSUME NEW p \in Procs, NEW q \in Quests, GetWaits(p, q) PROVE TypeInv'
    <2>1. TypeOK'  BY <1>4 DEF GetWaits, TypeOK
    <2>2. CallersOK'  BY <1>4 DEF GetWaits, MayCall, CallersOK, TypeOK, Calls
    <2>3. RegistryOK'  BY <1>4 DEF GetWaits, RegistryOK
    <2> QED  BY <2>1, <2>2, <2>3
  <1>5. ASSUME NEW p \in Procs, NEW n \in Names, RemoveCancelling(p, n) PROVE TypeInv'
    <2>1. TypeOK'  BY <1>5, UnregisterType, AskCancelType DEF RemoveCancelling, TypeOK
    <2>2. CallersOK'  BY <1>5 DEF RemoveCancelling, CallersOK, Calls
    <2>3. RegistryOK'  BY <1>5 DEF RemoveCancelling, Unregister, RegistryOK, TypeOK
    <2> QED  BY <2>1, <2>2, <2>3
  <1>6. ASSUME NEW p \in Procs, NEW n \in Names, RemoveClosing(p, n) PROVE TypeInv'
    <2>1. TypeOK'  BY <1>6, UnregisterType DEF RemoveClosing, TypeOK
    <2>2. CallersOK'
      BY <1>6 DEF RemoveClosing, MayCall, CallersOK, RegistryOK, TypeOK, Calls
    <2>3. RegistryOK'  BY <1>6 DEF RemoveClosing, Unregister, RegistryOK, TypeOK
    <2> QED  BY <2>1, <2>2, <2>3
  <1>7. ASSUME NEW p \in Procs, RunEnds(p) PROVE TypeInv'
    BY <1>7, EndType DEF RunEnds, MayCall, Live, TypeOK
  <1>8. ASSUME NEW p \in Procs, CloseReturns(p) PROVE TypeInv'
    <2>1. CallersOK'  BY <1>8, ResumeCallers DEF CloseReturns
    <2>2. TypeOK' /\ RegistryOK'
      BY <1>8, ResumeType, AskCancelType DEF CloseReturns, Back, TypeOK
    <2> QED  BY <2>1, <2>2
  <1>9. ASSUME NEW p \in Procs, CloseSwallowsCancel(p) PROVE TypeInv'
    <2>1. CallersOK'  BY <1>9, ResumeCallers DEF CloseSwallowsCancel
    <2>2. /\ cancelReq' \in [Procs -> BOOLEAN]
          /\ cancelling' \in [Procs -> BOOLEAN]
          /\ data' \in [Quests -> {"pending", "ready", "failed", "cancelled"}]
      BY <1>9 DEF CloseSwallowsCancel, DataAfterCancel, Live, TypeOK
    <2>3. TypeOK' /\ RegistryOK'
      BY <1>9, <2>2, ResumeType DEF CloseSwallowsCancel, Abandon, Back, TypeOK
    <2> QED  BY <2>1, <2>3
  <1>10. ASSUME NEW p \in Procs, CloseRaises(p) PROVE TypeInv'
    <2>1. phase[p] = "run"  BY <1>10 DEF CloseRaises, CallersOK
    <2>2. TypeOK'  BY <1>10, AskCancelType DEF CloseRaises, Ends, Abandon, Back, TypeOK
    <2>3. CallersOK'  BY <1>10, <2>1 DEF CloseRaises, Ends, Back, CallersOK, TypeOK, Calls
    <2>4. RegistryOK'  BY <1>10, <2>1 DEF CloseRaises, Ends, RegistryOK, TypeOK
    <2> QED  BY <2>2, <2>3, <2>4
  <1>11. ASSUME NEW p \in Procs, GetReturns(p) PROVE TypeInv'
    <2>1. TypeOK'  BY <1>11 DEF GetReturns, Back, TypeOK
    <2>2. CallersOK'  BY <1>11 DEF GetReturns, Back, CallersOK, TypeOK, Calls
    <2>3. RegistryOK'  BY <1>11 DEF GetReturns, RegistryOK
    <2> QED  BY <2>1, <2>2, <2>3
  <1>12. ASSUME NEW p \in Procs, GetRaises(p) PROVE TypeInv'
    <2>1. Live(p)  BY <1>12 DEF GetRaises, CallersOK, Live
    <2> QED  BY <1>12, <2>1, EndType DEF GetRaises, TypeOK
  <1>13. ASSUME NEW p \in Procs, CancelDelivered(p) PROVE TypeInv'
    BY <1>13, EndType DEF CancelDelivered, TypeOK
  <1>14. ASSUME NEW q \in Quests, InitStarts(q) PROVE TypeInv'
    <2>1. TypeOK'  BY <1>14 DEF InitStarts, TypeOK
    <2>2. CallersOK'  BY <1>14 DEF InitStarts, CallersOK, TypeOK, Calls
    <2>3. RegistryOK'  BY <1>14 DEF InitStarts, RegistryOK, TypeOK
    <2> QED  BY <2>1, <2>2, <2>3
  <1>15. ASSUME NEW q \in Quests, InitReturns(q) PROVE TypeInv'
    <2>1. TypeOK'  BY <1>15 DEF InitReturns, TypeOK
    <2>2. CallersOK'  BY <1>15 DEF InitReturns, CallersOK, TypeOK, Calls
    <2>3. RegistryOK'  BY <1>15 DEF InitReturns, RegistryOK, TypeOK
    <2> QED  BY <2>1, <2>2, <2>3
  <1>16. ASSUME NEW q \in Quests, InitReturnsTooLate(q) PROVE TypeInv'
    <2>1. q \in Procs /\ Live(q) /\ pc[q] = "idle"
      BY <1>16 DEF InitReturnsTooLate, Live, Procs, CallersOK
    <2> QED  BY <1>16, <2>1, EndType DEF InitReturnsTooLate, TypeOK
  <1>17. ASSUME NEW q \in Quests, InitRaises(q) PROVE TypeInv'
    <2>1. q \in Procs /\ Live(q) /\ pc[q] = "idle"
      BY <1>17 DEF InitRaises, Live, Procs, CallersOK, TypeOK
    <2> QED  BY <1>17, <2>1, EndType DEF InitRaises, TypeOK
  <1>18. ASSUME NEW q \in Quests, OneIsDone(q) PROVE TypeInv'
    BY <1>18 DEF OneIsDone, TypeOK, CallersOK, RegistryOK, Calls
  <1>19. ASSUME NEW t \in Tasks, SessionAborts(t) PROVE TypeInv'
    <2>1. TypeOK'  BY <1>19, AskCancelType DEF SessionAborts, TypeOK
    <2> QED  BY <1>19, <2>1 DEF SessionAborts, CallersOK, RegistryOK, Calls
  <1>20. ASSUME ExitStarts PROVE TypeInv'
    BY <1>20, RegisteredIsFinite DEF ExitStarts, Exit, TypeOK, CallersOK, RegistryOK, Calls
  <1>21. ASSUME ExitIteratorRaises PROVE TypeInv'
    BY <1>21 DEF ExitIteratorRaises, ExitGoes, Exit, TypeOK, CallersOK, RegistryOK, Calls
  <1>22. ASSUME NEW i \in 1..Len(entries), ExitCancels(i) PROVE TypeInv'
    <2>1. exit' \in [at : {"no", "walk", "closing", "left", "raised"}, pos : Nat,
                     left : Nat, size : Nat, quest : Quests \cup {NoQuest}]
      BY <1>22 DEF ExitCancels, Visits, Visited, Exit, TypeOK
    <2>2. TypeOK'
      BY <1>22, <2>1, AskCancelType DEF ExitCancels, TypeOK
    <2> QED  BY <1>22, <2>2 DEF ExitCancels, CallersOK, RegistryOK, Calls
  <1>23. ASSUME NEW i \in 1..Len(entries), ExitCloses(i) PROVE TypeInv'
    <2>1. entries[i] \in Names
      BY <1>23 DEF ExitCloses, Visits, ToVisit, TypeOK
    <2>2. exit' \in [at : {"no", "walk", "closing", "left", "raised"}, pos : Nat,
                     left : Nat, size : Nat, quest : Quests \cup {NoQuest}]
      <3>1. registry[entries[i]] \in Quests \cup {NoQuest}  BY <2>1 DEF TypeOK
      <3>2. i + 1 \in Nat /\ exit.left - 1 \in Nat /\ exit.size \in Nat
        BY <1>23 DEF ExitCloses, Visits, TypeOK
      <3> QED  BY <1>23, <3>1, <3>2 DEF ExitCloses, Visited, Exit
    <2>3. TypeOK'  BY <1>23, <2>2 DEF ExitCloses, TypeOK
    <2> QED  BY <1>23, <2>3 DEF ExitCloses, CallersOK, RegistryOK, Calls
  <1>24. ASSUME ExitCloseEnds PROVE TypeInv'
    <2>1. exit' \in [at : {"no", "walk", "closing", "left", "raised"}, pos : Nat,
                     left : Nat, size : Nat, quest : Quests \cup {NoQuest}]
      BY <1>24 DEF ExitCloseEnds, ExitGoes, Exit, TypeOK
    <2>2. closer' \in [Quests -> BOOLEAN]  BY <1>24 DEF ExitCloseEnds, TypeOK
    <2>3. resource' \in [Quests -> {"none", "open", "closed", "abandoned"}]
      BY <1>24 DEF ExitCloseEnds, Abandon, TypeOK
    <2>4. TypeOK'  BY <1>24, <2>1, <2>2, <2>3, AskCancelType DEF ExitCloseEnds, TypeOK
    <2> QED  BY <1>24, <2>4 DEF ExitCloseEnds, CallersOK, RegistryOK, Calls
  <1>25. ASSUME ExitClears PROVE TypeInv'
    <2>1. <<>> \in Seq(Names \cup {Hole})  OBVIOUS
    <2> QED  BY <1>25, <2>1 DEF ExitClears, ExitGoes, Exit, TypeOK, CallersOK, RegistryOK, Calls
  <1>26. CASE UNCHANGED vars
    BY <1>26 DEF vars, TypeOK, CallersOK, RegistryOK, Calls
  <1> QED
    BY <1>1, <1>2, <1>3, <1>4, <1>5, <1>6, <1>7, <1>8, <1>9, <1>10, <1>11, <1>12, <1>13,
       <1>14, <1>15, <1>16, <1>17, <1>18, <1>19, <1>20, <1>21, <1>22, <1>23, <1>24, <1>25,
       <1>26
    DEF Next, CallerStep, WakeUp, QuestStep, ExitWalks

\* The variables of the quest manager keep their types, whatever the names, the
\* quests and the tasks that call it.
THEOREM TypeCorrect == Spec => []TypeOK
  <1>1. TypeInv => TypeOK  BY DEF TypeInv
  <1> QED  BY <1>1, TypeInit, TypeStep, PTL DEF Spec

-----------------------------------------------------------------------------
(* NoOrphan. Two adds of one name never overlap: the quests of that name are
   made by one task, or each by a quest of another name, of which one at most is
   not cancelled.  A maker that is cancelled in its add() goes on to register what
   it made, but the loop wakes it before the maker that took its place starts. *)

\* A close step is awaited of quests that have one.
HoldsOK ==
    /\ \A q \in Quests : closer[q] => NameOf[q] \in HasClose
    /\ \A p \in Procs : pc[p] \in {"add", "remove"} => NameOf[target[p]] \in HasClose

\* __aexit__ is called when the session's own tasks are done.
ExitOK == exit.at # "no" => \A t \in Tasks : phase[t] = "done"

\* A quest that is cancelled has a task; one that goes on after its cancellation has
\* swallowed it while it added what it makes.
CancelsOK ==
    /\ \A q \in Quests : phase[q] \in {"unborn", "made"} => ~cancelling[q]
    /\ \A x, q \in Quests :
         MadeBy[x] = q /\ phase[x] \in {"unborn", "made"} /\ Live(q) /\ cancelling[q] => cancelReq[q]

\* Quests of one name that a task makes and that have no close step.
Alike(q1, q2) == NameOf[q1] = NameOf[q2] /\ NameOf[q1] \notin HasClose /\ MadeBy[q1] \in Tasks

\* A quest that was cancelled in an add().
Swallows(q) == pc[q] = "add" /\ cancelReq[q]

\* Of the makers of a name one at most is not cancelled, and while another is to
\* swallow its cancellation that one has not started.
TurnsOK ==
    \A q1, q2 \in Quests : Alike(q1, q2) /\ q1 # q2 /\ Uncancelled(q2) =>
        /\ ~Uncancelled(q1)
        /\ Swallows(q1) => phase[q2] = "created" /\ q1 \in ahead[q2]

RivalInv == HoldsOK /\ ExitOK /\ CancelsOK /\ TurnsOK

\* While an add() closes the previous quest, its name still refers to that quest,
\* or to none if a remove() popped it meanwhile, and no other add() is at it.
SlotOK ==
    \A p \in Procs : pc[p] = "add" =>
        /\ registry[NameOf[adding[p]]] \in {target[p], NoQuest}
        /\ \A o \in Procs : pc[o] = "add" /\ NameOf[adding[o]] = NameOf[adding[p]] => o = p

OrphanInv == TypeInv /\ RivalInv /\ SlotOK /\ NoOrphan

LEMMA RivalInit == Init => RivalInv
  <1> SUFFICES ASSUME Init PROVE RivalInv  OBVIOUS
  <1>1. \A q \in Quests : phase[q] = "unborn" /\ ~cancelling[q] /\ (closer[q] <=> NameOf[q] \in HasClose)
    BY QuestsAssumption DEF Init, Procs
  <1>2. HoldsOK  BY <1>1 DEF Init, HoldsOK
  <1>3. ExitOK  BY DEF Init, Exit, ExitOK
  <1>4. CancelsOK  BY <1>1 DEF CancelsOK, Live
  <1>5. TurnsOK  BY <1>1 DEF TurnsOK, Uncancelled, Live
  <1> QED  BY <1>2, <1>3, <1>4, <1>5 DEF RivalInv

LEMMA OrphanInit == Init => OrphanInv
  <1> SUFFICES ASSUME Init PROVE OrphanInv  OBVIOUS
  <1>1. SlotOK  BY DEF Init, SlotOK
  <1>2. \A q \in Quests : phase[q] = "unborn"  BY QuestsAssumption DEF Init, Procs
  <1>3. NoOrphan  BY <1>2 DEF NoOrphan, Uncancelled, Live
  <1> QED  BY <1>1, <1>3, TypeInit, RivalInit DEF OrphanInv

\* What a quest that is made must find: no other maker of its kind that is left
\* alone, and those that are to swallow a cancellation ahead of it.
FindsNoRival(q) ==
    /\ phase'[q] = "created" /\ ~cancelling'[q]
    /\ MadeBy[q] \in Tasks /\ NameOf[q] \notin HasClose =>
         \A o \in Quests : o # q /\ NameOf[o] = NameOf[q] =>
            ~Uncancelled(o)' /\ (Swallows(o)' => o \in ahead'[q])

\* A step keeps RivalInv if it lets callers into the close step of quests that have
\* one, leaves a quest its cancellation, and makes quests that find no rival.
LEMMA RivalKept ==
  ASSUME TypeInv, RivalInv,
         \A t \in Tasks : phase[t] = "done" => phase'[t] = "done",
         exit'.at # "no" => exit.at # "no" \/ \A t \in Tasks : phase[t] = "done",
         \A p \in Procs : pc'[p] \in {"add", "remove"} =>
             \/ pc'[p] = pc[p] /\ target'[p] = target[p]
             \/ NameOf[target'[p]] \in HasClose /\ ~cancelReq'[p],
         \A x \in Quests :
            /\ closer'[x] => closer[x]
            /\ phase'[x] \in {"unborn", "made"} =>
                 phase[x] \in {"unborn", "made"} /\ (cancelling'[x] => cancelling[x])
            /\ cancelling[x] => cancelling'[x]
            /\ Live(x)' /\ cancelling'[x] /\ ~cancelReq'[x] =>
                 \/ cancelling[x] /\ ~cancelReq[x]
                 \/ \A y \in Quests : MadeBy[y] = x => phase'[y] \notin {"unborn", "made"}
            /\ Live(x)' => \/ Live(x) /\ (phase[x] = "created" => phase'[x] = phase[x] \/ ahead[x] = {})
                           \/ FindsNoRival(x)
            /\ Live(x) => \A o \in ahead[x] : o \in ahead'[x] \/ pc'[o] # "add"
  PROVE  RivalInv'
  <1> USE DEF RivalInv
  <1>1. HoldsOK'  BY DEF HoldsOK
  <1>2. ExitOK'  BY DEF ExitOK
  <1>3. CancelsOK'
    <2>1. \A q \in Quests : phase'[q] \in {"unborn", "made"} => ~cancelling'[q]  BY DEF CancelsOK
    <2>2. ASSUME NEW x \in Quests, NEW q \in Quests, MadeBy[x] = q, phase'[x] \in {"unborn", "made"},
                 Live(q)', cancelling'[q], ~cancelReq'[q]
          PROVE  FALSE
      <3>1. cancelling[q] /\ ~cancelReq[q]  BY <2>2
      <3>2. Live(q)  BY <2>2 DEF FindsNoRival
      <3> QED  BY <2>2, <3>1, <3>2 DEF CancelsOK
    <2> QED  BY <2>1, <2>2 DEF CancelsOK
  <1>4. ASSUME NEW q1 \in Quests, NEW q2 \in Quests, Alike(q1, q2), q1 # q2, Uncancelled(q2)'
        PROVE  ~Uncancelled(q1)' /\ (Swallows(q1)' => phase'[q2] = "created" /\ q1 \in ahead'[q2])
    <2>1. MadeBy[q2] \in Tasks /\ NameOf[q2] \notin HasClose
      BY <1>4, MakersAssumption, QuestsAssumption DEF Alike
    <2>2. CASE FindsNoRival(q2)
      BY <1>4, <2>1, <2>2 DEF FindsNoRival, Alike
    <2>3. CASE ~FindsNoRival(q2)
      <3>1. Live(q2) /\ (phase[q2] = "created" => phase'[q2] = phase[q2] \/ ahead[q2] = {})
        BY <1>4, <2>3 DEF Uncancelled
      <3>2. Uncancelled(q2)  BY <1>4, <3>1 DEF Uncancelled
      <3>3. ~Uncancelled(q1) /\ (Swallows(q1) => phase[q2] = "created" /\ q1 \in ahead[q2])
        BY <1>4, <3>2 DEF TurnsOK
      <3>4. ~Uncancelled(q1)'
        <4>1. FindsNoRival(q1) => ~Uncancelled(q2)'  BY <1>4 DEF FindsNoRival, Alike
        <4> QED  BY <1>4, <3>3, <4>1 DEF Uncancelled
      <3>5. ASSUME Swallows(q1)' PROVE phase'[q2] = "created" /\ q1 \in ahead'[q2]
        <4>1. q1 \in Procs  BY DEF Procs
        <4>2. pc[q1] = "add" /\ pc'[q1] = "add"  BY <3>5, <4>1 DEF Swallows
        <4>3. /\ phase[q1] = "run" /\ adding[q1] \in Quests /\ phase[adding[q1]] = "made"
              /\ MadeBy[adding[q1]] = q1
          BY <4>1, <4>2 DEF TypeInv, CallersOK
        <4>4. cancelling[q1]  BY <3>3, <4>3 DEF Uncancelled, Live
        <4>5. cancelReq[q1]  BY <4>3, <4>4 DEF CancelsOK, Live
        <4>6. phase[q2] = "created" /\ q1 \in ahead[q2]  BY <3>3, <4>2, <4>5 DEF Swallows
        <4> QED  BY <3>1, <4>2, <4>6
      <3> QED  BY <3>4, <3>5
    <2> QED  BY <2>2, <2>3
  <1> QED  BY <1>1, <1>2, <1>3, <1>4 DEF TurnsOK, Alike

\* What task.cancel() does to the flags.
LEMMA AskCancelFlags ==
  ASSUME TypeOK, NEW q, AskCancel(q), NEW x \in Procs
  PROVE  /\ cancelling[x] => cancelling'[x]
         /\ cancelling'[x] /\ ~cancelReq'[x] => cancelling[x] /\ ~cancelReq[x]
         /\ cancelling'[x] /\ ~Live(x) => cancelling[x]
         /\ x = q /\ Live(q) => cancelling'[q]
  <1>1. /\ cancelReq' = [cancelReq EXCEPT ![q] = @ \/ Live(q)]
        /\ cancelling' = [cancelling EXCEPT ![q] = @ \/ Live(q)]
        /\ cancelReq \in [Procs -> BOOLEAN] /\ cancelling \in [Procs -> BOOLEAN]
    BY DEF AskCancel, TypeOK
  <1>2. CASE x = q
    <2>1. (cancelReq'[x] = (cancelReq[x] \/ Live(x))) /\ (cancelling'[x] = (cancelling[x] \/ Live(x)))
      BY <1>1, <1>2
    <2> QED  BY <1>2, <2>1
  <1>3. CASE x # q
    <2>1. cancelReq'[x] = cancelReq[x] /\ cancelling'[x] = cancelling[x]  BY <1>1, <1>3
    <2> QED  BY <1>3, <2>1
  <1> QED  BY <1>2, <1>3

\* Steps that start no quest.
LEMMA RivalQuiet ==
  ASSUME TypeInv, RivalInv, UNCHANGED ahead,
         exit'.at # "no" => exit.at # "no" \/ \A t \in Tasks : phase[t] = "done",
         \A p \in Procs : pc'[p] \in {"add", "remove"} =>
             \/ pc'[p] = pc[p] /\ target'[p] = target[p]
             \/ NameOf[target'[p]] \in HasClose /\ ~cancelReq'[p],
         \A x \in Procs : \/ phase'[x] \in {phase[x], "done"}
                          \/ phase[x] = "unborn" /\ phase'[x] = "made"
                          \/ phase[x] = "created" /\ phase'[x] = "init" /\ ahead[x] = {}
                          \/ phase[x] = "init" /\ phase'[x] = "run",
         \A x \in Quests :
            /\ closer'[x] => closer[x]
            /\ cancelling[x] => cancelling'[x]
            /\ Live(x)' /\ cancelling'[x] /\ ~cancelReq'[x] => cancelling[x] /\ ~cancelReq[x]
            /\ cancelling'[x] /\ ~Live(x) => cancelling[x]
  PROVE  RivalInv'
  <1>1. \A t \in Tasks : phase[t] = "done" => phase'[t] = "done"  BY DEF Procs
  <1>2. ASSUME NEW x \in Quests
        PROVE  /\ phase'[x] \in {"unborn", "made"} => phase[x] \in {"unborn", "made"} /\ ~Live(x)
               /\ Live(x)' => /\ Live(x)
                              /\ phase[x] = "created" => phase'[x] = phase[x] \/ ahead[x] = {}
    BY DEF Live, Procs
  <1> QED  BY <1>1, <1>2, RivalKept

\* ... nor cancel any,
LEMMA RivalLeft ==
  ASSUME TypeInv, RivalInv, UNCHANGED <<closer, cancelReq, cancelling, ahead>>,
         exit'.at # "no" => exit.at # "no" \/ \A t \in Tasks : phase[t] = "done",
         \A p \in Procs : pc'[p] \in {"add", "remove"} =>
             \/ pc'[p] = pc[p] /\ target'[p] = target[p]
             \/ NameOf[target'[p]] \in HasClose /\ ~cancelReq'[p],
         \A x \in Procs : \/ phase'[x] \in {phase[x], "done"}
                          \/ phase[x] = "unborn" /\ phase'[x] = "made"
                          \/ phase[x] = "created" /\ phase'[x] = "init" /\ ahead[x] = {}
                          \/ phase[x] = "init" /\ phase'[x] = "run"
  PROVE  RivalInv'
  BY RivalQuiet

\* ... or that cancel one.
LEMMA RivalAsked ==
  ASSUME TypeInv, RivalInv, NEW q, AskCancel(q), UNCHANGED ahead,
         exit'.at # "no" => exit.at # "no",
         \A p \in Procs : pc'[p] \in {"add", "remove"} => pc'[p] = pc[p] /\ target'[p] = target[p],
         \A x \in Procs : phase'[x] \in {phase[x], "done"},
         \A x \in Quests : closer'[x] => closer[x]
  PROVE  RivalInv'
  <1>1. \A x \in Quests : /\ cancelling[x] => cancelling'[x]
                          /\ cancelling'[x] /\ ~cancelReq'[x] => cancelling[x] /\ ~cancelReq[x]
                          /\ cancelling'[x] /\ ~Live(x) => cancelling[x]
    BY AskCancelFlags DEF TypeInv, Procs
  <1> QED  BY <1>1, RivalQuiet

\* The end of a task starts none.
LEMMA RivalEnd ==
  ASSUME TypeInv, RivalInv, NEW p \in Procs, NEW how, End(p, how),
         UNCHANGED <<closer, cancelling, ahead, exit>>
  PROVE  RivalInv'
  <1>1. \A x \in Procs : /\ phase'[x] = (IF x = p THEN "done" ELSE phase[x])
                         /\ cancelReq'[x] = (IF x = p THEN FALSE ELSE cancelReq[x])
                         /\ pc'[x] = (IF x = p THEN "idle" ELSE pc[x])
                         /\ (x # p => target'[x] = target[x])
    BY DEF TypeInv, TypeOK, End, Ends, Back
  <1>2. \A x \in Quests : Live(x)' => x # p  BY <1>1 DEF Live, Procs
  <1> QED  BY <1>1, <1>2, RivalQuiet DEF Procs

\* An add() that has nobody to wait for: a running quest of the same name with no close
\* step would be the registered one, which is cancelled.
LEMMA RivalRegister ==
  ASSUME OrphanInv, NEW p \in Procs, NEW q \in Quests, MayCall(p), p = MadeBy[q],
         phase[q] = "unborn", Starts(q, Woken(cancelReq')), UNCHANGED <<pc, target, exit>>,
         \A x \in Quests :
            /\ closer'[x] => closer[x]
            /\ cancelling[x] => cancelling'[x]
            /\ cancelling'[x] /\ ~cancelReq'[x] => cancelling[x] /\ ~cancelReq[x]
            /\ cancelling'[x] /\ ~Live(x) => cancelling[x],
         registry[NameOf[q]] # NoQuest => \/ ~Live(registry[NameOf[q]])
                                          \/ cancelling'[registry[NameOf[q]]]
  PROVE  RivalInv'
  <1> USE DEF OrphanInv, TypeInv
  <1>1. /\ \A x \in Procs : phase'[x] = IF x = q THEN "created" ELSE phase[x]
        /\ \A x \in Quests : ahead'[x] = IF x = q THEN Woken(cancelReq') ELSE ahead[x]
        /\ q \in Procs
    BY DEF Starts, TypeOK, Procs
  <1>2. ~Live(q) /\ ~cancelling[q]  BY DEF RivalInv, CancelsOK, Live
  <1>3. ASSUME MadeBy[q] \in Tasks, NameOf[q] \notin HasClose,
               NEW o \in Quests, o # q, NameOf[o] = NameOf[q]
        PROVE  ~Uncancelled(o)' /\ (Swallows(o)' => o \in ahead'[q])
    <2>1. exit.at = "no"  BY <1>3 DEF RivalInv, ExitOK, MayCall
    <2>2. ASSUME Uncancelled(o)' PROVE FALSE
      <3>1. Uncancelled(o)  BY <1>1, <1>3, <2>2 DEF Uncancelled, Live, Procs
      <3>2. ~BeingClosed(o)  BY <1>3, <2>1 DEF BeingClosed, Closing, RivalInv, HoldsOK
      <3>3. registry[NameOf[q]] = o  BY <1>3, <2>1, <3>1, <3>2 DEF NoOrphan
      <3> QED  BY <2>2, <3>1, <3>3, QuestsAssumption DEF Uncancelled
    <2>3. Swallows(o)' => o \in ahead'[q]  BY <1>1 DEF Swallows, Woken, Procs
    <2> QED  BY <2>2, <2>3
  <1>4. FindsNoRival(q)  BY <1>1, <1>2, <1>3 DEF FindsNoRival
  <1>5. \A x \in Quests : x # q => phase'[x] = phase[x] /\ Live(x)' = Live(x)
    BY <1>1 DEF Live, Procs
  <1>6. \A t \in Tasks : phase[t] = "done" => phase'[t] = "done"
    BY <1>1, QuestsAssumption DEF Procs
  <1>7. ASSUME NEW x \in Quests
        PROVE  /\ phase'[x] \in {"unborn", "made"} =>
                    phase[x] \in {"unborn", "made"} /\ (cancelling'[x] => cancelling[x])
               /\ Live(x)' /\ cancelling'[x] /\ ~cancelReq'[x] => cancelling[x] /\ ~cancelReq[x]
               /\ Live(x)' => \/ Live(x) /\ phase'[x] = phase[x]
                              \/ FindsNoRival(x)
               /\ Live(x) => ahead'[x] = ahead[x]
    BY <1>1, <1>2, <1>4, <1>5 DEF Live
  <1> QED  BY <1>6, <1>7, RivalKept

\* An add() or a remove() that goes on after the close step: a maker that swallowed
\* its cancellation has registered all it makes.
LEMMA RivalResume ==
  ASSUME OrphanInv, NEW p \in Procs, pc[p] \in {"add", "remove"}, Resume(p), Back(p),
         UNCHANGED exit,
         \A x \in Quests :
            /\ closer'[x] => closer[x]
            /\ cancelling[x] => cancelling'[x]
            /\ x # p /\ cancelling'[x] /\ ~cancelReq'[x] => cancelling[x] /\ ~cancelReq[x]
            /\ cancelling'[x] /\ ~Live(x) => cancelling[x]
  PROVE  RivalInv'
  <1> USE DEF OrphanInv, TypeInv
  <1>1. \A o \in Procs : pc'[o] = (IF o = p THEN "idle" ELSE pc[o])
                         /\ (o # p => target'[o] = target[o])
    BY DEF Back, TypeOK
  <1>2. \A x \in Quests : \A o \in ahead[x] : o # p /\ ~(pc[p] = "add" /\ x = adding[p]) => o \in ahead'[x]
    BY DEF Resume
  <1>3. ASSUME NEW x \in Quests, pc[p] = "add", x = adding[p]
        PROVE  FindsNoRival(x) /\ ~Live(x)
    <2>1. phase[x] = "made" /\ NameOf[target[p]] = NameOf[x]  BY <1>3 DEF CallersOK
    <2>2. phase'[x] = "created"  BY <1>3 DEF Resume, TypeOK, Procs
    <2>3. ~cancelling'[x]  BY <2>1 DEF RivalInv, CancelsOK, Live
    <2>4. NameOf[x] \in HasClose  BY <1>3, <2>1 DEF RivalInv, HoldsOK
    <2> QED  BY <2>1, <2>2, <2>3, <2>4 DEF FindsNoRival, Live
  <1>4. \A x \in Procs : ~(pc[p] = "add" /\ x = adding[p]) => phase'[x] = phase[x]
    BY DEF Resume, TypeOK
  <1>5. ASSUME p \in Quests, NEW y \in Quests, MadeBy[y] = p
        PROVE  phase'[y] \notin {"unborn", "made"}
    <2>1. pc[p] = "add"  BY <1>5, MakersAssumption, QuestsAssumption DEF CallersOK
    <2>2. adding[p] \in Quests /\ MadeBy[adding[p]] = p  BY <2>1 DEF CallersOK
    <2>3. adding[p] = y  BY <1>5, <2>2, MakersAssumption
    <2> QED  BY <1>3, <2>1, <2>3 DEF FindsNoRival
  <1>6. \A t \in Tasks : phase[t] = "done" => phase'[t] = "done"
    <2>1. pc[p] = "add" => adding[p] \in Quests  BY DEF CallersOK
    <2> QED  BY <1>4, <2>1, QuestsAssumption DEF Procs
  <1>7. ASSUME NEW x \in Quests
        PROVE  /\ phase'[x] \in {"unborn", "made"} =>
                    phase[x] \in {"unborn", "made"} /\ (cancelling'[x] => cancelling[x])
               /\ Live(x)' => \/ Live(x) /\ phase'[x] = phase[x]
                              \/ FindsNoRival(x)
               /\ Live(x) => \A o \in ahead[x] : o \in ahead'[x] \/ pc'[o] # "add"
               /\ Live(x)' /\ cancelling'[x] /\ ~cancelReq'[x] =>
                    \/ cancelling[x] /\ ~cancelReq[x]
                    \/ \A y \in Quests : MadeBy[y] = x => phase'[y] \notin {"unborn", "made"}
    <2>1. CASE pc[p] = "add" /\ x = adding[p]
      BY <1>3, <1>5, <2>1 DEF FindsNoRival
    <2>2. CASE ~(pc[p] = "add" /\ x = adding[p])
      <3>1. phase'[x] = phase[x] /\ Live(x)' = Live(x)  BY <1>4, <2>2 DEF Live, Procs
      <3>2. \A o \in ahead[x] : o \in ahead'[x] \/ pc'[o] # "add"  BY <1>1, <1>2, <2>2
      <3> QED  BY <1>5, <3>1, <3>2 DEF Live
    <2> QED  BY <2>1, <2>2
  <1> QED  BY <1>1, <1>6, <1>7, RivalKept

\* Nobody else is in an add() of the name of the quest that a caller is to add.
LEMMA NoRival ==
  ASSUME OrphanInv, NEW p \in Procs, NEW q \in Quests, MayCall(p), p = MadeBy[q],
         phase[q] = "unborn", NEW o \in Procs, pc[o] = "add"
  PROVE  NameOf[adding[o]] # NameOf[q]
  <1> USE DEF OrphanInv, RivalInv, TypeInv
  <1>1. /\ phase[o] = "run" /\ adding[o] \in Quests /\ phase[adding[o]] = "made"
        /\ MadeBy[adding[o]] = o
    BY DEF CallersOK
  <1>2. SUFFICES ASSUME NameOf[adding[o]] = NameOf[q] PROVE FALSE  OBVIOUS
  <1>3. o # p  BY DEF MayCall
  <1>4. o \in Quests /\ p \in Quests /\ NameOf[o] = NameOf[p]
    BY <1>1, <1>2, <1>3, MakersAssumption
  <1>5. Alike(o, p)  BY <1>1, <1>4, MakersAssumption DEF Alike
  <1>6. Uncancelled(p) /\ phase[p] = "run"
    BY <1>4 DEF CancelsOK, MayCall, Uncancelled, Live
  <1>7. ~Uncancelled(o) /\ ~Swallows(o)  BY <1>3, <1>4, <1>5, <1>6 DEF TurnsOK
  <1>8. cancelling[o]  BY <1>1, <1>7 DEF Uncancelled, Live
  <1>9. cancelReq[o]  BY <1>1, <1>4, <1>8 DEF CancelsOK, Live
  <1> QED  BY <1>7, <1>9 DEF Swallows

LEMMA RivalStep == OrphanInv /\ [Next]_vars => RivalInv'
  <1> SUFFICES ASSUME OrphanInv, [Next]_vars PROVE RivalInv'
    OBVIOUS
  <1> USE DEF OrphanInv, TypeInv
  <1>1. ASSUME NEW p \in Procs, NEW q \in Quests, AddFirst(p, q) PROVE RivalInv'
    BY <1>1, RivalRegister DEF AddFirst
  <1>2. ASSUME NEW p \in Procs, NEW q \in Quests, AddReplacing(p, q) PROVE RivalInv'
    <2>1. AskCancel(registry[NameOf[q]]) /\ registry[NameOf[q]] \in Procs
      <3>1. AskCancel(registry[NameOf[q]]) /\ registry[NameOf[q]] # NoQuest
        BY <1>2 DEF AddReplacing
      <3>2. registry[NameOf[q]] \in Quests \cup {NoQuest}
        BY QuestsAssumption DEF TypeOK
      <3> QED  BY <3>1, <3>2 DEF Procs
    <2>2. \A x \in Quests : closer'[x] => closer[x]  BY <1>2 DEF AddReplacing, TypeOK
    <2>3. \A x \in Quests : /\ cancelling[x] => cancelling'[x]
                            /\ cancelling'[x] /\ ~cancelReq'[x] => cancelling[x] /\ ~cancelReq[x]
                            /\ cancelling'[x] /\ ~Live(x) => cancelling[x]
      BY <2>1, AskCancelFlags DEF Procs
    <2>4. ~Live(registry[NameOf[q]]) \/ cancelling'[registry[NameOf[q]]]
      BY <2>1, AskCancelFlags
    <2> QED  BY <1>2, <2>2, <2>3, <2>4, RivalRegister DEF AddReplacing
  <1>3. ASSUME NEW p \in Procs, NEW q \in Quests, AddClosing(p, q) PROVE RivalInv'
    <2>1. registry[NameOf[q]] \in Quests /\ NameOf[registry[NameOf[q]]] \in HasClose
      BY <1>3, QuestsAssumption DEF AddClosing, NeedsClose, TypeOK, RivalInv, HoldsOK
    <2>2. \A o \in Procs : o # p => pc'[o] = pc[o] /\ target'[o] = target[o]
      BY <1>3 DEF AddClosing, TypeOK
    <2>3. target'[p] = registry[NameOf[q]] /\ ~cancelReq'[p]
      BY <1>3 DEF AddClosing, MayCall, TypeOK
    <2>4. \A x \in Procs : phase'[x] = phase[x] \/ (phase[x] = "unborn" /\ phase'[x] = "made")
      BY <1>3 DEF AddClosing, TypeOK
    <2> QED  BY <1>3, <2>1, <2>2, <2>3, <2>4, RivalLeft DEF AddClosing
  <1>4. ASSUME NEW p \in Procs, NEW q \in Quests, GetWaits(p, q) PROVE RivalInv'
    <2>1. \A o \in Procs : pc'[o] \in {"add", "remove"} => pc'[o] = pc[o] /\ target'[o] = target[o]
      BY <1>4 DEF GetWaits, TypeOK
    <2> QED  BY <1>4, <2>1, RivalLeft DEF GetWaits
  <1>5. ASSUME NEW p \in Procs, NEW n \in Names, RemoveCancelling(p, n) PROVE RivalInv'
    <2>1. \A x \in Quests : closer'[x] => closer[x]  BY <1>5 DEF RemoveCancelling, TypeOK
    <2> QED  BY <1>5, <2>1, RivalAsked DEF RemoveCancelling
  <1>6. ASSUME NEW p \in Procs, NEW n \in Names, RemoveClosing(p, n) PROVE RivalInv'
    <2>1. registry[n] \in Quests /\ NameOf[registry[n]] \in HasClose
      BY <1>6 DEF RemoveClosing, NeedsClose, TypeOK, RivalInv, HoldsOK
    <2>2. \A o \in Procs : o # p => pc'[o] = pc[o] /\ target'[o] = target[o]
      BY <1>6 DEF RemoveClosing, TypeOK
    <2>3. target'[p] = registry[n] /\ ~cancelReq'[p]
      BY <1>6 DEF RemoveClosing, MayCall, TypeOK
    <2> QED  BY <1>6, <2>1, <2>2, <2>3, RivalLeft DEF RemoveClosing
  <1>7. ASSUME NEW p \in Procs, RunEnds(p) PROVE RivalInv'
    BY <1>7, RivalEnd DEF RunEnds
  <1>8. ASSUME NEW p \in Procs, CloseReturns(p) PROVE RivalInv'
    <2>1. \A x \in Quests : /\ cancelling[x] => cancelling'[x]
                            /\ cancelling'[x] /\ ~cancelReq'[x] => cancelling[x] /\ ~cancelReq[x]
                            /\ cancelling'[x] /\ ~Live(x) => cancelling[x]
      BY <1>8, AskCancelFlags DEF CloseReturns, Procs
    <2>2. \A x \in Quests : closer'[x] => closer[x]  BY <1>8 DEF CloseReturns, TypeOK
    <2> QED  BY <1>8, <2>1, <2>2, RivalResume DEF CloseReturns
  <1>9. ASSUME NEW p \in Procs, CloseSwallowsCancel(p) PROVE RivalInv'
    <2>1. \A x \in Procs : /\ cancelling'[x] = IF x = target[p] THEN cancelling[x] \/ Live(x) ELSE cancelling[x]
                           /\ x # p => cancelReq'[x] = IF x = target[p] THEN cancelReq[x] \/ Live(x)
                                                       ELSE cancelReq[x]
      BY <1>9 DEF CloseSwallowsCancel, TypeOK
    <2>2. \A x \in Quests : /\ cancelling[x] => cancelling'[x]
                            /\ x # p /\ cancelling'[x] /\ ~cancelReq'[x] => cancelling[x] /\ ~cancelReq[x]
                            /\ cancelling'[x] /\ ~Live(x) => cancelling[x]
      BY <2>1 DEF Procs
    <2>3. \A x \in Quests : closer'[x] => closer[x]  BY <1>9 DEF CloseSwallowsCancel, TypeOK
    <2> QED  BY <1>9, <2>2, <2>3, RivalResume DEF CloseSwallowsCancel
  <1>10. ASSUME NEW p \in Procs, CloseRaises(p) PROVE RivalInv'
    <2>1. \A o \in Procs : /\ pc'[o] = (IF o = p THEN "idle" ELSE pc[o])
                           /\ (o # p => target'[o] = target[o])
                           /\ phase'[o] \in {phase[o], "done"}
      BY <1>10 DEF CloseRaises, Ends, Back, TypeOK
    <2> QED  BY <1>10, <2>1, RivalAsked DEF CloseRaises
  <1>11. ASSUME NEW p \in Procs, GetReturns(p) PROVE RivalInv'
    <2>1. \A o \in Procs : pc'[o] = (IF o = p THEN "idle" ELSE pc[o]) /\ (o # p => target'[o] = target[o])
      BY <1>11 DEF GetReturns, Back, TypeOK
    <2> QED  BY <1>11, <2>1, RivalLeft DEF GetReturns
  <1>12. ASSUME NEW p \in Procs, GetRaises(p) \/ CancelDelivered(p) PROVE RivalInv'
    BY <1>12, RivalEnd DEF GetRaises, CancelDelivered
  <1>13. ASSUME NEW q \in Quests, InitStarts(q) PROVE RivalInv'
    <2>1. \A x \in Procs : phase'[x] = phase[x]
                           \/ (phase[x] = "created" /\ phase'[x] = "init" /\ ahead[x] = {})
      BY <1>13 DEF InitStarts, TypeOK
    <2> QED  BY <1>13, <2>1, RivalLeft DEF InitStarts
  <1>14. ASSUME NEW q \in Quests, InitReturns(q) PROVE RivalInv'
    <2>1. \A x \in Procs : phase'[x] = phase[x] \/ (phase[x] = "init" /\ phase'[x] = "run")
      BY <1>14 DEF InitReturns, TypeOK
    <2> QED  BY <1>14, <2>1, RivalLeft DEF InitReturns
  <1>15. ASSUME NEW q \in Quests, InitReturnsTooLate(q) \/ InitRaises(q) PROVE RivalInv'
    BY <1>15, RivalEnd DEF InitReturnsTooLate, InitRaises, Procs
  <1>16. ASSUME NEW q \in Quests, OneIsDone(q) PROVE RivalInv'
    BY <1>16, RivalLeft DEF OneIsDone
  <1>17. ASSUME NEW t \in Tasks, SessionAborts(t) PROVE RivalInv'
    BY <1>17, RivalAsked DEF SessionAborts
  <1>18. ASSUME ExitStarts \/ ExitIteratorRaises \/ ExitClears
                \/ \E i \in 1..Len(entries) : ExitCloses(i)
         PROVE  RivalInv'
    <2>1. exit.at # "no" \/ \A t \in Tasks : phase[t] = "done"
      BY <1>18 DEF ExitStarts, ExitIteratorRaises, ExitClears, ExitCloses, Visits
    <2>2. UNCHANGED <<phase, closer, pc, target, cancelReq, cancelling, ahead>>
      BY <1>18 DEF ExitStarts, ExitIteratorRaises, ExitClears, ExitCloses
    <2> QED  BY <2>1, <2>2, RivalLeft
  <1>19. ASSUME NEW i \in 1..Len(entries), ExitCancels(i) PROVE RivalInv'
    <2>1. exit.at # "no" /\ \A x \in Quests : closer'[x] => closer[x]
      BY <1>19 DEF ExitCancels, Visits, TypeOK
    <2> QED  BY <1>19, <2>1, RivalAsked DEF ExitCancels
  <1>20. ASSUME ExitCloseEnds PROVE RivalInv'
    <2>1. exit.at # "no" /\ \A x \in Quests : closer'[x] => closer[x]
      BY <1>20 DEF ExitCloseEnds, TypeOK
    <2> QED  BY <1>20, <2>1, RivalAsked DEF ExitCloseEnds
  <1>21. CASE UNCHANGED vars
    BY <1>21, RivalLeft DEF vars
  <1> QED
    BY <1>1, <1>2, <1>3, <1>4, <1>5, <1>6, <1>7, <1>8, <1>9, <1>10, <1>11, <1>12, <1>13,
       <1>14, <1>15, <1>16, <1>17, <1>18, <1>19, <1>20, <1>21
    DEF Next, CallerStep, WakeUp, QuestStep, ExitWalks

\* Steps that start, register and close nothing cannot orphan a quest.
LEMMA OrphanQuiet ==
  ASSUME OrphanInv, UNCHANGED registry,
         exit'.at = "no" => exit.at = "no",
         \A p \in Procs : pc[p] \in {"add", "remove"} =>
             pc'[p] = pc[p] /\ target'[p] = target[p] /\ adding'[p] = adding[p],
         \A p \in Procs : pc'[p] = "add" => pc[p] = "add",
         \A q \in Quests : Uncancelled(q)' => Uncancelled(q)
  PROVE  SlotOK' /\ NoOrphan'
  <1>1. SlotOK'  BY DEF OrphanInv, SlotOK
  <1>2. ASSUME exit'.at = "no", NEW q \in Quests, Uncancelled(q)'
        PROVE  registry'[NameOf[q]] = q \/ BeingClosed(q)'
    <2>1. registry[NameOf[q]] = q \/ \E p \in Procs : Closing(p, q)
      BY <1>2 DEF OrphanInv, NoOrphan, BeingClosed
    <2>2. ASSUME NEW p \in Procs, Closing(p, q) PROVE Closing(p, q)'
      BY <2>2 DEF Closing
    <2> QED  BY <2>1, <2>2 DEF BeingClosed
  <1> QED  BY <1>1, <1>2 DEF NoOrphan

\* The end of a caller that is not suspended in a close step is such a step.
LEMMA OrphanEnd ==
  ASSUME OrphanInv, NEW p \in Procs, NEW how, pc[p] \in {"idle", "get"}, End(p, how),
         UNCHANGED <<registry, cancelling, exit>>
  PROVE  SlotOK' /\ NoOrphan'
  <1>1. \A q \in Quests : Uncancelled(q)' => Uncancelled(q)
    BY DEF OrphanInv, TypeInv, TypeOK, End, Ends, Uncancelled, Live, Procs
  <1>2. \A o \in Procs : o # p =>
          pc'[o] = pc[o] /\ target'[o] = target[o] /\ adding'[o] = adding[o]
    BY DEF OrphanInv, TypeInv, TypeOK, End, Back
  <1>3. pc'[p] # "add"  BY DEF OrphanInv, TypeInv, TypeOK, End, Back
  <1> QED  BY <1>1, <1>2, <1>3, OrphanQuiet

\* The end of a close step: its quest is cancelled, and an add() goes on to
\* register the quest it holds.
LEMMA OrphanResume ==
  ASSUME OrphanInv, NEW p \in Procs, pc[p] \in {"add", "remove"},
         Resume(p), Back(p), UNCHANGED exit,
         cancelling' = [cancelling EXCEPT ![target[p]] = @ \/ Live(target[p])]
  PROVE  SlotOK' /\ NoOrphan'
  <1> USE DEF OrphanInv, TypeInv
  <1>1. target[p] \in Quests /\ phase[target[p]] \notin {"unborn", "made"}
    BY DEF CallersOK
  <1>2. \A q \in Quests : Uncancelled(q)' /\ Live(q) => Uncancelled(q) /\ q # target[p]
    <2>1. \A q \in Quests : cancelling'[q] = IF q = target[p] THEN cancelling[q] \/ Live(q) ELSE cancelling[q]
      BY <1>1 DEF TypeOK, Procs
    <2> QED  BY <2>1 DEF Uncancelled
  <1>3. \A o \in Procs : o # p => pc'[o] = pc[o] /\ target'[o] = target[o]
                                                /\ adding'[o] = adding[o]
    BY DEF Back, TypeOK
  <1>4. pc'[p] = "idle"  BY DEF Back, TypeOK
  <1>5. CASE pc[p] = "remove"
    <2>1. UNCHANGED <<registry, phase>>  BY <1>5 DEF Resume
    <2>2. SlotOK'  BY <1>3, <1>4, <2>1 DEF SlotOK
    <2>3. ASSUME exit'.at = "no", NEW q \in Quests, Uncancelled(q)'
          PROVE  registry'[NameOf[q]] = q \/ BeingClosed(q)'
      <3>1. Uncancelled(q) /\ q # target[p]  BY <1>2, <2>1, <2>3 DEF Uncancelled, Live
      <3>2. registry[NameOf[q]] = q \/ \E o \in Procs : Closing(o, q)
        BY <2>3, <3>1 DEF NoOrphan, BeingClosed
      <3> QED  BY <1>3, <2>1, <3>1, <3>2 DEF BeingClosed, Closing
    <2> QED  BY <2>2, <2>3 DEF NoOrphan
  <1>6. CASE pc[p] = "add"
    <2> DEFINE new == adding[p]
    <2>1. new \in Quests /\ phase[new] = "made" /\ NameOf[target[p]] = NameOf[new]
      BY <1>6 DEF CallersOK
    <2>2. registry' = [registry EXCEPT ![NameOf[new]] = new]
          /\ phase' = [phase EXCEPT ![new] = "created"]
      BY <1>6 DEF Resume, Register
    <2>3. NameOf[new] \in Names  BY <2>1, QuestsAssumption
    <2>4. ASSUME NEW o \in Procs, pc'[o] = "add"
          PROVE  registry'[NameOf[adding'[o]]] \in {target'[o], NoQuest}
      <3>1. o # p /\ pc[o] = "add"  BY <1>3, <1>4, <2>4
      <3>2. adding[o] \in Quests  BY <3>1 DEF CallersOK
      <3>3. NameOf[adding[o]] # NameOf[new]  BY <1>6, <3>1 DEF SlotOK
      <3> QED  BY <1>3, <2>2, <3>1, <3>3 DEF SlotOK
    <2>5. ASSUME exit'.at = "no", NEW q \in Quests, Uncancelled(q)'
          PROVE  registry'[NameOf[q]] = q \/ BeingClosed(q)'
      <3>1. CASE q = new
        BY <2>2, <2>3, <3>1 DEF TypeOK
      <3>2. CASE q # new
        <4>1. Uncancelled(q) /\ q # target[p]
          BY <1>2, <2>2, <2>5, <3>2 DEF Uncancelled, Live
        <4>2. registry[NameOf[q]] = q \/ \E o \in Procs : Closing(o, q)
          BY <2>5, <4>1 DEF NoOrphan, BeingClosed
        <4>3. CASE registry[NameOf[q]] = q
          <5>1. NameOf[q] # NameOf[new]
            BY <1>6, <4>1, <4>3, QuestsAssumption DEF SlotOK
          <5> QED  BY <2>2, <4>3, <5>1
        <4>4. CASE \E o \in Procs : Closing(o, q)
          BY <1>3, <4>1, <4>4 DEF BeingClosed, Closing
        <4> QED  BY <4>2, <4>3, <4>4
      <3> QED  BY <3>1, <3>2
    <2>6. ASSUME NEW r \in Procs, pc'[r] = "add", NEW o \in Procs, pc'[o] = "add",
                 NameOf[adding'[o]] = NameOf[adding'[r]]
          PROVE  o = r
      BY <1>3, <1>4, <2>6 DEF SlotOK
    <2> QED  BY <2>4, <2>5, <2>6 DEF SlotOK, NoOrphan
  <1> QED  BY <1>5, <1>6

\* Registering a started quest over one that is cancelled orphans none, provided
\* no other caller is suspended in an add() of that name.
LEMMA OrphanRegister ==
  ASSUME OrphanInv, NEW p \in Procs, NEW q \in Quests, MayCall(p),
         p = MadeBy[q], phase[q] = "unborn", Register(q),
         phase' = [phase EXCEPT ![q] = "created"],
         UNCHANGED <<pc, target, adding, exit>>,
         \A x \in Quests : cancelling[x] => cancelling'[x],
         registry[NameOf[q]] # NoQuest => ~Live(registry[NameOf[q]])
                                          \/ cancelling'[registry[NameOf[q]]]
  PROVE  SlotOK' /\ NoOrphan'
  <1> USE DEF OrphanInv, TypeInv
  <1>1. NameOf[q] \in Names  BY QuestsAssumption
  <1>2. registry' = [registry EXCEPT ![NameOf[q]] = q]  BY DEF Register
  <1>3. ASSUME NEW o \in Procs, pc[o] = "add"
        PROVE  registry'[NameOf[adding[o]]] \in {target[o], NoQuest}
    <2>1. NameOf[adding[o]] # NameOf[q]  BY <1>3, NoRival
    <2> QED  BY <1>2, <1>3, <2>1 DEF SlotOK
  <1>4. ASSUME exit.at = "no", NEW x \in Quests, Uncancelled(x)'
        PROVE  registry'[NameOf[x]] = x \/ BeingClosed(x)'
    <2>1. CASE x = q
      BY <1>1, <1>2, <2>1 DEF TypeOK
    <2>2. CASE x # q
      <3>1. Uncancelled(x)  BY <1>4, <2>2 DEF Uncancelled, Live
      <3>2. registry[NameOf[x]] = x \/ \E o \in Procs : Closing(o, x)
        BY <1>4, <3>1 DEF NoOrphan, BeingClosed
      <3>3. registry[NameOf[x]] = x => NameOf[x] # NameOf[q]
        BY <1>4, <3>1, QuestsAssumption DEF Uncancelled
      <3> QED  BY <1>2, <3>2, <3>3 DEF BeingClosed, Closing
    <2> QED  BY <2>1, <2>2
  <1> QED  BY <1>3, <1>4 DEF SlotOK, NoOrphan

LEMMA OrphanStep == OrphanInv /\ [Next]_vars => OrphanInv'
  <1> SUFFICES ASSUME OrphanInv, [Next]_vars PROVE OrphanInv'
    OBVIOUS
  <1> USE DEF OrphanInv, TypeInv
  <1>0. TypeInv'  BY TypeStep
  <1> SUFFICES SlotOK' /\ NoOrphan'
    BY <1>0, RivalStep
  <1>1. ASSUME NEW p \in Procs, NEW q \in Quests, AddFirst(p, q) PROVE SlotOK' /\ NoOrphan'
    BY <1>1, OrphanRegister DEF AddFirst, Starts
  <1>2. ASSUME NEW p \in Procs, NEW q \in Quests, AddReplacing(p, q)
        PROVE SlotOK' /\ NoOrphan'
    <2>1. NameOf[q] \in Names  BY QuestsAssumption
    <2>2. registry[NameOf[q]] \in Quests \cup {NoQuest}  BY <2>1 DEF TypeOK
    <2>3. registry[NameOf[q]] # NoQuest  BY <1>2 DEF AddReplacing
    <2>4. registry[NameOf[q]] \in Procs  BY <2>2, <2>3 DEF Procs
    <2> QED  BY <1>2, <2>4, OrphanRegister DEF AddReplacing, Starts, AskCancel, TypeOK, Procs
  <1>3. ASSUME NEW p \in Procs, NEW q \in Quests, AddClosing(p, q)
        PROVE SlotOK' /\ NoOrphan'
    <2>1. \A o \in Procs : o # p => pc'[o] = pc[o] /\ target'[o] = target[o]
                                                  /\ adding'[o] = adding[o]
      BY <1>3 DEF AddClosing, TypeOK
    <2>2. adding'[p] = q /\ target'[p] = registry[NameOf[q]] /\ pc[p] = "idle"
      BY <1>3 DEF AddClosing, MayCall, TypeOK
    <2>3. SlotOK'
      <3>1. \A o \in Procs : pc[o] = "add" => NameOf[adding[o]] # NameOf[q]
        BY <1>3, NoRival DEF AddClosing
      <3> QED  BY <1>3, <2>1, <2>2, <3>1 DEF AddClosing, SlotOK
    <2>4. ASSUME exit'.at = "no", NEW x \in Quests, Uncancelled(x)'
          PROVE  registry'[NameOf[x]] = x \/ BeingClosed(x)'
      <3>1. Uncancelled(x)  BY <1>3, <2>4 DEF AddClosing, Uncancelled, Live, TypeOK, Procs
      <3>2. registry[NameOf[x]] = x \/ \E o \in Procs : Closing(o, x)
        BY <1>3, <2>4, <3>1 DEF AddClosing, NoOrphan, BeingClosed
      <3> QED  BY <1>3, <2>1, <2>2, <3>2 DEF AddClosing, BeingClosed, Closing
    <2> QED  BY <2>3, <2>4 DEF NoOrphan
  <1>4. ASSUME NEW p \in Procs, NEW q \in Quests, GetWaits(p, q)
        PROVE SlotOK' /\ NoOrphan'
    <2>1. \A x \in Quests : Uncancelled(x)' => Uncancelled(x)
      BY <1>4 DEF GetWaits, Uncancelled, Live
    <2> QED  BY <1>4, <2>1, OrphanQuiet DEF GetWaits, MayCall, TypeOK
  <1>5. ASSUME NEW p \in Procs, NEW n \in Names, RemoveCancelling(p, n)
        PROVE SlotOK' /\ NoOrphan'
    <2>1. registry[n] \in Quests /\ registry[n] \in Procs
      BY <1>5 DEF RemoveCancelling, TypeOK, Procs
    <2>2. registry' = [registry EXCEPT ![n] = NoQuest]
      BY <1>5 DEF RemoveCancelling, Unregister
    <2>3. SlotOK'  BY <1>5, <2>2 DEF RemoveCancelling, SlotOK, TypeOK
    <2>4. ASSUME exit'.at = "no", NEW x \in Quests, Uncancelled(x)'
          PROVE  registry'[NameOf[x]] = x \/ BeingClosed(x)'
      <3>1. Uncancelled(x) /\ x # registry[n]
        BY <1>5, <2>1, <2>4
        DEF RemoveCancelling, AskCancel, Uncancelled, Live, TypeOK, Procs
      <3>2. registry[NameOf[x]] = x \/ \E o \in Procs : Closing(o, x)
        BY <1>5, <2>4, <3>1 DEF RemoveCancelling, NoOrphan, BeingClosed
      <3> QED
        BY <1>5, <2>2, <3>1, <3>2 DEF RemoveCancelling, BeingClosed, Closing
    <2> QED  BY <2>3, <2>4 DEF NoOrphan
  <1>6. ASSUME NEW p \in Procs, NEW n \in Names, RemoveClosing(p, n)
        PROVE SlotOK' /\ NoOrphan'
    <2>1. registry' = [registry EXCEPT ![n] = NoQuest]
      BY <1>6 DEF RemoveClosing, Unregister
    <2>2. \A o \in Procs : o # p => pc'[o] = pc[o] /\ target'[o] = target[o]
                                                  /\ adding'[o] = adding[o]
      BY <1>6 DEF RemoveClosing, TypeOK
    <2>3. pc'[p] = "remove" /\ target'[p] = registry[n] /\ pc[p] = "idle"
      BY <1>6 DEF RemoveClosing, MayCall, TypeOK
    <2>4. SlotOK'  BY <1>6, <2>1, <2>2, <2>3 DEF SlotOK, TypeOK
    <2>5. ASSUME exit'.at = "no", NEW x \in Quests, Uncancelled(x)'
          PROVE  registry'[NameOf[x]] = x \/ BeingClosed(x)'
      <3>1. registry[NameOf[x]] = x \/ \E o \in Procs : Closing(o, x)
        BY <1>6, <2>5 DEF RemoveClosing, Uncancelled, Live, NoOrphan, BeingClosed
      <3> QED  BY <2>1, <2>2, <2>3, <3>1 DEF BeingClosed, Closing
    <2> QED  BY <2>4, <2>5 DEF NoOrphan
  <1>7. ASSUME NEW p \in Procs, RunEnds(p) PROVE SlotOK' /\ NoOrphan'
    BY <1>7, OrphanEnd DEF RunEnds, MayCall
  <1>8. ASSUME NEW p \in Procs, CloseReturns(p) PROVE SlotOK' /\ NoOrphan'
    BY <1>8, OrphanResume DEF CloseReturns, AskCancel
  <1>9. ASSUME NEW p \in Procs, CloseSwallowsCancel(p) PROVE SlotOK' /\ NoOrphan'
    BY <1>9, OrphanResume DEF CloseSwallowsCancel
  <1>10. ASSUME NEW p \in Procs, CloseRaises(p) PROVE SlotOK' /\ NoOrphan'
    <2>1. target[p] \in Quests /\ target[p] \in Procs
      BY <1>10 DEF CloseRaises, CallersOK, Procs
    <2>2. \A o \in Procs : o # p => pc'[o] = pc[o] /\ target'[o] = target[o]
                                                  /\ adding'[o] = adding[o]
      BY <1>10 DEF CloseRaises, Back, TypeOK
    <2>3. pc'[p] = "idle"  BY <1>10 DEF CloseRaises, Back, TypeOK
    <2>4. SlotOK'  BY <1>10, <2>2, <2>3 DEF CloseRaises, SlotOK
    <2>5. ASSUME exit'.at = "no", NEW x \in Quests, Uncancelled(x)'
          PROVE  registry'[NameOf[x]] = x \/ BeingClosed(x)'
      <3>1. Uncancelled(x) /\ x # target[p]
        BY <1>10, <2>1, <2>5 DEF CloseRaises, Ends, AskCancel, Uncancelled, Live, TypeOK, Procs
      <3>2. registry[NameOf[x]] = x \/ \E o \in Procs : Closing(o, x)
        BY <1>10, <2>5, <3>1 DEF CloseRaises, NoOrphan, BeingClosed
      <3> QED  BY <1>10, <2>2, <3>1, <3>2 DEF CloseRaises, BeingClosed, Closing
    <2> QED  BY <2>4, <2>5 DEF NoOrphan
  <1>11. ASSUME NEW p \in Procs, GetReturns(p) PROVE SlotOK' /\ NoOrphan'
    <2>1. \A x \in Quests : Uncancelled(x)' => Uncancelled(x)
      BY <1>11 DEF GetReturns, Uncancelled, Live
    <2> QED  BY <1>11, <2>1, OrphanQuiet DEF GetReturns, Back, TypeOK
  <1>12. ASSUME NEW p \in Procs, GetRaises(p) PROVE SlotOK' /\ NoOrphan'
    BY <1>12, OrphanEnd DEF GetRaises
  <1>13. ASSUME NEW p \in Procs, CancelDelivered(p) PROVE SlotOK' /\ NoOrphan'
    BY <1>13, OrphanEnd DEF CancelDelivered
  <1>14. ASSUME NEW q \in Quests, InitStarts(q) \/ InitReturns(q) PROVE SlotOK' /\ NoOrphan'
    <2>1. \A x \in Quests : Uncancelled(x)' => Uncancelled(x)
      BY <1>14 DEF InitStarts, InitReturns, Uncancelled, Live, TypeOK, Procs
    <2> QED  BY <1>14, <2>1, OrphanQuiet DEF InitStarts, InitReturns
  <1>15. ASSUME NEW q \in Quests, InitReturnsTooLate(q) \/ InitRaises(q)
         PROVE SlotOK' /\ NoOrphan'
    <2>1. q \in Procs /\ pc[q] = "idle"
      BY <1>15 DEF InitReturnsTooLate, InitRaises, CallersOK, Procs, TypeOK
    <2> QED  BY <1>15, <2>1, OrphanEnd DEF InitReturnsTooLate, InitRaises
  <1>16. ASSUME NEW q \in Quests, OneIsDone(q) PROVE SlotOK' /\ NoOrphan'
    <2>1. \A x \in Quests : Uncancelled(x)' => Uncancelled(x)
      BY <1>16 DEF OneIsDone, Uncancelled, Live
    <2> QED  BY <1>16, <2>1, OrphanQuiet DEF OneIsDone
  <1>17. ASSUME NEW t \in Tasks, SessionAborts(t) PROVE SlotOK' /\ NoOrphan'
    <2>1. \A x \in Quests : Uncancelled(x)' => Uncancelled(x)
      BY <1>17 DEF SessionAborts, AskCancel, Uncancelled, Live, TypeOK, Procs
    <2> QED  BY <1>17, <2>1, OrphanQuiet DEF SessionAborts
  <1>18. ASSUME ExitStarts \/ ExitIteratorRaises \/ ExitCloseEnds \/ ExitClears
                \/ (\E i \in 1..Len(entries) : ExitCancels(i) \/ ExitCloses(i))
         PROVE SlotOK' /\ NoOrphan'
    <2>1. exit'.at # "no"
      BY <1>18 DEF ExitStarts, ExitIteratorRaises, ExitCloseEnds, ExitClears, ExitCancels,
                   ExitCloses, Visited, ExitGoes, Exit
    <2>2. SlotOK'
      BY <1>18, QuestsAssumption
      DEF ExitStarts, ExitIteratorRaises, ExitCloseEnds, ExitClears, ExitCancels,
          ExitCloses, SlotOK, CallersOK
    <2> QED  BY <2>1, <2>2 DEF NoOrphan
  <1>19. CASE UNCHANGED vars
    <2>1. \A x \in Quests : Uncancelled(x)' => Uncancelled(x)
      BY <1>19 DEF vars, Uncancelled, Live
    <2> QED  BY <1>19, <2>1, OrphanQuiet DEF vars
  <1> QED
    BY <1>1, <1>2, <1>3, <1>4, <1>5, <1>6, <1>7, <1>8, <1>9, <1>10, <1>11, <1>12, <1>13,
       <1>14, <1>15, <1>16, <1>17, <1>18, <1>19
    DEF Next, CallerStep, WakeUp, QuestStep, ExitWalks

\* Adding a quest cancels the previous one, though it suspends in between and is
\* called by a new quest every turn: until the manager exits, no running quest
\* that nobody cancelled is out of the manager's reach.
THEOREM AddCancelsThePrevious == Spec => []NoOrphan
  <1>1. OrphanInv /\ [Next]_vars => OrphanInv'  BY OrphanStep
  <1>2. OrphanInv => NoOrphan  BY DEF OrphanInv
  <1> QED  BY <1>1, <1>2, OrphanInit, PTL DEF Spec

-----------------------------------------------------------------------------
(* What init steps acquired: the inductive invariant behind NoLeak and
   LeavesAllClosed. *)

\* What the init and the close step of a quest have done so far.
StagesOK ==
    \A q \in Quests :
        /\ phase[q] \in {"unborn", "made", "created", "init"} =>
             /\ resource[q] = "none" /\ data[q] # "ready"
             /\ cancelReq[q] \/ (closer[q] <=> NameOf[q] \in HasClose)
        /\ resource[q] = "open" =>
             /\ data[q] \in {"ready", "cancelled"}
             /\ data[q] = "ready" => closer[q]

\* A close step is awaited of a quest whose init step has succeeded.
ClosersOK ==
    /\ \A p \in Procs : pc[p] \in {"add", "remove"} => data[target[p]] = "ready"
    /\ exit.at = "closing" => exit.quest \in Quests /\ data[exit.quest] = "ready"

\* The entries of the dict are its keys.
EntriesOK ==
    /\ \A n \in Names : registry[n] # NoQuest => \E i \in DOMAIN entries : entries[i] = n
    /\ \A i \in DOMAIN entries : entries[i] # Hole => registry[entries[i]] # NoQuest

\* A quest that is registered, and that the exit is still to come to.
Reachable(q) ==
    /\ registry[NameOf[q]] = q
    /\ exit.at # "no" =>
         exit.at # "left" /\ \E i \in DOMAIN entries : entries[i] = NameOf[q] /\ i >= exit.pos

\* Before the exit, the quests that matter are all; later, those that are owned.
Matters(q) == exit.at = "no" \/ (exit.at # "raised" /\ Owned(NameOf[q]))

ReachOK ==
    \A q \in Quests : Matters(q) =>
        /\ phase[q] \in {"created", "init"} => Reachable(q) \/ cancelReq[q]
        /\ resource[q] = "open" /\ data[q] = "ready" => Reachable(q) \/ BeingClosed(q)

LeakInv == OrphanInv /\ StagesOK /\ ClosersOK /\ EntriesOK /\ ReachOK

Early(p) == phase[p] \in {"unborn", "made", "created", "init"}
Young(p) == phase[p] \in {"created", "init"}

\* What task.cancel() does to the flag and to the futures of init steps.
LEMMA AskCancelEffect ==
  ASSUME TypeOK, NEW q \in Procs, AskCancel(q)
  PROVE  /\ \A x \in Procs : cancelReq[x] => cancelReq'[x]
         /\ Live(q) => cancelReq'[q]
         /\ \A x \in Quests : data'[x] = data[x] \/ (data[x] = "pending" /\ data'[x] = "cancelled")
  BY DEF AskCancel, TypeOK, DataAfterCancel, Procs

LEMMA LeakInit == Init => LeakInv
  <1> SUFFICES ASSUME Init PROVE LeakInv  OBVIOUS
  <1>1. exit.at = "no"  BY DEF Init, Exit
  <1>2. StagesOK  BY DEF Init, StagesOK, Procs
  <1>3. ClosersOK  BY <1>1 DEF Init, ClosersOK
  <1>4. EntriesOK  BY DEF Init, EntriesOK
  <1>5. ReachOK
    <2> SUFFICES ASSUME NEW q \in Quests PROVE phase[q] \notin {"created", "init"} /\ resource[q] # "open"
      BY DEF ReachOK
    <2> QED  BY QuestsAssumption DEF Init, Procs
  <1> QED  BY <1>2, <1>3, <1>4, <1>5, OrphanInit DEF LeakInv

\* A step that makes no init step succeed keeps the invariant if the quests that matter
\* stay within reach.
LEMMA LeakKept ==
  ASSUME LeakInv, OrphanInv', EntriesOK', ClosersOK',
         \A x \in Quests :
            /\ data'[x] = data[x] \/ (data[x] = "pending" /\ data'[x] # "ready")
            /\ Early(x)' => Early(x) /\ (cancelReq[x] => cancelReq'[x])
            /\ \/ closer'[x] = closer[x]
               \/ closer'[x] = FALSE /\ (Early(x)' => cancelReq'[x])
                  /\ ~(resource'[x] = "open" /\ data'[x] = "ready")
            /\ resource'[x] = resource[x] \/ (resource'[x] # "open" /\ ~Early(x))
            /\ Matters(x)' => Matters(x)
            /\ Matters(x)' /\ Young(x)' =>
                 Reachable(x)' \/ cancelReq'[x] \/ (Young(x) /\ ~Reachable(x))
            /\ Matters(x)' /\ resource'[x] = "open" /\ data'[x] = "ready" =>
                 /\ Reachable(x) => Reachable(x)' \/ BeingClosed(x)'
                 /\ BeingClosed(x) => BeingClosed(x)'
  PROVE  LeakInv'
  <1> USE DEF LeakInv
  <1>1. StagesOK'
    <2> SUFFICES ASSUME NEW q \in Quests
                 PROVE  /\ Early(q)' => /\ resource'[q] = "none" /\ data'[q] # "ready"
                                        /\ cancelReq'[q] \/ (closer'[q] <=> NameOf[q] \in HasClose)
                        /\ resource'[q] = "open" => /\ data'[q] \in {"ready", "cancelled"}
                                                    /\ data'[q] = "ready" => closer'[q]
      BY DEF StagesOK, Early
    <2>1. Early(q)' => resource'[q] = "none" /\ data'[q] # "ready"  BY DEF StagesOK, Early
    <2>2. Early(q)' => cancelReq'[q] \/ (closer'[q] <=> NameOf[q] \in HasClose)
      BY DEF StagesOK, Early
    <2>3. resource'[q] = "open" => resource[q] = "open"  OBVIOUS
    <2>4. resource'[q] = "open" => data'[q] \in {"ready", "cancelled"} /\ data'[q] = data[q]
      BY <2>3 DEF StagesOK
    <2>5. resource'[q] = "open" /\ data'[q] = "ready" => closer'[q]
      BY <2>3, <2>4 DEF StagesOK
    <2> QED  BY <2>1, <2>2, <2>4, <2>5
  <1>2. ReachOK'
    <2> SUFFICES ASSUME NEW q \in Quests, Matters(q)'
                 PROVE  /\ Young(q)' => Reachable(q)' \/ cancelReq'[q]
                        /\ resource'[q] = "open" /\ data'[q] = "ready" => Reachable(q)' \/ BeingClosed(q)'
      BY DEF ReachOK, Young
    <2>1. Matters(q)  OBVIOUS
    <2>2. Young(q)' => Reachable(q)' \/ cancelReq'[q]
      <3>1. Young(q)' => Early(q)'  BY DEF Young, Early
      <3>2. Young(q) => Reachable(q) \/ cancelReq[q]  BY <2>1 DEF ReachOK, Young
      <3> QED  BY <3>1, <3>2
    <2>3. ASSUME resource'[q] = "open", data'[q] = "ready" PROVE Reachable(q)' \/ BeingClosed(q)'
      <3>1. resource[q] = "open" /\ data[q] = "ready"  BY <2>3
      <3>2. Reachable(q) \/ BeingClosed(q)  BY <2>1, <3>1 DEF ReachOK
      <3> QED  BY <2>3, <3>2
    <2> QED  BY <2>2, <2>3
  <1> QED  BY <1>1, <1>2

\* A step that leaves the dict, the close steps and who awaits them alone, and makes
\* no quest younger.
LEMMA LeakQuiet ==
  ASSUME LeakInv, OrphanInv', UNCHANGED <<registry, entries, closer, resource, exit>>,
         \A q \in Quests :
            /\ data'[q] = data[q] \/ (data[q] = "pending" /\ data'[q] # "ready")
            /\ Early(q)' => Early(q) /\ (cancelReq[q] => cancelReq'[q])
            /\ Young(q)' => Young(q),
         \A p \in Procs : pc[p] \in {"add", "remove"} \/ pc'[p] \in {"add", "remove"} =>
            pc'[p] = pc[p] /\ target'[p] = target[p]
  PROVE  LeakInv'
  <1>1. ClosersOK'
    <2>1. \A p \in Procs : pc[p] \in {"add", "remove"} => target[p] \in Quests
      BY DEF LeakInv, OrphanInv, TypeInv, CallersOK
    <2> QED  BY <2>1 DEF LeakInv, ClosersOK
  <1>2. EntriesOK'  BY DEF LeakInv, EntriesOK
  <1>3. \A q \in Quests : Matters(q)' = Matters(q) /\ Reachable(q)' = Reachable(q)
    BY DEF Matters, Reachable
  <1>4. \A q \in Quests : BeingClosed(q) => BeingClosed(q)'  BY DEF BeingClosed, Closing
  <1> QED  BY <1>1, <1>2, <1>3, <1>4, LeakKept

\* Registering keeps the entries that are there, and adds one for the quest.
LEMMA RegisterEntries ==
  ASSUME TypeOK, EntriesOK, NEW q \in Quests, Register(q)
  PROVE  /\ EntriesOK'
         /\ \A i \in DOMAIN entries : i \in DOMAIN entries' /\ entries'[i] = entries[i]
  <1>1. NameOf[q] \in Names  BY QuestsAssumption
  <1>2. registry' = [registry EXCEPT ![NameOf[q]] = q]  BY DEF Register
  <1>3. CASE registry[NameOf[q]] = NoQuest
    <2>1. entries' = Append(entries, NameOf[q])  BY <1>3 DEF Register
    <2>2. /\ Len(entries) \in Nat /\ DOMAIN entries = 1..Len(entries)
          /\ DOMAIN entries' = 1..(Len(entries) + 1)
          /\ \A i \in 1..Len(entries) : entries'[i] = entries[i]
          /\ entries'[Len(entries) + 1] = NameOf[q]
      BY <1>1, <2>1 DEF TypeOK
    <2>3. \A i \in DOMAIN entries : i \in DOMAIN entries' /\ entries'[i] = entries[i]  BY <2>2
    <2>4. Len(entries) + 1 \in DOMAIN entries'  BY <2>2
    <2>5. \A i \in DOMAIN entries' : i \in DOMAIN entries \/ i = Len(entries) + 1  BY <2>2
    <2>6. ASSUME NEW n \in Names, registry'[n] # NoQuest PROVE \E i \in DOMAIN entries' : entries'[i] = n
      <3>1. CASE n = NameOf[q]  BY <2>2, <2>4, <3>1
      <3>2. CASE n # NameOf[q]
        <4>1. registry[n] # NoQuest  BY <1>1, <1>2, <2>6, <3>2 DEF TypeOK
        <4> QED  BY <2>3, <4>1 DEF EntriesOK
      <3> QED  BY <3>1, <3>2
    <2>7. ASSUME NEW i \in DOMAIN entries', entries'[i] # Hole PROVE registry'[entries'[i]] # NoQuest
      <3>1. CASE i \in DOMAIN entries
        <4>1. entries[i] \in Names /\ registry[entries[i]] # NoQuest /\ entries'[i] = entries[i]
          BY <2>3, <2>7, <3>1, <2>2 DEF EntriesOK, TypeOK
        <4> QED  BY <1>1, <1>2, <4>1, QuestsAssumption DEF TypeOK
      <3>2. CASE i = Len(entries) + 1
        BY <1>1, <1>2, <2>2, <3>2, QuestsAssumption DEF TypeOK
      <3> QED  BY <2>5, <3>1, <3>2
    <2> QED  BY <2>3, <2>6, <2>7 DEF EntriesOK
  <1>4. CASE registry[NameOf[q]] # NoQuest
    <2>1. entries' = entries  BY <1>4 DEF Register
    <2>2. \A n \in Names : registry'[n] # NoQuest <=> registry[n] # NoQuest
      BY <1>1, <1>2, <1>4, QuestsAssumption DEF TypeOK
    <2>3. \A i \in DOMAIN entries : entries[i] # Hole => entries[i] \in Names
      BY DEF TypeOK
    <2> QED  BY <2>1, <2>2, <2>3 DEF EntriesOK
  <1> QED  BY <1>3, <1>4

\* Popping a name leaves the entries of the others where they are.
LEMMA UnregisterEntries ==
  ASSUME TypeOK, EntriesOK, NEW n \in Names, Unregister(n)
  PROVE  /\ EntriesOK' /\ DOMAIN entries' = DOMAIN entries
         /\ \A i \in DOMAIN entries : entries[i] # n => entries'[i] = entries[i]
  <1>1. registry' = [registry EXCEPT ![n] = NoQuest]
        /\ entries' = [i \in DOMAIN entries |-> IF entries[i] = n THEN Hole ELSE entries[i]]
    BY DEF Unregister
  <1>2. \A i \in DOMAIN entries : entries[i] # Hole => entries[i] \in Names  BY DEF TypeOK
  <1>3. \A m \in Names : registry'[m] = IF m = n THEN NoQuest ELSE registry[m]
    BY <1>1 DEF TypeOK
  <1>4. n # Hole  BY QuestsAssumption DEF Hole
  <1>5. \A i \in DOMAIN entries' : entries'[i] # Hole => entries[i] = entries'[i] /\ entries[i] # n
    BY <1>1
  <1>6. ASSUME NEW m \in Names, registry'[m] # NoQuest PROVE \E i \in DOMAIN entries' : entries'[i] = m
    <2>1. m # n /\ registry[m] # NoQuest  BY <1>3, <1>6
    <2> QED  BY <1>1, <2>1 DEF EntriesOK
  <1>7. ASSUME NEW i \in DOMAIN entries', entries'[i] # Hole PROVE registry'[entries'[i]] # NoQuest
    BY <1>1, <1>2, <1>3, <1>5, <1>7 DEF EntriesOK
  <1> QED  BY <1>1, <1>6, <1>7 DEF EntriesOK

\* A quest that a caller registers is within reach, and takes the place of one that is
\* cancelled and has nothing to close, or that somebody is closing.
LEMMA LeakRegister ==
  ASSUME LeakInv, OrphanInv', ClosersOK', NEW p \in Procs, NEW q \in Quests, phase[p] = "run",
         p = MadeBy[q], phase[q] \in {"unborn", "made"}, Register(q),
         phase' = [phase EXCEPT ![q] = "created"], UNCHANGED exit,
         \A x \in Quests :
            /\ data'[x] = data[x] \/ (data[x] = "pending" /\ data'[x] # "ready")
            /\ Early(x) /\ cancelReq[x] => cancelReq'[x]
            /\ \/ closer'[x] = closer[x]
               \/ closer'[x] = FALSE /\ (Early(x) => x # q /\ cancelReq'[x])
                  /\ ~(resource'[x] = "open" /\ data'[x] = "ready")
            /\ resource'[x] = resource[x] \/ (resource'[x] # "open" /\ ~Early(x))
            /\ BeingClosed(x) /\ resource'[x] = "open" /\ data'[x] = "ready" => BeingClosed(x)'
            /\ registry[NameOf[q]] = x =>
                 /\ Young(x) => cancelReq'[x]
                 /\ resource'[x] = "open" /\ data'[x] = "ready" => BeingClosed(x)'
  PROVE  LeakInv'
  <1> USE DEF LeakInv, OrphanInv, TypeInv
  <1>1. NameOf[q] \in Names  BY QuestsAssumption
  <1>2. \A x \in Quests : phase'[x] = IF x = q THEN "created" ELSE phase[x]
    BY DEF TypeOK, Procs
  <1>3. EntriesOK' /\ \A i \in DOMAIN entries : i \in DOMAIN entries' /\ entries'[i] = entries[i]
    BY RegisterEntries
  <1>5. \A x \in Quests : Matters(x)' = Matters(x)  BY DEF Matters
  <1>6. Matters(q) => exit.at = "no"
    BY DEF Matters, Owned, RivalInv, ExitOK
  <1>7. \A x \in Quests : Early(x)' => Early(x)  BY <1>2 DEF Early
  <1>8. ASSUME NEW x \in Quests, Matters(x)
        PROVE  /\ x = q => Reachable(x)'
               /\ registry[NameOf[x]] = x /\ registry[NameOf[q]] # x /\ Reachable(x) => Reachable(x)'
    <2>1. registry' = [registry EXCEPT ![NameOf[q]] = q]  BY DEF Register
    <2>2. CASE x = q
      <3>1. registry'[NameOf[q]] = q  BY <1>1, <2>1 DEF TypeOK
      <3>2. exit'.at = "no"  BY <1>6, <1>8, <2>2
      <3> QED  BY <2>2, <3>1, <3>2, QuestsAssumption DEF Reachable, RegistryOK
    <2>3. CASE x # q
      <3>1. ASSUME registry[NameOf[x]] = x, registry[NameOf[q]] # x, Reachable(x) PROVE Reachable(x)'
        <4>1. registry'[NameOf[x]] = x
          BY <1>1, <2>1, <3>1, QuestsAssumption DEF TypeOK
        <4>2. exit'.at # "no" => exit'.at # "left" /\ \E i \in DOMAIN entries' :
                                    entries'[i] = NameOf[x] /\ i >= exit'.pos
          BY <1>3, <3>1 DEF Reachable
        <4> QED  BY <4>1, <4>2 DEF Reachable
      <3> QED  BY <2>3, <3>1
    <2> QED  BY <2>2, <2>3
  <1>9. \A x \in Quests : Matters(x) /\ Young(x)' =>
            Reachable(x)' \/ cancelReq'[x] \/ (Young(x) /\ ~Reachable(x))
    BY <1>2, <1>8 DEF Young, Reachable
  <1>10. \A x \in Quests : Matters(x) /\ resource'[x] = "open" /\ data'[x] = "ready" =>
            /\ Reachable(x) => Reachable(x)' \/ BeingClosed(x)'
            /\ BeingClosed(x) => BeingClosed(x)'
    BY <1>8 DEF Reachable
  <1>11. \A x \in Quests : \/ closer'[x] = closer[x]
                           \/ closer'[x] = FALSE /\ (Early(x)' => cancelReq'[x])
                              /\ ~(resource'[x] = "open" /\ data'[x] = "ready")
    BY <1>7
  <1>12. \A x \in Quests : Early(x)' => Early(x) /\ (cancelReq[x] => cancelReq'[x])  BY <1>7
  <1> QED  BY <1>3, <1>5, <1>9, <1>10, <1>11, <1>12, LeakKept

\* A quest that matters is removed by nobody once the session's tasks are done.
LEMMA Removed ==
  ASSUME LeakInv, NEW p \in Procs, NEW n \in Names, phase[p] = "run", Calls(p, RemovedBy[n]),
         Unregister(n), UNCHANGED exit, NEW x \in Quests, Matters(x), Reachable(x),
         registry[n] # x
  PROVE  Reachable(x)'
  <1> USE DEF LeakInv, OrphanInv, TypeInv
  <1>1. NameOf[x] # n  BY DEF Reachable
  <1>2. NameOf[x] \in Names  BY QuestsAssumption
  <1>3. registry'[NameOf[x]] = x  BY <1>1, <1>2 DEF Unregister, Reachable, TypeOK
  <1>4. DOMAIN entries' = DOMAIN entries
        /\ \A i \in DOMAIN entries : entries[i] # n => entries'[i] = entries[i]
    BY UnregisterEntries
  <1> QED  BY <1>1, <1>3, <1>4 DEF Reachable

LEMMA LeakCalls ==
  ASSUME LeakInv, OrphanInv', NEW p \in Procs, CallerStep(p)
  PROVE  LeakInv'
  <1> USE DEF LeakInv, OrphanInv, TypeInv
  <1>0. phase[p] = "run" /\ pc[p] = "idle"
    BY DEF CallerStep, AddFirst, AddReplacing, AddClosing, GetWaits, RemoveCancelling, RemoveClosing,
           RunEnds, MayCall
  <1>1. ASSUME NEW q \in Quests, AddFirst(p, q) PROVE LeakInv'
    <2>1. ClosersOK'  BY <1>1 DEF AddFirst, ClosersOK
    <2>2. \A x \in Quests : BeingClosed(x)' = BeingClosed(x)  BY <1>1 DEF AddFirst, BeingClosed, Closing
    <2>3. registry[NameOf[q]] = NoQuest /\ NoQuest \notin Quests  BY <1>1, QuestsAssumption DEF AddFirst
    <2> QED  BY <1>0, <1>1, <2>1, <2>2, <2>3, LeakRegister DEF AddFirst, Starts
  <1>2. ASSUME NEW q \in Quests, AddReplacing(p, q) PROVE LeakInv'
    <2>0. PICK old \in Quests : old = registry[NameOf[q]]
      <3>1. NameOf[q] \in Names  BY QuestsAssumption
      <3> QED  BY <1>2, <3>1 DEF AddReplacing, TypeOK
    <2>1. old \in Procs /\ phase[old] \notin {"unborn", "made"}
      <3>1. NameOf[q] \in Names /\ old # NoQuest  BY QuestsAssumption
      <3> QED  BY <2>0, <3>1 DEF RegistryOK, Procs
    <2>2. AskCancel(old) /\ ~NeedsClose(old) /\ closer' = [closer EXCEPT ![old] = FALSE]
      BY <1>2, <2>0 DEF AddReplacing
    <2>3. phase[q] = "unborn" /\ p = MadeBy[q] /\ Register(q)
          /\ phase' = [phase EXCEPT ![q] = "created"] /\ UNCHANGED <<resource, pc, target, exit>>
      BY <1>2 DEF AddReplacing, Starts
    <2>4. /\ \A x \in Procs : cancelReq[x] => cancelReq'[x]
          /\ Live(old) => cancelReq'[old]
          /\ \A x \in Quests : data'[x] = data[x] \/ (data[x] = "pending" /\ data'[x] = "cancelled")
      BY <2>1, <2>2, AskCancelEffect
    <2>5. Early(old) => Live(old)  BY <2>1 DEF Early, Live
    <2>6. ~(resource'[old] = "open" /\ data'[old] = "ready")
      BY <2>1, <2>2, <2>3, <2>4 DEF StagesOK, NeedsClose
    <2>7. \A x \in Quests : closer'[x] = IF x = old THEN FALSE ELSE closer[x]
      BY <2>2 DEF TypeOK
    <2>8. \A x \in Quests : BeingClosed(x)' = BeingClosed(x)  BY <2>3 DEF BeingClosed, Closing
    <2>9. ClosersOK'
      <3>1. \A o \in Procs : pc[o] \in {"add", "remove"} => target[o] \in Quests  BY DEF CallersOK
      <3> QED  BY <2>3, <2>4, <3>1 DEF ClosersOK
    <2>10. q # old  BY <2>1, <2>3
    <2>11. Young(old) => cancelReq'[old]  BY <2>4 DEF Young, Live
    <2>12. \A x \in Quests : x \in Procs  BY DEF Procs
    <2>13. \A x \in Quests :
            /\ data'[x] = data[x] \/ (data[x] = "pending" /\ data'[x] # "ready")
            /\ Early(x) /\ cancelReq[x] => cancelReq'[x]
            /\ \/ closer'[x] = closer[x]
               \/ closer'[x] = FALSE /\ (Early(x) => x # q /\ cancelReq'[x])
                  /\ ~(resource'[x] = "open" /\ data'[x] = "ready")
            /\ resource'[x] = resource[x]
            /\ BeingClosed(x) => BeingClosed(x)'
            /\ registry[NameOf[q]] = x =>
                 /\ Young(x) => cancelReq'[x]
                 /\ resource'[x] = "open" /\ data'[x] = "ready" => BeingClosed(x)'
      BY <2>0, <2>3, <2>4, <2>5, <2>6, <2>7, <2>8, <2>10, <2>11, <2>12
    <2> QED  BY <1>0, <2>3, <2>9, <2>13, LeakRegister
  <1>3. ASSUME NEW q \in Quests, AddClosing(p, q) PROVE LeakInv'
    <2>0. PICK old : old = registry[NameOf[q]]  OBVIOUS
    <2>1. /\ pc' = [pc EXCEPT ![p] = "add"] /\ target' = [target EXCEPT ![p] = old]
          /\ phase' = [phase EXCEPT ![q] = "made"] /\ phase[q] = "unborn" /\ data[old] = "ready"
          /\ UNCHANGED <<registry, entries, data, closer, resource, cancelReq, exit>>
      BY <1>3, <2>0 DEF AddClosing, NeedsClose
    <2>2. /\ \A o \in Procs : pc'[o] = (IF o = p THEN "add" ELSE pc[o])
                              /\ target'[o] = (IF o = p THEN old ELSE target[o])
          /\ \A x \in Procs : phase'[x] = IF x = q THEN "made" ELSE phase[x]
      BY <2>1 DEF TypeOK
    <2>3. ClosersOK'  BY <1>0, <2>1, <2>2 DEF ClosersOK
    <2>4. EntriesOK'  BY <2>1 DEF EntriesOK
    <2>6. \A x \in Quests : Matters(x)' = Matters(x) /\ Reachable(x)' = Reachable(x)
      BY <2>1 DEF Matters, Reachable
    <2>7. \A x \in Quests : BeingClosed(x) => BeingClosed(x)'
      BY <1>0, <2>1, <2>2 DEF BeingClosed, Closing
    <2>8. \A x \in Quests : (Early(x)' => Early(x)) /\ (Young(x)' => Young(x))
      BY <2>1, <2>2 DEF Early, Young, Procs
    <2> QED  BY <2>1, <2>3, <2>4, <2>6, <2>7, <2>8, LeakKept
  <1>4. ASSUME NEW q \in Quests, GetWaits(p, q) PROVE LeakInv'
    <2>1. \A o \in Procs : o # p => pc'[o] = pc[o] /\ target'[o] = target[o]
      BY <1>4 DEF GetWaits, TypeOK
    <2>2. pc'[p] = "get"  BY <1>4 DEF GetWaits, TypeOK
    <2> QED  BY <1>0, <1>4, <2>1, <2>2, LeakQuiet DEF GetWaits, Early, Young
  <1>5. ASSUME NEW n \in Names, RemoveCancelling(p, n) PROVE LeakInv'
    <2>0. PICK old \in Quests : old = registry[n]
      BY <1>5 DEF RemoveCancelling, TypeOK
    <2>1. old \in Procs /\ phase[old] \notin {"unborn", "made"}
      <3>1. old # NoQuest  BY QuestsAssumption
      <3> QED  BY <2>0, <3>1 DEF RegistryOK, Procs
    <2>2. AskCancel(old) /\ ~NeedsClose(old) /\ closer' = [closer EXCEPT ![old] = FALSE]
          /\ Unregister(n) /\ Calls(p, RemovedBy[n])
          /\ UNCHANGED <<phase, resource, pc, target, exit>>
      BY <1>5, <2>0 DEF RemoveCancelling
    <2>3. /\ \A x \in Procs : cancelReq[x] => cancelReq'[x]
          /\ Live(old) => cancelReq'[old]
          /\ \A x \in Quests : data'[x] = data[x] \/ (data[x] = "pending" /\ data'[x] = "cancelled")
      BY <2>1, <2>2, AskCancelEffect
    <2>4. (Early(old) => Live(old)) /\ (Young(old) => Live(old))  BY <2>1 DEF Early, Young, Live
    <2>5. ~(resource'[old] = "open" /\ data'[old] = "ready")
      BY <2>1, <2>2, <2>3 DEF StagesOK, NeedsClose
    <2>6. \A x \in Quests : closer'[x] = IF x = old THEN FALSE ELSE closer[x]
      BY <2>2 DEF TypeOK
    <2>7. \A x \in Quests : BeingClosed(x)' = BeingClosed(x)  BY <2>2 DEF BeingClosed, Closing
    <2>8. ClosersOK'
      <3>1. \A o \in Procs : pc[o] \in {"add", "remove"} => target[o] \in Quests  BY DEF CallersOK
      <3> QED  BY <2>2, <2>3, <3>1 DEF ClosersOK
    <2>9. EntriesOK'  BY <2>2, UnregisterEntries
    <2>11. \A x \in Quests : x \in Procs /\ Matters(x)' = Matters(x) /\ Early(x)' = Early(x)
                             /\ Young(x)' = Young(x)
      BY <2>2 DEF Procs, Matters, Early, Young
    <2>12. \A x \in Quests : Matters(x) /\ Reachable(x) /\ x # old => Reachable(x)'
      BY <1>0, <2>0, <2>2, Removed
    <2> QED
      BY <2>2, <2>3, <2>4, <2>5, <2>6, <2>7, <2>8, <2>9, <2>11, <2>12, LeakKept
  <1>6. ASSUME NEW n \in Names, RemoveClosing(p, n) PROVE LeakInv'
    <2>0. PICK old \in Quests : old = registry[n]
      BY <1>6 DEF RemoveClosing, TypeOK
    <2>1. /\ Unregister(n) /\ Calls(p, RemovedBy[n]) /\ data[old] = "ready"
          /\ NameOf[old] = n
          /\ pc' = [pc EXCEPT ![p] = "remove"] /\ target' = [target EXCEPT ![p] = old]
          /\ UNCHANGED <<phase, data, closer, resource, cancelReq, exit>>
      BY <1>6, <2>0, QuestsAssumption DEF RemoveClosing, NeedsClose, TypeOK, RegistryOK
    <2>2. \A o \in Procs : pc'[o] = (IF o = p THEN "remove" ELSE pc[o])
                           /\ target'[o] = (IF o = p THEN old ELSE target[o])
      BY <2>1 DEF TypeOK
    <2>3. ClosersOK'  BY <1>0, <2>1, <2>2 DEF ClosersOK
    <2>4. EntriesOK'  BY <2>1, UnregisterEntries
    <2>6. \A x \in Quests : Matters(x)' = Matters(x) /\ Early(x)' = Early(x)
                            /\ Young(x)' = Young(x)
      BY <2>1 DEF Matters, Early, Young
    <2>7. \A x \in Quests : BeingClosed(x) => BeingClosed(x)'
      BY <1>0, <2>1, <2>2 DEF BeingClosed, Closing
    <2>8. BeingClosed(old)'  BY <2>2 DEF BeingClosed, Closing
    <2>9. \A x \in Quests : Matters(x) /\ Reachable(x) /\ x # old => Reachable(x)'
      BY <1>0, <2>0, <2>1, Removed
    <2>10. ~Young(old)  BY <2>1 DEF Young, StagesOK
    <2> QED
      BY <2>1, <2>3, <2>4, <2>6, <2>7, <2>8, <2>9, <2>10, LeakKept
  <1>7. ASSUME RunEnds(p) PROVE LeakInv'
    <2>1. phase' = [phase EXCEPT ![p] = "done"] /\ Back(p)
          /\ cancelReq' = [cancelReq EXCEPT ![p] = FALSE]
          /\ UNCHANGED <<registry, entries, data, closer, resource, exit>>
      BY <1>7 DEF RunEnds, End, Ends
    <2>2. \A x \in Procs : phase'[x] = (IF x = p THEN "done" ELSE phase[x])
                           /\ cancelReq'[x] = (IF x = p THEN FALSE ELSE cancelReq[x])
                           /\ pc'[x] = (IF x = p THEN "idle" ELSE pc[x])
                           /\ (x # p => target'[x] = target[x])
      BY <2>1 DEF TypeOK, Back
    <2>3. \A x \in Quests : Early(x)' => Early(x) /\ (cancelReq[x] => cancelReq'[x])
      BY <2>2 DEF Early, Procs
    <2>4. \A x \in Quests : Young(x)' => Young(x)  BY <2>2 DEF Young, Procs
    <2>6. \A o \in Procs : pc[o] \in {"add", "remove"} \/ pc'[o] \in {"add", "remove"} =>
             pc'[o] = pc[o] /\ target'[o] = target[o]
      BY <1>0, <2>2
    <2> QED  BY <2>1, <2>3, <2>4, <2>6, LeakQuiet
  <1> QED  BY <1>1, <1>2, <1>3, <1>4, <1>5, <1>6, <1>7 DEF CallerStep

\* A caller or a quest that ends, with nothing to add or remove.
LEMMA LeakEnd ==
  ASSUME LeakInv, OrphanInv', NEW p \in Procs, NEW how, End(p, how), pc[p] \in {"idle", "get"},
         UNCHANGED <<registry, entries, closer, exit>>,
         \/ UNCHANGED <<data, resource>>
         \/ UNCHANGED resource /\ data[p] = "pending" /\ data' = [data EXCEPT ![p] = "failed"]
         \/ UNCHANGED data /\ data[p] = "cancelled"
            /\ resource' = [resource EXCEPT ![p] = IF NameOf[p] \in HasClose THEN "open" ELSE @]
  PROVE  LeakInv'
  <1> USE DEF LeakInv, OrphanInv, TypeInv
  <1>1. phase' = [phase EXCEPT ![p] = "done"] /\ Back(p) /\ cancelReq' = [cancelReq EXCEPT ![p] = FALSE]
    BY DEF End, Ends
  <1>2. \A x \in Procs : /\ phase'[x] = (IF x = p THEN "done" ELSE phase[x])
                         /\ cancelReq'[x] = (IF x = p THEN FALSE ELSE cancelReq[x])
                         /\ pc'[x] = (IF x = p THEN "idle" ELSE pc[x])
                         /\ (x # p => target'[x] = target[x])
    BY <1>1 DEF TypeOK, Back
  <1>3. \A x \in Quests : Early(x)' => Early(x) /\ (cancelReq[x] => cancelReq'[x])
    BY <1>2 DEF Early, Procs
  <1>4. \A x \in Quests : Young(x)' => Young(x)  BY <1>2 DEF Young, Procs
  <1>6. \A o \in Procs : pc[o] \in {"add", "remove"} \/ pc'[o] \in {"add", "remove"} =>
           pc'[o] = pc[o] /\ target'[o] = target[o]
    BY <1>2
  <1>7. CASE UNCHANGED resource
    <2>1. \A x \in Quests : data'[x] = data[x] \/ (data[x] = "pending" /\ data'[x] # "ready")
      BY <1>7 DEF TypeOK
    <2> QED  BY <1>3, <1>4, <1>6, <1>7, <2>1, LeakQuiet
  <1>8. CASE UNCHANGED data /\ data[p] = "cancelled"
             /\ resource' = [resource EXCEPT ![p] = IF NameOf[p] \in HasClose THEN "open" ELSE @]
    <2>1. \A x \in Quests : /\ x # p => resource'[x] = resource[x]
                            /\ x = p => data'[x] = "cancelled" /\ ~Early(x)'
      <3>1. \A x \in Quests : x # p => resource'[x] = resource[x]  BY <1>8 DEF TypeOK
      <3>2. data'[p] = "cancelled" /\ phase'[p] = "done"  BY <1>2, <1>8
      <3> QED  BY <3>1, <3>2 DEF Early
    <2>2. StagesOK'
      <3> SUFFICES ASSUME NEW x \in Quests
                   PROVE  /\ Early(x)' => /\ resource'[x] = "none" /\ data'[x] # "ready"
                                          /\ cancelReq'[x] \/ (closer'[x] <=> NameOf[x] \in HasClose)
                          /\ resource'[x] = "open" => /\ data'[x] \in {"ready", "cancelled"}
                                                      /\ data'[x] = "ready" => closer'[x]
        BY DEF StagesOK, Early
      <3>1. CASE x = p  BY <2>1, <3>1
      <3>2. CASE x # p
        <4>1. cancelReq'[x] = cancelReq[x] /\ phase'[x] = phase[x]  BY <1>2, <3>2 DEF Procs
        <4> QED  BY <1>8, <2>1, <3>2, <4>1 DEF StagesOK, Early
      <3> QED  BY <3>1, <3>2
    <2>3. ClosersOK'  BY <1>6, <1>8 DEF ClosersOK
    <2>4. EntriesOK'  BY DEF EntriesOK
    <2>5. ReachOK'
      <3> SUFFICES ASSUME NEW x \in Quests, Matters(x)'
                   PROVE  /\ Young(x)' => Reachable(x)' \/ cancelReq'[x]
                          /\ resource'[x] = "open" /\ data'[x] = "ready" => Reachable(x)' \/ BeingClosed(x)'
        BY DEF ReachOK, Young
      <3>1. Matters(x) /\ (Reachable(x)' <=> Reachable(x))  BY DEF Matters, Reachable
      <3>2. BeingClosed(x) => BeingClosed(x)'  BY <1>6 DEF BeingClosed, Closing
      <3>3. Young(x)' => Reachable(x)' \/ cancelReq'[x]
        BY <1>3, <1>4, <3>1 DEF ReachOK, Young, Early
      <3>4. resource'[x] = "open" /\ data'[x] = "ready" => Reachable(x)' \/ BeingClosed(x)'
        BY <1>8, <2>1, <3>1, <3>2 DEF ReachOK
      <3> QED  BY <3>3, <3>4
    <2> QED  BY <2>2, <2>3, <2>4, <2>5
  <1> QED  BY <1>7, <1>8

\* The end of a close step, which has released what its quest held or has given it up.
LEMMA LeakResume ==
  ASSUME LeakInv, OrphanInv', NEW p \in Procs, pc[p] \in {"add", "remove"}, Back(p), UNCHANGED exit,
         \A x \in Quests : resource'[x] = resource[x] \/ (x = target[p] /\ resource'[x] # "open"),
         resource'[target[p]] # "open",
         \A x \in Quests : closer'[x] = closer[x] \/ (x = target[p] /\ closer'[x] = FALSE),
         \A x \in Quests : data'[x] = data[x] \/ (data[x] = "pending" /\ data'[x] # "ready"),
         \A x \in Procs : x # p /\ cancelReq[x] => cancelReq'[x],
         \/ Resume(p)
         \/ UNCHANGED <<registry, entries>> /\ phase' = [phase EXCEPT ![p] = "done"]
  PROVE  LeakInv'
  <1> USE DEF LeakInv, OrphanInv, TypeInv
  <1> DEFINE t == target[p]
  <1>1. t \in Quests /\ phase[p] = "run" /\ data[t] = "ready"
    BY DEF CallersOK, ClosersOK
  <1>2. ~Early(t) /\ ~Young(t)  BY <1>1 DEF StagesOK, Early, Young
  <1>3. \A o \in Procs : pc'[o] = (IF o = p THEN "idle" ELSE pc[o])
                         /\ (o # p => target'[o] = target[o])
    BY DEF Back, TypeOK
  <1>4. ClosersOK'
    <2>1. \A o \in Procs : pc[o] \in {"add", "remove"} => target[o] \in Quests  BY DEF CallersOK
    <2> QED  BY <1>3, <2>1 DEF ClosersOK
  <1>5. \A x \in Quests : /\ resource'[x] = resource[x] \/ (resource'[x] # "open" /\ ~Early(x))
                          /\ closer'[x] = closer[x]
                             \/ (closer'[x] = FALSE /\ ~Early(x)
                                 /\ ~(resource'[x] = "open" /\ data'[x] = "ready"))
    BY <1>2
  <1>6. \A x \in Quests : Early(x) /\ cancelReq[x] => cancelReq'[x]
    BY <1>1 DEF Early, Procs
  <1>7. \A x \in Quests : BeingClosed(x) /\ resource'[x] = "open" => BeingClosed(x)'
    BY <1>3 DEF BeingClosed, Closing
  <1>8. CASE pc[p] = "add" /\ Resume(p)
    <2>0. PICK q \in Quests : q = adding[p]  BY <1>8 DEF CallersOK
    <2>1. /\ phase[q] = "made" /\ NameOf[t] = NameOf[q] /\ p = MadeBy[q]
          /\ Register(q) /\ phase' = [phase EXCEPT ![q] = "created"]
      BY <1>8, <2>0 DEF CallersOK, Resume
    <2>2. registry[NameOf[q]] \in {t, NoQuest}  BY <1>8, <2>0 DEF SlotOK
    <2>3. \A x \in Quests : registry[NameOf[q]] = x => x = t  BY <2>2, QuestsAssumption
    <2>4. q # t  BY <1>2, <2>1 DEF Early
    <2>5. \A x \in Quests :
            /\ data'[x] = data[x] \/ (data[x] = "pending" /\ data'[x] # "ready")
            /\ Early(x) /\ cancelReq[x] => cancelReq'[x]
            /\ \/ closer'[x] = closer[x]
               \/ closer'[x] = FALSE /\ (Early(x) => x # q /\ cancelReq'[x])
                  /\ ~(resource'[x] = "open" /\ data'[x] = "ready")
            /\ resource'[x] = resource[x] \/ (resource'[x] # "open" /\ ~Early(x))
            /\ BeingClosed(x) /\ resource'[x] = "open" /\ data'[x] = "ready" => BeingClosed(x)'
            /\ registry[NameOf[q]] = x =>
                 /\ Young(x) => cancelReq'[x]
                 /\ resource'[x] = "open" /\ data'[x] = "ready" => BeingClosed(x)'
      BY <1>2, <1>5, <1>6, <1>7, <2>3
    <2>6. phase[q] \in {"unborn", "made"}  BY <2>1
    <2> QED  BY <1>1, <1>4, <2>1, <2>5, <2>6, LeakRegister
  <1>9. CASE UNCHANGED <<registry, entries>> /\ (UNCHANGED phase \/ phase' = [phase EXCEPT ![p] = "done"])
    <2>1. \A x \in Procs : phase'[x] = phase[x] \/ (x = p /\ phase'[x] = "done")
      BY <1>9 DEF TypeOK
    <2>2. \A x \in Quests : (Early(x)' => Early(x)) /\ (Young(x)' => Young(x))
      BY <2>1 DEF Early, Young, Procs
    <2>3. EntriesOK'  BY <1>9, <2>1 DEF EntriesOK
    <2>4. \A x \in Quests : Matters(x)' = Matters(x) /\ Reachable(x)' = Reachable(x)
      BY <1>9 DEF Matters, Reachable
    <2> QED  BY <1>4, <1>5, <1>6, <1>7, <2>2, <2>3, <2>4, LeakKept
  <1> QED  BY <1>8, <1>9 DEF Resume

LEMMA LeakWakes ==
  ASSUME LeakInv, OrphanInv', NEW p \in Procs, WakeUp(p)
  PROVE  LeakInv'
  <1> USE DEF LeakInv, OrphanInv, TypeInv
  <1>1. CASE pc[p] \in {"add", "remove"} /\ (CloseReturns(p) \/ CloseSwallowsCancel(p) \/ CloseRaises(p))
    <2>1. target[p] \in Quests /\ target[p] \in Procs  BY <1>1 DEF CallersOK, Procs
    <2>2. CASE CloseReturns(p)
      <3>1. /\ \A x \in Procs : cancelReq[x] => cancelReq'[x]
            /\ \A x \in Quests : data'[x] = data[x] \/ (data[x] = "pending" /\ data'[x] = "cancelled")
        BY <2>1, <2>2, AskCancelEffect DEF CloseReturns
      <3>2. \A x \in Quests : /\ resource'[x] = (IF x = target[p] THEN "closed" ELSE resource[x])
                              /\ closer'[x] = (IF x = target[p] THEN FALSE ELSE closer[x])
        BY <2>2 DEF CloseReturns, TypeOK
      <3>3. Resume(p) /\ Back(p) /\ UNCHANGED exit  BY <2>2 DEF CloseReturns
      <3> QED  BY <1>1, <2>1, <3>1, <3>2, <3>3, LeakResume
    <2>3. CASE CloseSwallowsCancel(p)
      <3>1. \A x \in Quests : data'[x] = data[x] \/ (data[x] = "pending" /\ data'[x] = "cancelled")
        BY <2>3 DEF CloseSwallowsCancel, DataAfterCancel, TypeOK
      <3>2. \A x \in Procs : x # p /\ cancelReq[x] => cancelReq'[x]
        BY <2>3 DEF CloseSwallowsCancel, TypeOK
      <3>3. \A x \in Quests : /\ resource'[x] = (IF x = target[p] /\ resource[x] = "open"
                                                 THEN "abandoned" ELSE resource[x])
                              /\ closer'[x] = (IF x = target[p] THEN FALSE ELSE closer[x])
        BY <2>3 DEF CloseSwallowsCancel, Abandon, TypeOK
      <3>4. Resume(p) /\ Back(p) /\ UNCHANGED exit  BY <2>3 DEF CloseSwallowsCancel
      <3> QED  BY <1>1, <2>1, <3>1, <3>2, <3>3, <3>4, LeakResume
    <2>4. CASE CloseRaises(p)
      <3>1. /\ \A x \in Procs : cancelReq[x] => cancelReq'[x]
            /\ \A x \in Quests : data'[x] = data[x] \/ (data[x] = "pending" /\ data'[x] = "cancelled")
        BY <2>1, <2>4, AskCancelEffect DEF CloseRaises
      <3>2. \A x \in Quests : resource'[x] = (IF x = target[p] /\ resource[x] = "open"
                                              THEN "abandoned" ELSE resource[x])
        BY <2>4 DEF CloseRaises, Abandon, TypeOK
      <3>3. /\ phase' = [phase EXCEPT ![p] = "done"] /\ Back(p)
            /\ UNCHANGED <<registry, entries, closer, exit>>
        BY <2>4 DEF CloseRaises, Ends
      <3> QED  BY <1>1, <2>1, <3>1, <3>2, <3>3, LeakResume
    <2> QED  BY <1>1, <2>2, <2>3, <2>4
  <1>2. CASE GetReturns(p)
    <2>1. Back(p) /\ pc[p] = "get"
          /\ UNCHANGED <<registry, entries, phase, data, closer, resource, cancelReq, exit>>
      BY <1>2 DEF GetReturns
    <2>2. \A o \in Procs : pc'[o] = (IF o = p THEN "idle" ELSE pc[o]) /\ (o # p => target'[o] = target[o])
      BY <2>1 DEF Back, TypeOK
    <2>3. \A o \in Procs : pc[o] \in {"add", "remove"} \/ pc'[o] \in {"add", "remove"} =>
             pc'[o] = pc[o] /\ target'[o] = target[o]
      BY <2>1, <2>2
    <2> QED  BY <2>1, <2>3, LeakQuiet DEF Early, Young
  <1>3. CASE GetRaises(p)  BY <1>3, LeakEnd DEF GetRaises
  <1>4. CASE CancelDelivered(p)  BY <1>4, LeakEnd DEF CancelDelivered
  <1> QED
    BY <1>1, <1>2, <1>3, <1>4 DEF WakeUp, CloseReturns, CloseSwallowsCancel, CloseRaises

LEMMA LeakQuests ==
  ASSUME LeakInv, OrphanInv', NEW q \in Quests, QuestStep(q)
  PROVE  LeakInv'
  <1> USE DEF LeakInv, OrphanInv, TypeInv
  <1>0. q \in Procs  BY DEF Procs
  <1>1. CASE InitStarts(q)
    <2>1. phase' = [phase EXCEPT ![q] = "init"] /\ phase[q] = "created"
          /\ UNCHANGED <<registry, entries, data, closer, resource, pc, target, cancelReq, exit>>
      BY <1>1 DEF InitStarts
    <2>2. \A x \in Procs : phase'[x] = IF x = q THEN "init" ELSE phase[x]
      BY <2>1 DEF TypeOK
    <2>3. \A x \in Quests : (Early(x)' => Early(x)) /\ (Young(x)' => Young(x))
      BY <2>1, <2>2 DEF Early, Young, Procs
    <2> QED  BY <2>1, <2>3, LeakQuiet
  <1>2. CASE InitReturns(q)
    <2>1. /\ phase[q] = "init" /\ ~cancelReq[q] /\ data[q] = "pending"
          /\ phase' = [phase EXCEPT ![q] = "run"] /\ data' = [data EXCEPT ![q] = "ready"]
          /\ resource' = [resource EXCEPT ![q] = IF NameOf[q] \in HasClose THEN "open" ELSE @]
          /\ UNCHANGED <<registry, entries, closer, pc, target, cancelReq, exit>>
      BY <1>2 DEF InitReturns
    <2>2. /\ \A x \in Procs : phase'[x] = IF x = q THEN "run" ELSE phase[x]
          /\ \A x \in Quests : data'[x] = IF x = q THEN "ready" ELSE data[x]
          /\ \A x \in Quests : x # q => resource'[x] = resource[x]
      BY <2>1 DEF TypeOK
    <2>3. /\ ~Early(q)' /\ ~Young(q)' /\ Young(q)
          /\ \A x \in Quests : x # q => phase'[x] = phase[x]
      BY <1>0, <2>1, <2>2 DEF Early, Young, Procs
    <2>4. resource'[q] = "open" => closer[q]
      <3>1. resource[q] = "none" /\ (closer[q] <=> NameOf[q] \in HasClose)  BY <2>1 DEF StagesOK
      <3>2. resource'[q] = IF NameOf[q] \in HasClose THEN "open" ELSE resource[q]
        BY <2>1 DEF TypeOK
      <3> QED  BY <3>1, <3>2
    <2>5. StagesOK'
      <3> SUFFICES ASSUME NEW x \in Quests
                   PROVE  /\ Early(x)' => /\ resource'[x] = "none" /\ data'[x] # "ready"
                                          /\ cancelReq'[x] \/ (closer'[x] <=> NameOf[x] \in HasClose)
                          /\ resource'[x] = "open" => /\ data'[x] \in {"ready", "cancelled"}
                                                      /\ data'[x] = "ready" => closer'[x]
        BY DEF StagesOK, Early
      <3>1. CASE x = q  BY <2>1, <2>2, <2>3, <2>4, <3>1
      <3>2. CASE x # q  BY <2>1, <2>2, <2>3, <3>2 DEF StagesOK, Early
      <3> QED  BY <3>1, <3>2
    <2>6. ClosersOK'
      <3>1. \A o \in Procs : pc[o] \in {"add", "remove"} => target[o] \in Quests  BY DEF CallersOK
      <3> QED  BY <2>1, <2>2, <3>1 DEF ClosersOK
    <2>7. EntriesOK'  BY <2>1 DEF EntriesOK
    <2>8. ReachOK'
      <3> SUFFICES ASSUME NEW x \in Quests, Matters(x)'
                   PROVE  /\ Young(x)' => Reachable(x)' \/ cancelReq'[x]
                          /\ resource'[x] = "open" /\ data'[x] = "ready" => Reachable(x)' \/ BeingClosed(x)'
        BY DEF ReachOK, Young
      <3>1. Matters(x) /\ (Reachable(x)' <=> Reachable(x)) /\ (BeingClosed(x)' <=> BeingClosed(x))
        BY <2>1 DEF Matters, Reachable, BeingClosed, Closing
      <3>2. CASE x = q
        <4>1. Reachable(q)  BY <2>1, <2>3, <3>1, <3>2 DEF ReachOK, Young
        <4> QED  BY <2>3, <3>1, <3>2, <4>1
      <3>3. CASE x # q  BY <2>1, <2>2, <2>3, <3>1, <3>3 DEF ReachOK, Young
      <3> QED  BY <3>2, <3>3
    <2> QED  BY <2>5, <2>6, <2>7, <2>8
  <1>3. CASE InitReturnsTooLate(q) \/ InitRaises(q)
    <2>1. pc[q] = "idle"
      <3>1. phase[q] # "run"  BY <1>3 DEF InitReturnsTooLate, InitRaises
      <3> QED  BY <1>0, <3>1 DEF CallersOK
    <2> QED  BY <1>0, <1>3, <2>1, LeakEnd DEF InitReturnsTooLate, InitRaises
  <1>4. CASE OneIsDone(q)
    BY <1>4, LeakQuiet DEF OneIsDone, Early, Young
  <1> QED  BY <1>1, <1>2, <1>3, <1>4 DEF QuestStep

LEMMA LeakAborts ==
  ASSUME LeakInv, OrphanInv', NEW t \in Tasks, SessionAborts(t)
  PROVE  LeakInv'
  <1> USE DEF LeakInv, OrphanInv, TypeInv
  <1>1. t \in Procs /\ AskCancel(t)
        /\ UNCHANGED <<registry, entries, phase, closer, resource, pc, target, exit>>
    BY DEF SessionAborts, Procs
  <1>2. /\ \A x \in Procs : cancelReq[x] => cancelReq'[x]
        /\ \A x \in Quests : data'[x] = data[x] \/ (data[x] = "pending" /\ data'[x] = "cancelled")
    BY <1>1, AskCancelEffect
  <1>3. \A x \in Quests : Early(x)' => Early(x) /\ (cancelReq[x] => cancelReq'[x])
    BY <1>1, <1>2 DEF Early, Procs
  <1>4. \A x \in Quests : Young(x)' => Young(x)  BY <1>1 DEF Young
  <1> QED  BY <1>1, <1>2, <1>3, <1>4, LeakQuiet

\* The steps of the exit: an entry is behind the iterator when what it named is closed
\* or cancelled.
LEMMA LeakExits ==
  ASSUME LeakInv, OrphanInv', ExitStarts \/ ExitWalks \/ ExitCloseEnds
  PROVE  LeakInv'
  <1> USE DEF LeakInv, OrphanInv, TypeInv
  <1>1. CASE ExitStarts
    <2>1. /\ exit.at = "no" /\ \A t \in Tasks : phase[t] = "done"
          /\ exit'.at = "walk" /\ exit'.pos = 1
          /\ UNCHANGED <<registry, entries, phase, data, closer, resource, pc, target, cancelReq>>
      BY <1>1 DEF ExitStarts, Exit
    <2>2. ClosersOK' /\ EntriesOK'  BY <2>1 DEF ClosersOK, EntriesOK
    <2>3. \A x \in Quests : Matters(x)' => Matters(x)  BY <2>1 DEF Matters
    <2>4. \A x \in Quests : Reachable(x) => Reachable(x)'
      <3> SUFFICES ASSUME NEW x \in Quests, Reachable(x) PROVE Reachable(x)'
        OBVIOUS
      <3>1. NameOf[x] \in Names /\ registry[NameOf[x]] # NoQuest
        BY QuestsAssumption DEF Reachable
      <3>2. PICK i \in DOMAIN entries : entries[i] = NameOf[x]  BY <3>1 DEF EntriesOK
      <3>3. i >= 1  BY DEF TypeOK
      <3> QED  BY <2>1, <3>2, <3>3 DEF Reachable
    <2>5. \A x \in Quests : BeingClosed(x) => BeingClosed(x)'  BY <2>1 DEF BeingClosed, Closing
    <2> QED  BY <2>1, <2>2, <2>3, <2>4, <2>5, LeakKept DEF Early, Young
  <1>2. CASE ExitIteratorRaises
    <2>1. /\ exit'.at = "raised" /\ exit.at = "walk"
          /\ UNCHANGED <<registry, entries, phase, data, closer, resource, pc, target, cancelReq>>
      BY <1>2 DEF ExitIteratorRaises, ExitGoes, Exit
    <2>2. ClosersOK' /\ EntriesOK'  BY <2>1 DEF ClosersOK, EntriesOK
    <2>3. \A x \in Quests : ~Matters(x)'  BY <2>1 DEF Matters
    <2> QED  BY <2>1, <2>2, <2>3, LeakKept DEF Early, Young
  <1>3. ASSUME NEW i \in 1..Len(entries), ExitCancels(i) \/ ExitCloses(i) PROVE LeakInv'
    <2>1. /\ exit.at = "walk" /\ i \in ToVisit /\ (\A j \in ToVisit : i <= j)
          /\ exit'.at \in {"walk", "closing"} /\ exit'.pos = i + 1
          /\ UNCHANGED <<registry, entries, phase, resource, pc, target>>
      BY <1>3 DEF ExitCancels, ExitCloses, Visits, Visited, Exit
    <2>2. i \in DOMAIN entries /\ i \in Nat /\ entries[i] \in Names
          /\ \A j \in DOMAIN entries : j \in Nat /\ (j >= exit.pos /\ entries[j] # Hole => i <= j)
      <3>1. DOMAIN entries = 1..Len(entries) /\ Len(entries) \in Nat  BY DEF TypeOK
      <3>2. entries[i] # Hole  BY <2>1 DEF ToVisit
      <3>3. entries[i] \in Names \cup {Hole}  BY DEF TypeOK
      <3>4. exit.pos \in Nat  BY DEF TypeOK
      <3>5. ASSUME NEW j \in DOMAIN entries, j >= exit.pos, entries[j] # Hole PROVE i <= j
        <4>1. j \in exit.pos..Len(entries)  BY <3>1, <3>4, <3>5
        <4> QED  BY <2>1, <3>5, <4>1 DEF ToVisit
      <3> QED  BY <3>1, <3>2, <3>3, <3>5
    <2>3. PICK q \in Quests : q = registry[entries[i]] /\ NameOf[q] = entries[i] /\ q \in Procs
                              /\ phase[q] \notin {"unborn", "made"}
      <3>1. registry[entries[i]] # NoQuest  BY <2>2, QuestsAssumption DEF EntriesOK, Hole
      <3> QED  BY <2>2, <3>1 DEF TypeOK, RegistryOK, Procs
    <2>4. \A x \in Quests : Matters(x)' = Matters(x)  BY <2>1 DEF Matters
    <2>5. \A x \in Quests : x # q /\ Reachable(x) => Reachable(x)'
      <3> SUFFICES ASSUME NEW x \in Quests, x # q, Reachable(x) PROVE Reachable(x)'
        OBVIOUS
      <3>1. PICK j \in DOMAIN entries : entries[j] = NameOf[x] /\ j >= exit.pos
        BY <2>1 DEF Reachable
      <3>2. entries[j] # Hole /\ j # i  BY <2>3, <3>1, QuestsAssumption DEF Reachable, Hole
      <3>3. i <= j /\ j \in Nat  BY <2>2, <3>1, <3>2
      <3>4. j >= i + 1  BY <2>2, <3>2, <3>3
      <3> QED  BY <2>1, <3>1, <3>4 DEF Reachable
    <2>6. EntriesOK'  BY <2>1 DEF EntriesOK
    <2>7. \A x \in Quests : Early(x)' = Early(x) /\ Young(x)' = Young(x)  BY <2>1 DEF Early, Young
    <2>8. \A x \in Quests : BeingClosed(x) => BeingClosed(x)'  BY <2>1 DEF BeingClosed, Closing
    <2>9. CASE ExitCancels(i)
      <3>1. /\ ~NeedsClose(q) /\ AskCancel(q) /\ closer' = [closer EXCEPT ![q] = FALSE]
            /\ exit'.at = "walk"
        BY <2>3, <2>9 DEF ExitCancels, Visited, Exit
      <3>2. /\ \A x \in Procs : cancelReq[x] => cancelReq'[x]
            /\ Live(q) => cancelReq'[q]
            /\ \A x \in Quests : data'[x] = data[x] \/ (data[x] = "pending" /\ data'[x] = "cancelled")
        BY <2>3, <3>1, AskCancelEffect
      <3>3. \A x \in Quests : closer'[x] = IF x = q THEN FALSE ELSE closer[x]  BY <3>1 DEF TypeOK
      <3>4. (Early(q) => Live(q)) /\ (Young(q) => Live(q))  BY <2>3 DEF Early, Young, Live
      <3>5. ~(resource'[q] = "open" /\ data'[q] = "ready")
        BY <2>1, <3>1, <3>2 DEF StagesOK, NeedsClose
      <3>6. ClosersOK'
        <4>1. \A o \in Procs : pc[o] \in {"add", "remove"} => target[o] \in Quests  BY DEF CallersOK
        <4> QED  BY <2>1, <3>1, <3>2, <4>1 DEF ClosersOK
      <3>7. \A x \in Quests : cancelReq[x] => cancelReq'[x]  BY <3>2 DEF Procs
      <3> QED
        BY <2>1, <2>4, <2>5, <2>6, <2>7, <2>8, <3>2, <3>3, <3>4, <3>5, <3>6, <3>7, LeakKept
    <2>10. CASE ExitCloses(i)
      <3>1. /\ data[q] = "ready" /\ exit'.at = "closing" /\ exit'.quest = q
            /\ UNCHANGED <<data, closer, cancelReq>>
        BY <2>3, <2>10 DEF ExitCloses, NeedsClose, Visited, Exit
      <3>2. BeingClosed(q)'  BY <3>1 DEF BeingClosed
      <3>3. ~Young(q)  BY <3>1 DEF StagesOK, Young
      <3>4. ClosersOK'  BY <2>1, <3>1 DEF ClosersOK
      <3> QED
        BY <2>1, <2>4, <2>5, <2>6, <2>7, <2>8, <3>1, <3>2, <3>3, <3>4, LeakKept
    <2> QED  BY <1>3, <2>9, <2>10
  <1>4. CASE ExitClears
    <2>1. /\ exit.at = "walk" /\ ToVisit = {} /\ exit'.at = "left"
          /\ registry' = [n \in Names |-> NoQuest] /\ entries' = <<>>
          /\ UNCHANGED <<phase, data, closer, resource, pc, target, cancelReq>>
      BY <1>4 DEF ExitClears, ExitGoes, Exit
    <2>2. ClosersOK'  BY <2>1 DEF ClosersOK
    <2>3. EntriesOK'  BY <2>1 DEF EntriesOK
    <2>4. \A x \in Quests : Matters(x)' = Matters(x)  BY <2>1 DEF Matters
    <2>5. \A x \in Quests : ~Reachable(x)
      <3> SUFFICES ASSUME NEW x \in Quests, Reachable(x) PROVE FALSE
        OBVIOUS
      <3>1. PICK j \in DOMAIN entries : entries[j] = NameOf[x] /\ j >= exit.pos
        BY <2>1 DEF Reachable
      <3>2. j \in exit.pos..Len(entries)  BY <3>1 DEF TypeOK
      <3>3. entries[j] # Hole  BY <3>1, QuestsAssumption DEF Hole
      <3> QED  BY <2>1, <3>2, <3>3 DEF ToVisit
    <2>6. \A x \in Quests : BeingClosed(x) => BeingClosed(x)'  BY <2>1 DEF BeingClosed, Closing
    <2> QED  BY <2>1, <2>2, <2>3, <2>4, <2>5, <2>6, LeakKept DEF Early, Young
  <1>5. CASE ExitCloseEnds
    <2>0. PICK q \in Quests : q = exit.quest /\ q \in Procs /\ data[q] = "ready"
      BY <1>5 DEF ExitCloseEnds, ClosersOK, Procs
    <2>1. /\ exit.at = "closing" /\ AskCancel(q)
          /\ exit'.at = "walk" /\ exit'.pos = exit.pos
          /\ UNCHANGED <<registry, entries, phase, pc, target>>
      BY <1>5, <2>0 DEF ExitCloseEnds, ExitGoes, Exit
    <2>2. /\ \A x \in Quests : x # q => resource'[x] = resource[x] /\ closer'[x] = closer[x]
          /\ resource'[q] # "open" /\ (closer'[q] = FALSE \/ closer'[q] = closer[q])
      BY <1>5, <2>0 DEF ExitCloseEnds, Abandon, TypeOK
    <2>3. /\ \A x \in Procs : cancelReq[x] => cancelReq'[x]
          /\ \A x \in Quests : data'[x] = data[x] \/ (data[x] = "pending" /\ data'[x] = "cancelled")
      BY <2>0, <2>1, AskCancelEffect
    <2>4. ~Early(q)  BY <2>0 DEF StagesOK, Early
    <2>5. ClosersOK'
      <3>1. \A o \in Procs : pc[o] \in {"add", "remove"} => target[o] \in Quests  BY DEF CallersOK
      <3> QED  BY <2>1, <2>3, <3>1 DEF ClosersOK
    <2>6. EntriesOK'  BY <2>1 DEF EntriesOK
    <2>7. \A x \in Quests : Matters(x)' = Matters(x) /\ Reachable(x)' = Reachable(x)
                            /\ Early(x)' = Early(x) /\ Young(x)' = Young(x) /\ x \in Procs
      BY <2>1 DEF Matters, Reachable, Early, Young, Procs
    <2>8. \A x \in Quests : x # q /\ BeingClosed(x) => BeingClosed(x)'
      BY <2>0, <2>1 DEF BeingClosed, Closing
    <2> QED  BY <2>2, <2>3, <2>4, <2>5, <2>6, <2>7, <2>8, LeakKept
  <1> QED  BY <1>1, <1>2, <1>3, <1>4, <1>5 DEF ExitWalks

LEMMA LeakStep == LeakInv /\ [Next]_vars => LeakInv'
  <1> SUFFICES ASSUME LeakInv, [Next]_vars PROVE LeakInv'
    OBVIOUS
  <1>1. OrphanInv'  BY OrphanStep DEF LeakInv
  <1>2. CASE UNCHANGED vars
    BY <1>1, <1>2, LeakQuiet DEF vars, Early, Young
  <1> QED
    BY <1>1, <1>2, LeakCalls, LeakWakes, LeakQuests, LeakAborts, LeakExits DEF Next

-----------------------------------------------------------------------------
(* The theorems *)

\* What an init step acquired is within reach of a close step for as long as the session
\* lasts: it belongs to a registered quest, or to one that is being closed.
THEOREM NothingLeaks == Spec => []NoLeak
  <1>1. LeakInv /\ [Next]_vars => LeakInv'  BY LeakStep
  <1>2. LeakInv => NoLeak
    BY DEF LeakInv, StagesOK, ReachOK, Matters, Reachable, NoLeak
  <1> QED  BY <1>1, <1>2, LeakInit, PTL DEF Spec

\* An exit that comes to its end has closed every quest that only the session's own
\* tasks add and remove, whatever the other quests do while it awaits a close step.
THEOREM ExitClosesTheOwned == Spec => []LeavesAllClosed
  <1>1. LeakInv /\ [Next]_vars => LeakInv'  BY LeakStep
  <1>2. LeakInv => LeavesAllClosed
    <2> SUFFICES ASSUME LeakInv, exit.at = "left", NEW q \in Quests, Owned(NameOf[q]),
                        resource[q] = "open", data[q] # "cancelled"
                 PROVE  FALSE
      BY DEF LeavesAllClosed
    <2>1. data[q] = "ready"  BY DEF LeakInv, StagesOK
    <2>2. BeingClosed(q)  BY <2>1 DEF LeakInv, ReachOK, Matters, Reachable
    <2>3. PICK p \in Procs : Closing(p, q)  BY <2>2 DEF BeingClosed
    <2>4. p \in Tasks
      BY <2>3 DEF Owned, Closing, LeakInv, OrphanInv, TypeInv, CallersOK
    <2>5. phase[p] = "run"  BY <2>3 DEF Closing, LeakInv, OrphanInv, TypeInv, CallersOK
    <2> QED  BY <2>4, <2>5 DEF LeakInv, OrphanInv, RivalInv, ExitOK
  <1> QED  BY <1>1, <1>2, LeakInit, PTL DEF Spec
=============================================================================
