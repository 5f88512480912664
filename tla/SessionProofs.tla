---------------------------- MODULE SessionProofs ----------------------------
(* Proofs about Session, for every set of clients and every number of slots. *)
EXTENDS Session, FiniteSetTheorems, TLAPS

\* The sessions that have a slot are no more than there are slots.
SlotsOK == Cardinality({c \in Clients : HasSlot(c)}) <= MaxClients

\* An STT is connected only while the session is between its start and its exit.
SttOK(c) ==
    /\ route[c] \in {"none", "waiting", "starting"} => stt[c] = "none" /\ gauge[c] = 0
    /\ stt[c] \in {"open", "lost"} =>
          gauge[c] = 1 /\ route[c] \in {"checking", "running", "exiting"}
    /\ stt[c] = "shut" => route[c] = "closing"
    /\ route[c] = "closing" => stt[c] \in {"shut", "over"}

\* What is behind the end of a session: a loop is over because something was raised,
\* and a socket is closed with a word to the user, if they are there.
EndOK(c) ==
    /\ client[c] = "away" => route[c] = "none"
    /\ route[c] \in {"none", "waiting"} => raised[c] = {}
    /\ route[c] \notin {"none", "waiting"} => socket[c] \in {"open", "closed"}
    /\ socket[c] = "closed" => client[c] = "left" \/ told[c] # "nothing"
    /\ route[c] = "running" => loop[c]["recv"] # "none"
    /\ route[c] = "running" /\ loop[c]["recv"] = "over" => raised[c] # {}
    /\ cancelled[c] # {} => raised[c] # {}
    /\ "closed" \in raised[c] => client[c] = "left" \/ socket[c] = "closed"
    /\ route[c] \in {"exiting", "closing"} => raised[c] # {} \/ socket[c] = "closed"
    /\ route[c] = "reporting" => raised[c] # {}
    /\ route[c] = "over" => client[c] = "left" \/ told[c] # "nothing"

IInv == TypeOK /\ SlotsOK /\ \A c \in Clients : SttOK(c) /\ EndOK(c)

\* What a step leaves alone of a client.
Same(d) ==
    /\ client'[d] = client[d] /\ route'[d] = route[d] /\ socket'[d] = socket[d]
    /\ loop'[d] = loop[d] /\ cancelled'[d] = cancelled[d] /\ aborted'[d] = aborted[d]
    /\ raised'[d] = raised[d]
    /\ stt'[d] = stt[d] /\ gauge'[d] = gauge[d] /\ told'[d] = told[d]

LEMMA SameOK ==
  ASSUME NEW d \in Clients, SttOK(d), EndOK(d), Same(d)
  PROVE  SttOK(d)' /\ EndOK(d)'
  BY DEF SttOK, EndOK, Same

\* A session that gives its slot back makes room, whatever the others do.
LEMMA FewerSlots ==
  ASSUME SlotsOK, \A d \in Clients : HasSlot(d)' => HasSlot(d)
  PROVE  SlotsOK'
  <1> DEFINE S == {d \in Clients : HasSlot(d)}
  <1> DEFINE T == {d \in Clients : HasSlot(d)'}
  <1>1. IsFiniteSet(S)  BY SlotsAssumption, FS_Subset
  <1>2. T \subseteq S  OBVIOUS
  <1>3. IsFiniteSet(T) /\ Cardinality(T) <= Cardinality(S)  BY <1>1, <1>2, FS_Subset
  <1>4. Cardinality(S) \in Nat /\ Cardinality(T) \in Nat  BY <1>1, <1>3, FS_CardinalityType
  <1> HIDE DEF S, T
  <1>5. Cardinality(T) <= MaxClients  BY <1>3, <1>4, SlotsAssumption DEF SlotsOK, S
  <1> QED  BY <1>5 DEF SlotsOK, T

\* A session that takes a free slot.
LEMMA SlotTaken ==
  ASSUME NEW c \in Clients, SlotIsFree,
         \A d \in Clients \ {c} : HasSlot(d)' = HasSlot(d)
  PROVE  SlotsOK'
  <1> DEFINE S == {d \in Clients : HasSlot(d)}
  <1> DEFINE T == {d \in Clients : HasSlot(d)'}
  <1>1. IsFiniteSet(S) /\ Cardinality(S) \in Nat
    BY SlotsAssumption, FS_Subset, FS_CardinalityType
  <1>2. T \subseteq S \cup {c}  OBVIOUS
  <1> HIDE DEF S, T
  <1>3. /\ IsFiniteSet(S \cup {c})
        /\ Cardinality(S \cup {c}) = Cardinality(S) \/ Cardinality(S \cup {c}) = Cardinality(S) + 1
    BY <1>1, FS_AddElement, Zenon
  <1>4. Cardinality(S \cup {c}) \in Nat  BY <1>3, FS_CardinalityType
  <1>5. IsFiniteSet(T) /\ Cardinality(T) <= Cardinality(S \cup {c})  BY <1>2, <1>3, FS_Subset
  <1>6. Cardinality(T) \in Nat  BY <1>5, FS_CardinalityType
  <1>7. Cardinality(S) < MaxClients  BY DEF SlotIsFree, S
  <1>8. Cardinality(T) <= MaxClients
    BY <1>1, <1>3, <1>4, <1>5, <1>6, <1>7, SlotsAssumption
  <1> QED  BY <1>8 DEF SlotsOK, T

\* A step of one session keeps the invariant if it keeps that session's part of it.
LEMMA StepOfOne ==
  ASSUME IInv, NEW c \in Clients, TypeOK',
         \A d \in Clients \ {c} : Same(d),
         HasSlot(c)' => HasSlot(c),
         SttOK(c)', EndOK(c)'
  PROVE  IInv'
  <1>1. \A d \in Clients : HasSlot(d)' => HasSlot(d)  BY DEF HasSlot, Same
  <1>2. SlotsOK'  BY <1>1, FewerSlots DEF IInv
  <1>3. \A d \in Clients : SttOK(d)' /\ EndOK(d)'  BY SameOK DEF IInv
  <1> QED  BY <1>2, <1>3 DEF IInv

LEMMA InitOK == Init => IInv
  <1> SUFFICES ASSUME Init PROVE IInv  OBVIOUS
  <1>1. TypeOK  BY DEF Init, TypeOK, Loops, Errors, Routes
  <1>2. {c \in Clients : HasSlot(c)} = {}  BY DEF Init, HasSlot
  <1>3. SlotsOK  BY <1>2, FS_EmptySet, SlotsAssumption DEF SlotsOK
  <1>4. \A c \in Clients : SttOK(c) /\ EndOK(c)  BY DEF Init, SttOK, EndOK
  <1> QED  BY <1>1, <1>3, <1>4 DEF IInv

LEMMA StepOK == IInv /\ [Next]_vars => IInv'
  <1> SUFFICES ASSUME IInv, [Next]_vars PROVE IInv'  OBVIOUS
  <1>1. ASSUME NEW c \in Clients, Connect(c) PROVE IInv'
    <2>1. TypeOK'  BY <1>1 DEF IInv, TypeOK, Loops, Errors, Routes, Connect, tasks
    <2>2. \A d \in Clients \ {c} : Same(d)
      BY <1>1 DEF IInv, TypeOK, Connect, tasks, Same
    <2>0. /\ route[c] = "none" /\ route'[c] = "waiting"
          /\ stt'[c] = stt[c] /\ gauge'[c] = gauge[c]
      BY <1>1 DEF IInv, TypeOK, EndOK, Connect
    <2>3. (HasSlot(c)' => HasSlot(c)) /\ SttOK(c)'
      BY <2>0 DEF IInv, HasSlot, SttOK
    <2>4. EndOK(c)'
      BY <1>1 DEF IInv, TypeOK, Connect, tasks, EndOK, Loops, Errors
    <2> QED  BY <2>1, <2>2, <2>3, <2>4, StepOfOne
  <1>2. ASSUME NEW c \in Clients, Leave(c) PROVE IInv'
    <2>1. TypeOK'  BY <1>2 DEF IInv, TypeOK, Loops, Errors, Routes, Leave, tasks
    <2>2. \A d \in Clients \ {c} : Same(d)
      BY <1>2 DEF IInv, TypeOK, Leave, tasks, Same
    <2>3. (HasSlot(c)' => HasSlot(c)) /\ SttOK(c)'
      BY <1>2 DEF IInv, TypeOK, Leave, tasks, HasSlot, SttOK
    <2>4. EndOK(c)'
      BY <1>2 DEF IInv, TypeOK, Leave, tasks, EndOK, Loops, Errors
    <2> QED  BY <2>1, <2>2, <2>3, <2>4, StepOfOne
  <1>3. ASSUME NEW c \in Clients, SttReady(c) PROVE IInv'
    <2>1. TypeOK'  BY <1>3 DEF IInv, TypeOK, Loops, Errors, Routes, SttReady, tasks
    <2>2. \A d \in Clients \ {c} : Same(d)
      BY <1>3 DEF IInv, TypeOK, SttReady, tasks, Same
    <2>3. (HasSlot(c)' => HasSlot(c)) /\ SttOK(c)'
      BY <1>3 DEF IInv, TypeOK, SttReady, tasks, HasSlot, SttOK
    <2>4. EndOK(c)'
      BY <1>3 DEF IInv, TypeOK, SttReady, tasks, EndOK, Loops, Errors
    <2> QED  BY <2>1, <2>2, <2>3, <2>4, StepOfOne
  <1>4. ASSUME NEW c \in Clients, SttFails(c) PROVE IInv'
    <2>1. TypeOK'  BY <1>4 DEF IInv, TypeOK, Loops, Errors, Routes, SttFails, tasks, ServiceErrors
    <2>2. \A d \in Clients \ {c} : Same(d)
      BY <1>4 DEF IInv, TypeOK, SttFails, tasks, ServiceErrors, Same
    <2>3. (HasSlot(c)' => HasSlot(c)) /\ SttOK(c)'
      BY <1>4 DEF IInv, TypeOK, SttFails, tasks, ServiceErrors, HasSlot, SttOK
    <2>4. EndOK(c)'
      BY <1>4 DEF IInv, TypeOK, SttFails, tasks, ServiceErrors, EndOK, Loops, Errors
    <2> QED  BY <2>1, <2>2, <2>3, <2>4, StepOfOne
  <1>5. ASSUME NEW c \in Clients, Healthy(c) PROVE IInv'
    <2>1. TypeOK'  BY <1>5 DEF IInv, TypeOK, Loops, Errors, Routes, Healthy, tasks, Loops
    <2>2. \A d \in Clients \ {c} : Same(d)
      BY <1>5 DEF IInv, TypeOK, Healthy, tasks, Loops, Same
    <2>3. (HasSlot(c)' => HasSlot(c)) /\ SttOK(c)'
      BY <1>5 DEF IInv, TypeOK, Healthy, tasks, Loops, HasSlot, SttOK
    <2>4. EndOK(c)'
      BY <1>5 DEF IInv, TypeOK, Healthy, tasks, Loops, EndOK, Errors
    <2> QED  BY <2>1, <2>2, <2>3, <2>4, StepOfOne
  <1>6. ASSUME NEW c \in Clients, Unhealthy(c) PROVE IInv'
    <2>1. TypeOK'  BY <1>6 DEF IInv, TypeOK, Loops, Errors, Routes, Unhealthy, tasks
    <2>2. \A d \in Clients \ {c} : Same(d)
      BY <1>6 DEF IInv, TypeOK, Unhealthy, tasks, Same
    <2>3. (HasSlot(c)' => HasSlot(c)) /\ SttOK(c)'
      BY <1>6 DEF IInv, TypeOK, Unhealthy, tasks, HasSlot, SttOK
    <2>4. EndOK(c)'
      BY <1>6 DEF IInv, TypeOK, Unhealthy, tasks, EndOK, Loops, Errors
    <2> QED  BY <2>1, <2>2, <2>3, <2>4, StepOfOne
  <1>7. ASSUME NEW c \in Clients, Receive(c) PROVE IInv'
    <2>1. Awaits(c, "recv", "reading") /\ Step(c, "recv", "handling")
          /\ UNCHANGED <<client, route, socket, cancelled, aborted, raised, stt, gauge, told>>
      BY <1>7 DEF Receive, Goes
    <2>2. TypeOK'  BY <2>1 DEF IInv, TypeOK, Loops, Step
    <2>3. \A d \in Clients \ {c} : Same(d)  BY <2>1 DEF IInv, TypeOK, Step, Same
    <2>4. loop'[c]["recv"] = "handling"  BY <2>1 DEF IInv, TypeOK, Loops, Step
    <2>5. (HasSlot(c)' => HasSlot(c)) /\ SttOK(c)'  BY <2>1 DEF IInv, HasSlot, SttOK
    <2>6. EndOK(c)'  BY <2>1, <2>4 DEF IInv, EndOK
    <2> QED  BY <2>2, <2>3, <2>5, <2>6, StepOfOne
  <1>8. ASSUME NEW c \in Clients, Handled(c) PROVE IInv'
    <2>1. TypeOK'  BY <1>8 DEF IInv, TypeOK, Loops, Errors, Routes, Handled, tasks, Goes, Step, Awaits
    <2>2. \A d \in Clients \ {c} : Same(d)
      BY <1>8 DEF IInv, TypeOK, Handled, tasks, Goes, Step, Awaits, Same
    <2>3. (HasSlot(c)' => HasSlot(c)) /\ SttOK(c)'
      BY <1>8 DEF IInv, TypeOK, Handled, tasks, Goes, Step, Awaits, HasSlot, SttOK
    <2>4. EndOK(c)'
      BY <1>8 DEF IInv, TypeOK, Handled, tasks, Goes, Step, Awaits, EndOK, Loops, Errors
    <2> QED  BY <2>1, <2>2, <2>3, <2>4, StepOfOne
  <1>9. ASSUME NEW c \in Clients, Interrupt(c) PROVE IInv'
    <2>1. TypeOK'  BY <1>9 DEF IInv, TypeOK, Loops, Errors, Routes, Interrupt, tasks, Goes, Step, Awaits
    <2>2. \A d \in Clients \ {c} : Same(d)
      BY <1>9 DEF IInv, TypeOK, Interrupt, tasks, Goes, Step, Awaits, Same
    <2>3. (HasSlot(c)' => HasSlot(c)) /\ SttOK(c)'
      BY <1>9 DEF IInv, TypeOK, Interrupt, tasks, Goes, Step, Awaits, HasSlot, SttOK
    <2>4. EndOK(c)'
      BY <1>9 DEF IInv, TypeOK, Interrupt, tasks, Goes, Step, Awaits, EndOK, Loops, Errors
    <2> QED  BY <2>1, <2>2, <2>3, <2>4, StepOfOne
  <1>10. ASSUME NEW c \in Clients, Interrupted(c) PROVE IInv'
    <2>1. TypeOK'  BY <1>10 DEF IInv, TypeOK, Loops, Errors, Routes, Interrupted, tasks, Goes, Step, Awaits
    <2>2. \A d \in Clients \ {c} : Same(d)
      BY <1>10 DEF IInv, TypeOK, Interrupted, tasks, Goes, Step, Awaits, Same
    <2>3. (HasSlot(c)' => HasSlot(c)) /\ SttOK(c)'
      BY <1>10 DEF IInv, TypeOK, Interrupted, tasks, Goes, Step, Awaits, HasSlot, SttOK
    <2>4. EndOK(c)'
      BY <1>10 DEF IInv, TypeOK, Interrupted, tasks, Goes, Step, Awaits, EndOK, Loops, Errors
    <2> QED  BY <2>1, <2>2, <2>3, <2>4, StepOfOne
  <1>11. ASSUME NEW c \in Clients, Disconnected(c) PROVE IInv'
    <2>1. TypeOK'  BY <1>11 DEF IInv, TypeOK, Loops, Errors, Routes, Disconnected, tasks, RaiseIn, Step, Awaits, Reachable
    <2>2. \A d \in Clients \ {c} : Same(d)
      BY <1>11 DEF IInv, TypeOK, Disconnected, tasks, RaiseIn, Step, Awaits, Reachable, Same
    <2>3. (HasSlot(c)' => HasSlot(c)) /\ SttOK(c)'
      BY <1>11 DEF IInv, TypeOK, Disconnected, tasks, RaiseIn, Step, Awaits, Reachable, HasSlot, SttOK
    <2>4. EndOK(c)'
      BY <1>11 DEF IInv, TypeOK, Disconnected, tasks, RaiseIn, Step, Awaits, Reachable, EndOK, Loops, Errors
    <2> QED  BY <2>1, <2>2, <2>3, <2>4, StepOfOne
  <1>12. ASSUME NEW c \in Clients, HandlingFails(c) PROVE IInv'
    <2>1. TypeOK'  BY <1>12 DEF IInv, TypeOK, Loops, Errors, Routes, HandlingFails, tasks, RaiseIn, Step, Awaits
    <2>2. \A d \in Clients \ {c} : Same(d)
      BY <1>12 DEF IInv, TypeOK, HandlingFails, tasks, RaiseIn, Step, Awaits, Same
    <2>3. (HasSlot(c)' => HasSlot(c)) /\ SttOK(c)'
      BY <1>12 DEF IInv, TypeOK, HandlingFails, tasks, RaiseIn, Step, Awaits, HasSlot, SttOK
    <2>4. EndOK(c)'
      BY <1>12 DEF IInv, TypeOK, HandlingFails, tasks, RaiseIn, Step, Awaits, EndOK, Loops, Errors
    <2> QED  BY <2>1, <2>2, <2>3, <2>4, StepOfOne
  <1>13. ASSUME NEW c \in Clients, EmitFails(c) PROVE IInv'
    <2>1. TypeOK'  BY <1>13 DEF IInv, TypeOK, Loops, Errors, Routes, EmitFails, tasks, RaiseIn, Step, Awaits, Reachable
    <2>2. \A d \in Clients \ {c} : Same(d)
      BY <1>13 DEF IInv, TypeOK, EmitFails, tasks, RaiseIn, Step, Awaits, Reachable, Same
    <2>3. (HasSlot(c)' => HasSlot(c)) /\ SttOK(c)'
      BY <1>13 DEF IInv, TypeOK, EmitFails, tasks, RaiseIn, Step, Awaits, Reachable, HasSlot, SttOK
    <2>4. EndOK(c)'
      BY <1>13 DEF IInv, TypeOK, EmitFails, tasks, RaiseIn, Step, Awaits, Reachable, EndOK, Loops, Errors
    <2> QED  BY <2>1, <2>2, <2>3, <2>4, StepOfOne
  <1>14. ASSUME NEW c \in Clients, EmitCloses(c) PROVE IInv'
    <2>1. TypeOK'  BY <1>14 DEF IInv, TypeOK, Loops, Errors, Routes, EmitCloses, tasks, Step, Awaits
    <2>2. \A d \in Clients \ {c} : Same(d)
      BY <1>14 DEF IInv, TypeOK, EmitCloses, tasks, Step, Awaits, Same
    <2>3. (HasSlot(c)' => HasSlot(c)) /\ SttOK(c)'
      BY <1>14 DEF IInv, TypeOK, EmitCloses, tasks, Step, Awaits, HasSlot, SttOK
    <2>4. EndOK(c)'
      BY <1>14 DEF IInv, TypeOK, EmitCloses, tasks, Step, Awaits, EndOK, Loops, Errors
    <2> QED  BY <2>1, <2>2, <2>3, <2>4, StepOfOne
  <1>15. ASSUME NEW c \in Clients, QuestFails(c) PROVE IInv'
    <2>1. TypeOK'  BY <1>15 DEF IInv, TypeOK, Loops, Errors, Routes, QuestFails, tasks, RaiseIn, Step, Awaits, ServiceErrors
    <2>2. \A d \in Clients \ {c} : Same(d)
      BY <1>15 DEF IInv, TypeOK, QuestFails, tasks, RaiseIn, Step, Awaits, ServiceErrors, Same
    <2>3. (HasSlot(c)' => HasSlot(c)) /\ SttOK(c)'
      BY <1>15 DEF IInv, TypeOK, QuestFails, tasks, RaiseIn, Step, Awaits, ServiceErrors, HasSlot, SttOK
    <2>4. EndOK(c)'
      BY <1>15 DEF IInv, TypeOK, QuestFails, tasks, RaiseIn, Step, Awaits, ServiceErrors, EndOK, Loops, Errors
    <2> QED  BY <2>1, <2>2, <2>3, <2>4, StepOfOne
  <1>16. ASSUME NEW c \in Clients, Abort(c) PROVE IInv'
    <2>1. TypeOK'  BY <1>16 DEF IInv, TypeOK, Loops, Errors, Routes, Abort, tasks
    <2>2. \A d \in Clients \ {c} : Same(d)
      BY <1>16 DEF IInv, TypeOK, Abort, tasks, Same
    <2>3. (HasSlot(c)' => HasSlot(c)) /\ SttOK(c)'
      BY <1>16 DEF IInv, TypeOK, Abort, tasks, HasSlot, SttOK
    <2>4. EndOK(c)'
      BY <1>16 DEF IInv, TypeOK, Abort, tasks, EndOK, Loops, Errors
    <2> QED  BY <2>1, <2>2, <2>3, <2>4, StepOfOne
  <1>17. ASSUME NEW c \in Clients, CancelSwallowed(c) PROVE IInv'
    <2>1. TypeOK'  BY <1>17 DEF IInv, TypeOK, Loops, Errors, Routes, CancelSwallowed, tasks, Step
    <2>2. \A d \in Clients \ {c} : Same(d)
      BY <1>17 DEF IInv, TypeOK, CancelSwallowed, tasks, Step, Same
    <2>3. (HasSlot(c)' => HasSlot(c)) /\ SttOK(c)'
      BY <1>17 DEF IInv, TypeOK, CancelSwallowed, tasks, Step, HasSlot, SttOK
    <2>4. EndOK(c)'
      BY <1>17 DEF IInv, TypeOK, CancelSwallowed, tasks, Step, EndOK, Loops, Errors
    <2> QED  BY <2>1, <2>2, <2>3, <2>4, StepOfOne
  <1>18. ASSUME NEW c \in Clients, GroupEnds(c) PROVE IInv'
    <2>1. TypeOK'  BY <1>18 DEF IInv, TypeOK, Loops, Errors, Routes, GroupEnds, tasks, AllOver
    <2>2. \A d \in Clients \ {c} : Same(d)
      BY <1>18 DEF IInv, TypeOK, GroupEnds, tasks, AllOver, Same
    <2>3. raised[c] # {}
      BY <1>18 DEF IInv, GroupEnds, AllOver, EndOK, Loops
    <2>4. (HasSlot(c)' => HasSlot(c)) /\ SttOK(c)'
      BY <1>18 DEF IInv, TypeOK, GroupEnds, tasks, HasSlot, SttOK
    <2>5. EndOK(c)'
      BY <1>18, <2>3 DEF IInv, TypeOK, GroupEnds, tasks, EndOK
    <2> QED  BY <2>1, <2>2, <2>4, <2>5, StepOfOne
  <1>19. ASSUME NEW c \in Clients, SttServerCloses(c) PROVE IInv'
    <2>1. TypeOK'  BY <1>19 DEF IInv, TypeOK, Loops, Errors, Routes, SttServerCloses, tasks
    <2>2. \A d \in Clients \ {c} : Same(d)
      BY <1>19 DEF IInv, TypeOK, SttServerCloses, tasks, Same
    <2>3. (HasSlot(c)' => HasSlot(c)) /\ SttOK(c)'
      BY <1>19 DEF IInv, TypeOK, SttServerCloses, tasks, HasSlot, SttOK
    <2>4. EndOK(c)'
      BY <1>19 DEF IInv, TypeOK, SttServerCloses, tasks, EndOK, Loops, Errors
    <2> QED  BY <2>1, <2>2, <2>3, <2>4, StepOfOne
  <1>20. ASSUME NEW c \in Clients, SttIterationEnds(c) PROVE IInv'
    <2>1. TypeOK'  BY <1>20 DEF IInv, TypeOK, Loops, Errors, Routes, SttIterationEnds, tasks
    <2>2. \A d \in Clients \ {c} : Same(d)
      BY <1>20 DEF IInv, TypeOK, SttIterationEnds, tasks, Same
    <2>3. (HasSlot(c)' => HasSlot(c)) /\ SttOK(c)'
      BY <1>20 DEF IInv, TypeOK, SttIterationEnds, tasks, HasSlot, SttOK
    <2>4. EndOK(c)'
      BY <1>20 DEF IInv, TypeOK, SttIterationEnds, tasks, EndOK, Loops, Errors
    <2> QED  BY <2>1, <2>2, <2>3, <2>4, StepOfOne
  <1>21. ASSUME NEW c \in Clients, ShutdownStt(c) PROVE IInv'
    <2>0. gauge[c] = 1  BY <1>21 DEF IInv, SttOK, ShutdownStt
    <2>1. TypeOK'  BY <1>21, <2>0 DEF IInv, TypeOK, Loops, Errors, Routes, ShutdownStt, tasks
    <2>2. \A d \in Clients \ {c} : Same(d)
      BY <1>21 DEF IInv, TypeOK, ShutdownStt, tasks, Same
    <2>3. (HasSlot(c)' => HasSlot(c)) /\ SttOK(c)'
      BY <1>21, <2>0 DEF IInv, TypeOK, ShutdownStt, tasks, HasSlot, SttOK
    <2>4. EndOK(c)'
      BY <1>21, <2>0 DEF IInv, TypeOK, ShutdownStt, tasks, EndOK, Loops, Errors
    <2> QED  BY <2>1, <2>2, <2>3, <2>4, StepOfOne
  <1>22. ASSUME NEW c \in Clients, Exited(c) PROVE IInv'
    <2>1. TypeOK'  BY <1>22 DEF IInv, TypeOK, Loops, Errors, Routes, Exited, tasks, IsShut, Afterwards
    <2>2. \A d \in Clients \ {c} : Same(d)
      BY <1>22 DEF IInv, TypeOK, Exited, tasks, IsShut, Afterwards, Same
    <2>3. (HasSlot(c)' => HasSlot(c)) /\ SttOK(c)'
      BY <1>22 DEF IInv, TypeOK, Exited, tasks, IsShut, Afterwards, HasSlot, SttOK
    <2>4. EndOK(c)'
      BY <1>22 DEF IInv, TypeOK, Exited, tasks, IsShut, Afterwards, EndOK, Loops, Errors
    <2> QED  BY <2>1, <2>2, <2>3, <2>4, StepOfOne
  <1>23. ASSUME NEW c \in Clients, ExitRaises(c) PROVE IInv'
    <2>1. TypeOK'  BY <1>23 DEF IInv, TypeOK, Loops, Errors, Routes, ExitRaises, tasks, IsShut
    <2>2. \A d \in Clients \ {c} : Same(d)
      BY <1>23 DEF IInv, TypeOK, ExitRaises, tasks, IsShut, Same
    <2>3. (HasSlot(c)' => HasSlot(c)) /\ SttOK(c)'
      BY <1>23 DEF IInv, TypeOK, ExitRaises, tasks, IsShut, HasSlot, SttOK
    <2>4. EndOK(c)'
      BY <1>23 DEF IInv, TypeOK, ExitRaises, tasks, IsShut, EndOK, Loops, Errors
    <2> QED  BY <2>1, <2>2, <2>3, <2>4, StepOfOne
  <1>24. ASSUME NEW c \in Clients, Report(c) PROVE IInv'
    <2>0. route' \in [Clients -> Routes]  BY <1>24 DEF IInv, TypeOK, Routes, Report
    <2>5. \/ told' = told /\ socket' = socket
          \/ /\ \E x \in {told[c], "fatal"} : told' = [told EXCEPT ![c] = x]
             /\ socket' = [socket EXCEPT ![c] = "closed"]
      BY <1>24 DEF Report
    <2>6. /\ socket' \in [Clients -> {"none", "open", "closed"}]
          /\ told' \in [Clients -> {"nothing", "goodbye", "unhealthy", "fatal"}]
      <3>1. /\ socket \in [Clients -> {"none", "open", "closed"}]
            /\ told \in [Clients -> {"nothing", "goodbye", "unhealthy", "fatal"}]
        BY DEF IInv, TypeOK
      <3>2. CASE told' = told /\ socket' = socket  BY <3>1, <3>2
      <3>3. ASSUME NEW x \in {told[c], "fatal"}, told' = [told EXCEPT ![c] = x],
                   socket' = [socket EXCEPT ![c] = "closed"]
            PROVE  /\ socket' \in [Clients -> {"none", "open", "closed"}]
                   /\ told' \in [Clients -> {"nothing", "goodbye", "unhealthy", "fatal"}]
        <4>1. x \in {"nothing", "goodbye", "unhealthy", "fatal"}  BY <3>1
        <4> QED  BY <3>1, <3>3, <4>1
      <3> QED  BY <2>5, <3>2, <3>3
    <2>1. TypeOK'
      <3>1. UNCHANGED <<client, loop, cancelled, aborted, raised, stt, gauge>>  BY <1>24 DEF Report, tasks
      <3> QED  BY <1>24, <2>0, <2>6, <3>1 DEF IInv, TypeOK, Report, tasks
    <2>2. \A d \in Clients \ {c} : Same(d)
      BY <1>24, <2>5 DEF IInv, TypeOK, Report, tasks, Same
    <2>3. (HasSlot(c)' => HasSlot(c)) /\ SttOK(c)'
      BY <1>24 DEF IInv, TypeOK, Report, tasks, HasMessage, ServiceErrors, Reachable, HasSlot, SttOK
    <2>4. EndOK(c)'
      BY <1>24 DEF IInv, TypeOK, Report, tasks, HasMessage, ServiceErrors, Reachable, EndOK, Loops, Errors
    <2> QED  BY <2>1, <2>2, <2>3, <2>4, StepOfOne
  <1>25. ASSUME NEW c \in Clients, NEW t \in Loops, Cancelled(c, t) PROVE IInv'
    <2>1. TypeOK'  BY <1>25 DEF IInv, TypeOK, Loops, Errors, Routes, Cancelled, tasks, Step
    <2>2. \A d \in Clients \ {c} : Same(d)
      BY <1>25 DEF IInv, TypeOK, Cancelled, tasks, Step, Same
    <2>3. raised[c] # {}  BY <1>25 DEF IInv, EndOK, Cancelled
    <2>4. loop'[c]["recv"] \in {loop[c]["recv"], "over"}
      BY <1>25 DEF IInv, TypeOK, Loops, Cancelled, Step
    <2>5. (HasSlot(c)' => HasSlot(c)) /\ SttOK(c)'
      BY <1>25 DEF IInv, TypeOK, Cancelled, tasks, HasSlot, SttOK
    <2>6. EndOK(c)'
      BY <1>25, <2>3, <2>4 DEF IInv, TypeOK, Cancelled, tasks, EndOK
    <2> QED  BY <2>1, <2>2, <2>5, <2>6, StepOfOne
  <1>26. ASSUME NEW c \in Clients, Accept(c) PROVE IInv'
    <2>1. TypeOK'  BY <1>26 DEF IInv, TypeOK, Loops, Errors, Routes, Accept, tasks
    <2>2. \A d \in Clients \ {c} : Same(d)
      BY <1>26 DEF IInv, TypeOK, Accept, tasks, Same
    <2>3. SttOK(c)' /\ EndOK(c)'
      BY <1>26 DEF IInv, TypeOK, Accept, tasks, SttOK, EndOK
    <2>4. \A d \in Clients : SttOK(d)' /\ EndOK(d)'  BY <2>2, <2>3, SameOK DEF IInv
    <2>5. SlotsOK'  BY <1>26, <2>2, SlotTaken DEF Accept, HasSlot, Same
    <2> QED  BY <2>1, <2>4, <2>5 DEF IInv
  <1>27. CASE UNCHANGED vars
    <2>1. TypeOK'  BY <1>27 DEF IInv, TypeOK, vars, tasks
    <2>2. \A d \in Clients : Same(d)  BY <1>27 DEF vars, tasks, Same
    <2>3. \A d \in Clients : SttOK(d)' /\ EndOK(d)'  BY <2>2, SameOK DEF IInv
    <2>4. SlotsOK'  BY <2>2, FewerSlots DEF IInv, HasSlot, Same
    <2> QED  BY <2>1, <2>3, <2>4 DEF IInv
  <1>28. CASE Next
    <2>1. PICK c \in Clients :
            \/ Connect(c) \/ Leave(c) \/ Accept(c) \/ RouteStep(c)
            \/ Receive(c) \/ Interrupt(c) \/ RecvStep(c)
            \/ EmitFails(c) \/ EmitCloses(c) \/ Cancelled(c, "emit")
            \/ QuestFails(c) \/ Cancelled(c, "wait")
            \/ SttServerCloses(c) \/ SttIterationEnds(c)
      BY <1>28 DEF Next
    <2>2. CASE RouteStep(c)
      BY <2>2, <1>3, <1>4, <1>5, <1>6, <1>16, <1>18, <1>21, <1>22, <1>23, <1>24 DEF RouteStep
    <2>3. \A t \in Loops : Cancelled(c, t) => IInv'  BY <1>25
    <2>4. CASE RecvStep(c)
      BY <2>3, <2>4, <1>8, <1>10, <1>11, <1>12, <1>17 DEF RecvStep, Loops
    <2>5. CASE Cancelled(c, "emit") \/ Cancelled(c, "wait")
      BY <2>3, <2>5 DEF Loops
    <2> QED
      BY <2>1, <2>2, <2>4, <2>5, <1>1, <1>2, <1>7, <1>9, <1>13, <1>14, <1>15, <1>19, <1>20, <1>26
  <1> QED  BY <1>27, <1>28

-----------------------------------------------------------------------------

\* Every variable of every session holds what the code can store in it: shutdown()
\* never takes a session off the gauge twice, or one that was not counted.
THEOREM TypeCorrect == Spec => []TypeOK
  <1>1. IInv => TypeOK  BY DEF IInv
  <1> QED  BY <1>1, InitOK, StepOK, PTL DEF Spec

\* websocket_route() holds the slot for as long as the STT is connected, so MAX_CLIENTS
\* bounds the STT connections of the process.
THEOREM SttIsHeldWithSlot == Spec => []SttHeldWithSlot
  <1>1. ASSUME IInv PROVE SttHeldWithSlot
    <2> DEFINE S == {d \in Clients : HasSlot(d)}
    <2> DEFINE T == {d \in Clients : stt[d] \in {"open", "lost", "shut"}}
    <2>1. T \subseteq S  BY <1>1 DEF IInv, SttOK, HasSlot
    <2>2. IsFiniteSet(S)  BY SlotsAssumption, FS_Subset
    <2>3. IsFiniteSet(T) /\ Cardinality(T) <= Cardinality(S)  BY <2>1, <2>2, FS_Subset
    <2>4. Cardinality(S) \in Nat /\ Cardinality(T) \in Nat  BY <2>2, <2>3, FS_CardinalityType
    <2>5. Cardinality(S) <= MaxClients  BY <1>1 DEF IInv, SlotsOK
    <2> HIDE DEF S, T
    <2>6. Cardinality(T) <= MaxClients  BY <2>3, <2>4, <2>5, SlotsAssumption
    <2> QED  BY <2>6 DEF SttHeldWithSlot, T
  <1> QED  BY <1>1, InitOK, StepOK, PTL DEF Spec

\* However its tasks fail and in whatever order, a session ends with a word to the
\* user who is still there: _report_websocket_exception() never passes over a failure
\* of which the user has not seen the websocket close.
THEOREM EndsWithAWord == Spec => []NoSilentEnd
  <1>1. IInv => NoSilentEnd  BY DEF IInv, EndOK, NoSilentEnd
  <1> QED  BY <1>1, InitOK, StepOK, PTL DEF Spec
=============================================================================
