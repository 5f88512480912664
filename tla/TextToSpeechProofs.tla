------------------------- MODULE TextToSpeechProofs -------------------------
(***************************************************************************)
(* Proofs about TextToSpeech, for every set of removers and all bounds:    *)
(* the session gauge is balanced, a shutdown disturbs no sender, an        *)
(* iteration that nobody shuts down releases each message once, and what   *)
(* is released is released in the order of its times.                      *)
(***************************************************************************)
EXTENDS TextToSpeech, FiniteSetTheorems, TLAPS

\* Before start_up() has returned, nobody iterates or shuts down.
StartOK ==
    IF start = "up" THEN iter # "no"
    ELSE /\ iter = "no" /\ ~complete /\ lock = ""
         /\ \A c \in Closers : closing[c] = "no"

\* shutdown() holds the lock for as long as it closes the websocket.
LockOK ==
    /\ start = "greeting" => ws = "open"
    /\ start = "up" /\ ws = "closing" => lock # ""

ClosingOK == closing \in [Closers -> {"no", "waiting", "closing", "done"}] /\ complete \in BOOLEAN

ShutInv == ClosingOK /\ StartOK /\ LockOK /\ CountedOnce /\ OnlyServerFailsSend

LEMMA ShutInit == Init => ShutInv
  BY DEF Init, ShutInv, ClosingOK, StartOK, LockOK, CountedOnce, OnlyServerFailsSend

\* What the invariant reads, left alone but for an iteration that goes on.
LEMMA ShutQuiet ==
  ASSUME ShutInv, UNCHANGED <<start, ws, shutting, sendError>>, iter' = "no" <=> iter = "no"
  PROVE  ShutInv'
  BY DEF ShutInv, ClosingOK, StartOK, LockOK, CountedOnce, OnlyServerFailsSend, shutting

\* A closer that returns ends the iteration, or leaves its end as it is.
LEMMA ReturnsIter ==
  ASSUME NEW c \in Closers, Returns(c), iter # "no"
  PROVE  iter' # "no"
  BY DEF Returns

LEMMA ReturnsClosing ==
  ASSUME NEW c \in Closers, Returns(c), ClosingOK, complete' \in BOOLEAN
  PROVE  ClosingOK'
  <1>1. closing' = [closing EXCEPT ![c] = "done"]  BY DEF Returns
  <1> QED  BY <1>1 DEF ClosingOK

\* A step of a start_up() that has not returned.
LEMMA StartingInv ==
  ASSUME ShutInv, start # "up", start' # "up", start' = "greeting" => ws' = "open",
         UNCHANGED <<playing, shutting, sendError>>
  PROVE  ShutInv'
  BY DEF ShutInv, ClosingOK, StartOK, LockOK, CountedOnce, OnlyServerFailsSend, playing, shutting

\* The decrement of the gauge, apart: the leaves that use it have Boolean variables.
LEMMA NotCounted ==
  ASSUME gauge = 1, gauge' = gauge - 1 PROVE gauge' = 0
  OBVIOUS

\* What shutdown() does once it has the lock.
LEMMA ShutDownInv ==
  ASSUME ShutInv, NEW c \in Closers, start = "up", lock = "", ShutDown(c),
         UNCHANGED <<starting, sendError>>
  PROVE  ShutInv'
  <1>1. c # ""  BY BoundsAssumption DEF Closers
  <1>2. iter # "no" /\ start' = "up"  BY DEF ShutInv, StartOK, starting
  <1>3. CASE complete
    <2>1. Returns(c) /\ UNCHANGED <<lock, complete, gauge, ws>>
      BY <1>3 DEF ShutDown, AlreadyShut
    <2>2. iter' # "no"  BY <2>1, <1>2, ReturnsIter
    <2>3. complete' \in BOOLEAN  BY <2>1 DEF ShutInv, ClosingOK
    <2>4. ClosingOK'  BY <2>1, <2>3, ReturnsClosing DEF ShutInv
    <2> QED
      BY <1>2, <1>3, <2>1, <2>2, <2>4
      DEF ShutInv, StartOK, LockOK, CountedOnce, OnlyServerFailsSend
  <1>4. CASE ~complete /\ ws = "open"
    <2>1. gauge' = gauge - 1 /\ complete' = TRUE /\ ws' = "closing" /\ lock' = c
          /\ closing' = [closing EXCEPT ![c] = "closing"] /\ UNCHANGED iter
      BY <1>4 DEF ShutDown, AlreadyShut
    <2>2. gauge = 1  BY <1>2, <1>4, Zenon DEF ShutInv, CountedOnce
    <2>3. gauge' = 0  BY <2>1, <2>2, NotCounted
    <2>4. ClosingOK'  BY <2>1 DEF ShutInv, ClosingOK
    <2> QED
      BY <1>1, <1>2, <2>1, <2>3, <2>4
      DEF ShutInv, StartOK, LockOK, CountedOnce, OnlyServerFailsSend
  <1>5. CASE ~complete /\ ws # "open"
    <2>1. gauge' = gauge - 1 /\ complete' = TRUE /\ ws' = "none" /\ Returns(c)
          /\ UNCHANGED lock
      BY <1>5 DEF ShutDown, AlreadyShut
    <2>2. gauge = 1  BY <1>2, <1>5, Zenon DEF ShutInv, CountedOnce
    <2>3. gauge' = 0  BY <2>1, <2>2, NotCounted
    <2>4. iter' # "no"  BY <2>1, <1>2, ReturnsIter
    <2>5. ClosingOK'  BY <2>1, ReturnsClosing DEF ShutInv
    <2> QED
      BY <1>2, <2>1, <2>3, <2>4, <2>5
      DEF ShutInv, StartOK, LockOK, CountedOnce, OnlyServerFailsSend
  <1>6. complete \in BOOLEAN  BY DEF ShutInv, ClosingOK
  <1> QED  BY <1>3, <1>4, <1>5, <1>6

LEMMA ShutStep == ShutInv /\ [Next]_vars => ShutInv'
  <1> SUFFICES ASSUME ShutInv, [Next]_vars PROVE ShutInv'  OBVIOUS
  \* start_up()
  <1>1. CASE Connected  BY <1>1, StartingInv DEF Connected
  <1>2. CASE Rejected  BY <1>2, StartingInv DEF Rejected
  <1>3. CASE RejectionCloses  BY <1>3, StartingInv DEF RejectionCloses
  <1>4. CASE StartBreaks  BY <1>4, StartingInv DEF StartBreaks
  <1>5. CASE UnexpectedPacket
    BY <1>5, StartingInv DEF UnexpectedPacket, ShutInv, LockOK
  <1>6. CASE StartCancelled  BY <1>6, StartingInv DEF StartCancelled
  <1>7. CASE Ready
    <2>1. ~complete /\ gauge = 0 /\ ws = "open"
      BY <1>7 DEF Ready, ShutInv, StartOK, LockOK, CountedOnce
    <2>2. start' = "up" /\ iter' = "receiving" /\ gauge' = 1
          /\ UNCHANGED <<ws, lock, complete, closing, sendError>>
      BY <1>7, <2>1 DEF Ready
    <2> QED
      BY <2>1, <2>2 DEF ShutInv, ClosingOK, StartOK, LockOK, CountedOnce, OnlyServerFailsSend
  <1> USE DEF starting, playing, shutting
  \* The iteration
  <1>8. CASE Tick  BY <1>8, ShutQuiet DEF Tick
  <1>9. CASE AudioArrives  BY <1>9, ShutQuiet DEF AudioArrives, Receiving
  <1>10. CASE Recorded  BY <1>10, ShutQuiet DEF Recorded
  <1>11. CASE TextArrives  BY <1>11, ShutQuiet DEF TextArrives
  <1>12. CASE ReceivingEnds  BY <1>12, ShutQuiet DEF ReceivingEnds
  <1>13. CASE DrainNext  BY <1>13, ShutQuiet DEF DrainNext
  <1>14. CASE ServerCloses
    BY <1>14 DEF ServerCloses, ShutInv, ClosingOK, StartOK, LockOK, CountedOnce, OnlyServerFailsSend
  \* shutdown()
  <1>15. ASSUME NEW c \in Closers, ShutdownCalled(c) PROVE ShutInv'
    <2>1. start = "up"
      BY <1>15 DEF ShutdownCalled, Calls, ShutInv, StartOK
    <2>2. CASE lock = ""  BY <1>15, <2>1, <2>2, ShutDownInv DEF ShutdownCalled
    <2>3. CASE lock # ""
      <3>1. iter # "no"  BY <2>1 DEF ShutInv, StartOK
      <3>2. iter' # "no" /\ closing' = [closing EXCEPT ![c] = "waiting"]
            /\ UNCHANGED <<start, lock, complete, gauge, ws, sendError>>
        BY <1>15, <2>3, <3>1 DEF ShutdownCalled
      <3>3. ClosingOK'  BY <3>2 DEF ShutInv, ClosingOK
      <3> QED
        BY <2>1, <3>1, <3>2, <3>3 DEF ShutInv, StartOK, LockOK, CountedOnce, OnlyServerFailsSend
    <2> QED  BY <2>2, <2>3
  <1>16. ASSUME NEW c \in Closers, LockAcquired(c) PROVE ShutInv'
    <2>1. start = "up"  BY <1>16 DEF LockAcquired, ShutInv, StartOK
    <2> QED  BY <1>16, <2>1, ShutDownInv DEF LockAcquired
  <1>17. ASSUME NEW c \in Closers, WebsocketClosed(c) PROVE ShutInv'
    <2>1. start = "up" /\ iter # "no"  BY <1>17 DEF WebsocketClosed, ShutInv, StartOK
    <2>2. iter' # "no"  BY <1>17, <2>1, ReturnsIter DEF WebsocketClosed
    <2>3. ClosingOK'  BY <1>17, ReturnsClosing DEF WebsocketClosed, ShutInv, ClosingOK
    <2> QED
      BY <1>17, <2>1, <2>2, <2>3
      DEF WebsocketClosed, ShutInv, StartOK, LockOK, CountedOnce, OnlyServerFailsSend
  \* send(), which the lock keeps away from a closing websocket
  <1>18. CASE Send
    BY <1>18 DEF Send, MaySend, ShutInv, ClosingOK, StartOK, LockOK, CountedOnce,
                 OnlyServerFailsSend
  <1>19. CASE UNCHANGED vars
    BY <1>19, ShutQuiet DEF vars
  <1> QED
    BY <1>1, <1>2, <1>3, <1>4, <1>5, <1>6, <1>7, <1>8, <1>9, <1>10, <1>11, <1>12, <1>13,
       <1>14, <1>15, <1>16, <1>17, <1>18, <1>19
    DEF Next, vars

-----------------------------------------------------------------------------

\* TTS_ACTIVE_SESSIONS counts a client from the start of its iteration to the first
\* shutdown(): neither two removers at once nor the end of the iteration take it off
\* again.
THEOREM GaugeIsBalanced == Spec => []CountedOnce
  <1>1. ShutInv => CountedOnce  BY DEF ShutInv
  <1> QED  BY <1>1, ShutInit, ShutStep, PTL DEF Spec

\* A send() finds the connection closed only if the server has closed it:
\* shutdown_lock and the dropped websocket keep it away from a shutdown.
THEOREM ShutdownFailsNoSend == Spec => []OnlyServerFailsSend
  <1>1. ShutInv => OnlyServerFailsSend  BY DEF ShutInv
  <1> QED  BY <1>1, ShutInit, ShutStep, PTL DEF Spec

-----------------------------------------------------------------------------
(* The end of the iteration *)

\* Nobody removes the quest.
Undisturbed == \A c \in Removers : closing[c] = "no"

\* The iteration shuts down when it no longer receives, and when it has released all
\* it holds, if nobody else shuts down.
DrainOK ==
    /\ closing["iter"] # "no" => iter \notin {"no", "receiving", "recording"}
    /\ Undisturbed =>
         /\ complete \/ iter \in {"leaving", "done"} => closing["iter"] # "no"
         /\ closing["iter"] # "no" => clock = NotStarted \/ heap = {}

DrainInv == ShutInv /\ DrainOK

\* shutdown() begins, or returns at once.
LEMMA ShutDownCloses ==
  ASSUME DrainInv, NEW c \in Closers, ShutDown(c)
  PROVE  /\ \E to \in {"closing", "done"} : closing' = [closing EXCEPT ![c] = to]
         /\ iter' = iter \/ iter' = IF c = "iter" THEN "done" ELSE "cancelled"
  <1>1. Returns(c) => /\ closing' = [closing EXCEPT ![c] = "done"]
                      /\ iter' = iter \/ iter' = IF c = "iter" THEN "done" ELSE "cancelled"
    BY DEF Returns
  <1> QED  BY <1>1 DEF ShutDown

\* A closer that goes on in shutdown().
LEMMA DrainCloses ==
  ASSUME DrainInv, ShutInv', NEW c \in Closers, NEW to \in {"waiting", "closing", "done"},
         closing' = [closing EXCEPT ![c] = to], UNCHANGED <<heap, clock>>,
         iter' = iter \/ (c # "iter" /\ iter' = "cancelled") \/ (c = "iter" /\ iter' \in {"leaving", "done"}),
         c = "iter" => iter \notin {"no", "receiving", "recording"},
         c = "iter" /\ Undisturbed => clock = NotStarted \/ heap = {}
  PROVE  DrainInv'
  <1>1. \A o \in Closers : closing'[o] = IF o = c THEN to ELSE closing[o]
    BY DEF DrainInv, ShutInv, ClosingOK
  <1>2. CASE c = "iter"
    <2>1. \A o \in Removers : closing'[o] = closing[o]
      BY <1>1, <1>2, BoundsAssumption DEF Closers
    <2>2. closing'["iter"] = to  BY <1>1, <1>2
    <2>3. iter' \notin {"no", "receiving", "recording"}  BY <1>2
    <2> QED  BY <1>2, <2>1, <2>2, <2>3 DEF DrainInv, DrainOK, Undisturbed
  <1>3. CASE c # "iter"
    <2>1. c \in Removers /\ closing'[c] # "no"  BY <1>1, <1>3 DEF Closers
    <2>2. ~Undisturbed'  BY <2>1 DEF Undisturbed
    <2>3. closing'["iter"] = closing["iter"]  BY <1>1, <1>3 DEF Closers
    <2>4. iter' = iter \/ iter' = "cancelled"  BY <1>3
    <2> QED  BY <2>2, <2>3, <2>4 DEF DrainInv, DrainOK
  <1> QED  BY <1>2, <1>3

\* A step of nobody in shutdown(), of an iteration that receives or that nothing is to
\* be waited for by.
LEMMA DrainQuiet ==
  ASSUME DrainInv, ShutInv', UNCHANGED <<complete, closing>>,
         iter' \in {"leaving", "done"} => iter' = iter,
         closing["iter"] # "no" => iter' = iter,
         closing["iter"] # "no" => heap' = heap,
         closing["iter"] # "no" => (clock = NotStarted => clock' = NotStarted)
  PROVE  DrainInv'
  BY DEF DrainInv, DrainOK, Undisturbed

LEMMA DrainStep == DrainInv /\ [Next]_vars => DrainInv'
  <1> SUFFICES ASSUME DrainInv, [Next]_vars PROVE DrainInv'  OBVIOUS
  <1>0. ShutInv'  BY ShutStep DEF DrainInv
  <1> USE <1>0
  <1>1. CASE Connected \/ Rejected \/ RejectionCloses \/ StartBreaks \/ UnexpectedPacket \/ StartCancelled
    <2>1. UNCHANGED <<playing, shutting>>
      BY <1>1 DEF Connected, Rejected, RejectionCloses, StartBreaks, UnexpectedPacket, StartCancelled
    <2>2. UNCHANGED <<iter, heap, clock, complete, closing>>  BY <2>1 DEF playing, shutting
    <2> QED  BY <2>2, DrainQuiet
  <1>2. CASE Ready
    <2>1. closing["iter"] = "no" /\ iter' = "receiving" /\ UNCHANGED <<complete, closing>>
      BY <1>2 DEF Ready, DrainInv, ShutInv, StartOK, Closers
    <2> QED  BY <2>1, DrainQuiet
  <1>3. CASE Tick
    <2>1. clock # NotStarted /\ UNCHANGED <<iter, heap, complete, closing>>
      BY <1>3 DEF Tick, shutting
    <2> QED  BY <2>1, DrainQuiet
  <1>4. CASE AudioArrives \/ Recorded \/ TextArrives
    <2>1. iter \in {"receiving", "recording"} /\ iter' \in {"receiving", "recording"}
          /\ UNCHANGED <<complete, closing>>
      BY <1>4 DEF AudioArrives, Recorded, TextArrives, Receiving, shutting
    <2>2. closing["iter"] = "no"  BY <2>1 DEF DrainInv, DrainOK
    <2> QED  BY <2>1, <2>2, DrainQuiet
  <1>5. CASE ServerCloses \/ Send \/ UNCHANGED vars
    <2>1. UNCHANGED <<playing, shutting>>  BY <1>5 DEF ServerCloses, Send, vars
    <2>2. UNCHANGED <<iter, heap, clock, complete, closing>>  BY <2>1 DEF playing, shutting
    <2> QED  BY <2>2, DrainQuiet
  <1>6. CASE ReceivingEnds
    <2>1. iter = "receiving" /\ iter' \in {"raised", "draining"}
          /\ UNCHANGED <<complete, closing, heap, clock>>
      BY <1>6 DEF ReceivingEnds, shutting
    <2>2. closing["iter"] = "no"  BY <2>1 DEF DrainInv, DrainOK
    <2> QED  BY <2>1, <2>2, DrainQuiet
  <1>7. CASE DrainNext
    <2>1. /\ iter = "draining" /\ clock # NotStarted /\ heap # {}
          /\ UNCHANGED <<clock, complete, closing>>
          /\ iter' = iter \/ (iter' = "leaving" /\ complete)
      BY <1>7 DEF DrainNext, Drained, Release, shutting
    <2>2. CASE Undisturbed
      <3>1. closing["iter"] = "no"  BY <2>1, <2>2 DEF DrainInv, DrainOK
      <3>2. ~complete  BY <2>2, <3>1 DEF DrainInv, DrainOK
      <3> QED  BY <2>1, <3>1, <3>2, DrainQuiet
    <2>3. CASE ~Undisturbed
      <3>1. ~Undisturbed'  BY <2>1, <2>3 DEF Undisturbed
      <3> QED  BY <2>1, <3>1 DEF DrainInv, DrainOK
    <2> QED  BY <2>2, <2>3
  <1>8. ASSUME NEW c \in Closers, ShutdownCalled(c) PROVE DrainInv'
    <2>1. closing[c] = "no" /\ Calls(c) /\ UNCHANGED <<heap, clock>>  BY <1>8 DEF ShutdownCalled
    <2>2. c = "iter" => iter \in {"leaving", "draining"}  BY <2>1 DEF Calls
    <2>3. c = "iter" /\ Undisturbed => clock = NotStarted \/ heap = {}
      BY <2>1 DEF Calls, Drained, DrainInv, DrainOK
    <2>4. CASE lock = ""
      <3>1. ShutDown(c)  BY <1>8, <2>4 DEF ShutdownCalled
      <3>2. PICK to \in {"closing", "done"} : closing' = [closing EXCEPT ![c] = to]
        BY <3>1, ShutDownCloses
      <3>3. iter' = iter \/ iter' = IF c = "iter" THEN "done" ELSE "cancelled"
        BY <3>1, ShutDownCloses
      <3> QED  BY <2>1, <2>2, <2>3, <3>2, <3>3, DrainCloses
    <2>5. CASE lock # ""
      <3>1. closing' = [closing EXCEPT ![c] = "waiting"] /\ iter' = IF c = "iter" THEN "leaving" ELSE iter
        BY <1>8, <2>5 DEF ShutdownCalled
      <3> QED  BY <2>1, <2>2, <2>3, <3>1, DrainCloses
    <2> QED  BY <2>4, <2>5
  <1>9. ASSUME NEW c \in Closers, LockAcquired(c) PROVE DrainInv'
    <2>1. closing[c] = "waiting" /\ (c = "iter" => iter = "leaving") /\ ShutDown(c)
          /\ UNCHANGED <<heap, clock>>
      BY <1>9 DEF LockAcquired
    <2>2. PICK to \in {"closing", "done"} : closing' = [closing EXCEPT ![c] = to]
      BY <2>1, ShutDownCloses
    <2>3. iter' = iter \/ iter' = IF c = "iter" THEN "done" ELSE "cancelled"
      BY <2>1, ShutDownCloses
    <2>4. c = "iter" /\ Undisturbed => clock = NotStarted \/ heap = {}
      BY <2>1 DEF DrainInv, DrainOK
    <2> QED  BY <2>1, <2>2, <2>3, <2>4, DrainCloses
  <1>10. ASSUME NEW c \in Closers, WebsocketClosed(c) PROVE DrainInv'
    <2>1. closing[c] = "closing" /\ Returns(c) /\ UNCHANGED <<heap, clock>>
      BY <1>10 DEF WebsocketClosed
    <2>2. closing' = [closing EXCEPT ![c] = "done"]
          /\ (iter' = iter \/ iter' = IF c = "iter" THEN "done" ELSE "cancelled")
      BY <2>1 DEF Returns
    <2>3. c = "iter" => iter \notin {"no", "receiving", "recording"}
      BY <2>1 DEF DrainInv, DrainOK
    <2>4. c = "iter" /\ Undisturbed => clock = NotStarted \/ heap = {}
      BY <2>1 DEF DrainInv, DrainOK
    <2> QED  BY <2>1, <2>2, <2>3, <2>4, DrainCloses
  <1> QED
    BY <1>1, <1>2, <1>3, <1>4, <1>5, <1>6, <1>7, <1>8, <1>9, <1>10 DEF Next

LEMMA DrainInit == Init => DrainInv
  <1> SUFFICES ASSUME Init PROVE DrainOK  BY ShutInit DEF DrainInv
  <1>1. closing["iter"] = "no" /\ ~complete /\ iter = "no"  BY DEF Init, Closers
  <1> QED  BY <1>1 DEF DrainOK

-----------------------------------------------------------------------------
(* The heap *)

\* The bounds, apart from what is assumed of the removers.
LEMMA Bounds == MaxItems \in Nat /\ MaxTime \in Nat
  BY BoundsAssumption

\* The items that wait have arrived, each once.
HeapOK ==
    /\ IsFiniteSet(heap)
    /\ \A i \in heap : i.id < arrived
    /\ \A i, j \in heap : i.id = j.id => i = j

Distinct(items) == items \in SUBSET Items /\ IsFiniteSet(items) /\ \A i, j \in items : i.id = j.id => i = j

\* Of two items, one is earlier than the other.
LEMMA EarlierIsAnOrder ==
  /\ \A i \in Items : ~Earlier(i, i)
  /\ \A i, j \in Items : Earlier(i, j) => ~Earlier(j, i) /\ i.at <= j.at
  /\ \A i, j \in Items : i.id # j.id => Earlier(i, j) \/ Earlier(j, i)
  /\ \A i, j, k \in Items : Earlier(i, j) /\ Earlier(j, k) => Earlier(i, k)
<1>1. \A i \in Items : i.at \in Int /\ i.id \in 0..MaxItems  BY DEF Items
<1>2. \A i \in Items : i.at \in Int /\ i.id \in Nat  BY <1>1, Bounds
<1> QED  BY <1>2 DEF Earlier

\* Every set of items can be popped: the place of an item is one more than the number
\* of those before it.
LEMMA CanBePopped ==
  ASSUME NEW S, Distinct(S)
  PROVE  /\ Cardinality(S) \in Nat
         /\ \E s \in [1..Cardinality(S) -> S] : \A k, l \in DOMAIN s : k < l => Earlier(s[k], s[l])
<1> DEFINE n == Cardinality(S)
           Before(i) == {j \in S : Earlier(j, i)}
           r == [i \in S |-> Cardinality(Before(i)) + 1]
<1>0. IsFiniteSet(S) /\ S \subseteq Items /\ \A i, j \in S : i.id = j.id => i = j  BY DEF Distinct
<1>1. n \in Nat  BY <1>0, FS_CardinalityType
<1>2. \A i \in S : IsFiniteSet(Before(i)) /\ Cardinality(Before(i)) \in Nat
  <2> TAKE i \in S
  <2>1. Before(i) \in SUBSET S  OBVIOUS
  <2> HIDE DEF Before
  <2>2. IsFiniteSet(Before(i))  BY <1>0, <2>1, FS_Subset
  <2> QED  BY <2>2, FS_CardinalityType
<1>3. \A i \in S : Cardinality(Before(i)) < n
  <2> TAKE i \in S
  <2>1. Before(i) \in SUBSET S /\ i \notin Before(i)  BY <1>0, EarlierIsAnOrder
  <2> HIDE DEF Before
  <2>2. Cardinality(Before(i)) <= n /\ (n = Cardinality(Before(i)) => S = Before(i))
    BY <1>0, <2>1, FS_Subset
  <2>3. Cardinality(Before(i)) # n  BY <2>1, <2>2
  <2>4. Cardinality(Before(i)) \in Nat  BY <1>2
  <2> HIDE DEF n
  <2> QED  BY <1>1, <2>2, <2>3, <2>4
<1>4. \A i, j \in S : Earlier(i, j) => r[i] < r[j]
  <2> SUFFICES ASSUME NEW i \in S, NEW j \in S, Earlier(i, j) PROVE r[i] < r[j]
    OBVIOUS
  <2>1. Before(i) \in SUBSET Before(j)
    <3>1. \A k \in S : Earlier(k, i) => Earlier(k, j)  BY <1>0, EarlierIsAnOrder
    <3> QED  BY <3>1
  <2>2. i \in Before(j) /\ i \notin Before(i)  BY <1>0, EarlierIsAnOrder
  <2>3. r[i] = Cardinality(Before(i)) + 1 /\ r[j] = Cardinality(Before(j)) + 1  OBVIOUS
  <2> HIDE DEF Before, r
  <2>4. /\ Cardinality(Before(i)) <= Cardinality(Before(j))
        /\ Cardinality(Before(j)) = Cardinality(Before(i)) => Before(j) = Before(i)
    BY <1>2, <2>1, FS_Subset
  <2>5. Cardinality(Before(i)) # Cardinality(Before(j))  BY <2>2, <2>4
  <2> QED  BY <1>2, <2>3, <2>4, <2>5
<1>5. r \in [S -> 1..n]
  <2>1. \A i \in S : Cardinality(Before(i)) + 1 \in 1..n
    <3> TAKE i \in S
    <3>1. Cardinality(Before(i)) \in Nat /\ Cardinality(Before(i)) < n  BY <1>2, <1>3
    <3> HIDE DEF Before, n
    <3> QED  BY <1>1, <3>1
  <2> QED  BY <2>1
<1> HIDE DEF r
<1>6. \A i \in S : r[i] \in Nat  BY <1>1, <1>5
<1>7. \A i, j \in S : r[i] = r[j] => i = j
  <2> SUFFICES ASSUME NEW i \in S, NEW j \in S, i # j PROVE r[i] # r[j]
    OBVIOUS
  <2>1. Earlier(i, j) \/ Earlier(j, i)  BY <1>0, EarlierIsAnOrder
  <2> QED  BY <1>4, <1>6, <2>1
<1>8. r \in Surjection(S, 1..n)
  <2>1. r \in Injection(S, 1..n)  BY <1>5, <1>7 DEF Injection, IsInjective
  <2>2. IsFiniteSet(1..n) /\ Cardinality(1..n) = n  BY <1>1, FS_Interval
  <2> HIDE DEF n
  <2>3. Cardinality(S) = Cardinality(1..n)  BY <2>2 DEF n
  <2> QED  BY <2>1, <2>2, <2>3, FS_Injection
<1>9. \A k \in 1..n : \E i \in S : r[i] = k  BY <1>8 DEF Surjection
<1> DEFINE s == [k \in 1..n |-> CHOOSE i \in S : r[i] = k]
<1>10. s \in [1..n -> S] /\ \A k \in 1..n : r[s[k]] = k  BY <1>9
<1>11. \A k, l \in DOMAIN s : k < l => Earlier(s[k], s[l])
  <2> SUFFICES ASSUME NEW k \in 1..n, NEW l \in 1..n, k < l PROVE Earlier(s[k], s[l])
    OBVIOUS
  <2>1. s[k] \in S /\ s[l] \in S /\ r[s[k]] = k /\ r[s[l]] = l  BY <1>10
  <2> HIDE DEF s, n
  <2>2. s[k] # s[l] /\ ~(r[s[l]] < r[s[k]])  BY <1>1, <2>1
  <2>3. ~Earlier(s[l], s[k])  BY <1>4, <2>1, <2>2
  <2>4. s[k].id # s[l].id  BY <1>0, <2>1, <2>2
  <2> QED  BY <1>0, <2>1, <2>3, <2>4, EarlierIsAnOrder
<1> QED  BY <1>1, <1>10, <1>11

\* Popping takes every item, and none twice.
LEMMA PopsAll ==
  ASSUME NEW S, Distinct(S), NEW s \in [1..Cardinality(S) -> S],
         \A k, l \in DOMAIN s : k < l => Earlier(s[k], s[l])
  PROVE  /\ \A k, l \in 1..Cardinality(S) : s[k] = s[l] => k = l
         /\ \A i \in S : \E k \in 1..Cardinality(S) : s[k] = i
<1> DEFINE n == Cardinality(S)
<1>0. IsFiniteSet(S) /\ S \subseteq Items  BY DEF Distinct
<1>1. n \in Nat  BY <1>0, FS_CardinalityType
<1> HIDE DEF n
<1>2. \A k, l \in 1..n : k # l => s[k] # s[l]
  <2> SUFFICES ASSUME NEW k \in 1..n, NEW l \in 1..n, k < l PROVE s[k] # s[l]
    BY <1>1
  <2>1. Earlier(s[k], s[l]) /\ s[k] \in Items  BY <1>0 DEF n
  <2> QED  BY <2>1, EarlierIsAnOrder
<1>3. s \in Surjection(1..n, S)
  <2>1. s \in Injection(1..n, S)  BY <1>2 DEF Injection, IsInjective, n
  <2>2. IsFiniteSet(1..n) /\ Cardinality(1..n) = n  BY <1>1, FS_Interval
  <2>3. Cardinality(1..n) = Cardinality(S)  BY <2>2 DEF n
  <2> QED  BY <1>0, <2>1, <2>2, <2>3, FS_Injection
<1> QED  BY <1>2, <1>3 DEF Surjection, n

\* They are popped in the order of their times.
LEMMA PoppedInOrder ==
  ASSUME NEW S, Distinct(S)
  PROVE  /\ Cardinality(S) \in Nat /\ Popped(S) \in [1..Cardinality(S) -> S]
         /\ \A k, l \in 1..Cardinality(S) : k <= l => Popped(S)[k].at <= Popped(S)[l].at
         /\ \A k, l \in 1..Cardinality(S) : Popped(S)[k] = Popped(S)[l] => k = l
         /\ \A i \in S : \E k \in 1..Cardinality(S) : Popped(S)[k] = i
<1> DEFINE n == Cardinality(S)
           Pops(s) == \A k, l \in DOMAIN s : k < l => Earlier(s[k], s[l])
           p == CHOOSE s \in [1..n -> S] : Pops(s)
<1>1. n \in Nat /\ \E s \in [1..n -> S] : Pops(s)  BY CanBePopped
<1>2. p \in [1..n -> S] /\ Pops(p)  BY <1>1
<1>3. p = Popped(S)  BY DEF Popped
<1>4. ASSUME NEW k \in 1..n, NEW l \in 1..n, k <= l PROVE p[k].at <= p[l].at
  <2>1. p[k] \in Items /\ p[l] \in Items  BY <1>2 DEF Distinct
  <2>2. p[k].at \in Int  BY <2>1 DEF Items
  <2>3. CASE k = l  BY <2>2, <2>3
  <2>4. CASE k # l
    <3>1. k < l  BY <1>1, <1>4, <2>4
    <3>2. Earlier(p[k], p[l])  BY <1>2, <3>1
    <3> QED  BY <2>1, <3>2, EarlierIsAnOrder
  <2> QED  BY <2>3, <2>4
<1>5. /\ \A k, l \in 1..n : p[k] = p[l] => k = l
      /\ \A i \in S : \E k \in 1..n : p[k] = i
  <2> HIDE DEF p
  <2> QED  BY <1>2, PopsAll
<1> QED  BY <1>1, <1>2, <1>3, <1>4, <1>5

\* A release leaves nothing behind that is earlier than what it releases.
Releases(old, new, rest) ==
    \A k \in (Len(old) + 1)..Len(new) :
        /\ \A i \in rest : new[k].item.at <= i.at
        /\ \A l \in k..Len(new) : new[k].item.at <= new[l].item.at

Releasable == [item : Items, when : 0..MaxTime]

LEMMA ReleasedAfter ==
  ASSUME NEW a \in Seq(Releasable), NEW b \in Seq(Releasable)
  PROVE  /\ Len(a) \in Nat /\ a \o b \in Seq(Releasable) /\ Len(a \o b) = Len(a) + Len(b)
         /\ \A k \in 1..Len(a) : (a \o b)[k] = a[k]
         /\ \A k \in 1..Len(b) : (a \o b)[Len(a) + k] = b[k]
  OBVIOUS

\* What is popped is appended to what was released.
LEMMA ReleaseAppends ==
  ASSUME NEW some, NEW items, Distinct(items), some \in SUBSET items, released \in Seq(Releasable),
         some # {} => clock \in 0..MaxTime, Release(some, items)
  PROVE  /\ Distinct(some) /\ Cardinality(some) \in Nat /\ Len(released) \in Nat
         /\ heap' = items \ some /\ released' \in Seq(Releasable)
         /\ Len(released') = Len(released) + Cardinality(some)
         /\ \A k \in 1..Len(released) : released'[k] = released[k]
         /\ \A k \in 1..Cardinality(some) : released'[Len(released) + k].item = Popped(some)[k]
<1> DEFINE p == Popped(some)
           n == Cardinality(some)
           new == [k \in DOMAIN p |-> [item |-> p[k], when |-> clock]]
<1>1. Distinct(some)
  <2>1. IsFiniteSet(some)  BY FS_Subset DEF Distinct
  <2> QED  BY <2>1 DEF Distinct
<1>2. n \in Nat /\ p \in [1..n -> some]  BY <1>1, PoppedInOrder
<1>3. heap' = items \ some /\ released' = released \o new  BY DEF Release
<1> HIDE DEF p, n
<1>4. new \in Seq(Releasable) /\ Len(new) = n /\ \A k \in 1..n : new[k].item = p[k]
  <2>1. \A k \in 1..n : p[k] \in Items  BY <1>2 DEF Distinct
  <2>2. new = [k \in 1..n |-> [item |-> p[k], when |-> clock]]  BY <1>2
  <2>3. \A k \in 1..n : [item |-> p[k], when |-> clock] \in Releasable  BY <1>2, <2>1 DEF Releasable
  <2>4. new \in [1..n -> Releasable]  BY <2>2, <2>3
  <2>5. new \in Seq(Releasable)  BY <1>2, <2>4
  <2>6. Len(new) = n  BY <1>2, <2>2
  <2> QED  BY <2>2, <2>5, <2>6
<1> HIDE DEF new
<1>5. /\ Len(released) \in Nat /\ released' \in Seq(Releasable) /\ Len(released') = Len(released) + n
      /\ \A k \in 1..Len(released) : released'[k] = released[k]
      /\ \A k \in 1..n : released'[Len(released) + k] = new[k]
  BY <1>3, <1>4, ReleasedAfter
<1> QED  BY <1>1, <1>2, <1>3, <1>4, <1>5 DEF p, n

LEMMA ReleaseEffect ==
  ASSUME NEW some, NEW items, Distinct(items), some \in SUBSET items, released \in Seq(Releasable),
         some # {} => clock \in 0..MaxTime, Release(some, items),
         \A i \in some, j \in items \ some : i.at <= j.at
  PROVE  released' \in Seq(Releasable) /\ heap' = items \ some /\ Releases(released, released', heap')
<1> DEFINE p == Popped(some)
           n == Cardinality(some)
           m == Len(released)
<1>1. /\ Distinct(some) /\ n \in Nat /\ m \in Nat
      /\ heap' = items \ some /\ released' \in Seq(Releasable) /\ Len(released') = m + n
      /\ \A k \in 1..n : released'[m + k].item = p[k]
  BY ReleaseAppends
<1>2. p \in [1..n -> some] /\ \A k, l \in 1..n : k <= l => p[k].at <= p[l].at
  BY <1>1, PoppedInOrder
<1> HIDE DEF p, n, m
<1>3. ASSUME NEW k \in (m + 1)..Len(released')
      PROVE  k - m \in 1..n /\ released'[k].item = p[k - m]
  <2>1. k - m \in 1..n /\ m + (k - m) = k  BY <1>1
  <2> QED  BY <1>1, <2>1
<1>4. ASSUME NEW k \in (m + 1)..Len(released'), NEW i \in heap' PROVE released'[k].item.at <= i.at
  <2>1. p[k - m] \in some  BY <1>2, <1>3
  <2> QED  BY <1>1, <1>3, <2>1
<1>5. ASSUME NEW k \in (m + 1)..Len(released'), NEW l \in k..Len(released')
      PROVE  released'[k].item.at <= released'[l].item.at
  <2>1. l \in (m + 1)..Len(released') /\ k - m <= l - m  BY <1>1
  <2>2. k - m \in 1..n /\ l - m \in 1..n /\ released'[k].item = p[k - m] /\ released'[l].item = p[l - m]
    BY <1>3, <2>1
  <2> QED  BY <1>2, <2>1, <2>2
<1> QED  BY <1>1, <1>4, <1>5 DEF Releases, m

-----------------------------------------------------------------------------
(* What the iteration keeps *)

PlayInv ==
    /\ heap \subseteq Items /\ HeapOK
    /\ clock \in NotStarted..MaxTime
    /\ audio \in 0..MaxItems /\ arrived \in 0..MaxItems /\ audio <= arrived
    /\ released \in Seq(Releasable)

\* The items to release are those before the ones to keep.
LEMMA ReleaseKeepsTypes ==
  ASSUME PlayInv, NEW some, NEW items, Distinct(items), some \in SUBSET items,
         some # {} => clock # NotStarted, Release(some, items),
         \A i \in some, j \in items \ some : i.at <= j.at,
         arrived' \in arrived..MaxItems, \A i \in items : i.id < arrived'
  PROVE  /\ released' \in Seq(Releasable) /\ Releases(released, released', heap')
         /\ heap' \subseteq Items /\ HeapOK'
<1>1. released \in Seq(Releasable) /\ clock \in NotStarted..MaxTime
  BY DEF PlayInv
<1>2. some # {} => clock \in 0..MaxTime
  <2>1. clock \in NotStarted..MaxTime /\ clock # NotStarted => clock \in 0..MaxTime
    BY Bounds DEF NotStarted
  <2> QED  BY <1>1, <2>1
<1>3. /\ released' \in Seq(Releasable) /\ heap' = items \ some
      /\ Releases(released, released', heap')
  BY <1>1, <1>2, ReleaseEffect
<1>4. heap' \subseteq items  BY <1>3
<1>5. IsFiniteSet(heap')  BY <1>4, FS_Subset DEF Distinct
<1> QED  BY <1>3, <1>4, <1>5 DEF Distinct, HeapOK

\* What waits, with or without a message that arrives, can be popped.
LEMMA WaitingDistinct == PlayInv => Distinct(heap) /\ \A i \in heap : i.id < arrived
  BY DEF PlayInv, HeapOK, Distinct

LEMMA ArrivalDistinct ==
  ASSUME PlayInv, arrived < MaxItems, NEW kind \in {"audio", "text"}, NEW at \in Int
  PROVE  /\ Distinct(heap \cup {Item(kind, at)})
         /\ \A i \in heap \cup {Item(kind, at)} : i.id < arrived + 1
<1> DEFINE new == Item(kind, at)
<1>1. arrived \in Nat /\ arrived \in 0..MaxItems
  <2>1. arrived \in 0..MaxItems  BY DEF PlayInv
  <2> QED  BY <2>1, Bounds
<1>2. new \in Items /\ new.id = arrived  BY <1>1 DEF Item, Items
<1> HIDE DEF new
<1>3. heap \in SUBSET Items /\ IsFiniteSet(heap) /\ \A i \in heap : i.id < arrived
  BY DEF PlayInv, HeapOK
<1>4. \A i \in heap : i.id \in 0..MaxItems  BY <1>3 DEF Items
<1>5. \A i \in heap : i.id < arrived + 1 /\ i.id # arrived
  <2> SUFFICES ASSUME NEW i \in heap PROVE i.id < arrived + 1 /\ i.id # arrived
    OBVIOUS
  <2>1. i.id \in 0..MaxItems /\ i.id < arrived  BY <1>3, <1>4
  <2> QED  BY <1>1, <2>1, Bounds
<1>6. IsFiniteSet(heap \cup {new})  BY <1>3, FS_AddElement
<1>7. \A i, j \in heap \cup {new} : i.id = j.id => i = j
  BY <1>2, <1>5 DEF PlayInv, HeapOK
<1>8. \A i \in heap \cup {new} : i.id < arrived + 1  BY <1>1, <1>2, <1>5
<1>9. Distinct(heap \cup {new})  BY <1>2, <1>3, <1>6, <1>7 DEF Distinct
<1> QED  BY <1>8, <1>9 DEF new

\* What is due is before what is not.
LEMMA DueFirst ==
  ASSUME PlayInv, NEW items \in SUBSET Items
  PROVE  /\ Due(items) \in SUBSET items
         /\ Due(items) # {} => clock # NotStarted
         /\ \A i \in Due(items), j \in items \ Due(items) : i.at <= j.at
<1>1. clock \in Int
  <2>1. clock \in NotStarted..MaxTime  BY DEF PlayInv
  <2> QED  BY <2>1, Bounds DEF NotStarted
<1>2. \A i \in items : i.at \in Int  BY DEF Items
<1> QED  BY <1>1, <1>2 DEF Due

\* The top of the heap is before all others.
LEMMA TopIsFirst ==
  ASSUME NEW S, Distinct(S), S # {}
  PROVE  Top(S) \in S /\ \A j \in S \ {Top(S)} : Top(S).at <= j.at
<1> DEFINE n == Cardinality(S)
<1>0. IsFiniteSet(S) /\ S \subseteq Items  BY DEF Distinct
<1>1. n \in Nat /\ \E s \in [1..n -> S] : \A k, l \in DOMAIN s : k < l => Earlier(s[k], s[l])
  BY CanBePopped
<1>2. PICK s \in [1..n -> S] : \A k, l \in DOMAIN s : k < l => Earlier(s[k], s[l])
  BY <1>1
<1>3. n # 0
  <2>1. n = 0 => S = {}  BY <1>0, FS_EmptySet
  <2> QED  BY <2>1
<1> HIDE DEF n
<1>6. \A j \in S : \E k \in 1..n : s[k] = j  BY <1>2, PopsAll DEF n
<1>7. s[1] \in S /\ \A j \in S \ {s[1]} : Earlier(s[1], j)
  <2>1. 1 \in 1..n  BY <1>1, <1>3
  <2>2. ASSUME NEW j \in S \ {s[1]} PROVE Earlier(s[1], j)
    <3>1. PICK k \in 1..n : s[k] = j  BY <1>6
    <3>2. k # 1  BY <3>1
    <3>3. 1 < k  BY <1>1, <3>2
    <3> QED  BY <1>2, <2>1, <3>1, <3>3
  <2> QED  BY <2>1, <2>2
<1>8. Top(S) \in S /\ \A j \in S \ {Top(S)} : Earlier(Top(S), j)  BY <1>7 DEF Top
<1>9. \A i, j \in Items : Earlier(i, j) => i.at <= j.at  BY EarlierIsAnOrder
<1> QED  BY <1>0, <1>8, <1>9

\* A step that releases nothing.
LEMMA NothingReleased ==
  ASSUME PlayInv, released' = released
  PROVE  released' \in Seq(Releasable) /\ Releases(released, released', heap')
<1>1. Len(released) \in Nat /\ released' \in Seq(Releasable)  BY DEF PlayInv
<1>2. (Len(released) + 1)..Len(released') = {}  BY <1>1
<1> QED  BY <1>1, <1>2 DEF Releases

\* An item more or less in the heap.
LEMMA HeapShrinks ==
  ASSUME PlayInv, heap' \in SUBSET heap, UNCHANGED <<clock, audio, arrived, released>>
  PROVE  PlayInv' /\ Releases(released, released', heap')
<1>1. IsFiniteSet(heap')  BY FS_Subset DEF PlayInv, HeapOK
<1>2. HeapOK'  BY <1>1 DEF PlayInv, HeapOK
<1>3. released' = released  OBVIOUS
<1> QED  BY <1>2, <1>3, NothingReleased DEF PlayInv

LEMMA PlayStep == PlayInv /\ [Next]_vars => PlayInv' /\ Releases(released, released', heap')
  <1> SUFFICES ASSUME PlayInv, [Next]_vars
               PROVE  PlayInv' /\ Releases(released, released', heap')
    OBVIOUS
  <1>0. /\ heap \in SUBSET Items /\ clock \in NotStarted..MaxTime
        /\ audio \in 0..MaxItems /\ arrived \in 0..MaxItems /\ audio <= arrived
    BY DEF PlayInv
  <1>1. CASE Tick
    <2>1. clock # NotStarted /\ clock < MaxTime /\ clock' = clock + 1
          /\ UNCHANGED <<heap, audio, arrived, released>>
      BY <1>1 DEF Tick
    <2>2. clock' \in NotStarted..MaxTime  BY <1>0, <2>1, Bounds DEF NotStarted
    <2>3. Releases(released, released', heap')  BY <2>1, NothingReleased
    <2> QED  BY <2>1, <2>2, <2>3 DEF PlayInv, HeapOK
  <1>2. CASE AudioArrives
    <2> DEFINE at == audio - AudioBuffer
    <2>1. /\ arrived < MaxItems /\ heap' = heap \cup {Item("audio", at)}
          /\ clock' = IF clock = NotStarted THEN 0 ELSE clock
          /\ audio' = audio + 1 /\ arrived' = arrived + 1 /\ released' = released
      BY <1>2 DEF AudioArrives, Receiving
    <2>2. at \in Int
      <3>1. AudioBuffer \in Nat  BY BoundsAssumption
      <3> QED  BY <1>0, <3>1, Bounds
    <2>3. clock' \in NotStarted..MaxTime
      <3>1. 0 \in NotStarted..MaxTime  BY Bounds DEF NotStarted
      <3> QED  BY <1>0, <2>1, <3>1
    <2> HIDE DEF at
    <2>4. audio' \in 0..MaxItems /\ arrived' \in 0..MaxItems /\ audio' <= arrived'
      BY <1>0, <2>1, Bounds
    <2>5. Distinct(heap') /\ \A i \in heap' : i.id < arrived'
      BY <2>1, <2>2, ArrivalDistinct
    <2>6. released' \in Seq(Releasable) /\ Releases(released, released', heap')
      BY <2>1, NothingReleased
    <2> QED  BY <2>3, <2>4, <2>5, <2>6 DEF PlayInv, HeapOK, Distinct
  <1>3. CASE Recorded
    <2>1. Release(Due(heap), heap) /\ UNCHANGED <<clock, audio, arrived>>  BY <1>3 DEF Recorded
    <2>2. Distinct(heap) /\ \A i \in heap : i.id < arrived'  BY <2>1, WaitingDistinct
    <2>3. arrived' \in arrived..MaxItems  BY <1>0, <2>1, Bounds
    <2>4. /\ released' \in Seq(Releasable) /\ Releases(released, released', heap')
          /\ heap' \subseteq Items /\ HeapOK'
      BY <1>0, <2>1, <2>2, <2>3, DueFirst, ReleaseKeepsTypes
    <2> QED  BY <2>1, <2>4 DEF PlayInv
  <1>4. CASE TextArrives
    <2>1. PICK at \in audio..(audio + 1) :
            Release(Due(heap \cup {Item("text", at)}), heap \cup {Item("text", at)})
      BY <1>4 DEF TextArrives
    <2> DEFINE items == heap \cup {Item("text", at)}
    <2>2. arrived < MaxItems /\ arrived' = arrived + 1 /\ UNCHANGED <<clock, audio>>
      BY <1>4 DEF TextArrives, Receiving
    <2>3. at \in Int  BY <1>0, Bounds
    <2>4. arrived' \in arrived..MaxItems /\ arrived' \in 0..MaxItems /\ audio <= arrived'
      BY <1>0, <2>2, Bounds
    <2>5. Distinct(items) /\ \A i \in items : i.id < arrived'
      BY <2>2, <2>3, ArrivalDistinct
    <2>6. Release(Due(items), items)  BY <2>1
    <2> HIDE DEF items
    <2>7. items \in SUBSET Items  BY <2>5 DEF Distinct
    <2>8. /\ released' \in Seq(Releasable) /\ Releases(released, released', heap')
          /\ heap' \subseteq Items /\ HeapOK'
      BY <2>4, <2>5, <2>6, <2>7, DueFirst, ReleaseKeepsTypes
    <2> QED  BY <1>0, <2>2, <2>4, <2>8 DEF PlayInv
  <1>5. CASE DrainNext
    <2>1. Top(heap) \in Due(heap) /\ UNCHANGED <<clock, audio, arrived>>
          /\ \/ heap' = heap \ {Top(heap)} /\ UNCHANGED released
             \/ Release({Top(heap)}, heap)
      BY <1>5 DEF DrainNext
    <2>2. Top(heap) \in heap /\ clock # NotStarted  BY <1>0, <2>1, DueFirst
    <2>3. CASE heap' = heap \ {Top(heap)} /\ UNCHANGED released
      BY <2>1, <2>3, HeapShrinks
    <2>4. CASE Release({Top(heap)}, heap)
      <3>1. Distinct(heap) /\ \A i \in heap : i.id < arrived'  BY <2>1, WaitingDistinct
      <3>2. arrived' \in arrived..MaxItems  BY <1>0, <2>1, Bounds
      <3>3. \A i \in {Top(heap)}, j \in heap \ {Top(heap)} : i.at <= j.at
        BY <2>2, <3>1, TopIsFirst
      <3>4. {Top(heap)} \in SUBSET heap  BY <2>2
      <3>5. /\ released' \in Seq(Releasable) /\ Releases(released, released', heap')
            /\ heap' \subseteq Items /\ HeapOK'
        BY <2>2, <2>4, <3>1, <3>2, <3>3, <3>4, ReleaseKeepsTypes
      <3> QED  BY <2>1, <3>5 DEF PlayInv
    <2> QED  BY <2>1, <2>3, <2>4
  <1>6. CASE UNCHANGED <<heap, clock, audio, arrived, released>>
    BY <1>6, HeapShrinks
  <1>7. Connected \/ Ready \/ Rejected \/ RejectionCloses \/ StartBreaks \/ UnexpectedPacket \/ StartCancelled
        => UNCHANGED <<heap, clock, audio, arrived, released>>
    BY DEF Connected, Ready, Rejected, RejectionCloses, StartBreaks, UnexpectedPacket,
           StartCancelled, playing
  <1>8. ServerCloses \/ ReceivingEnds \/ Send \/ UNCHANGED vars
        => UNCHANGED <<heap, clock, audio, arrived, released>>
    BY DEF ServerCloses, ReceivingEnds, Send, vars, playing
  <1>9. \A c \in Closers : ShutdownCalled(c) \/ LockAcquired(c) \/ WebsocketClosed(c)
        => UNCHANGED <<heap, clock, audio, arrived, released>>
    BY DEF ShutdownCalled, LockAcquired, WebsocketClosed
  <1> QED
    BY <1>1, <1>2, <1>3, <1>4, <1>5, <1>6, <1>7, <1>8, <1>9 DEF Next

LEMMA PlayInit == Init => PlayInv
  <1> SUFFICES ASSUME Init PROVE PlayInv  OBVIOUS
  <1>1. heap = {} /\ clock = NotStarted /\ audio = 0 /\ arrived = 0 /\ released = <<>>
    BY DEF Init
  <1>2. IsFiniteSet({})  BY FS_EmptySet
  <1>3. NotStarted \in NotStarted..MaxTime /\ 0 \in 0..MaxItems /\ 0 <= 0
    BY Bounds DEF NotStarted
  <1>4. <<>> \in Seq(Releasable)  OBVIOUS
  <1> QED  BY <1>1, <1>2, <1>3, <1>4 DEF PlayInv, HeapOK

\* Nothing is released while something that is due earlier has arrived and waits:
\* get_nowait() and the drain of __aiter__ pop the heap in the order of the times.
THEOREM ReleasedInOrder == Spec => InOrder
  <1>1. PlayInv /\ [Next]_vars => PlayInv'  BY PlayStep
  <1>2. PlayInv /\ [Next]_vars =>
          [\A k \in (Len(released) + 1)..Len(released') :
             LET at == released'[k].item.at IN
             /\ \A i \in heap' : at <= i.at
             /\ \A l \in k..Len(released') : at <= released'[l].item.at]_vars
    BY PlayStep DEF Releases
  <1> QED  BY <1>1, <1>2, PlayInit, PTL DEF Spec, InOrder

-----------------------------------------------------------------------------
(* Everything is released *)

\* What was released has arrived, does not wait and is not released again.
Apart(items, rel, n) ==
    /\ \A k \in 1..Len(rel) : rel[k].item.id < n
    /\ \A k \in 1..Len(rel), i \in items : rel[k].item.id # i.id
    /\ \A k, l \in 1..Len(rel) : rel[k].item.id = rel[l].item.id => k = l

\* What has arrived waits or was released.
Accounted(items, rel, n) ==
    \A m \in 0..(n - 1) :
        (\E i \in items : i.id = m) \/ (\E k \in 1..Len(rel) : rel[k].item.id = m)

\* No message is lost as long as nobody removes the quest; those without audio wait.
KeptOK ==
    /\ clock = NotStarted <=> audio = 0
    /\ clock = NotStarted => released = <<>>
    /\ Apart(heap, released, arrived)
    /\ Undisturbed => Accounted(heap, released, arrived)

KeptInv == DrainInv /\ PlayInv /\ KeptOK

\* A release moves messages from the heap to the end of what was released.
LEMMA ReleaseKeeps ==
  ASSUME NEW n, NEW some, NEW items, Distinct(items), some \in SUBSET items,
         released \in Seq(Releasable), some # {} => clock \in 0..MaxTime,
         Release(some, items), \A i \in items : i.id < n, Apart(items, released, n)
  PROVE  /\ Apart(heap', released', n)
         /\ Accounted(items, released, n) => Accounted(heap', released', n)
         /\ some = {} => released' = released
<1> DEFINE p == Popped(some)
           c == Cardinality(some)
           m == Len(released)
<1>1. /\ Distinct(some) /\ c \in Nat /\ m \in Nat
      /\ heap' = items \ some /\ released' \in Seq(Releasable) /\ Len(released') = m + c
      /\ \A k \in 1..m : released'[k] = released[k]
      /\ \A k \in 1..c : released'[m + k].item = p[k]
  BY ReleaseAppends
<1>2. /\ p \in [1..c -> some]
      /\ \A k, l \in 1..c : p[k] = p[l] => k = l
      /\ \A i \in some : \E k \in 1..c : p[k] = i
  BY <1>1, PoppedInOrder
<1>3. some = {} => c = 0  BY FS_EmptySet
<1> HIDE DEF p, c, m
<1>4. some = {} => released' = released
  <2> SUFFICES ASSUME some = {} PROVE released' = released  OBVIOUS
  <2>1. Len(released') = m /\ \A k \in 1..m : released'[k] = released[k]  BY <1>1, <1>3
  <2> QED  BY <1>1, <2>1 DEF m
\* Every release is an old one or the pop of an item.
<1>5. \A k \in 1..(m + c) : k \in 1..m \/ (k - m \in 1..c /\ m + (k - m) = k)  BY <1>1
<1>6. \A k \in 1..m : k \in 1..(m + c)  BY <1>1
<1>7. \A k \in 1..c : m + k \in 1..(m + c)  BY <1>1
<1>8. \A k \in 1..(m + c) : \/ k \in 1..m /\ released'[k] = released[k]
                            \/ k - m \in 1..c /\ released'[k].item = p[k - m]
  BY <1>1, <1>5
<1>9. \A k \in 1..c : p[k] \in some /\ p[k] \in items  BY <1>2
<1>10. \A i, j \in items : i.id = j.id => i = j  BY DEF Distinct
<1>11. \A k \in 1..(m + c) : released'[k].item.id < n
  BY <1>8, <1>9 DEF Apart, m
<1>12. ASSUME NEW k \in 1..(m + c), NEW i \in items \ some PROVE released'[k].item.id # i.id
  BY <1>8, <1>9, <1>10 DEF Apart, m
<1>13. ASSUME NEW k \in 1..(m + c), NEW l \in 1..(m + c),
              released'[k].item.id = released'[l].item.id
       PROVE  k = l
  <2>1. CASE k \in 1..m /\ l \in 1..m /\ released'[k] = released[k] /\ released'[l] = released[l]
    BY <1>13, <2>1 DEF Apart, m
  <2>2. CASE k \in 1..m /\ released'[k] = released[k] /\ l - m \in 1..c /\ released'[l].item = p[l - m]
    BY <1>9, <1>13, <2>2 DEF Apart, m
  <2>3. CASE l \in 1..m /\ released'[l] = released[l] /\ k - m \in 1..c /\ released'[k].item = p[k - m]
    BY <1>9, <1>13, <2>3 DEF Apart, m
  <2>4. CASE /\ k - m \in 1..c /\ released'[k].item = p[k - m]
             /\ l - m \in 1..c /\ released'[l].item = p[l - m]
    <3>1. p[k - m] = p[l - m]  BY <1>9, <1>10, <1>13, <2>4
    <3>2. k - m = l - m  BY <1>2, <2>4, <3>1
    <3> QED  BY <1>1, <3>2
  <2> QED  BY <1>8, <2>1, <2>2, <2>3, <2>4
<1>14. Apart(heap', released', n)  BY <1>1, <1>11, <1>12, <1>13 DEF Apart
<1>15. ASSUME Accounted(items, released, n) PROVE Accounted(heap', released', n)
  <2> SUFFICES ASSUME NEW o \in 0..(n - 1)
               PROVE  (\E i \in heap' : i.id = o) \/ (\E k \in 1..(m + c) : released'[k].item.id = o)
    BY <1>1 DEF Accounted
  <2>1. CASE \E k \in 1..m : released[k].item.id = o
    <3>1. PICK k \in 1..m : released[k].item.id = o  BY <2>1
    <3>2. released'[k].item.id = o  BY <1>1, <3>1
    <3> QED  BY <1>6, <3>2
  <2>2. CASE \E i \in items : i.id = o
    <3>1. PICK i \in items : i.id = o  BY <2>2
    <3>2. CASE i \in some
      <4>1. PICK k \in 1..c : p[k] = i  BY <1>2, <3>2
      <4>2. released'[m + k].item.id = o  BY <1>1, <3>1, <4>1
      <4> QED  BY <1>7, <4>2
    <3>3. CASE i \notin some  BY <1>1, <3>1, <3>3
    <3> QED  BY <3>2, <3>3
  <2> QED  BY <1>15, <2>1, <2>2 DEF Accounted, m
<1> QED  BY <1>4, <1>14, <1>15

\* A message that arrives waits, before it may be released.
LEMMA ArrivalKeeps ==
  ASSUME KeptInv, arrived < MaxItems, NEW kind \in {"audio", "text"}, NEW at \in Int
  PROVE  /\ Apart(heap \cup {Item(kind, at)}, released, arrived + 1)
         /\ Accounted(heap, released, arrived)
              => Accounted(heap \cup {Item(kind, at)}, released, arrived + 1)
<1> DEFINE new == Item(kind, at)
<1>1. arrived \in Nat /\ released \in Seq(Releasable)
  <2>1. arrived \in 0..MaxItems /\ released \in Seq(Releasable)  BY DEF KeptInv, PlayInv
  <2> QED  BY <2>1, Bounds
<1>2. new.id = arrived  BY DEF Item
<1> HIDE DEF new
<1>3. \A k \in 1..Len(released) : released[k].item.id < arrived + 1 /\ released[k].item.id # arrived
  <2> SUFFICES ASSUME NEW k \in 1..Len(released)
               PROVE  released[k].item.id < arrived + 1 /\ released[k].item.id # arrived
    OBVIOUS
  <2>1. released[k].item.id < arrived  BY DEF KeptInv, KeptOK, Apart
  <2>2. released[k] \in Releasable  BY <1>1
  <2>3. released[k].item.id \in 0..MaxItems  BY <2>2 DEF Releasable, Items
  <2> QED  BY <1>1, <2>1, <2>3, Bounds
<1>4. Apart(heap \cup {new}, released, arrived + 1)
  BY <1>2, <1>3 DEF KeptInv, KeptOK, Apart
<1>5. ASSUME Accounted(heap, released, arrived) PROVE Accounted(heap \cup {new}, released, arrived + 1)
  <2>1. \A o \in 0..((arrived + 1) - 1) : o \in 0..(arrived - 1) \/ o = arrived  BY <1>1
  <2> QED  BY <1>2, <1>5, <2>1 DEF Accounted
<1> QED  BY <1>4, <1>5 DEF new

\* Nothing arrives, and nothing is released or popped only.
LEMMA KeptQuiet ==
  ASSUME KeptInv, DrainInv', PlayInv', UNCHANGED <<heap, audio, arrived, released>>,
         clock' = NotStarted <=> clock = NotStarted, Undisturbed' => Undisturbed
  PROVE  KeptInv'
  BY DEF KeptInv, KeptOK

LEMMA KeptStep == KeptInv /\ [Next]_vars => KeptInv'
  <1> SUFFICES ASSUME KeptInv, [Next]_vars PROVE KeptInv'  OBVIOUS
  <1>0. DrainInv' /\ PlayInv'  BY DrainStep, PlayStep DEF KeptInv
  <1>1. /\ PlayInv /\ heap \in SUBSET Items /\ released \in Seq(Releasable)
        /\ clock # NotStarted => clock \in 0..MaxTime
        /\ audio \in Nat /\ arrived \in Nat
    <2>1. heap \in SUBSET Items /\ released \in Seq(Releasable) /\ clock \in NotStarted..MaxTime
          /\ audio \in 0..MaxItems /\ arrived \in 0..MaxItems
      BY DEF KeptInv, PlayInv
    <2>2. clock # NotStarted => clock \in 0..MaxTime  BY <2>1, Bounds DEF NotStarted
    <2> QED  BY <2>1, <2>2, Bounds DEF KeptInv
  <1>2. Distinct(heap) /\ \A i \in heap : i.id < arrived  BY <1>1, WaitingDistinct
  <1>3. CASE Tick
    <2>1. clock # NotStarted /\ clock' = clock + 1 /\ UNCHANGED <<heap, audio, arrived, released, closing>>
      BY <1>3 DEF Tick, shutting
    <2>2. clock' # NotStarted  BY <1>1, <2>1 DEF NotStarted
    <2> QED  BY <1>0, <2>1, <2>2, KeptQuiet DEF Undisturbed
  <1>4. CASE AudioArrives
    <2> DEFINE at == audio - AudioBuffer
    <2>1. /\ arrived < MaxItems /\ heap' = heap \cup {Item("audio", at)}
          /\ clock' = IF clock = NotStarted THEN 0 ELSE clock
          /\ audio' = audio + 1 /\ arrived' = arrived + 1 /\ UNCHANGED <<released, closing>>
      BY <1>4 DEF AudioArrives, Receiving, shutting
    <2>2. at \in Int
      <3>1. AudioBuffer \in Nat  BY BoundsAssumption
      <3> QED  BY <1>1, <3>1
    <2> HIDE DEF at
    <2>3. Apart(heap', released', arrived')
          /\ (Accounted(heap, released, arrived) => Accounted(heap', released', arrived'))
      BY <2>1, <2>2, ArrivalKeeps
    <2>4. clock' # NotStarted /\ audio' # 0  BY <1>1, <2>1 DEF NotStarted
    <2> QED  BY <1>0, <2>1, <2>3, <2>4 DEF KeptInv, KeptOK, Undisturbed
  <1>5. CASE Recorded
    <2>1. Release(Due(heap), heap) /\ UNCHANGED <<clock, audio, arrived, closing>>
      BY <1>5 DEF Recorded, shutting
    <2>2. Due(heap) \in SUBSET heap /\ (Due(heap) # {} => clock # NotStarted)  BY <1>1, DueFirst
    <2>3. /\ Apart(heap', released', arrived)
          /\ Accounted(heap, released, arrived) => Accounted(heap', released', arrived)
          /\ Due(heap) = {} => released' = released
      BY <1>1, <1>2, <2>1, <2>2, ReleaseKeeps DEF KeptInv, KeptOK
    <2> QED  BY <1>0, <2>1, <2>2, <2>3 DEF KeptInv, KeptOK, Undisturbed
  <1>6. CASE TextArrives
    <2>1. PICK at \in audio..(audio + 1) :
            Release(Due(heap \cup {Item("text", at)}), heap \cup {Item("text", at)})
      BY <1>6 DEF TextArrives
    <2> DEFINE items == heap \cup {Item("text", at)}
    <2>2. arrived < MaxItems /\ arrived' = arrived + 1 /\ UNCHANGED <<clock, audio, closing>>
      BY <1>6 DEF TextArrives, Receiving, shutting
    <2>3. at \in Int  BY <1>1
    <2>4. Distinct(items) /\ \A i \in items : i.id < arrived'
      BY <1>1, <2>2, <2>3, ArrivalDistinct
    <2>5. Apart(items, released, arrived')
          /\ (Accounted(heap, released, arrived) => Accounted(items, released, arrived'))
      BY <2>2, <2>3, ArrivalKeeps
    <2>6. Release(Due(items), items)  BY <2>1
    <2> HIDE DEF items
    <2>7. items \in SUBSET Items  BY <2>4 DEF Distinct
    <2>8. Due(items) \in SUBSET items /\ (Due(items) # {} => clock # NotStarted)
      BY <1>1, <2>7, DueFirst
    <2>9. /\ Apart(heap', released', arrived')
          /\ Accounted(items, released, arrived') => Accounted(heap', released', arrived')
          /\ Due(items) = {} => released' = released
      BY <1>1, <2>4, <2>5, <2>6, <2>8, ReleaseKeeps
    <2> QED  BY <1>0, <2>2, <2>5, <2>8, <2>9 DEF KeptInv, KeptOK, Undisturbed
  <1>7. CASE DrainNext
    <2>1. /\ iter = "draining" /\ Top(heap) \in Due(heap)
          /\ UNCHANGED <<clock, audio, arrived, closing>>
          /\ \/ complete /\ heap' = heap \ {Top(heap)} /\ UNCHANGED released
             \/ ~complete /\ Release({Top(heap)}, heap)
      BY <1>7 DEF DrainNext, shutting
    <2>2. Top(heap) \in heap /\ clock # NotStarted  BY <1>1, <2>1, DueFirst
    <2>3. CASE ~complete /\ Release({Top(heap)}, heap)
      <3>1. {Top(heap)} \in SUBSET heap  BY <2>2
      <3>2. /\ Apart(heap', released', arrived)
            /\ Accounted(heap, released, arrived) => Accounted(heap', released', arrived)
        BY <1>1, <1>2, <2>2, <2>3, <3>1, ReleaseKeeps DEF KeptInv, KeptOK
      <3> QED  BY <1>0, <2>1, <2>2, <3>2 DEF KeptInv, KeptOK, Undisturbed
    \* Once shut down the message is popped only: by a remover, as the iteration drains.
    <2>4. CASE complete /\ heap' = heap \ {Top(heap)} /\ UNCHANGED released
      <3>1. ~Undisturbed
        <4>1. SUFFICES ASSUME Undisturbed PROVE FALSE  OBVIOUS
        <4>2. closing["iter"] # "no"  BY <2>4, <4>1 DEF KeptInv, DrainInv, DrainOK
        <4>3. heap = {}  BY <2>2, <4>1, <4>2 DEF KeptInv, DrainInv, DrainOK
        <4> QED  BY <2>2, <4>3
      <3>2. Apart(heap', released', arrived')  BY <2>1, <2>4 DEF KeptInv, KeptOK, Apart
      <3> QED  BY <1>0, <2>1, <2>2, <2>4, <3>1, <3>2 DEF KeptInv, KeptOK, Undisturbed
    <2> QED  BY <2>1, <2>3, <2>4
  <1>8. Connected \/ Ready \/ Rejected \/ RejectionCloses \/ StartBreaks \/ UnexpectedPacket \/ StartCancelled
        => UNCHANGED <<heap, clock, audio, arrived, released, closing>>
    BY DEF Connected, Ready, Rejected, RejectionCloses, StartBreaks, UnexpectedPacket,
           StartCancelled, playing, shutting
  <1>9. ServerCloses \/ ReceivingEnds \/ Send \/ UNCHANGED vars
        => UNCHANGED <<heap, clock, audio, arrived, released, closing>>
    BY DEF ServerCloses, ReceivingEnds, Send, vars, playing, shutting
  <1>10. CASE UNCHANGED <<heap, clock, audio, arrived, released, closing>>
    BY <1>0, <1>10, KeptQuiet DEF Undisturbed
  \* shutdown(): a remover that was called stays called.
  <1>11. ASSUME NEW c \in Closers, ShutdownCalled(c) \/ LockAcquired(c) \/ WebsocketClosed(c)
         PROVE  KeptInv'
    <2>1. UNCHANGED <<heap, clock, audio, arrived, released>>
      BY <1>11 DEF ShutdownCalled, LockAcquired, WebsocketClosed
    <2>2. \E to \in {"waiting", "closing", "done"} : closing' = [closing EXCEPT ![c] = to]
      BY <1>11, ShutDownCloses DEF ShutdownCalled, LockAcquired, WebsocketClosed, Returns, KeptInv
    <2>3. closing \in [Closers -> {"no", "waiting", "closing", "done"}]
      BY DEF KeptInv, DrainInv, ShutInv, ClosingOK
    <2>4. Undisturbed' => Undisturbed
      <3>1. \A o \in Closers : closing'[o] = "no" => closing[o] = "no"  BY <2>2, <2>3
      <3> QED  BY <3>1 DEF Undisturbed, Closers
    <2> QED  BY <1>0, <2>1, <2>4, KeptQuiet
  <1> QED  BY <1>3, <1>4, <1>5, <1>6, <1>7, <1>8, <1>9, <1>10, <1>11 DEF Next

LEMMA KeptInit == Init => KeptInv
  <1> SUFFICES ASSUME Init PROVE KeptOK  BY DrainInit, PlayInit DEF KeptInv
  <1>1. heap = {} /\ clock = NotStarted /\ audio = 0 /\ arrived = 0 /\ released = <<>>
    BY DEF Init
  <1>2. 1..Len(<<>>) = {} /\ 0..(0 - 1) = {}  OBVIOUS
  <1> QED  BY <1>1, <1>2 DEF KeptOK, Apart, Accounted

\* An iteration that nobody removes has released each message it received once when it
\* is done, or none at all if no audio was among them: nothing is left in the heap, and
\* nothing is taken off it without being released.
THEOREM DrainsCompletely == Spec => []NothingHeldBack
  <1>1. ASSUME KeptInv, iter = "done", Undisturbed
        PROVE  IF audio = 0 THEN released = <<>> ELSE \A n \in 0..(arrived - 1) : ReleasedOnce(n)
    <2>1. clock = NotStarted \/ heap = {}
      BY <1>1 DEF KeptInv, DrainInv, DrainOK
    <2>2. CASE audio = 0  BY <1>1, <2>2 DEF KeptInv, KeptOK
    <2>3. CASE audio # 0
      <3>1. heap = {}  BY <1>1, <2>1, <2>3 DEF KeptInv, KeptOK
      <3>2. DOMAIN released = 1..Len(released)  BY DEF KeptInv, PlayInv
      <3>3. ASSUME NEW n \in 0..(arrived - 1) PROVE ReleasedOnce(n)
        <4>1. PICK k \in 1..Len(released) : released[k].item.id = n
          BY <1>1, <3>1 DEF KeptInv, KeptOK, Accounted
        <4>2. \A l \in 1..Len(released) : released[l].item.id = n => l = k
          BY <1>1, <4>1 DEF KeptInv, KeptOK, Apart
        <4> QED  BY <3>2, <4>1, <4>2 DEF ReleasedOnce
      <3> QED  BY <2>3, <3>3
    <2> QED  BY <2>2, <2>3
  <1>2. KeptInv => NothingHeldBack  BY <1>1 DEF NothingHeldBack, Undisturbed
  <1>3. KeptInv /\ [Next]_vars => KeptInv'  BY KeptStep
  <1> QED  BY <1>2, <1>3, KeptInit, PTL DEF Spec

-----------------------------------------------------------------------------
(* The types *)

ControlInv ==
    /\ start \in {"connecting", "greeting", "rejecting", "up", "failed", "cancelled"}
    /\ ws \in {"none", "open", "closing", "ended", "broken"}
    /\ iter \in {"no", "receiving", "recording", "draining", "leaving", "done", "raised", "cancelled"}
    /\ lock \in Closers \cup {""}
    /\ sendError \in {"none", "ended", "broken", "closing"}

\* start_up() looks for the "Ready" message while it has packets left to look at.
PacketsInv ==
    /\ packets \in 0..StartPackets
    /\ start \in {"connecting", "greeting"} => packets < StartPackets

LEMMA ControlStep == ControlInv /\ [Next]_vars => ControlInv'
  <1> SUFFICES ASSUME ControlInv, [Next]_vars PROVE ControlInv'  OBVIOUS
  <1> USE DEF ControlInv, starting, playing, shutting
  <1>1. CASE Connected \/ Ready \/ Rejected \/ RejectionCloses \/ StartBreaks \/ StartCancelled
    BY <1>1 DEF Connected, Ready, Rejected, RejectionCloses, StartBreaks, StartCancelled
  <1>2. CASE UnexpectedPacket
    <2>1. start' \in {"failed", start} /\ UNCHANGED <<ws, iter, lock, sendError>>
      BY <1>2 DEF UnexpectedPacket
    <2> QED  BY <2>1
  <1>3. CASE Tick \/ AudioArrives \/ Recorded \/ TextArrives
    <2>1. (iter' = iter \/ iter' \in {"recording", "receiving"})
          /\ UNCHANGED <<start, ws, lock, sendError>>
      BY <1>3 DEF Tick, AudioArrives, Recorded, TextArrives
    <2> QED  BY <2>1
  <1>4. CASE ServerCloses \/ ReceivingEnds
    BY <1>4 DEF ServerCloses, ReceivingEnds
  <1>5. CASE DrainNext
    <2>1. iter' \in {"leaving", iter} /\ UNCHANGED <<start, ws, lock, sendError>>
      BY <1>5 DEF DrainNext
    <2> QED  BY <2>1
  <1>6. ASSUME NEW c \in Closers, ShutDown(c)
        PROVE  /\ iter' \in {iter, "done", "cancelled"} /\ ws' \in {ws, "closing", "none"}
               /\ lock' \in {lock, c}
    BY <1>6 DEF ShutDown, Returns
  <1>7. ASSUME NEW c \in Closers, ShutdownCalled(c) PROVE ControlInv'
    <2>1. UNCHANGED <<start, sendError>> /\ (ShutDown(c) \/ (iter' \in {"leaving", iter} /\ UNCHANGED <<ws, lock>>))
      BY <1>7 DEF ShutdownCalled
    <2> QED  BY <1>6, <2>1
  <1>8. ASSUME NEW c \in Closers, LockAcquired(c) PROVE ControlInv'
    <2>1. UNCHANGED <<start, sendError>> /\ ShutDown(c)  BY <1>8 DEF LockAcquired
    <2> QED  BY <1>6, <2>1
  <1>9. ASSUME NEW c \in Closers, WebsocketClosed(c) PROVE ControlInv'
    <2>1. /\ iter' \in {iter, "done", "cancelled"} /\ ws' = "none" /\ lock' = ""
          /\ UNCHANGED <<start, sendError>>
      BY <1>9 DEF WebsocketClosed, Returns
    <2> QED  BY <2>1
  <1>10. CASE Send
    <2>1. sendError' = ws /\ ws \notin {"none", "open"} /\ UNCHANGED <<start, ws, iter, lock>>
      BY <1>10 DEF Send, MaySend
    <2> QED  BY <2>1
  <1>11. CASE UNCHANGED vars
    <2>1. UNCHANGED <<start, ws, iter, lock, sendError>>  BY <1>11 DEF vars
    <2> QED  BY <2>1
  <1> QED
    BY <1>1, <1>2, <1>3, <1>4, <1>5, <1>7, <1>8, <1>9, <1>10, <1>11 DEF Next

LEMMA PacketsStep == PacketsInv /\ [Next]_vars => PacketsInv'
  <1> SUFFICES ASSUME PacketsInv, [Next]_vars PROVE PacketsInv'  OBVIOUS
  <1>0. StartPackets \in Nat \ {0}  BY BoundsAssumption
  <1>1. CASE UnexpectedPacket
    <2>1. /\ start = "greeting" /\ packets' = packets + 1
          /\ packets' = StartPackets => start' = "failed"
      BY <1>1 DEF UnexpectedPacket
    <2>2. packets \in 0..StartPackets /\ packets < StartPackets  BY <2>1 DEF PacketsInv
    <2>3. packets' \in 0..StartPackets /\ (packets' = StartPackets \/ packets' < StartPackets)
      BY <1>0, <2>1, <2>2
    <2> QED  BY <2>1, <2>3 DEF PacketsInv
  <1>2. CASE packets' = packets /\ (start' \in {"connecting", "greeting"} => start \in {"connecting", "greeting"})
    BY <1>2 DEF PacketsInv
  <1>3. Connected \/ Ready \/ Rejected \/ RejectionCloses \/ StartBreaks \/ StartCancelled
        => packets' = packets /\ (start' \in {"connecting", "greeting"} => start \in {"connecting", "greeting"})
    BY DEF Connected, Ready, Rejected, RejectionCloses, StartBreaks, StartCancelled
  <1>4. Tick \/ AudioArrives \/ Recorded \/ TextArrives \/ ServerCloses \/ ReceivingEnds \/ DrainNext
        => UNCHANGED <<packets, start>>
    BY DEF Tick, AudioArrives, Recorded, TextArrives, ServerCloses, ReceivingEnds, DrainNext, starting
  <1>5. \A c \in Closers : ShutdownCalled(c) \/ LockAcquired(c) \/ WebsocketClosed(c)
        => UNCHANGED <<packets, start>>
    BY DEF ShutdownCalled, LockAcquired, WebsocketClosed, starting
  <1>6. Send \/ UNCHANGED vars => UNCHANGED <<packets, start>>  BY DEF Send, vars, starting
  <1> QED  BY <1>1, <1>2, <1>3, <1>4, <1>5, <1>6 DEF Next

\* Every variable holds what the code can store in it.
THEOREM TypeCorrect == Spec => []TypeOK
  <1> DEFINE Types == ControlInv /\ PacketsInv /\ PlayInv /\ ShutInv
  <1>1. Init => Types
    <2> SUFFICES ASSUME Init PROVE ControlInv /\ PacketsInv  BY PlayInit, ShutInit
    <2>1. ControlInv  BY DEF Init, ControlInv
    <2>2. StartPackets \in Nat \ {0} /\ packets = 0  BY BoundsAssumption DEF Init
    <2>3. packets \in 0..StartPackets /\ packets < StartPackets  BY <2>2
    <2> QED  BY <2>1, <2>3 DEF PacketsInv
  <1>2. Types /\ [Next]_vars => Types'  BY ControlStep, PacketsStep, PlayStep, ShutStep
  <1>3. Types => TypeOK
    <2> SUFFICES ASSUME Types PROVE TypeOK  OBVIOUS
    <2>1. gauge \in Int  BY DEF ShutInv, CountedOnce
    <2>2. released \in Seq([item : Items, when : 0..MaxTime])  BY DEF PlayInv, Releasable
    <2> QED  BY <2>1, <2>2 DEF ControlInv, PacketsInv, PlayInv, ShutInv, ClosingOK, TypeOK
  <1> HIDE DEF Types
  <1> QED  BY <1>1, <1>2, <1>3, PTL DEF Spec
=============================================================================
