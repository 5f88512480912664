----------------------------- MODULE ChatProofs -----------------------------
(***************************************************************************)
(* Proofs about what is made of a conversation.                            *)
(*                                                                         *)
(* Recorder: what a completed refusal deletes stays deleted, and recording *)
(* disturbs nobody who allows it.                                          *)
(*                                                                         *)
(* ChatHistory: for every history that the calls can make, what the LLM is *)
(* shown takes turns, has every word that was said and no stray dash.      *)
(*                                                                         *)
(* Rechunk: however the text is cut, the TTS is given its words, whole.    *)
(*                                                                         *)
(* Load test: the report of an undisturbed conversation is right, but for  *)
(* what the client was told too late, however long.                        *)
(*                                                                         *)
(* The operators are recursive functions: what they compute is shown with  *)
(* Induction and StepByStep, first-order lemmas on finite sets.            *)
(***************************************************************************)
EXTENDS MCChat, FiniteSetTheorems, SequenceTheorems, WellFoundedInduction, TLAPS

-----------------------------------------------------------------------------
(* The recorder *)

\* A file on disk was created by the one opening of the task it is named after.
FilesOK ==
    /\ \A h \in Adders : handle[h] # "none" => onDisk[h] # None
    /\ \A h \in Adders : onDisk[h] # None => onDisk[onDisk[h]] # None
    /\ path # None => onDisk[path] # None
    /\ \A f \in past : onDisk[f] # None

\* A task that has opened the file does not open it again.
OnceOK ==
    \A a \in Adders : onDisk[a] # None => pc[a] # "opening" /\ (file # None \/ a \in cancelled)

\* A task that writes or closes has a handle that was opened, and the recorder has one.
TargetOK ==
    /\ \A a \in Adders : pc[a] \in {"writing", "closing"} =>
          target[a] # None /\ handle[target[a]] # "none" /\ file # None
    /\ session = "closing" => file # None /\ target["cleanup"] \in Adders
                                /\ handle[target["cleanup"]] # "none"

\* While the user allows the recording and the session is on, nothing is closed.
ConsentOK ==
    /\ session = "on" => cancelled \cap {"client", "server"} = {}
    /\ refusal = "no" => pc["client"] # "closing"
    /\ refusal = "no" /\ session = "on" => \A h \in Adders : handle[h] # "closed"

RecorderInv ==
    TypeOK /\ FilesOK /\ OnceOK /\ TargetOK /\ ConsentOK /\ PastIsDeleted /\ NoErrorWithConsent

LEMMA InvInit == Init => RecorderInv
  <1> SUFFICES ASSUME Init PROVE RecorderInv  OBVIOUS
  <1> USE DEF Init, Holders, Adders, None
  <1>1. TypeOK  BY DEF TypeOK
  <1>2. FilesOK /\ OnceOK  BY DEF FilesOK, OnceOK
  <1>3. TargetOK /\ ConsentOK  BY DEF TargetOK, ConsentOK
  <1>4. PastIsDeleted /\ NoErrorWithConsent  BY DEF PastIsDeleted, NoErrorWithConsent
  <1> QED  BY <1>1, <1>2, <1>3, <1>4 DEF RecorderInv

LEMMA InvStep == RecorderInv /\ [Next]_vars => RecorderInv'
  <1> SUFFICES ASSUME RecorderInv, [Next]_vars PROVE RecorderInv'  OBVIOUS
  <1> USE DEF RecorderInv, disk, Holders, Adders, None
  <1>1. ASSUME NEW a \in Adders, AddEvent(a) PROVE RecorderInv'
    <2>1. TypeOK'  BY <1>1 DEF AddEvent, StartsToAdd, TypeOK
    <2>2. FilesOK'  BY <1>1 DEF AddEvent, StartsToAdd, TypeOK, FilesOK
    <2>3. OnceOK'  BY <1>1 DEF AddEvent, StartsToAdd, TypeOK, OnceOK
    <2>4. TargetOK'  BY <1>1 DEF AddEvent, StartsToAdd, TypeOK, TargetOK
    <2>5. ConsentOK'  BY <1>1 DEF AddEvent, StartsToAdd, TypeOK, ConsentOK
    <2>6. PastIsDeleted'  BY <1>1 DEF AddEvent, StartsToAdd, TypeOK, FilesOK, OnceOK, PastIsDeleted
    <2>7. NoErrorWithConsent'  BY <1>1 DEF AddEvent, StartsToAdd, TypeOK, ConsentOK, NoErrorWithConsent
    <2> QED  BY <2>1, <2>2, <2>3, <2>4, <2>5, <2>6, <2>7
  <1>2. ASSUME NEW a \in Adders, Opened(a) PROVE RecorderInv'
    <2>1. TypeOK'  BY <1>2 DEF Opened, OpensFile, TypeOK
    <2>2. FilesOK'  BY <1>2 DEF Opened, OpensFile, TypeOK, FilesOK
    <2>3. OnceOK'  BY <1>2 DEF Opened, OpensFile, TypeOK, OnceOK
    <2>4. TargetOK'  BY <1>2 DEF Opened, OpensFile, TypeOK, TargetOK
    <2>5. ConsentOK'  BY <1>2 DEF Opened, OpensFile, TypeOK, ConsentOK
    <2>6. PastIsDeleted'  BY <1>2 DEF Opened, OpensFile, TypeOK, FilesOK, OnceOK, PastIsDeleted
    <2>7. NoErrorWithConsent'  BY <1>2 DEF Opened, OpensFile, TypeOK, ConsentOK, NoErrorWithConsent
    <2> QED  BY <2>1, <2>2, <2>3, <2>4, <2>5, <2>6, <2>7
  <1>3. ASSUME NEW a \in Adders, Written(a) PROVE RecorderInv'
    <2>1. TypeOK'
      <3>1. onDisk[target[a]] \in Adders
        BY <1>3 DEF Written, TypeOK, FilesOK, TargetOK
      <3>2. past' \subseteq Adders  BY <1>3, <3>1 DEF Written, TypeOK
      <3>3. pc' \in [Adders -> {"idle", "opening", "writing", "closing"}]
            /\ target' \in [Holders -> Adders \cup {None}]
        BY <1>3 DEF Written, GoesOn, TypeOK
      <3> QED  BY <1>3, <3>2, <3>3 DEF Written, TypeOK
    <2>2. FilesOK'  BY <1>3 DEF Written, GoesOn, TypeOK, FilesOK, TargetOK
    <2>3. OnceOK'  BY <1>3 DEF Written, GoesOn, TypeOK, OnceOK
    <2>4. TargetOK'  BY <1>3 DEF Written, GoesOn, TypeOK, TargetOK
    <2>5. ConsentOK'  BY <1>3 DEF Written, GoesOn, TypeOK, ConsentOK
    <2>6. PastIsDeleted'  BY <1>3 DEF Written, GoesOn, TypeOK, FilesOK, OnceOK, PastIsDeleted
    <2>7. NoErrorWithConsent'  BY <1>3 DEF Written, GoesOn, TypeOK, ConsentOK, NoErrorWithConsent
    <2> QED  BY <2>1, <2>2, <2>3, <2>4, <2>5, <2>6, <2>7
  <1>4. ASSUME NEW a \in Adders, WriteRaises(a) PROVE RecorderInv'
    <2>1. TypeOK'  BY <1>4 DEF WriteRaises, TypeOK
    <2>2. FilesOK'  BY <1>4 DEF WriteRaises, TypeOK, FilesOK
    <2>3. OnceOK'  BY <1>4 DEF WriteRaises, TypeOK, OnceOK
    <2>4. TargetOK'  BY <1>4 DEF WriteRaises, TypeOK, TargetOK
    <2>5. ConsentOK'  BY <1>4 DEF WriteRaises, TypeOK, ConsentOK
    <2>6. PastIsDeleted'  BY <1>4 DEF WriteRaises, TypeOK, FilesOK, OnceOK, PastIsDeleted
    <2>7. NoErrorWithConsent'  BY <1>4 DEF WriteRaises, TypeOK, TargetOK, ConsentOK, NoErrorWithConsent
    <2> QED  BY <2>1, <2>2, <2>3, <2>4, <2>5, <2>6, <2>7
  <1>5. CASE Refuse
    <2>1. TypeOK'  BY <1>5 DEF Refuse, StartsToAdd, TypeOK
    <2>2. FilesOK'  BY <1>5 DEF Refuse, StartsToAdd, TypeOK, FilesOK
    <2>3. OnceOK'  BY <1>5 DEF Refuse, StartsToAdd, TypeOK, OnceOK
    <2>4. TargetOK'  BY <1>5 DEF Refuse, StartsToAdd, TypeOK, TargetOK
    <2>5. ConsentOK'  BY <1>5 DEF Refuse, StartsToAdd, TypeOK, ConsentOK
    <2>6. PastIsDeleted'  BY <1>5 DEF Refuse, StartsToAdd, TypeOK, FilesOK, OnceOK, PastIsDeleted
    <2>7. NoErrorWithConsent'  BY <1>5 DEF Refuse, StartsToAdd, TypeOK, ConsentOK, NoErrorWithConsent
    <2> QED  BY <2>1, <2>2, <2>3, <2>4, <2>5, <2>6, <2>7
  <1>6. CASE Deleted
    <2>1. TypeOK'  BY <1>6 DEF Deleted, TypeOK
    <2>2. FilesOK'  BY <1>6 DEF Deleted, TypeOK, FilesOK, TargetOK
    <2>3. OnceOK'  BY <1>6 DEF Deleted, TypeOK, OnceOK
    <2>4. TargetOK'  BY <1>6 DEF Deleted, TypeOK, TargetOK
    <2>5. ConsentOK'  BY <1>6 DEF Deleted, TypeOK, ConsentOK
    <2>6. PastIsDeleted'  BY <1>6 DEF Deleted, TypeOK, FilesOK, OnceOK, PastIsDeleted
    <2>7. NoErrorWithConsent'  BY <1>6 DEF Deleted, TypeOK, ConsentOK, NoErrorWithConsent
    <2> QED  BY <2>1, <2>2, <2>3, <2>4, <2>5, <2>6, <2>7
  <1>7. CASE ClosedCancelled
    <2>1. TypeOK'  BY <1>7 DEF ClosedCancelled, TypeOK
    <2>2. FilesOK'  BY <1>7 DEF ClosedCancelled, TypeOK, FilesOK, TargetOK
    <2>3. OnceOK'  BY <1>7 DEF ClosedCancelled, TypeOK, OnceOK
    <2>4. TargetOK'  BY <1>7 DEF ClosedCancelled, TypeOK, TargetOK
    <2>5. ConsentOK'  BY <1>7 DEF ClosedCancelled, TypeOK, ConsentOK
    <2>6. PastIsDeleted'  BY <1>7 DEF ClosedCancelled, TypeOK, FilesOK, OnceOK, PastIsDeleted
    <2>7. NoErrorWithConsent'  BY <1>7 DEF ClosedCancelled, TypeOK, ConsentOK, NoErrorWithConsent
    <2> QED  BY <2>1, <2>2, <2>3, <2>4, <2>5, <2>6, <2>7
  <1>8. CASE TtsCreated
    <2>1. TypeOK'  BY <1>8 DEF TtsCreated, TypeOK
    <2>2. FilesOK'  BY <1>8 DEF TtsCreated, TypeOK, FilesOK
    <2>3. OnceOK'  BY <1>8 DEF TtsCreated, TypeOK, OnceOK
    <2>4. TargetOK'  BY <1>8 DEF TtsCreated, TypeOK, TargetOK
    <2>5. ConsentOK'  BY <1>8 DEF TtsCreated, TypeOK, ConsentOK
    <2>6. PastIsDeleted'  BY <1>8 DEF TtsCreated, TypeOK, FilesOK, OnceOK, PastIsDeleted
    <2>7. NoErrorWithConsent'  BY <1>8 DEF TtsCreated, TypeOK, ConsentOK, NoErrorWithConsent
    <2> QED  BY <2>1, <2>2, <2>3, <2>4, <2>5, <2>6, <2>7
  <1>9. CASE SessionEnds
    <2>1. TypeOK'  BY <1>9 DEF SessionEnds, TypeOK
    <2>2. FilesOK'  BY <1>9 DEF SessionEnds, TypeOK, FilesOK
    <2>3. OnceOK'  BY <1>9 DEF SessionEnds, TypeOK, OnceOK
    <2>4. TargetOK'  BY <1>9 DEF SessionEnds, TypeOK, TargetOK
    <2>5. ConsentOK'  BY <1>9 DEF SessionEnds, TypeOK, ConsentOK
    <2>6. PastIsDeleted'  BY <1>9 DEF SessionEnds, TypeOK, FilesOK, OnceOK, PastIsDeleted
    <2>7. NoErrorWithConsent'  BY <1>9 DEF SessionEnds, TypeOK, ConsentOK, NoErrorWithConsent
    <2> QED  BY <2>1, <2>2, <2>3, <2>4, <2>5, <2>6, <2>7
  <1>10. CASE CleanedUp
    <2>1. TypeOK'  BY <1>10 DEF CleanedUp, TypeOK
    <2>2. FilesOK'  BY <1>10 DEF CleanedUp, TypeOK, FilesOK, TargetOK
    <2>3. OnceOK'  BY <1>10 DEF CleanedUp, TypeOK, OnceOK
    <2>4. TargetOK'  BY <1>10 DEF CleanedUp, TypeOK, TargetOK
    <2>5. ConsentOK'  BY <1>10 DEF CleanedUp, TypeOK, ConsentOK
    <2>6. PastIsDeleted'  BY <1>10 DEF CleanedUp, TypeOK, FilesOK, OnceOK, PastIsDeleted
    <2>7. NoErrorWithConsent'  BY <1>10 DEF CleanedUp, TypeOK, ConsentOK, NoErrorWithConsent
    <2> QED  BY <2>1, <2>2, <2>3, <2>4, <2>5, <2>6, <2>7
  <1>11. CASE QuestsCancelled
    <2>1. TypeOK'  BY <1>11 DEF QuestsCancelled, TypeOK
    <2>2. FilesOK'  BY <1>11 DEF QuestsCancelled, TypeOK, FilesOK
    <2>3. OnceOK'  BY <1>11 DEF QuestsCancelled, TypeOK, OnceOK
    <2>4. TargetOK'  BY <1>11 DEF QuestsCancelled, TypeOK, TargetOK
    <2>5. ConsentOK'  BY <1>11 DEF QuestsCancelled, TypeOK, ConsentOK
    <2>6. PastIsDeleted'  BY <1>11 DEF QuestsCancelled, TypeOK, FilesOK, OnceOK, PastIsDeleted
    <2>7. NoErrorWithConsent'  BY <1>11 DEF QuestsCancelled, TypeOK, ConsentOK, NoErrorWithConsent
    <2> QED  BY <2>1, <2>2, <2>3, <2>4, <2>5, <2>6, <2>7
  <1>12. CASE UNCHANGED vars
    BY <1>12 DEF vars, TypeOK, FilesOK, OnceOK, TargetOK, ConsentOK, PastIsDeleted, NoErrorWithConsent
  <1> QED
    BY <1>1, <1>2, <1>3, <1>4, <1>5, <1>6, <1>7, <1>8, <1>9, <1>10, <1>11, <1>12 DEF Next

-----------------------------------------------------------------------------

\* Every variable holds what the code can store in it; opened_file is a handle that
\* has been opened.
THEOREM TypeCorrect == Spec => []TypeOK
  <1>1. RecorderInv => TypeOK  BY DEF RecorderInv
  <1> QED  BY <1>1, InvInit, InvStep, PTL DEF Spec

\* shutdown(keep_recording=False) deletes for good what was recorded before it: whoever
\* opens the file again starts a new one.
THEOREM RefusalDeletes == Spec => []PastIsDeleted
  <1>1. RecorderInv => PastIsDeleted  BY DEF RecorderInv
  <1> QED  BY <1>1, InvInit, InvStep, PTL DEF Spec

\* Tasks that open the file at the same time do not make one another's writes fail:
\* only shutdown() closes a handle, and none is called before a refusal or the end.
THEOREM ConsentIsUndisturbed == Spec => []NoErrorWithConsent
  <1>1. RecorderInv => NoErrorWithConsent  BY DEF RecorderInv
  <1> QED  BY <1>1, InvInit, InvStep, PTL DEF Spec

-----------------------------------------------------------------------------
(* Induction over a number, and values defined by it *)

LEMMA Least ==
    ASSUME NEW n \in Nat, NEW T \in SUBSET (0..n), T # {}
    PROVE  \E k \in T : \A m \in T : k <= m
<1> DEFINE U == {0..t : t \in T}
           S == StrictSubsetOrdering(0..n)
<1>1. IsFiniteSet(0..n)  BY FS_Interval
<1>2. FiniteSubsetsOf(0..n) = SUBSET (0..n)  BY <1>1, FS_Subset DEF FiniteSubsetsOf
<1>3. IsWellFoundedOn(S, SUBSET (0..n))
  BY <1>1, <1>2, FS_StrictSubsetOrderingWellFounded, FS_FiniteSubsetsOfFinite
<1>4. U \subseteq SUBSET (0..n) /\ U # {}
  <2>1. \A t \in 0..n : 0..t \subseteq 0..n  OBVIOUS
  <2> QED  BY <2>1
<1>5. PICK u \in U : \A v \in U : ~(<<v, u>> \in S)
  <2> HIDE DEF U, S
  <2> QED  BY <1>3, <1>4, WFMin
<1>6. PICK k \in T : u = 0..k  BY <1>5
<1>7. \A m \in T : k <= m
  <2> SUFFICES ASSUME NEW m \in T, m < k PROVE FALSE
    OBVIOUS
  <2>1. 0..m \in U /\ 0..m \subseteq 0..k /\ 0..m # 0..k  BY <1>6
  <2>2. <<0..m, 0..k>> \in S  BY <2>1 DEF StrictSubsetOrdering
  <2> QED  BY <1>5, <1>6, <2>1, <2>2
<1> QED  BY <1>7

\* What holds of 0 and of each number after one it holds of, holds of all.
LEMMA Induction ==
    ASSUME NEW N \in Nat, NEW T \in SUBSET (0..N), 0 \in T,
           \A n \in 1..N : n - 1 \in T => n \in T
    PROVE  T = 0..N
<1> SUFFICES ASSUME (0..N) \ T # {} PROVE FALSE
  OBVIOUS
<1>1. PICK k \in (0..N) \ T : \A m \in (0..N) \ T : k <= m
  <2> DEFINE X == (0..N) \ T
  <2>1. X \in SUBSET (0..N) /\ X # {}  OBVIOUS
  <2> HIDE DEF X
  <2>2. \E k \in X : \A m \in X : k <= m  BY <2>1, Least
  <2> QED  BY <2>2 DEF X
<1>2. k # 0  OBVIOUS
<1>3. k \in 1..N /\ k - 1 \in 0..N /\ ~(k <= k - 1)  BY <1>2
<1>4. k - 1 \in T  BY <1>1, <1>3
<1> QED  BY <1>3, <1>4

Steps(N, S) == [1..N -> [S -> S]]

FollowsSteps(N, S, base, step) ==
    \E f \in [0..N -> S] : f[0] = base /\ \A n \in 1..N : f[n] = step[n][f[n - 1]]

LEMMA StepByStep ==
    ASSUME NEW N \in Nat, NEW S, NEW base \in S, NEW step \in Steps(N, S)
    PROVE  FollowsSteps(N, S, base, step)
<1> USE DEF Steps
<1> SUFFICES \E f \in [0..N -> S] : f[0] = base /\ \A n \in 1..N : f[n] = step[n][f[n - 1]]
  BY DEF FollowsSteps
<1> DEFINE Upto(k, f) == f[0] = base /\ \A n \in 1..k : f[n] = step[n][f[n - 1]]
           T == {k \in 0..N : \E f \in [0..k -> S] : Upto(k, f)}
<1>1. 0 \in T
  <2> DEFINE g == [n \in 0..0 |-> base]
  <2>1. g \in [0..0 -> S] /\ g[0] = base /\ 1..0 = {}  OBVIOUS
  <2> HIDE DEF g
  <2>2. Upto(0, g)  BY <2>1
  <2>3. 0 \in 0..N  OBVIOUS
  <2> QED  BY <2>1, <2>2, <2>3
<1>2. ASSUME NEW k \in 1..N, k - 1 \in T PROVE k \in T
  <2>1. PICK f \in [0..(k - 1) -> S] : Upto(k - 1, f)  BY <1>2
  <2> DEFINE g == [n \in 0..k |-> IF n = k THEN step[k][f[k - 1]] ELSE f[n]]
  <2>2. f[k - 1] \in S /\ step[k] \in [S -> S]  OBVIOUS
  <2>3. g[k] = step[k][f[k - 1]] /\ \A n \in 0..(k - 1) : g[n] = f[n]  OBVIOUS
  <2>4. g \in [0..k -> S]  BY <2>2
  <2>5. g[0] = base  BY <2>1, <2>3
  <2>6. ASSUME NEW n \in 1..k PROVE g[n] = step[n][g[n - 1]]
    <3>1. CASE n = k
      <4>1. g[k - 1] = f[k - 1]  BY <2>3
      <4> QED  BY <2>3, <3>1, <4>1
    <3>2. CASE n # k
      <4>1. n \in 1..(k - 1) /\ n - 1 \in 0..(k - 1) /\ n \in 0..(k - 1)  BY <3>2
      <4> HIDE DEF g
      <4>2. g[n] = f[n] /\ g[n - 1] = f[n - 1]  BY <2>3, <4>1
      <4> QED  BY <2>1, <4>1, <4>2
    <3> QED  BY <3>1, <3>2
  <2> HIDE DEF g
  <2>7. k \in 0..N  OBVIOUS
  <2> QED  BY <2>4, <2>5, <2>6, <2>7
<1>3. N \in T
  <2> HIDE DEF T
  <2>1. T \in SUBSET (0..N)  BY DEF T
  <2>2. T = 0..N  BY <1>1, <1>2, <2>1, Induction
  <2> QED  BY <2>2
<1> QED  BY <1>3

-----------------------------------------------------------------------------
(* The operators on histories *)

\* Messages whose words are of a set.
Told(W) == [role : Chat!Roles, content : Seq(W)]

System == Chat!Message("system", <<"prompt">>)

LEMMA MessageFields ==
    ASSUME NEW W, NEW m \in Told(W)
    PROVE  m.role \in Chat!Roles /\ m.content \in Seq(W) /\ m = [role |-> m.role, content |-> m.content]
  BY DEF Told

LEMMA IsMessage ==
    ASSUME NEW W, NEW role \in Chat!Roles, NEW c \in Seq(W)
    PROVE  /\ Chat!Message(role, c) \in Told(W)
           /\ Chat!Message(role, c).role = role /\ Chat!Message(role, c).content = c
  BY DEF Told, Chat!Message

LEMMA ContentChanges ==
    ASSUME NEW W, NEW m \in Told(W), NEW c \in Seq(W)
    PROVE  [m EXCEPT !.content = c] = Chat!Message(m.role, c)
<1>1. m = [role |-> m.role, content |-> m.content]  BY MessageFields
<1>2. \A a, b : [[role |-> a, content |-> b] EXCEPT !.content = c] = [role |-> a, content |-> c]
  OBVIOUS
<1> QED  BY <1>1, <1>2, Zenon DEF Chat!Message

LEMMA ConcatEffect ==
    ASSUME NEW S, NEW a \in Seq(S), NEW b \in Seq(S)
    PROVE  /\ a \o b \in Seq(S) /\ Len(a \o b) = Len(a) + Len(b)
           /\ \A i \in 1..Len(a) : (a \o b)[i] = a[i]
           /\ \A i \in 1..Len(b) : (a \o b)[Len(a) + i] = b[i]
<1>1. a \o b \in Seq(S)  OBVIOUS
<1>2. Len(a \o b) = Len(a) + Len(b)  OBVIOUS
<1>3. \A i \in 1..Len(a) : (a \o b)[i] = a[i]  OBVIOUS
<1>4. \A i \in 1..Len(b) : (a \o b)[Len(a) + i] = b[i]  OBVIOUS
<1> QED  BY <1>1, <1>2, <1>3, <1>4

\* A message is merged with the last one of its role, or put after it.
LEMMA MergeEffect ==
    ASSUME NEW W, NEW o \in Seq(Told(W)), NEW m \in Told(W)
    PROVE  LET n == Len(o)
               g == Chat!Merge(o, m)
           IN  /\ g \in Seq(Told(W))
               /\ n > 0 /\ o[n].role = m.role =>
                    /\ Len(g) = n /\ \A i \in 1..n : i # n => g[i] = o[i]
                    /\ g[n] = Chat!Message(m.role, o[n].content \o m.content)
               /\ ~(n > 0 /\ o[n].role = m.role) => g = Append(o, m)
<1> DEFINE n == Len(o)
<1>1. n \in Nat /\ (o # <<>> <=> n > 0) /\ m.content \in Seq(W)  BY MessageFields
<1>2. CASE n > 0 /\ o[n].role = m.role
  <2> DEFINE x == o[n].content \o m.content
             y == [o[n] EXCEPT !.content = x]
             g == [o EXCEPT ![n] = y]
  <2>1. n \in 1..Len(o) /\ o[n] \in Told(W)  BY <1>1, <1>2
  <2>2. o[n].content \in Seq(W) /\ o[n].role \in Chat!Roles  BY <2>1, MessageFields
  <2>3. x \in Seq(W)  BY <1>1, <2>2
  <2> HIDE DEF x
  <2>4. y = Chat!Message(o[n].role, x)  BY <2>1, <2>3, ContentChanges
  <2>5. y \in Told(W)  BY <2>2, <2>3, <2>4, IsMessage
  <2> HIDE DEF y
  <2>6. /\ g \in Seq(Told(W)) /\ Len(g) = n
        /\ \A i \in 1..n : i # n => g[i] = o[i]
        /\ g[n] = y
    BY <2>1, <2>5
  <2>7. Chat!Merge(o, m) = g  BY <1>1, <1>2 DEF Chat!Merge, Chat!Last, x, y
  <2> HIDE DEF g
  <2> QED  BY <1>2, <2>4, <2>6, <2>7 DEF x
<1>3. CASE ~(n > 0 /\ o[n].role = m.role)
  <2>1. Chat!Merge(o, m) = Append(o, m)  BY <1>1, <1>3 DEF Chat!Merge, Chat!Last
  <2> QED  BY <1>3, <2>1
<1> QED  BY <1>2, <1>3

\* At most a dash is stripped off the end.
LEMMA WithoutDashEffect ==
    ASSUME NEW W, NEW c \in Seq(W)
    PROVE  LET d == Chat!WithoutDash(c) IN
           /\ d \in Seq(W)
           /\ \/ d = c /\ (c # <<>> => c[Len(c)] # Chat!InterruptionChar)
              \/ Len(c) > 0 /\ c[Len(c)] = Chat!InterruptionChar /\ d = SubSeq(c, 1, Len(c) - 1)
<1>1. CASE c # <<>> /\ Chat!Last(c) = Chat!InterruptionChar
  <2>1. Len(c) \in Nat /\ Len(c) > 0  BY <1>1
  <2>2. SubSeq(c, 1, Len(c) - 1) \in Seq(W)  BY <2>1
  <2> QED  BY <1>1, <2>1, <2>2 DEF Chat!WithoutDash, Chat!Front, Chat!Last
<1>2. CASE ~(c # <<>> /\ Chat!Last(c) = Chat!InterruptionChar)
  BY <1>2 DEF Chat!WithoutDash, Chat!Last
<1> QED  BY <1>1, <1>2

\* What is left of a message.
Kept(m) == Chat!Message(m.role, Chat!WithoutDash(m.content))

LEMMA KeptEffect ==
    ASSUME NEW W, NEW m \in Told(W)
    PROVE  /\ Kept(m) \in Told(W) /\ Kept(m).role = m.role
           /\ Kept(m).content = Chat!WithoutDash(m.content)
           /\ ~Chat!SaysNothing(m) => Kept(m).content # <<>>
<1> DEFINE c == m.content
           d == Chat!WithoutDash(c)
<1>1. m.role \in Chat!Roles /\ c \in Seq(W)  BY MessageFields
<1>5. Len(c) \in Nat /\ (c # <<>> <=> Len(c) > 0)  BY <1>1
<1>2. d \in Seq(W)  BY <1>1, WithoutDashEffect
<1> HIDE DEF c
<1>3. ASSUME ~Chat!SaysNothing(m) PROVE d # <<>>
  <2>1. c # <<>> /\ c # <<Chat!InterruptionChar>>  BY <1>3 DEF Chat!SaysNothing, c
  <2>2. CASE Len(c) > 1
    <3>1. Len(SubSeq(c, 1, Len(c) - 1)) = Len(c) - 1 /\ Len(c) \in Nat  BY <1>1, <2>2
    <3> QED  BY <1>1, <2>1, <2>2, <3>1, WithoutDashEffect
  <2>3. CASE Len(c) <= 1
    <3>4. c # <<>>  BY <2>1
    <3>1. Len(c) = 1  BY <1>5, <2>3, <3>4
    <3>2. c = <<c[1]>>  BY <1>1, <3>1
    <3>3. c[Len(c)] # Chat!InterruptionChar  BY <2>1, <3>1, <3>2
    <3> QED  BY <1>1, <2>1, <3>3, WithoutDashEffect
  <2> QED  BY <1>1, <2>2, <2>3
<1> HIDE DEF d, c
<1>4. Kept(m) = Chat!Message(m.role, d)  BY DEF Kept, d, c
<1> QED  BY <1>1, <1>2, <1>3, <1>4, IsMessage DEF d, c

\* The cleaned history is built message by message.
LEMMA CleanedEffect ==
    ASSUME NEW W, NEW h \in Seq(Told(W))
    PROVE  LET f == Chat!CleanedUpTo(h) IN
           /\ f \in [0..Len(h) -> Seq(Told(W))] /\ f[0] = <<>>
           /\ \A n \in 1..Len(h) :
                f[n] = IF Chat!SaysNothing(h[n]) THEN f[n - 1] ELSE Chat!Merge(f[n - 1], Kept(h[n]))
<1> DEFINE N == Len(h)
           S == Seq(Told(W))
           next(n, o) == IF Chat!SaysNothing(h[n]) THEN o ELSE Chat!Merge(o, Kept(h[n]))
           step == [n \in 1..N |-> [o \in S |-> next(n, o)]]
           Cleans(f) == f = [n \in 0..N |-> IF n = 0 THEN <<>> ELSE next(n, f[n - 1])]
<1>1. N \in Nat /\ <<>> \in S  OBVIOUS
<1>2. \A n \in 1..N, o \in S : next(n, o) \in S
  <2> TAKE n \in 1..N, o \in S
  <2>1. h[n] \in Told(W)  OBVIOUS
  <2>2. Kept(h[n]) \in Told(W)  BY <2>1, KeptEffect
  <2>3. Chat!Merge(o, Kept(h[n])) \in S  BY <2>2, MergeEffect
  <2> QED  BY <2>3
<1> HIDE DEF next, S
<1>3. step \in Steps(N, S) /\ \A n \in 1..N, o \in S : step[n][o] = next(n, o)
  BY <1>2 DEF Steps
<1> HIDE DEF step, N
<1>4. PICK f \in [0..N -> S] : f[0] = <<>> /\ \A n \in 1..N : f[n] = step[n][f[n - 1]]
  <2>1. FollowsSteps(N, S, <<>>, step)  BY <1>1, <1>3, StepByStep
  <2> QED  BY <2>1 DEF FollowsSteps
<1>5. Cleans(f)
  <2>1. ASSUME NEW n \in 0..N PROVE f[n] = IF n = 0 THEN <<>> ELSE next(n, f[n - 1])
    <3>1. CASE n = 0  BY <1>4, <3>1
    <3>2. CASE n # 0
      <4>1. n \in 1..N /\ n - 1 \in 0..N  BY <1>1, <3>2
      <4> QED  BY <1>3, <1>4, <3>2, <4>1
    <3> QED  BY <3>1, <3>2
  <2> QED  BY <2>1
<1> DEFINE g == CHOOSE x : Cleans(x)
<1>6. Chat!CleanedUpTo(h) = g  BY DEF Chat!CleanedUpTo, next, Kept, N
<1>7. Cleans(g)  BY <1>5
<1> HIDE DEF g
<1>8. g[0] = <<>> /\ \A n \in 1..N : g[n] = next(n, g[n - 1])  BY <1>1, <1>7
<1> DEFINE T == {n \in 0..N : g[n] \in S}
<1>9. T = 0..N
  <2>1. T \in SUBSET (0..N) /\ 0 \in T  BY <1>1, <1>8
  <2>2. \A n \in 1..N : n - 1 \in T => n \in T  BY <1>1, <1>2, <1>8
  <2> HIDE DEF T
  <2> QED  BY <1>1, <2>1, <2>2, Induction
<1>10. g \in [0..N -> S]
  <2>1. DOMAIN g = 0..N /\ g = [n \in 0..N |-> g[n]]  BY <1>7
  <2> QED  BY <1>9, <2>1
<1> QED  BY <1>6, <1>8, <1>10 DEF next, S, N

-----------------------------------------------------------------------------
(* The shape of the context *)

Speakers == {"user", "assistant"}

\* The system prompt, and then what the others have said.
Conversations(W) ==
    {h \in Seq(Told(W)) :
        Len(h) > 0 /\ h[1] = System /\ \A i \in 2..Len(h) : h[i].role \in Speakers}

\* ... in turn, and nobody says nothing.
TakesTurns(o) ==
    /\ Len(o) > 0 /\ o[1] = System
    /\ \A i \in 2..Len(o) :
        o[i].role \in Speakers /\ o[i].role # o[i - 1].role /\ o[i].content # <<>>

LEMMA SystemFields ==
    ASSUME NEW W, "prompt" \in W
    PROVE  System \in Told(W) /\ System.role = "system" /\ System.content = <<"prompt">>
<1>1. <<"prompt">> \in Seq(W) /\ "system" \in Chat!Roles  BY DEF Chat!Roles
<1>2. \A role \in Chat!Roles, c \in Seq(W) :
        /\ Chat!Message(role, c) \in Told(W)
        /\ Chat!Message(role, c).role = role /\ Chat!Message(role, c).content = c
  BY IsMessage
<1> QED  BY <1>1, <1>2, Zenon DEF System

LEMMA MergeTakesTurns ==
    ASSUME NEW W, "prompt" \in W, NEW o \in Seq(Told(W)), TakesTurns(o),
           NEW m \in Told(W), m.role \in Speakers, m.content # <<>>
    PROVE  TakesTurns(Chat!Merge(o, m))
<1> DEFINE n == Len(o)
           g == Chat!Merge(o, m)
<1>1. n \in Nat /\ n > 0 /\ o[1] = System  BY DEF TakesTurns
<1>2. \A i \in 2..n : o[i].role \in Speakers /\ o[i].role # o[i - 1].role /\ o[i].content # <<>>
  BY DEF TakesTurns
<1>3. m.content \in Seq(W) /\ m.role \in Chat!Roles  BY MessageFields
<1>4. CASE o[n].role = m.role
  <2>1. n # 1  BY <1>1, <1>4, SystemFields DEF Speakers
  <2>2. o[n].content \in Seq(W)
    <3>1. o[n] \in Told(W)  BY <1>1
    <3> QED  BY <3>1, MessageFields
  <2> DEFINE x == o[n].content \o m.content
  <2>3. x \in Seq(W) /\ x # <<>>  BY <1>3, <2>2
  <2>4. /\ Len(g) = n /\ \A i \in 1..n : i # n => g[i] = o[i]
        /\ g[n] = Chat!Message(m.role, x)
    BY <1>1, <1>4, MergeEffect
  <2> HIDE DEF x, g
  <2>5. g[n].role = m.role /\ g[n].content = x  BY <1>3, <2>3, <2>4, IsMessage
  <2> HIDE DEF n
  <2>6. Len(g) > 0 /\ g[1] = System  BY <1>1, <2>1, <2>4
  <2>7. ASSUME NEW i \in 2..n
        PROVE  g[i].role \in Speakers /\ g[i].role # g[i - 1].role /\ g[i].content # <<>>
    <3>1. i \in 1..n /\ i - 1 \in 1..n /\ i - 1 # n  BY <1>1
    <3>2. g[i - 1] = o[i - 1]  BY <2>4, <3>1
    <3>3. CASE i = n  BY <1>2, <1>4, <2>3, <2>5, <3>2, <3>3
    <3>4. CASE i # n
      <4>1. g[i] = o[i]  BY <2>4, <3>1, <3>4
      <4> QED  BY <1>2, <3>2, <4>1
    <3> QED  BY <3>3, <3>4
  <2> QED  BY <2>4, <2>6, <2>7 DEF TakesTurns, g
<1>5. CASE o[n].role # m.role
  <2>1. g = Append(o, m)  BY <1>5, MergeEffect
  <2>2. /\ Len(g) = n + 1 /\ g[n + 1] = m /\ \A i \in 1..n : g[i] = o[i]
    BY <2>1
  <2> HIDE DEF g, n
  <2>3. Len(g) > 0 /\ g[1] = System  BY <1>1, <2>2
  <2>4. ASSUME NEW i \in 2..(n + 1)
        PROVE  g[i].role \in Speakers /\ g[i].role # g[i - 1].role /\ g[i].content # <<>>
    <3>1. CASE i = n + 1
      <4>1. i - 1 = n /\ n \in 1..n  BY <1>1, <3>1
      <4>2. g[i - 1] = o[n]  BY <2>2, <4>1
      <4> QED  BY <1>5, <2>2, <3>1, <4>2
    <3>2. CASE i # n + 1
      <4>1. i \in 2..n /\ i \in 1..n /\ i - 1 \in 1..n  BY <1>1, <3>2
      <4> QED  BY <1>2, <2>2, <4>1
    <3> QED  BY <3>1, <3>2
  <2> QED  BY <2>2, <2>3, <2>4 DEF TakesTurns, g
<1> QED  BY <1>4, <1>5

\* A cleaned conversation takes turns.
LEMMA CleanTakesTurns ==
    ASSUME NEW W, "prompt" \in W, NEW h \in Conversations(W)
    PROVE  Chat!Clean(h) \in Seq(Told(W)) /\ TakesTurns(Chat!Clean(h))
<1> DEFINE f == Chat!CleanedUpTo(h)
           N == Len(h)
<1>1. h \in Seq(Told(W)) /\ N \in Nat /\ N > 0 /\ h[1] = System
      /\ \A i \in 2..N : h[i].role \in Speakers
  BY DEF Conversations
<1>2. /\ f \in [0..N -> Seq(Told(W))] /\ f[0] = <<>>
      /\ \A n \in 1..N :
            f[n] = IF Chat!SaysNothing(h[n]) THEN f[n - 1] ELSE Chat!Merge(f[n - 1], Kept(h[n]))
  BY <1>1, CleanedEffect
<1> HIDE DEF f
<1>3. f[1] = <<System>>
  <2>1. ~Chat!SaysNothing(System) /\ Kept(System) = System
    <3>1. <<"prompt">> # <<>> /\ <<"prompt">> # <<Chat!InterruptionChar>>
          /\ Chat!Last(<<"prompt">>) # Chat!InterruptionChar
      BY DEF Chat!InterruptionChar, Chat!Last
    <3>2. Chat!WithoutDash(<<"prompt">>) = <<"prompt">>  BY <3>1 DEF Chat!WithoutDash
    <3> QED  BY <3>1, <3>2, SystemFields DEF Kept, System, Chat!SaysNothing
  <2>2. 1 \in 1..N /\ 1 - 1 = 0  BY <1>1
  <2>3. f[1] = Chat!Merge(<<>>, System)  BY <1>1, <1>2, <2>1, <2>2
  <2>4. Chat!Merge(<<>>, System) = Append(<<>>, System)  BY DEF Chat!Merge
  <2> QED  BY <2>3, <2>4
<1> DEFINE T == {n \in 0..N : n > 0 => TakesTurns(f[n])}
<1>4. T = 0..N
  <2>1. T \in SUBSET (0..N) /\ 0 \in T  BY <1>1
  <2>2. ASSUME NEW n \in 1..N, n - 1 \in T PROVE n \in T
    <3> SUFFICES TakesTurns(f[n])  BY <1>1
    <3>1. CASE n = 1
      <4>1. Len(<<System>>) = 1 /\ <<System>>[1] = System /\ 2..1 = {}  OBVIOUS
      <4>2. TakesTurns(<<System>>)  BY <4>1 DEF TakesTurns
      <4> QED  BY <1>3, <3>1, <4>2
    <3>2. CASE n # 1
      <4>1. n \in 2..N /\ n - 1 > 0 /\ n - 1 \in 0..N  BY <1>1, <3>2
      <4>2. TakesTurns(f[n - 1]) /\ f[n - 1] \in Seq(Told(W))  BY <1>2, <2>2, <4>1
      <4>3. h[n] \in Told(W) /\ h[n].role \in Speakers  BY <1>1, <4>1
      <4>4. CASE Chat!SaysNothing(h[n])  BY <1>2, <4>2, <4>4
      <4>5. CASE ~Chat!SaysNothing(h[n])
        <5>1. /\ Kept(h[n]) \in Told(W) /\ Kept(h[n]).role \in Speakers
              /\ Kept(h[n]).content # <<>>
          BY <4>3, <4>5, KeptEffect
        <5>2. TakesTurns(Chat!Merge(f[n - 1], Kept(h[n])))  BY <4>2, <5>1, MergeTakesTurns
        <5> QED  BY <1>2, <4>5, <5>2
      <4> QED  BY <4>4, <4>5
    <3> QED  BY <3>1, <3>2
  <2> HIDE DEF T
  <2> QED  BY <1>1, <2>1, <2>2, Induction
<1>5. N \in T  BY <1>1, <1>4
<1>6. Chat!Clean(h) = f[N]  BY DEF Chat!Clean, f
<1> QED  BY <1>1, <1>2, <1>5, <1>6

\* The dummy message of the user takes its turn.
LEMMA UserFirst ==
    ASSUME NEW W, "prompt" \in W, "Hello." \in W, NEW o \in Seq(Told(W)), TakesTurns(o)
    PROVE  LET g == Chat!WithUserFirst(o) IN
           /\ g \in Seq(Told(W)) /\ TakesTurns(g) /\ Len(g) >= 2 /\ g[2].role = "user"
           /\ \/ g = o
              \/ Len(g) = Len(o) + 1 /\ g[1] = o[1] /\ g[2] = Chat!Dummy
                 /\ \A i \in 2..Len(o) : g[i + 1] = o[i]
<1> DEFINE n == Len(o)
           g == Chat!WithUserFirst(o)
<1>1. n \in Nat /\ n > 0 /\ o[1] = System /\ o[1].role = "system" /\ o # <<>>
  BY SystemFields DEF TakesTurns
<1>2. \A i \in 2..n : o[i].role \in Speakers /\ o[i].role # o[i - 1].role /\ o[i].content # <<>>
  BY DEF TakesTurns
<1>3. CASE n = 1 \/ o[2].role = "assistant"
  <2>1. g = <<o[1], Chat!Dummy>> \o Tail(o)  BY <1>1, <1>3 DEF Chat!WithUserFirst
  <2>2. Chat!Dummy \in Told(W) /\ Chat!Dummy.role = "user" /\ Chat!Dummy.content = <<"Hello.">>
    <3>1. <<"Hello.">> \in Seq(W) /\ "user" \in Chat!Roles  BY DEF Chat!Roles
    <3>2. \A role \in Chat!Roles, c \in Seq(W) :
            /\ Chat!Message(role, c) \in Told(W)
            /\ Chat!Message(role, c).role = role /\ Chat!Message(role, c).content = c
      BY IsMessage
    <3> QED  BY <3>1, <3>2, Zenon DEF Chat!Dummy
  <2>3. o[1] \in Told(W) /\ Tail(o) \in Seq(Told(W)) /\ Len(Tail(o)) = n - 1
        /\ \A i \in 1..(n - 1) : Tail(o)[i] = o[i + 1]
    BY <1>1
  <2> DEFINE a == <<o[1], Chat!Dummy>>
             b == Tail(o)
  <2>4. a \in Seq(Told(W)) /\ Len(a) = 2 /\ a[1] = o[1] /\ a[2] = Chat!Dummy  BY <2>2, <2>3
  <2> HIDE DEF a, b
  <2>5. b \in Seq(Told(W)) /\ Len(b) = n - 1 /\ \A i \in 1..(n - 1) : b[i] = o[i + 1]  BY <2>3 DEF b
  <2> DEFINE S == Told(W)
             c == a \o b
  <2>13. a \in Seq(S) /\ b \in Seq(S)  BY <2>4, <2>5
  <2> HIDE DEF S
  <2>14. /\ c \in Seq(S) /\ Len(c) = Len(a) + Len(b)
         /\ \A i \in 1..Len(a) : c[i] = a[i]
         /\ \A i \in 1..Len(b) : c[Len(a) + i] = b[i]
    BY <2>13, ConcatEffect
  <2> HIDE DEF c
  <2>6. c \in Seq(Told(W)) /\ Len(c) = n + 1
    <3>1. Len(c) = 2 + (n - 1)  BY <2>4, <2>5, <2>14
    <3> QED  BY <1>1, <2>14, <3>1 DEF S
  <2>7. /\ c[1] = o[1] /\ c[2] = Chat!Dummy
        /\ \A i \in 3..(n + 1) : c[i] = b[i - 2]
    <3>1. c[1] = a[1] /\ c[2] = a[2]  BY <2>4, <2>14
    <3>2. ASSUME NEW i \in 3..(n + 1) PROVE c[i] = b[i - 2]
      <4>1. i - 2 \in 1..Len(b) /\ Len(a) + (i - 2) = i  BY <1>1, <2>4, <2>5
      <4> QED  BY <2>14, <4>1
    <3> QED  BY <2>4, <3>1, <3>2
  <2>8. g = c  BY <2>1 DEF a, b, c
  <2> HIDE DEF g, n
  <2>9. /\ g \in Seq(Told(W)) /\ Len(g) = n + 1 /\ g[1] = o[1] /\ g[2] = Chat!Dummy
        /\ \A i \in 2..n : g[i + 1] = o[i]
    <3>1. ASSUME NEW i \in 2..n PROVE g[i + 1] = o[i]
      <4>1. i + 1 \in 3..(n + 1) /\ (i + 1) - 2 = i - 1 /\ i - 1 \in 1..(n - 1) /\ (i - 1) + 1 = i
        BY <1>1
      <4>2. g[i + 1] = b[i - 1]  BY <2>7, <2>8, <4>1
      <4>3. b[i - 1] = o[i]  BY <2>5, <4>1
      <4> QED  BY <4>2, <4>3
    <3> QED  BY <2>6, <2>7, <2>8, <3>1
  <2>10. ASSUME NEW i \in 2..(n + 1)
         PROVE  g[i].role \in Speakers /\ g[i].role # g[i - 1].role /\ g[i].content # <<>>
    <3>1. CASE i = 2
      <4>1. i - 1 = 1 /\ g[1].role = "system"  BY <1>1, <2>9, <3>1
      <4>3. <<"Hello.">> # <<>>  OBVIOUS
      <4>4. Chat!Dummy.content # <<>>  BY <2>2, <4>3
      <4>2. g[2].role = "user" /\ g[2].content # <<>>  BY <2>2, <2>9, <4>4
      <4> QED  BY <3>1, <4>1, <4>2 DEF Speakers
    <3>2. CASE i = 3
      <4>1. 2 \in 2..n /\ 2 + 1 = 3 /\ i - 1 = 2  BY <1>1, <3>2
      <4>2. g[3] = o[2]  BY <2>9, <4>1
      <4>3. o[2].role = "assistant"  BY <1>3, <4>1
      <4> QED  BY <1>2, <2>2, <2>9, <3>2, <4>1, <4>2, <4>3
    <3>3. CASE i > 3
      <4>1. i - 1 \in 2..n /\ (i - 1) + 1 = i /\ (i - 1) - 1 \in 2..n /\ ((i - 1) - 1) + 1 = i - 1
        BY <1>1, <3>3
      <4>2. g[i] = o[i - 1]  BY <2>9, <4>1
      <4>3. g[i - 1] = o[(i - 1) - 1]  BY <2>9, <4>1
      <4> QED  BY <1>2, <4>1, <4>2, <4>3
    <3>4. i = 2 \/ i = 3 \/ i > 3  BY <1>1
    <3> QED  BY <3>1, <3>2, <3>3, <3>4
  <2>11. Len(g) > 0 /\ Len(g) >= 2 /\ g[2].role = "user"  BY <1>1, <2>2, <2>9
  <2>12. TakesTurns(g)  BY <1>1, <2>9, <2>10, <2>11 DEF TakesTurns
  <2> QED  BY <2>9, <2>11, <2>12 DEF g, n
<1>4. CASE ~(n = 1 \/ o[2].role = "assistant")
  <2>1. g = o  BY <1>4 DEF Chat!WithUserFirst
  <2>4. n # 1  BY <1>4
  <2> HIDE DEF n
  <2>2. 2 \in 2..n /\ n >= 2  BY <1>1, <2>4
  <2>3. o[2].role = "user"  BY <1>2, <1>4, <2>2 DEF Speakers
  <2> HIDE DEF g
  <2> QED  BY <2>1, <2>2, <2>3 DEF g, n
<1> QED  BY <1>3, <1>4

\* The marker of a silence is stripped off the front of what follows it.
LEMMA WithoutMarkerEffect ==
    ASSUME NEW W, NEW m \in Told(W)
    PROVE  LET g == Chat!WithoutMarker(m) IN
           /\ g \in Told(W) /\ g.role = m.role
           /\ \/ g.content = m.content
              \/ Len(m.content) > 1 /\ m.content[1] = Chat!UserSilenceMarker
                 /\ g.content = Tail(m.content)
<1> DEFINE c == m.content
           g == Chat!WithoutMarker(m)
<1>1. c \in Seq(W) /\ m.role \in Chat!Roles  BY MessageFields
<1>2. CASE m.role = "user" /\ Len(c) > 1 /\ c[1] = Chat!UserSilenceMarker
  <2>1. g = [m EXCEPT !.content = Tail(c)]  BY <1>2 DEF Chat!WithoutMarker
  <2> DEFINE d == Tail(c)
  <2>2. d \in Seq(W)  BY <1>1, <1>2
  <2> HIDE DEF d
  <2>3. g = Chat!Message(m.role, d)  BY <2>1, <2>2, ContentChanges DEF d
  <2> HIDE DEF g
  <2>4. g \in Told(W) /\ g.role = m.role /\ g.content = d  BY <1>1, <2>2, <2>3, IsMessage
  <2> QED  BY <1>2, <2>4 DEF d, g
<1>3. CASE ~(m.role = "user" /\ Len(c) > 1 /\ c[1] = Chat!UserSilenceMarker)
  <2>1. g = m  BY <1>3 DEF Chat!WithoutMarker
  <2> QED  BY <2>1
<1> QED  BY <1>2, <1>3

\* What the LLM is shown of a conversation.
LEMMA PreprocessEffect ==
    ASSUME NEW W, "prompt" \in W, "Hello." \in W, NEW h \in Conversations(W)
    PROVE  LET o == Chat!WithUserFirst(Chat!Clean(h))
               g == Chat!PreprocessMessages(h)
           IN  /\ o \in Seq(Told(W)) /\ g \in Seq(Told(W)) /\ Len(g) = Len(o) /\ Len(g) >= 2
               /\ \A i \in 1..Len(g) : g[i] = Chat!WithoutMarker(o[i])
               /\ g[1].role = "system" /\ g[2].role = "user"
               /\ \A i \in 2..Len(g) : g[i].role # g[i - 1].role
               /\ \A i \in 1..Len(g) : g[i].content # <<>>
<1> DEFINE o == Chat!WithUserFirst(Chat!Clean(h))
           n == Len(o)
           g == Chat!PreprocessMessages(h)
<1>1. Chat!Clean(h) \in Seq(Told(W)) /\ TakesTurns(Chat!Clean(h))  BY CleanTakesTurns
<1>2. o \in Seq(Told(W)) /\ TakesTurns(o) /\ n >= 2 /\ o[2].role = "user"  BY <1>1, UserFirst
<1>3. DOMAIN o = 1..n /\ n \in Nat  BY <1>2
<1>4. g = [i \in 1..n |-> Chat!WithoutMarker(o[i])]
  BY <1>3 DEF Chat!PreprocessMessages
<1> HIDE DEF g, o
<1>5. \A i \in 1..n : o[i] \in Told(W)  BY <1>2
<1>6. \A i \in 1..n : Chat!WithoutMarker(o[i]) \in Told(W)  BY <1>5, WithoutMarkerEffect
<1>7. g \in Seq(Told(W)) /\ Len(g) = n /\ \A i \in 1..n : g[i] = Chat!WithoutMarker(o[i])
  BY <1>3, <1>4, <1>6
<1>8. \A i \in 1..n : g[i].role = o[i].role  BY <1>5, <1>7, WithoutMarkerEffect
<1>9. /\ o[1] = System
      /\ \A i \in 2..n : o[i].role # o[i - 1].role /\ o[i].content # <<>>
  BY <1>2 DEF TakesTurns
<1>10. ASSUME NEW i \in 1..n PROVE g[i].content # <<>>
  <2> DEFINE c == o[i].content
  <2>1. c # <<>>
    <3>1. CASE i = 1
      <4>1. <<"prompt">> # <<>>  OBVIOUS
      <4> QED  BY <1>9, <3>1, <4>1, SystemFields
    <3>2. CASE i # 1
      <4>1. i \in 2..n  BY <1>3, <3>2
      <4> QED  BY <1>9, <4>1
    <3> QED  BY <3>1, <3>2
  <2>2. c \in Seq(W)  BY <1>5, MessageFields
  <2>3. \/ g[i].content = c
        \/ Len(c) > 1 /\ g[i].content = Tail(c)
    BY <1>5, <1>7, WithoutMarkerEffect
  <2> HIDE DEF c
  <2>4. Len(c) > 1 => Tail(c) # <<>>
    <3> DEFINE t == Tail(c)
    <3> SUFFICES ASSUME Len(c) > 1 PROVE t # <<>>
      OBVIOUS
    <3>1. t \in Seq(W) /\ Len(t) = Len(c) - 1 /\ Len(c) \in Nat  BY <2>2
    <3> HIDE DEF t
    <3>2. Len(t) > 0  BY <3>1
    <3> QED  BY <3>1, <3>2
  <2> QED  BY <2>1, <2>3, <2>4
<1>11. \A i \in 2..n : g[i].role # g[i - 1].role
  <2> SUFFICES ASSUME NEW i \in 2..n PROVE g[i].role # g[i - 1].role
    OBVIOUS
  <2>1. i \in 1..n /\ i - 1 \in 1..n  BY <1>3
  <2> QED  BY <1>8, <1>9, <2>1
<1>12. g[1].role = "system" /\ g[2].role = "user"
  <2>1. 1 \in 1..n /\ 2 \in 1..n  BY <1>2, <1>3
  <2> QED  BY <1>2, <1>8, <1>9, <2>1, SystemFields
<1> QED  BY <1>2, <1>7, <1>10, <1>11, <1>12 DEF g, o

-----------------------------------------------------------------------------
(* The histories *)

Vocabulary ==
    UserWords \cup BotWords \cup {"prompt", Chat!InterruptionChar, Chat!UserSilenceMarker}

HistoryOK == history \in Conversations(Vocabulary)

LEMMA AddDeltaOK ==
    ASSUME NEW W, "prompt" \in W, NEW h \in Conversations(W), NEW d \in Seq(W), NEW role \in Speakers
    PROVE  Chat!AddDelta(h, d, role) \in Conversations(W)
<1> DEFINE n == Len(h)
           g == Chat!AddDelta(h, d, role)
<1>1. /\ h \in Seq(Told(W)) /\ n \in Nat /\ n > 0 /\ h[1] = System
      /\ \A i \in 2..n : h[i].role \in Speakers
  BY DEF Conversations
<1>2. role \in Chat!Roles  BY DEF Speakers, Chat!Roles
<1>3. CASE h[n].role # role
  <2> DEFINE m == Chat!Message(role, d)
  <2>1. g = Append(h, m)  BY <1>3 DEF Chat!AddDelta
  <2>2. m \in Told(W) /\ m.role = role  BY <1>2, IsMessage
  <2> HIDE DEF m
  <2>3. g \in Seq(Told(W)) /\ Len(g) = n + 1 /\ g[n + 1] = m /\ \A i \in 1..n : g[i] = h[i]
    BY <1>1, <2>1, <2>2
  <2> HIDE DEF g, n
  <2>4. Len(g) > 0 /\ g[1] = System  BY <1>1, <2>3
  <2>5. ASSUME NEW i \in 2..(n + 1) PROVE g[i].role \in Speakers
    <3>1. CASE i = n + 1  BY <2>2, <2>3, <3>1
    <3>2. CASE i # n + 1
      <4>1. i \in 2..n /\ i \in 1..n  BY <1>1, <3>2
      <4> QED  BY <1>1, <2>3, <4>1
    <3> QED  BY <3>1, <3>2
  <2> QED  BY <2>3, <2>4, <2>5 DEF Conversations, g
<1>4. CASE h[n].role = role
  <2> DEFINE x == h[n].content \o d
             y == [h[n] EXCEPT !.content = x]
             to == [h EXCEPT ![n] = y]
  <2>1. n \in 1..n /\ h[n] \in Told(W)  BY <1>1
  <2>2. x \in Seq(W)
    <3>1. h[n].content \in Seq(W)  BY <2>1, MessageFields
    <3> QED  BY <3>1
  <2> HIDE DEF x
  <2>3. y = Chat!Message(h[n].role, x)  BY <2>1, <2>2, ContentChanges
  <2>4. y \in Told(W) /\ y.role = role  BY <1>2, <1>4, <2>2, <2>3, IsMessage
  <2> HIDE DEF y
  <2>5. to \in Seq(Told(W)) /\ Len(to) = n /\ to[n] = y /\ \A i \in 1..n : i # n => to[i] = h[i]
    BY <1>1, <2>1, <2>4
  <2>6. g = to  BY <1>4 DEF Chat!AddDelta, x, y
  <2>7. n # 1  BY <1>1, <1>4, SystemFields DEF Speakers
  <2> HIDE DEF g, n, to
  <2>8. Len(g) > 0 /\ g[1] = System  BY <1>1, <2>5, <2>6, <2>7
  <2>9. ASSUME NEW i \in 2..n PROVE g[i].role \in Speakers
    <3>1. i \in 1..n  BY <1>1
    <3> QED  BY <1>1, <2>4, <2>5, <2>6, <3>1
  <2> QED  BY <2>5, <2>6, <2>8, <2>9 DEF Conversations, g
<1> QED  BY <1>3, <1>4

LEMMA HistoryInit == Chat!Init => HistoryOK
<1> SUFFICES ASSUME Chat!Init PROVE HistoryOK
  OBVIOUS
<1>1. history = <<System>>  BY DEF Chat!Init, Chat!NewHistory, System
<1>2. System \in Told(Vocabulary)  BY SystemFields DEF Vocabulary
<1>3. <<System>> \in Seq(Told(Vocabulary)) /\ Len(<<System>>) = 1 /\ <<System>>[1] = System /\ 2..1 = {}
  BY <1>2
<1> QED  BY <1>1, <1>3 DEF HistoryOK, Conversations

LEMMA HistoryStep == HistoryOK /\ [Chat!Next]_history => HistoryOK'
<1> SUFFICES ASSUME HistoryOK, Chat!Next PROVE HistoryOK'
  BY DEF HistoryOK
<1>1. "prompt" \in Vocabulary  BY DEF Vocabulary
<1>2. CASE Chat!UserDelta
  <2>1. PICK d \in Chat!UserDeltas : history' = Chat!AddDelta(history, d, "user")
    BY <1>2 DEF Chat!UserDelta
  <2>2. d \in Seq(Vocabulary)
    <3>1. Chat!UserSilenceMarker \in Vocabulary /\ UserWords \subseteq Vocabulary  BY DEF Vocabulary
    <3>2. <<>> \in Seq(Vocabulary) /\ \A w \in Vocabulary : <<w>> \in Seq(Vocabulary)  OBVIOUS
    <3>3. d = <<>> \/ \E w \in Vocabulary : d = <<w>>  BY <3>1 DEF Chat!UserDeltas
    <3> QED  BY <3>2, <3>3
  <2> QED  BY <1>1, <2>1, <2>2, AddDeltaOK DEF HistoryOK, Speakers
<1>3. CASE Chat!BotDelta
  <2>1. PICK d \in Chat!BotDeltas : history' = Chat!AddDelta(history, d, "assistant")
    BY <1>3 DEF Chat!BotDelta
  <2>2. d \in Seq(Vocabulary)
    <3>1. Chat!InterruptionChar \in Vocabulary /\ BotWords \subseteq Vocabulary  BY DEF Vocabulary
    <3>2. <<>> \in Seq(Vocabulary) /\ \A w \in Vocabulary : <<w>> \in Seq(Vocabulary)  OBVIOUS
    <3>3. d = <<>> \/ \E w \in Vocabulary : d = <<w>>  BY <3>1 DEF Chat!BotDeltas
    <3> QED  BY <3>2, <3>3
  <2> QED  BY <1>1, <2>1, <2>2, AddDeltaOK DEF HistoryOK, Speakers
<1>4. CASE Chat!LateBotDelta
  <2>1. PICK w \in BotWords, generating \in 1..MaxMessages :
            history' = Chat!AddDeltaTo(history, <<w>>, "assistant", generating)
    BY <1>4 DEF Chat!LateBotDelta
  <2>2. <<w>> \in Seq(Vocabulary)  BY DEF Vocabulary
  <2>3. history' = history \/ history' = Chat!AddDelta(history, <<w>>, "assistant")
    BY <2>1 DEF Chat!AddDeltaTo
  <2> QED  BY <1>1, <2>2, <2>3, AddDeltaOK DEF HistoryOK, Speakers
<1> QED  BY <1>2, <1>3, <1>4 DEF Chat!Next

LEMMA HistoryInvariant == Chat!Spec => []HistoryOK
  BY HistoryInit, HistoryStep, PTL DEF Chat!Spec

\* The words that can be shown to the LLM.
Shown == Vocabulary \cup {"Hello!", "Hello."}

\* What the LLM is shown is a conversation: the history, or its prompt and a greeting.
LEMMA ShownHistory ==
    ASSUME HistoryOK
    PROVE  \E h \in Conversations(Shown) :
                /\ Chat!Preprocessed(history) = Chat!PreprocessMessages(h)
                /\ Len(history) > 2 => h = history
                /\ h = history \/ h = <<System, Chat!Message("user", <<"Hello!">>)>>
<1>1. /\ history \in Seq(Told(Vocabulary)) /\ Len(history) > 0 /\ history[1] = System
      /\ \A i \in 2..Len(history) : history[i].role \in Speakers
  BY DEF HistoryOK, Conversations
<1>2. CASE Len(history) > 2
  <2>1. Told(Vocabulary) \subseteq Told(Shown)
    <3> SUFFICES ASSUME NEW m \in Told(Vocabulary) PROVE m \in Told(Shown)
      OBVIOUS
    <3>1. m.content \in Seq(Vocabulary) /\ m.role \in Chat!Roles /\ m = [role |-> m.role, content |-> m.content]
      BY MessageFields
    <3>2. m.content \in Seq(Shown)  BY <3>1 DEF Shown
    <3> QED  BY <3>1, <3>2 DEF Told
  <2>2. history \in Seq(Told(Shown))  BY <1>1, <2>1
  <2> QED  BY <1>1, <1>2, <2>2 DEF Conversations, Chat!Preprocessed
<1>3. CASE ~(Len(history) > 2)
  <2> DEFINE m == Chat!Message("user", <<"Hello!">>)
             h == <<System, m>>
  <2>1. Chat!Preprocessed(history) = Chat!PreprocessMessages(h)
    BY <1>1, <1>3 DEF Chat!Preprocessed
  <2>2. m \in Told(Shown) /\ m.role = "user"
    <3>1. <<"Hello!">> \in Seq(Shown) /\ "user" \in Chat!Roles  BY DEF Chat!Roles, Shown
    <3>2. \A role \in Chat!Roles, c \in Seq(Shown) :
            Chat!Message(role, c) \in Told(Shown) /\ Chat!Message(role, c).role = role
      BY IsMessage
    <3> QED  BY <3>1, <3>2, Zenon
  <2>3. System \in Told(Shown)  BY SystemFields DEF Shown, Vocabulary
  <2> HIDE DEF m
  <2>4. h \in Seq(Told(Shown)) /\ Len(h) = 2 /\ h[1] = System /\ h[2] = m  BY <2>2, <2>3
  <2> HIDE DEF h
  <2>5. \A i \in 2..Len(h) : h[i].role \in Speakers
    <3>1. \A i \in 2..2 : i = 2  OBVIOUS
    <3> QED  BY <2>2, <2>4, <3>1 DEF Speakers
  <2>7. Len(h) > 0  BY <2>4
  <2>6. h \in Conversations(Shown)  BY <2>4, <2>5, <2>7 DEF Conversations
  <2> QED  BY <1>3, <2>1, <2>6 DEF h, m
<1> QED  BY <1>2, <1>3

\* For every history that add_chat_message_delta() can make, preprocessed_messages()
\* shows the LLM the system prompt, a user message and then the roles in turn, and no
\* empty message.
THEOREM ContextTakesTurns == Chat!Spec => []ContextShape
<1>1. HistoryOK => ContextShape
  <2> SUFFICES ASSUME HistoryOK PROVE ContextShape
    OBVIOUS
  <2> DEFINE context == Chat!Preprocessed(history)
  <2>1. PICK h \in Conversations(Shown) : context = Chat!PreprocessMessages(h)
    BY ShownHistory
  <2>2. "prompt" \in Shown /\ "Hello." \in Shown  BY DEF Shown, Vocabulary
  <2>3. /\ context \in Seq(Told(Shown)) /\ Len(context) >= 2
        /\ context[1].role = "system" /\ context[2].role = "user"
        /\ \A i \in 2..Len(context) : context[i].role # context[i - 1].role
        /\ \A i \in 1..Len(context) : context[i].content # <<>>
    BY <2>1, <2>2, PreprocessEffect
  <2>4. DOMAIN context = 1..Len(context)  BY <2>3
  <2> QED  BY <2>3, <2>4 DEF ContextShape, Chat!ContextShape
<1> QED  BY <1>1, HistoryInvariant, PTL

-----------------------------------------------------------------------------
(* Em-dashes *)

Dashless(W) == W \ {Chat!InterruptionChar}

\* No dash before the last word.
DashAtMostLast(c) == \A k \in 1..(Len(c) - 1) : c[k] # Chat!InterruptionChar

LEMMA WithoutDashIsDashless ==
    ASSUME NEW W, NEW c \in Seq(W), DashAtMostLast(c)
    PROVE  Chat!WithoutDash(c) \in Seq(Dashless(W))
<1> DEFINE d == Chat!WithoutDash(c)
<1>1. /\ d \in Seq(W)
      /\ \/ d = c /\ (c # <<>> => c[Len(c)] # Chat!InterruptionChar)
         \/ Len(c) > 0 /\ d = SubSeq(c, 1, Len(c) - 1)
  BY WithoutDashEffect
<1> HIDE DEF d
<1>2. \A k \in 1..Len(d) : d[k] # Chat!InterruptionChar
  <2> SUFFICES ASSUME NEW k \in 1..Len(d) PROVE d[k] # Chat!InterruptionChar
    OBVIOUS
  <2>1. Len(c) \in Nat /\ Len(d) \in Nat  BY <1>1
  <2>2. CASE d = c /\ (c # <<>> => c[Len(c)] # Chat!InterruptionChar)
    <3>1. CASE k = Len(c)
      <4>1. c # <<>>  BY <2>1, <2>2, <3>1
      <4> QED  BY <2>2, <3>1, <4>1
    <3>2. CASE k # Len(c)
      <4>1. k \in 1..(Len(c) - 1)  BY <2>1, <2>2, <3>2
      <4> QED  BY <2>2, <4>1 DEF DashAtMostLast
    <3> QED  BY <3>1, <3>2
  <2>3. CASE Len(c) > 0 /\ d = SubSeq(c, 1, Len(c) - 1)
    <3>1. Len(d) = Len(c) - 1 /\ \A j \in 1..(Len(c) - 1) : d[j] = c[j]  BY <2>1, <2>3
    <3> QED  BY <3>1 DEF DashAtMostLast
  <2> QED  BY <1>1, <2>2, <2>3
<1>3. \A k \in 1..Len(d) : d[k] \in Dashless(W)  BY <1>1, <1>2 DEF Dashless
<1>4. d \in Seq(Dashless(W))  BY <1>1, <1>3
<1> QED  BY <1>4 DEF d

\* A conversation in which no dash is followed by a word is shown without any.
LEMMA ContextIsDashless ==
    ASSUME NEW W, "prompt" \in W, "Hello." \in W, NEW h \in Conversations(W),
           \A n \in 1..Len(h) : DashAtMostLast(h[n].content)
    PROVE  \A i \in 1..Len(Chat!PreprocessMessages(h)) :
                Chat!PreprocessMessages(h)[i] \in Told(Dashless(W))
<1> DEFINE f == Chat!CleanedUpTo(h)
           N == Len(h)
           D == Dashless(W)
           o == Chat!WithUserFirst(Chat!Clean(h))
           g == Chat!PreprocessMessages(h)
<1>1. h \in Seq(Told(W)) /\ N \in Nat  BY DEF Conversations
<1>2. /\ f[0] = <<>>
      /\ \A n \in 1..N :
            f[n] = IF Chat!SaysNothing(h[n]) THEN f[n - 1] ELSE Chat!Merge(f[n - 1], Kept(h[n]))
  BY <1>1, CleanedEffect
<1> HIDE DEF f, D
<1>3. \A n \in 1..N : Kept(h[n]) \in Told(D)
  <2> SUFFICES ASSUME NEW n \in 1..N PROVE Kept(h[n]) \in Told(D)
    OBVIOUS
  <2>1. h[n] \in Told(W)  BY <1>1
  <2>2. h[n].role \in Chat!Roles /\ h[n].content \in Seq(W)  BY <2>1, MessageFields
  <2>3. Chat!WithoutDash(h[n].content) \in Seq(D)  BY <2>2, WithoutDashIsDashless DEF D
  <2> QED  BY <2>2, <2>3, IsMessage DEF Kept
<1> DEFINE T == {n \in 0..N : f[n] \in Seq(Told(D))}
<1>4. T = 0..N
  <2>1. T \in SUBSET (0..N) /\ 0 \in T
    <3>1. <<>> \in Seq(Told(D))  OBVIOUS
    <3>2. 0 \in 0..N  BY <1>1
    <3>3. f[0] \in Seq(Told(D))  BY <1>2, <3>1
    <3> HIDE DEF N
    <3> QED  BY <3>2, <3>3
  <2>2. ASSUME NEW n \in 1..N, n - 1 \in T PROVE n \in T
    <3>1. f[n - 1] \in Seq(Told(D)) /\ n \in 0..N  BY <1>1, <2>2
    <3>2. Chat!Merge(f[n - 1], Kept(h[n])) \in Seq(Told(D))  BY <1>3, <3>1, MergeEffect
    <3> QED  BY <1>2, <3>1, <3>2
  <2> HIDE DEF T
  <2> QED  BY <1>1, <2>1, <2>2, Induction
<1>5. Chat!Clean(h) \in Seq(Told(D))
  <2>1. N \in T  BY <1>1, <1>4
  <2> QED  BY <2>1 DEF Chat!Clean, f
<1>6. TakesTurns(Chat!Clean(h))  BY CleanTakesTurns
<1>7. "prompt" \in D /\ "Hello." \in D  BY DEF D, Dashless, Chat!InterruptionChar
<1>8. o \in Seq(Told(D))  BY <1>5, <1>6, <1>7, UserFirst
<1>9. Len(g) = Len(o) /\ \A i \in 1..Len(g) : g[i] = Chat!WithoutMarker(o[i])
  BY PreprocessEffect
<1> HIDE DEF g, o
<1>10. \A i \in 1..Len(g) : g[i] \in Told(D)
  <2> SUFFICES ASSUME NEW i \in 1..Len(g) PROVE g[i] \in Told(D)
    OBVIOUS
  <2>1. o[i] \in Told(D)  BY <1>8, <1>9
  <2> QED  BY <1>9, <2>1, WithoutMarkerEffect
<1> QED  BY <1>10 DEF g, D

\* preprocess_messages_for_llm() lets an em-dash through only if some message of the
\* history went on after its interruption, or was interrupted twice.
THEOREM DashesEndMessages == Chat!Spec => []DashOnlyIfContinued
<1>1. HistoryOK => DashOnlyIfContinued
  <2> DEFINE context == Chat!Preprocessed(history)
  <2> SUFFICES ASSUME HistoryOK,
                      ~\E i \in DOMAIN history :
                          Chat!Dashes(history[i].content) \ {Len(history[i].content)} # {},
                      NEW m \in Chat!Range(context), Chat!InterruptionChar \in Chat!Range(m.content)
               PROVE  FALSE
    BY DEF DashOnlyIfContinued, Chat!DashOnlyIfContinued
  <2>1. PICK h \in Conversations(Shown) :
            /\ context = Chat!PreprocessMessages(h)
            /\ h = history \/ h = <<System, Chat!Message("user", <<"Hello!">>)>>
    BY ShownHistory
  <2>2. "prompt" \in Shown /\ "Hello." \in Shown  BY DEF Shown, Vocabulary
  <2>3. \A n \in 1..Len(h) : DashAtMostLast(h[n].content)
    <3>1. CASE h = history
      <4> SUFFICES ASSUME NEW n \in 1..Len(h), NEW k \in 1..(Len(h[n].content) - 1),
                          h[n].content[k] = Chat!InterruptionChar
                   PROVE  FALSE
        BY DEF DashAtMostLast
      <4>1. h \in Seq(Told(Shown)) /\ h[n] \in Told(Shown)  BY DEF Conversations
      <4>2. h[n].content \in Seq(Shown)  BY <4>1, MessageFields
      <4> DEFINE c == h[n].content
      <4>3. k \in DOMAIN c /\ k # Len(c) /\ n \in DOMAIN history
        BY <3>1, <4>1, <4>2
      <4>4. k \in Chat!Dashes(c)  BY <4>3 DEF Chat!Dashes
      <4> QED  BY <3>1, <4>3, <4>4
    <3>2. CASE h = <<System, Chat!Message("user", <<"Hello!">>)>>
      <4> DEFINE m2 == Chat!Message("user", <<"Hello!">>)
      <4>1. Len(h) = 2 /\ h[1] = System /\ h[2] = m2  BY <3>2
      <4>2. System.content = <<"prompt">> /\ m2.content = <<"Hello!">>
        BY DEF System, Chat!Message
      <4>3. Len(<<"prompt">>) = 1 /\ Len(<<"Hello!">>) = 1  OBVIOUS
      <4> HIDE DEF m2
      <4>4. \A n \in 1..2 : Len(h[n].content) = 1
        <5>1. \A n \in 1..2 : n = 1 \/ n = 2  OBVIOUS
        <5> QED  BY <4>1, <4>2, <4>3, <5>1
      <4>5. 1..(1 - 1) = {}  OBVIOUS
      <4> QED  BY <4>1, <4>4, <4>5 DEF DashAtMostLast
    <3> QED  BY <2>1, <3>1, <3>2
  <2>4. context \in Seq(Told(Shown)) /\ \A i \in 1..Len(context) : context[i] \in Told(Dashless(Shown))
    BY <2>1, <2>2, <2>3, PreprocessEffect, ContextIsDashless
  <2> HIDE DEF context
  <2>5. m \in Told(Dashless(Shown))  BY <2>4 DEF Chat!Range
  <2>6. m.content \in Seq(Dashless(Shown))  BY <2>5, MessageFields
  <2>7. Chat!InterruptionChar \in Dashless(Shown)  BY <2>6 DEF Chat!Range
  <2> QED  BY <2>7 DEF Dashless
<1> QED  BY <1>1, HistoryInvariant, PTL

-----------------------------------------------------------------------------
(* Flattening *)

LEMMA FlattenEffect ==
    ASSUME NEW S, NEW s \in Seq(Seq(S))
    PROVE  \E f \in [0..Len(s) -> Seq(S)] :
                /\ f[0] = <<>> /\ \A n \in 1..Len(s) : f[n] = f[n - 1] \o s[n]
                /\ Chat!FlattenSeq(s) = f[Len(s)]
<1> DEFINE N == Len(s)
           Q == Seq(S)
           step == [n \in 1..N |-> [o \in Q |-> o \o s[n]]]
<1>1. N \in Nat /\ <<>> \in Q /\ \A n \in 1..N : s[n] \in Q  OBVIOUS
<1>2. step \in Steps(N, Q) /\ \A n \in 1..N, o \in Q : step[n][o] = o \o s[n]
  <2>1. \A n \in 1..N, o \in Q : o \o s[n] \in Q  BY <1>1
  <2> HIDE DEF Q, N
  <2> QED  BY <2>1 DEF Steps
<1> HIDE DEF step, Q
<1>3. PICK f \in [0..N -> Q] : f[0] = <<>> /\ \A n \in 1..N : f[n] = step[n][f[n - 1]]
  BY <1>1, <1>2, StepByStep DEF FollowsSteps
<1>4. \A n \in 1..N : f[n] = f[n - 1] \o s[n]
  <2> SUFFICES ASSUME NEW n \in 1..N PROVE f[n] = f[n - 1] \o s[n]
    OBVIOUS
  <2>1. n - 1 \in 0..N  BY <1>1
  <2>2. f[n - 1] \in Q  BY <2>1
  <2> QED  BY <1>2, <1>3, <2>2
<1>5. Chat!FlattenSeq(s) = f[N]
  <2>1. CASE N = 0
    <3>1. s = <<>>  BY <2>1
    <3>2. Chat!FlattenSeq(s) = s  BY <2>1 DEF Chat!FlattenSeq
    <3> QED  BY <1>3, <2>1, <3>1, <3>2
  <2>2. CASE N # 0
    <3> DEFINE Flattens(g) == g = [i \in 1..N |-> IF i = 1 THEN s[i] ELSE g[i - 1] \o s[i]]
               h == [i \in 1..N |-> f[i]]
    <3>1. Flattens(h)
      <4> SUFFICES ASSUME NEW i \in 1..N PROVE f[i] = IF i = 1 THEN s[i] ELSE h[i - 1] \o s[i]
        OBVIOUS
      <4>1. CASE i = 1
        <5>1. <<>> \o s[1] = s[1] /\ i - 1 = 0  BY <1>1, <4>1, ConcatEmptySeq DEF Q
        <5> QED  BY <1>3, <1>4, <4>1, <5>1
      <4>2. CASE i # 1
        <5>1. i - 1 \in 1..N  BY <1>1, <4>2
        <5> QED  BY <1>4, <4>2, <5>1
      <4> QED  BY <4>1, <4>2
    <3> DEFINE g == CHOOSE x : Flattens(x)
    <3>2. Flattens(g)
      <4> HIDE DEF h
      <4> QED  BY <3>1
    <3>3. Chat!FlattenSeq(s) = g[N]  BY <2>2 DEF Chat!FlattenSeq
    <3> HIDE DEF g, h
    <3> DEFINE T == {n \in 0..N : n > 0 => g[n] = f[n]}
    <3>4. T = 0..N
      <4>1. T \in SUBSET (0..N) /\ 0 \in T  BY <1>1
      <4>2. ASSUME NEW n \in 1..N, n - 1 \in T PROVE n \in T
        <5>1. g[n] = IF n = 1 THEN s[n] ELSE g[n - 1] \o s[n]  BY <3>2
        <5>2. CASE n = 1
          <6>1. <<>> \o s[1] = s[1] /\ n - 1 = 0  BY <1>1, <5>2, ConcatEmptySeq DEF Q
          <6>2. f[n] = s[1]  BY <1>3, <1>4, <5>2, <6>1
          <6> QED  BY <1>1, <5>1, <5>2, <6>2
        <5>3. CASE n # 1
          <6>1. n - 1 > 0 /\ n \in 0..N  BY <1>1, <5>3
          <6>2. g[n - 1] = f[n - 1]  BY <4>2, <6>1
          <6> QED  BY <1>4, <5>1, <5>3, <6>1, <6>2
        <5> QED  BY <5>2, <5>3
      <4> HIDE DEF T
      <4> QED  BY <1>1, <4>1, <4>2, Induction
    <3>5. N \in T /\ N > 0
      <4>1. N \in 0..N /\ N > 0  BY <1>1, <2>2
      <4> HIDE DEF T
      <4> QED  BY <3>4, <4>1
    <3> QED  BY <3>3, <3>5
  <2> QED  BY <2>1, <2>2
<1> QED  BY <1>3, <1>4, <1>5 DEF Q

LEMMA FlattenAppend ==
    ASSUME NEW S, NEW s \in Seq(Seq(S)), NEW x \in Seq(S)
    PROVE  /\ Chat!FlattenSeq(s) \in Seq(S)
           /\ Chat!FlattenSeq(Append(s, x)) = Chat!FlattenSeq(s) \o x
<1> DEFINE N == Len(s)
           t == Append(s, x)
           Q == Seq(S)
<1>1. N \in Nat  OBVIOUS
<1>2. t \in Seq(Q) /\ Len(t) = N + 1 /\ t[N + 1] = x /\ \A n \in 1..N : t[n] = s[n]
  BY AppendProperties
<1>3. PICK f \in [0..N -> Q] :
        /\ f[0] = <<>> /\ \A n \in 1..N : f[n] = f[n - 1] \o s[n]
        /\ Chat!FlattenSeq(s) = f[N]
  BY FlattenEffect
<1> HIDE DEF t
<1>4. PICK g \in [0..(N + 1) -> Q] :
        /\ g[0] = <<>> /\ \A n \in 1..(N + 1) : g[n] = g[n - 1] \o t[n]
        /\ Chat!FlattenSeq(t) = g[N + 1]
  <2>1. \E g \in [0..Len(t) -> Seq(S)] :
            /\ g[0] = <<>> /\ \A n \in 1..Len(t) : g[n] = g[n - 1] \o t[n]
            /\ Chat!FlattenSeq(t) = g[Len(t)]
    BY <1>2, FlattenEffect
  <2>2. Len(t) = N + 1  BY <1>2
  <2> HIDE DEF N
  <2> QED  BY <2>1, <2>2
<1> DEFINE T == {n \in 0..N : g[n] = f[n]}
<1>5. T = 0..N
  <2> HIDE DEF N
  <2>1. T \in SUBSET (0..N) /\ 0 \in T  BY <1>1, <1>3, <1>4
  <2>2. ASSUME NEW n \in 1..N, n - 1 \in T PROVE n \in T
    <3>1. n \in 1..(N + 1) /\ n \in 0..N  BY <1>1
    <3> QED  BY <1>2, <1>3, <1>4, <2>2, <3>1
  <2> HIDE DEF T
  <2> QED  BY <1>1, <2>1, <2>2, Induction
<1>6. N \in T /\ N + 1 \in 1..(N + 1) /\ (N + 1) - 1 = N /\ N \in 0..N  BY <1>1, <1>5
<1>7. g[N + 1] = f[N] \o x  BY <1>2, <1>4, <1>6
<1> QED  BY <1>3, <1>4, <1>6, <1>7 DEF t

LEMMA FlattenOne ==
    ASSUME NEW S, NEW x \in Seq(S)
    PROVE  Chat!FlattenSeq(<<>>) = <<>> /\ Chat!FlattenSeq(<<x>>) = x
<1>1. Chat!FlattenSeq(<<>>) = <<>>  BY DEF Chat!FlattenSeq
<1>2. <<x>> = Append(<<>>, x) /\ <<>> \in Seq(Seq(S))  OBVIOUS
<1>3. Chat!FlattenSeq(Append(<<>>, x)) = Chat!FlattenSeq(<<>>) \o x  BY <1>2, FlattenAppend
<1> QED  BY <1>1, <1>2, <1>3, ConcatEmptySeq

LEMMA LastOfPrefix ==
    ASSUME NEW S, NEW b \in Seq(S), NEW n \in 1..Len(b)
    PROVE  /\ SubSeq(b, 1, n - 1) \in Seq(S) /\ b[n] \in S
           /\ SubSeq(b, 1, n) = Append(SubSeq(b, 1, n - 1), b[n])
<1>1. b[n] \in S  OBVIOUS
<1>2. SubSeq(b, 1, n - 1) \in Seq(S)  OBVIOUS
<1>3. SubSeq(b, 1, n) = SubSeq(b, 1, n - 1) \o <<b[n]>>
  <2>1. 1 \in 1..Len(b) /\ n \in 1..Len(b)  OBVIOUS
  <2> QED  BY <2>1, SubSeqRecursiveSecond
<1> QED  BY <1>1, <1>2, <1>3, AppendIsConcat

LEMMA AppendToConcat ==
    ASSUME NEW S, NEW a \in Seq(S), NEW p \in Seq(S), NEW x \in S
    PROVE  a \o p \in Seq(S) /\ a \o Append(p, x) = Append(a \o p, x)
<1>1. a \o p \in Seq(S) /\ <<x>> \in Seq(S)  OBVIOUS
<1>2. Append(p, x) = p \o <<x>> /\ Append(a \o p, x) = (a \o p) \o <<x>>
  BY <1>1, AppendIsConcat
<1>3. (a \o p) \o <<x>> = a \o (p \o <<x>>)  BY <1>1, ConcatAssociative
<1> QED  BY <1>1, <1>2, <1>3

LEMMA FlattenConcatStep ==
    ASSUME NEW S
    PROVE  \A a, p \in Seq(Seq(S)) : \A x \in Seq(S) :
             Chat!FlattenSeq(a \o p) = Chat!FlattenSeq(a) \o Chat!FlattenSeq(p) =>
               Chat!FlattenSeq(a \o Append(p, x)) = Chat!FlattenSeq(a) \o Chat!FlattenSeq(Append(p, x))
<1> SUFFICES ASSUME NEW a, NEW p, NEW x, a \in Seq(Seq(S)), p \in Seq(Seq(S)), x \in Seq(S),
                    Chat!FlattenSeq(a \o p) = Chat!FlattenSeq(a) \o Chat!FlattenSeq(p)
             PROVE  Chat!FlattenSeq(a \o Append(p, x))
                      = Chat!FlattenSeq(a) \o Chat!FlattenSeq(Append(p, x))
  OBVIOUS
<1>1. a \o p \in Seq(Seq(S)) /\ a \o Append(p, x) = Append(a \o p, x)  BY AppendToConcat
<1>2. Chat!FlattenSeq(Append(a \o p, x)) = Chat!FlattenSeq(a \o p) \o x  BY <1>1, FlattenAppend
<1>3. Chat!FlattenSeq(Append(p, x)) = Chat!FlattenSeq(p) \o x  BY FlattenAppend
<1> DEFINE u == Chat!FlattenSeq(a)
           v == Chat!FlattenSeq(p)
<1>4. u \in Seq(S) /\ v \in Seq(S) /\ x \in Seq(S)  BY FlattenAppend
<1> HIDE DEF u, v
<1>5. (u \o v) \o x = u \o (v \o x)  BY ONLY <1>4, ConcatAssociative
<1>6. Chat!FlattenSeq(a \o Append(p, x)) = (u \o v) \o x  BY <1>1, <1>2 DEF u, v
<1>7. u \o Chat!FlattenSeq(Append(p, x)) = u \o (v \o x)  BY <1>3 DEF v
<1>8. Chat!FlattenSeq(a \o Append(p, x)) = u \o Chat!FlattenSeq(Append(p, x))
  BY ONLY <1>5, <1>6, <1>7
<1> QED  BY <1>8 DEF u

LEMMA FlattenConcat ==
    ASSUME NEW S, NEW a \in Seq(Seq(S)), NEW b \in Seq(Seq(S))
    PROVE  Chat!FlattenSeq(a \o b) = Chat!FlattenSeq(a) \o Chat!FlattenSeq(b)
<1> DEFINE Q == Seq(S)
           F(s) == Chat!FlattenSeq(s)
           P(n) == SubSeq(b, 1, n)
           T == {n \in 0..Len(b) : F(a \o P(n)) = F(a) \o F(P(n))}
<1>1. F(a) \in Seq(S) /\ F(<<>>) = <<>>
  <2>1. <<>> \in Seq(S)  OBVIOUS
  <2> QED  BY <2>1, FlattenAppend, FlattenOne
<1>2. T = 0..Len(b)
  <2>1. T \in SUBSET (0..Len(b)) /\ Len(b) \in Nat  OBVIOUS
  <2>2. 0 \in T
    <3>1. P(0) = <<>> /\ a \o <<>> = a /\ F(a) \o <<>> = F(a)  BY <1>1, SubSeqEmpty, ConcatEmptySeq
    <3>2. F(a \o P(0)) = F(a) \o F(P(0))  BY <1>1, <3>1
    <3>3. 0 \in 0..Len(b)  BY <2>1
    <3> HIDE DEF F, P
    <3> QED  BY <3>2, <3>3
  <2>3. ASSUME NEW n \in 1..Len(b), n - 1 \in T PROVE n \in T
    <3> DEFINE p == P(n - 1)
               x == b[n]
    <3>1. p \in Seq(Seq(S)) /\ x \in Seq(S) /\ P(n) = Append(p, x)  BY LastOfPrefix
    <3>2. F(a \o p) = F(a) \o F(p)  BY <2>3
    <3> HIDE DEF p, x, P
    <3>3. F(a \o Append(p, x)) = F(a) \o F(Append(p, x))  BY <3>1, <3>2, FlattenConcatStep
    <3>4. n \in 0..Len(b)  OBVIOUS
    <3> HIDE DEF F
    <3> QED  BY <3>1, <3>3, <3>4
  <2> HIDE DEF T
  <2> QED  BY <2>1, <2>2, <2>3, Induction
<1>3. Len(b) \in T
  <2>1. Len(b) \in 0..Len(b)  OBVIOUS
  <2> HIDE DEF T
  <2> QED  BY <1>2, <2>1
<1>4. P(Len(b)) = b  BY SubSeqFull
<1> QED  BY <1>3, <1>4

\* What each element of a sequence stands for, in order.
FlatMap(e, s) == Chat!FlattenSeq([i \in DOMAIN s |-> e[s[i]]])

LEMMA FlatMapOne ==
    ASSUME NEW X, NEW S, NEW e \in [X -> Seq(S)], NEW x \in X
    PROVE  FlatMap(e, <<>>) = <<>> /\ FlatMap(e, <<x>>) = e[x]
<1>1. [i \in DOMAIN <<>> |-> e[<<>>[i]]] = <<>>  OBVIOUS
<1>2. [i \in DOMAIN <<x>> |-> e[<<x>>[i]]] = <<e[x]>>  OBVIOUS
<1>3. e[x] \in Seq(S)  OBVIOUS
<1> QED  BY <1>1, <1>2, <1>3, FlattenOne DEF FlatMap

LEMMA FlatMapIn ==
    ASSUME NEW X, NEW S, NEW e \in [X -> Seq(S)], NEW a \in Seq(X)
    PROVE  FlatMap(e, a) \in Seq(S)
<1> DEFINE Q == Seq(S)
           m == [i \in DOMAIN a |-> e[a[i]]]
<1>1. m \in Seq(Q)
  <2>1. DOMAIN a = 1..Len(a) /\ Len(a) \in Nat /\ \A i \in 1..Len(a) : e[a[i]] \in Q  OBVIOUS
  <2> HIDE DEF Q
  <2> QED  BY <2>1
<1>2. <<>> \in Seq(S)  OBVIOUS
<1> HIDE DEF m
<1>3. Chat!FlattenSeq(m) \in Seq(S)  BY <1>1, <1>2, FlattenAppend
<1> QED  BY <1>3 DEF m, FlatMap

LEMMA FlatMapConcat ==
    ASSUME NEW X, NEW S, NEW e, NEW a, NEW b,
           e \in [X -> Seq(S)], a \in Seq(X), b \in Seq(X)
    PROVE  FlatMap(e, a \o b) = FlatMap(e, a) \o FlatMap(e, b)
<1> DEFINE Q == Seq(S)
           m(s) == [i \in DOMAIN s |-> e[s[i]]]
<1>1. \A s \in Seq(X) : m(s) \in Seq(Q) /\ Len(m(s)) = Len(s) /\ \A i \in 1..Len(s) : m(s)[i] = e[s[i]]
  <2> SUFFICES ASSUME NEW s \in Seq(X)
               PROVE  m(s) \in Seq(Q) /\ Len(m(s)) = Len(s) /\ \A i \in 1..Len(s) : m(s)[i] = e[s[i]]
    OBVIOUS
  <2>1. DOMAIN s = 1..Len(s) /\ Len(s) \in Nat /\ \A i \in 1..Len(s) : e[s[i]] \in Q  OBVIOUS
  <2> HIDE DEF Q
  <2> QED  BY <2>1
<1> HIDE DEF m
<1>2. a \o b \in Seq(X) /\ Len(a \o b) = Len(a) + Len(b)
      /\ \A i \in 1..(Len(a) + Len(b)) : (a \o b)[i] = IF i <= Len(a) THEN a[i] ELSE b[i - Len(a)]
  BY ConcatProperties
<1>3. m(a) \o m(b) \in Seq(Q) /\ Len(m(a) \o m(b)) = Len(a) + Len(b)
      /\ \A i \in 1..(Len(a) + Len(b)) :
            (m(a) \o m(b))[i] = IF i <= Len(a) THEN m(a)[i] ELSE m(b)[i - Len(a)]
  <2> DEFINE u == m(a)
             v == m(b)
  <2>1. u \in Seq(Q) /\ v \in Seq(Q) /\ Len(u) = Len(a) /\ Len(v) = Len(b)  BY <1>1
  <2> HIDE DEF u, v, Q
  <2>2. u \o v \in Seq(Q) /\ Len(u \o v) = Len(u) + Len(v)
        /\ \A i \in 1..(Len(u) + Len(v)) : (u \o v)[i] = IF i <= Len(u) THEN u[i] ELSE v[i - Len(u)]
    BY <2>1, ConcatProperties
  <2> QED  BY <2>1, <2>2 DEF u, v
<1>4. m(a \o b) = m(a) \o m(b)
  <2> DEFINE c == a \o b
             l == m(c)
             r == m(a) \o m(b)
  <2> HIDE DEF c
  <2>1. l \in Seq(Q) /\ Len(l) = Len(a) + Len(b) /\ \A i \in 1..Len(c) : l[i] = e[c[i]]
    BY <1>1, <1>2 DEF c
  <2>2. \A i \in 1..(Len(a) + Len(b)) : l[i] = r[i]
    <3> SUFFICES ASSUME NEW i \in 1..(Len(a) + Len(b)) PROVE l[i] = r[i]
      OBVIOUS
    <3>0. Len(a) \in Nat /\ Len(b) \in Nat  OBVIOUS
    <3>1. l[i] = e[c[i]]  BY <1>2, <2>1 DEF c
    <3>2. CASE i <= Len(a)
      <4>1. i \in 1..Len(a)  BY <3>0, <3>2
      <4>2. m(a)[i] = e[a[i]]  BY <1>1, <4>1
      <4> QED  BY <1>2, <1>3, <3>1, <3>2, <4>2 DEF c
    <3>3. CASE ~(i <= Len(a))
      <4>1. i - Len(a) \in 1..Len(b)  BY <3>0, <3>3
      <4>2. m(b)[i - Len(a)] = e[b[i - Len(a)]]  BY <1>1, <4>1
      <4> QED  BY <1>2, <1>3, <3>1, <3>3, <4>2 DEF c
    <3> QED  BY <3>2, <3>3
  <2>3. r \in Seq(Q) /\ Len(r) = Len(a) + Len(b)  BY <1>3
  <2> HIDE DEF l, r, Q
  <2>4. l = r  BY <2>1, <2>2, <2>3, SeqEqual
  <2> QED  BY <2>4 DEF l, r, c
<1>5. m(a) \in Seq(Seq(S)) /\ m(b) \in Seq(Seq(S))  BY <1>1
<1> QED  BY <1>4, <1>5, FlattenConcat DEF m, FlatMap

-----------------------------------------------------------------------------
(* What was said *)

Said == UserWords \cup BotWords

\* What of a word, and what of a message, was said.
SaidOf(W) == [w \in W |-> IF w \in Said THEN <<w>> ELSE <<>>]
SpokenOf(W) == [m \in Told(W) |-> Chat!SpokenIn(m.content)]

LEMMA SpokenInParts ==
    ASSUME NEW W
    PROVE  /\ SaidOf(W) \in [W -> Seq(Said)]
           /\ \A c \in Seq(W) : Chat!SpokenIn(c) = FlatMap(SaidOf(W), c) /\ Chat!SpokenIn(c) \in Seq(Said)
<1>1. SaidOf(W) \in [W -> Seq(Said)]
  <2>1. \A w \in W : (IF w \in Said THEN <<w>> ELSE <<>>) \in Seq(Said)  OBVIOUS
  <2> HIDE DEF Said
  <2> QED  BY <2>1 DEF SaidOf
<1>2. ASSUME NEW c \in Seq(W) PROVE Chat!SpokenIn(c) = FlatMap(SaidOf(W), c)
  <2>1. \A i \in DOMAIN c : SaidOf(W)[c[i]] = IF c[i] \in Said THEN <<c[i]>> ELSE <<>>
    BY DEF SaidOf
  <2>2. [i \in DOMAIN c |-> SaidOf(W)[c[i]]] = [i \in DOMAIN c |-> IF c[i] \in Said THEN <<c[i]>> ELSE <<>>]
    BY <2>1
  <2> QED  BY <2>2 DEF Chat!SpokenIn, FlatMap, Said
<1>3. ASSUME NEW c \in Seq(W) PROVE FlatMap(SaidOf(W), c) \in Seq(Said)  BY <1>1, FlatMapIn
<1> QED  BY <1>1, <1>2, <1>3

LEMMA SpokenInConcat ==
    ASSUME NEW W, NEW a \in Seq(W), NEW b \in Seq(W)
    PROVE  /\ Chat!SpokenIn(a) \in Seq(Said)
           /\ Chat!SpokenIn(a \o b) = Chat!SpokenIn(a) \o Chat!SpokenIn(b)
<1>1. a \o b \in Seq(W)  OBVIOUS
<1>2. SaidOf(W) \in [W -> Seq(Said)]  BY SpokenInParts
<1>3. FlatMap(SaidOf(W), a \o b) = FlatMap(SaidOf(W), a) \o FlatMap(SaidOf(W), b)
  <2> DEFINE e == SaidOf(W)
  <2>1. e \in [W -> Seq(Said)]  BY <1>2
  <2> HIDE DEF e
  <2>2. FlatMap(e, a \o b) = FlatMap(e, a) \o FlatMap(e, b)  BY <2>1, FlatMapConcat
  <2> QED  BY <2>2 DEF e
<1>4. /\ Chat!SpokenIn(a) = FlatMap(SaidOf(W), a) /\ Chat!SpokenIn(b) = FlatMap(SaidOf(W), b)
      /\ Chat!SpokenIn(a \o b) = FlatMap(SaidOf(W), a \o b) /\ Chat!SpokenIn(a) \in Seq(Said)
  BY <1>1, SpokenInParts
<1> QED  BY <1>3, <1>4

\* A mark, and nothing, are not said.
LEMMA NothingSpoken ==
    /\ Chat!SpokenIn(<<>>) = <<>>
    /\ \A w : w \notin Said => Chat!SpokenIn(<<w>>) = <<>>
<1>1. ASSUME NEW w, w \notin Said PROVE Chat!SpokenIn(<<>>) = <<>> /\ Chat!SpokenIn(<<w>>) = <<>>
  <2> DEFINE W == {w}
  <2>1. SaidOf(W) \in [W -> Seq(Said)] /\ w \in W  BY SpokenInParts
  <2>2. SaidOf(W)[w] = <<>>  BY <1>1, <2>1 DEF SaidOf
  <2>3. FlatMap(SaidOf(W), <<>>) = <<>> /\ FlatMap(SaidOf(W), <<w>>) = <<>>
    BY <2>1, <2>2, FlatMapOne
  <2>4. <<>> \in Seq(W) /\ <<w>> \in Seq(W)  OBVIOUS
  <2> HIDE DEF W
  <2> QED  BY <2>3, <2>4, SpokenInParts
<1>2. \E w : w \notin Said
  <2>1. Chat!InterruptionChar \notin Said  BY ChatAssumption DEF Chat!BoundsAssumption, Said
  <2> QED  BY <2>1
<1> QED  BY <1>1, <1>2

LEMMA Marks ==
    /\ Chat!InterruptionChar \notin Said /\ Chat!UserSilenceMarker \notin Said
    /\ Chat!SpokenIn(Chat!Dummy.content) = <<>>
<1>1. /\ Chat!InterruptionChar \notin Said /\ Chat!UserSilenceMarker \notin Said
      /\ Chat!Range(Chat!Dummy.content) \cap Said = {}
  BY ChatAssumption DEF Chat!BoundsAssumption, Said
<1>2. Chat!Dummy.content = <<"Hello.">>  BY DEF Chat!Dummy, Chat!Message
<1>3. "Hello." \in Chat!Range(<<"Hello.">>)
  <2>1. DOMAIN <<"Hello.">> = {1} /\ <<"Hello.">>[1] = "Hello."  OBVIOUS
  <2> QED  BY <2>1 DEF Chat!Range
<1>4. "Hello." \notin Said  BY <1>1, <1>2, <1>3
<1> QED  BY <1>1, <1>2, <1>4, NothingSpoken

\* Stripping a mark off either end loses no word.
LEMMA WithoutDashSpoken ==
    ASSUME NEW W, NEW c \in Seq(W)
    PROVE  Chat!SpokenIn(Chat!WithoutDash(c)) = Chat!SpokenIn(c)
<1> SUFFICES ASSUME Len(c) > 0, c[Len(c)] = Chat!InterruptionChar,
                    Chat!WithoutDash(c) = SubSeq(c, 1, Len(c) - 1)
             PROVE  Chat!SpokenIn(SubSeq(c, 1, Len(c) - 1)) = Chat!SpokenIn(c)
  BY WithoutDashEffect
<1> DEFINE n == Len(c)
           d == SubSeq(c, 1, n - 1)
           last == <<c[n]>>
<1>1. n \in 1..Len(c) /\ 1 \in 1..Len(c)  OBVIOUS
<1>2. d \in Seq(W) /\ last \in Seq(W)  BY <1>1, LastOfPrefix
<1>3. c = d \o last
  <2>1. SubSeq(c, 1, n) = c  BY SubSeqFull
  <2>2. SubSeq(c, 1, n) = d \o <<c[n]>>  BY <1>1, SubSeqRecursiveSecond
  <2> QED  BY <2>1, <2>2
<1>4. Chat!SpokenIn(last) = <<>>  BY Marks, NothingSpoken
<1> HIDE DEF d, last
<1>5. /\ Chat!SpokenIn(d) \in Seq(Said)
      /\ Chat!SpokenIn(d \o last) = Chat!SpokenIn(d) \o Chat!SpokenIn(last)
  BY <1>2, SpokenInConcat
<1>6. Chat!SpokenIn(d) \o <<>> = Chat!SpokenIn(d)  BY <1>5, ConcatEmptySeq
<1> QED  BY <1>3, <1>4, <1>5, <1>6 DEF d

LEMMA WithoutMarkerSpoken ==
    ASSUME NEW W, NEW m \in Told(W)
    PROVE  Chat!SpokenIn(Chat!WithoutMarker(m).content) = Chat!SpokenIn(m.content)
<1> DEFINE c == m.content
<1>1. c \in Seq(W)  BY MessageFields
<1> SUFFICES ASSUME Len(c) > 1, c[1] = Chat!UserSilenceMarker
             PROVE  Chat!SpokenIn(Tail(c)) = Chat!SpokenIn(c)
  BY WithoutMarkerEffect
<1> HIDE DEF c
<1> DEFINE t == Tail(c)
           first == <<c[1]>>
<1>2. t \in Seq(W) /\ first \in Seq(W) /\ c = first \o t
  <2>1. c # <<>> /\ Head(c) = c[1]  BY <1>1
  <2>2. t \in Seq(W) /\ c[1] \in W  BY <1>1, <2>1
  <2>3. first \in Seq(W)  BY <2>2
  <2>4. c = first \o t
    <3>1. SubSeq(c, 1, Len(c)) = c  BY <1>1, SubSeqFull
    <3>2. t = SubSeq(c, 2, Len(c))  BY <1>1, <2>1, TailIsSubSeq
    <3>3. 1 \in 1..Len(c) /\ Len(c) \in 1..Len(c) /\ 1 + 1 = 2  BY <1>1
    <3>4. SubSeq(c, 1, Len(c)) = <<c[1]>> \o SubSeq(c, 1 + 1, Len(c))
      BY <1>1, <3>3, SubSeqRecursiveFirst
    <3> QED  BY <3>1, <3>2, <3>3, <3>4
  <2> QED  BY <2>2, <2>3, <2>4
<1>3. Chat!SpokenIn(first) = <<>>  BY Marks, NothingSpoken
<1> HIDE DEF t, first
<1>4. /\ Chat!SpokenIn(t) \in Seq(Said)
      /\ Chat!SpokenIn(first \o t) = Chat!SpokenIn(first) \o Chat!SpokenIn(t)
  BY <1>2, SpokenInConcat
<1>5. <<>> \o Chat!SpokenIn(t) = Chat!SpokenIn(t)  BY <1>4, ConcatEmptySeq
<1> QED  BY <1>2, <1>3, <1>4, <1>5 DEF t

-----------------------------------------------------------------------------

LEMMA SpokenParts ==
    ASSUME NEW W
    PROVE  /\ SpokenOf(W) \in [Told(W) -> Seq(Said)]
           /\ \A s \in Seq(Told(W)) : Chat!Spoken(s) = FlatMap(SpokenOf(W), s) /\ Chat!Spoken(s) \in Seq(Said)
<1>1. SpokenOf(W) \in [Told(W) -> Seq(Said)]
  <2>1. \A m \in Told(W) : Chat!SpokenIn(m.content) \in Seq(Said)
    <3> TAKE m \in Told(W)
    <3>1. m.content \in Seq(W)  BY MessageFields
    <3> QED  BY <3>1, SpokenInParts
  <2> QED  BY <2>1 DEF SpokenOf
<1>2. ASSUME NEW s \in Seq(Told(W)) PROVE Chat!Spoken(s) = FlatMap(SpokenOf(W), s)
  <2>1. \A i \in DOMAIN s : SpokenOf(W)[s[i]] = Chat!SpokenIn(s[i].content)
    BY DEF SpokenOf
  <2>2. [i \in DOMAIN s |-> SpokenOf(W)[s[i]]] = [i \in DOMAIN s |-> Chat!SpokenIn(s[i].content)]
    BY <2>1
  <2> QED  BY <2>2 DEF Chat!Spoken, FlatMap
<1>3. ASSUME NEW s \in Seq(Told(W)) PROVE FlatMap(SpokenOf(W), s) \in Seq(Said)
  BY <1>1, FlatMapIn
<1> QED  BY <1>1, <1>2, <1>3

LEMMA SpokenConcat ==
    ASSUME NEW W, NEW a \in Seq(Told(W)), NEW b \in Seq(Told(W))
    PROVE  /\ Chat!Spoken(a) \in Seq(Said)
           /\ Chat!Spoken(a \o b) = Chat!Spoken(a) \o Chat!Spoken(b)
<1>1. a \o b \in Seq(Told(W))  OBVIOUS
<1>2. SpokenOf(W) \in [Told(W) -> Seq(Said)]  BY SpokenParts
<1>3. FlatMap(SpokenOf(W), a \o b) = FlatMap(SpokenOf(W), a) \o FlatMap(SpokenOf(W), b)
  <2> DEFINE e == SpokenOf(W)
             X == Told(W)
  <2>1. e \in [X -> Seq(Said)] /\ a \in Seq(X) /\ b \in Seq(X)  BY <1>2
  <2> HIDE DEF e, X
  <2>2. FlatMap(e, a \o b) = FlatMap(e, a) \o FlatMap(e, b)  BY <2>1, FlatMapConcat
  <2> QED  BY <2>2 DEF e
<1>4. /\ Chat!Spoken(a) = FlatMap(SpokenOf(W), a) /\ Chat!Spoken(b) = FlatMap(SpokenOf(W), b)
      /\ Chat!Spoken(a \o b) = FlatMap(SpokenOf(W), a \o b) /\ Chat!Spoken(a) \in Seq(Said)
  BY <1>1, SpokenParts
<1> QED  BY <1>3, <1>4

LEMMA SpokenOne ==
    ASSUME NEW W, NEW m \in Told(W)
    PROVE  Chat!Spoken(<<>>) = <<>> /\ Chat!Spoken(<<m>>) = Chat!SpokenIn(m.content)
<1>1. SpokenOf(W) \in [Told(W) -> Seq(Said)] /\ SpokenOf(W)[m] = Chat!SpokenIn(m.content)
  BY SpokenParts DEF SpokenOf
<1>2. FlatMap(SpokenOf(W), <<>>) = <<>> /\ FlatMap(SpokenOf(W), <<m>>) = Chat!SpokenIn(m.content)
  BY <1>1, FlatMapOne
<1>3. <<>> \in Seq(Told(W)) /\ <<m>> \in Seq(Told(W))  OBVIOUS
<1> QED  BY <1>2, <1>3, SpokenParts

\* What a message adds.
LEMMA SpokenAppend ==
    ASSUME NEW W, NEW o \in Seq(Told(W)), NEW m \in Told(W)
    PROVE  Chat!Spoken(Append(o, m)) = Chat!Spoken(o) \o Chat!SpokenIn(m.content)
<1>1. <<m>> \in Seq(Told(W)) /\ Append(o, m) = o \o <<m>>  BY AppendIsConcat
<1>2. Chat!Spoken(o \o <<m>>) = Chat!Spoken(o) \o Chat!Spoken(<<m>>)  BY <1>1, SpokenConcat
<1> QED  BY <1>1, <1>2, SpokenOne

LEMMA SaidConcat == \A a, b, c \in Seq(Said) : (a \o b) \o c = a \o (b \o c)
  BY ConcatAssociative

LEMMA MergeSpoken ==
    ASSUME NEW W, NEW o \in Seq(Told(W)), NEW m \in Told(W)
    PROVE  Chat!Spoken(Chat!Merge(o, m)) = Chat!Spoken(o) \o Chat!SpokenIn(m.content)
<1> DEFINE n == Len(o)
           g == Chat!Merge(o, m)
<1>1. CASE n > 0 /\ o[n].role = m.role
  <2> DEFINE p == SubSeq(o, 1, n - 1)
             y == Chat!Message(m.role, o[n].content \o m.content)
  <2>1. n \in 1..Len(o) /\ n \in Nat  BY <1>1
  <2>2. p \in Seq(Told(W)) /\ o[n] \in Told(W)  BY <2>1, LastOfPrefix
  <2>3. o = Append(p, o[n])
    <3>1. SubSeq(o, 1, n) = o  BY SubSeqFull
    <3> QED  BY <2>1, <3>1, LastOfPrefix
  <2>4. /\ o[n].content \in Seq(W) /\ m.content \in Seq(W) /\ m.role \in Chat!Roles
    BY <2>2, MessageFields
  <2>5. o[n].content \o m.content \in Seq(W)  BY <2>4
  <2>6. y \in Told(W) /\ y.content = o[n].content \o m.content
    <3> DEFINE z == o[n].content \o m.content
    <3>1. z \in Seq(W) /\ m.role \in Chat!Roles  BY <2>4, <2>5
    <3> HIDE DEF z
    <3>2. Chat!Message(m.role, z) \in Told(W) /\ Chat!Message(m.role, z).content = z
      BY ONLY <3>1, IsMessage
    <3> QED  BY <3>2 DEF z
  <2>7. g \in Seq(Told(W)) /\ Len(g) = n /\ (\A i \in 1..n : i # n => g[i] = o[i]) /\ g[n] = y
    BY <1>1, MergeEffect
  <2> HIDE DEF y, g
  <2>8. g = Append(p, y)
    <3>1. SubSeq(g, 1, n) = g  BY <2>7, SubSeqFull
    <3>2. SubSeq(g, 1, n) = Append(SubSeq(g, 1, n - 1), g[n])  BY <2>1, <2>7, LastOfPrefix
    <3>3. SubSeq(g, 1, n - 1) = p
      <4>1. \A i \in 1..(n - 1) : g[i] = o[i]  BY <2>1, <2>7
      <4> QED  BY <2>1, <2>7, <4>1
    <3> QED  BY <2>7, <3>1, <3>2, <3>3
  <2> HIDE DEF p
  <2>9. Chat!Spoken(g) = Chat!Spoken(p) \o Chat!SpokenIn(y.content)  BY <2>2, <2>6, <2>8, SpokenAppend
  <2>10. Chat!Spoken(o) = Chat!Spoken(p) \o Chat!SpokenIn(o[n].content)  BY <2>2, <2>3, SpokenAppend
  <2> DEFINE a == Chat!Spoken(p)
             b == Chat!SpokenIn(o[n].content)
             c == Chat!SpokenIn(m.content)
  <2>11. Chat!SpokenIn(y.content) = b \o c  BY <2>4, <2>6, SpokenInConcat
  <2>12. a \in Seq(Said) /\ b \in Seq(Said) /\ c \in Seq(Said)  BY <2>2, <2>4, SpokenConcat, SpokenInParts, SpokenParts
  <2> HIDE DEF a, b, c
  <2>13. (a \o b) \o c = a \o (b \o c)  BY ONLY <2>12, SaidConcat
  <2> QED  BY <2>9, <2>10, <2>11, <2>13 DEF a, b, c, g
<1>2. CASE ~(n > 0 /\ o[n].role = m.role)
  <2>1. g = Append(o, m)  BY <1>2, MergeEffect
  <2> QED  BY <2>1, SpokenAppend
<1> QED  BY <1>1, <1>2

LEMMA CleanSpoken ==
    ASSUME NEW W, NEW h \in Seq(Told(W))
    PROVE  Chat!Spoken(Chat!Clean(h)) = Chat!Spoken(h)
<1> DEFINE f == Chat!CleanedUpTo(h)
           N == Len(h)
           P(n) == SubSeq(h, 1, n)
           T == {n \in 0..N : Chat!Spoken(f[n]) = Chat!Spoken(P(n))}
<1>1. /\ f \in [0..N -> Seq(Told(W))] /\ f[0] = <<>> /\ N \in Nat
      /\ \A n \in 1..N :
            f[n] = IF Chat!SaysNothing(h[n]) THEN f[n - 1] ELSE Chat!Merge(f[n - 1], Kept(h[n]))
  BY CleanedEffect
<1> HIDE DEF f
<1>2. T = 0..N
  <2>1. T \in SUBSET (0..N)  OBVIOUS
  <2>2. 0 \in T
    <3>1. P(0) = <<>> /\ 0 \in 0..N  BY <1>1, SubSeqEmpty
    <3> HIDE DEF P, N
    <3> QED  BY <1>1, <3>1
  <2>3. ASSUME NEW n \in 1..N, n - 1 \in T PROVE n \in T
    <3> DEFINE p == P(n - 1)
               o == f[n - 1]
               m == h[n]
    <3>1. p \in Seq(Told(W)) /\ m \in Told(W) /\ P(n) = Append(p, m)  BY LastOfPrefix
    <3>2. o \in Seq(Told(W)) /\ n \in 0..N  BY <1>1
    <3>3. Chat!Spoken(o) = Chat!Spoken(p)  BY <2>3
    <3>4. f[n] = IF Chat!SaysNothing(m) THEN o ELSE Chat!Merge(o, Kept(m))  BY <1>1
    <3>5. m.content \in Seq(W)  BY <3>1, MessageFields
    <3> HIDE DEF p, o, m, P, N, T
    <3>6. Chat!Spoken(P(n)) = Chat!Spoken(p) \o Chat!SpokenIn(m.content)  BY <3>1, SpokenAppend
    <3>7. Chat!Spoken(f[n]) = Chat!Spoken(P(n))
      <4>1. CASE Chat!SaysNothing(m)
        <5>1. Chat!SpokenIn(m.content) = <<>>
          BY <4>1, Marks, NothingSpoken DEF Chat!SaysNothing
        <5>2. Chat!Spoken(p) \o <<>> = Chat!Spoken(p)
          <6>1. Chat!Spoken(p) \in Seq(Said)  BY <3>1, SpokenParts
          <6> QED  BY <6>1, ConcatEmptySeq
        <5> QED  BY <3>3, <3>4, <3>6, <4>1, <5>1, <5>2
      <4>2. CASE ~Chat!SaysNothing(m)
        <5>1. Kept(m) \in Told(W) /\ Kept(m).content = Chat!WithoutDash(m.content)  BY <3>1, KeptEffect
        <5>2. Chat!Spoken(Chat!Merge(o, Kept(m))) = Chat!Spoken(o) \o Chat!SpokenIn(Kept(m).content)
          BY <3>2, <5>1, MergeSpoken
        <5>3. Chat!SpokenIn(Kept(m).content) = Chat!SpokenIn(m.content)
          BY <3>5, <5>1, WithoutDashSpoken
        <5> QED  BY <3>3, <3>4, <3>6, <4>2, <5>2, <5>3
      <4> QED  BY <4>1, <4>2
    <3> QED  BY <3>2, <3>7 DEF T
  <2> HIDE DEF T
  <2> QED  BY <1>1, <2>1, <2>2, <2>3, Induction
<1>3. N \in T  BY <1>1, <1>2
<1>4. P(N) = h  BY SubSeqFull
<1> QED  BY <1>3, <1>4 DEF Chat!Clean, f

LEMMA UserFirstSpoken ==
    ASSUME NEW W, "prompt" \in W, "Hello." \in W, NEW o \in Seq(Told(W)), TakesTurns(o)
    PROVE  Chat!Spoken(Chat!WithUserFirst(o)) = Chat!Spoken(o)
<1> DEFINE g == Chat!WithUserFirst(o)
           d == Chat!Dummy
<1>1. g \in Seq(Told(W))  BY UserFirst
<1> SUFFICES ASSUME Len(g) = Len(o) + 1, g[1] = o[1], g[2] = d,
                    \A i \in 2..Len(o) : g[i + 1] = o[i]
             PROVE  Chat!Spoken(g) = Chat!Spoken(o)
  BY UserFirst
<1> HIDE DEF g, d
<1>2. Len(o) \in Nat /\ Len(o) > 0  BY DEF TakesTurns
<1> DEFINE a == <<o[1]>>
           b == <<d>>
           t == Tail(o)
<1>3. o[1] \in Told(W) /\ d \in Told(W)
  <2>1. 2 \in 1..Len(g)  BY <1>2
  <2> QED  BY <1>1, <1>2, <2>1
<1>4. o # <<>>  BY <1>2
<1>5. a \in Seq(Told(W)) /\ b \in Seq(Told(W))  BY <1>3
<1>6. t \in Seq(Told(W)) /\ Len(t) = Len(o) - 1 /\ \A i \in 1..(Len(o) - 1) : t[i] = o[i + 1]
  BY <1>4
<1>7. Len(a) = 1 /\ a[1] = o[1] /\ Len(b) = 1 /\ b[1] = d  OBVIOUS
<1> DEFINE S == Told(W)
<1> HIDE DEF a, b, t, S
<1>8. a \in Seq(S) /\ b \in Seq(S) /\ t \in Seq(S) /\ o \in Seq(S) /\ g \in Seq(S)
  BY <1>1, <1>5, <1>6 DEF S
<1>9. o = a \o t
  <2>1. /\ a \o t \in Seq(S) /\ Len(a \o t) = Len(a) + Len(t)
        /\ \A i \in 1..(Len(a) + Len(t)) : (a \o t)[i] = IF i <= Len(a) THEN a[i] ELSE t[i - Len(a)]
    BY <1>8, ConcatProperties
  <2> DEFINE r == a \o t
  <2> HIDE DEF r
  <2>2. r \in Seq(S) /\ Len(r) = Len(o) /\ \A i \in 1..Len(o) : r[i] = o[i]
    <3>1. ASSUME NEW i \in 1..Len(o) PROVE r[i] = o[i]
      <4>1. CASE i = 1  BY <1>2, <1>6, <1>7, <2>1, <4>1 DEF r
      <4>2. CASE i # 1
        <5>1. i - 1 \in 1..(Len(o) - 1) /\ (i - 1) + 1 = i /\ ~(i <= 1)  BY <1>2, <4>2
        <5>2. r[i] = t[i - 1]  BY <1>2, <1>6, <1>7, <2>1, <5>1 DEF r
        <5> QED  BY <1>6, <5>1, <5>2
      <4> QED  BY <4>1, <4>2
    <3> QED  BY <1>2, <1>6, <1>7, <2>1, <3>1 DEF r
  <2> QED  BY <1>8, <2>2, SeqEqual DEF r
<1>10. g = (a \o b) \o t
  <2>1. /\ a \o b \in Seq(S) /\ Len(a \o b) = 2 /\ (a \o b)[1] = o[1] /\ (a \o b)[2] = d
    <3>1. /\ a \o b \in Seq(S) /\ Len(a \o b) = Len(a) + Len(b)
          /\ \A i \in 1..Len(a) : (a \o b)[i] = a[i]
          /\ \A i \in 1..Len(b) : (a \o b)[Len(a) + i] = b[i]
      BY <1>8, ConcatEffect
    <3>2. (a \o b)[1] = a[1] /\ (a \o b)[1 + 1] = b[1]  BY <1>7, <3>1
    <3> QED  BY <1>7, <3>1, <3>2
  <2> DEFINE e == a \o b
             r == e \o t
  <2>2. e \in Seq(S) /\ Len(e) = 2 /\ e[1] = o[1] /\ e[2] = d  BY <2>1
  <2> HIDE DEF e
  <2>7. e \in Seq(S) /\ t \in Seq(S)  BY <1>8, <2>2
  <2>3. /\ r \in Seq(S) /\ Len(r) = Len(e) + Len(t)
        /\ \A i \in 1..Len(e) : r[i] = e[i]
        /\ \A i \in 1..Len(t) : r[Len(e) + i] = t[i]
    BY ONLY <2>7, ConcatEffect
  <2> HIDE DEF r
  <2>4. Len(r) = Len(g)  BY <1>2, <1>6, <2>2, <2>3
  <2>5. ASSUME NEW i \in 1..Len(g) PROVE g[i] = r[i]
    <3>1. CASE i = 1 \/ i = 2  BY <2>2, <2>3, <3>1
    <3>2. CASE i # 1 /\ i # 2
      <4>1. i - 2 \in 1..Len(t) /\ Len(e) + (i - 2) = i /\ i - 1 \in 2..Len(o) /\ (i - 1) + 1 = i
            /\ i - 2 \in 1..(Len(o) - 1) /\ (i - 2) + 1 = i - 1
        BY <1>2, <1>6, <2>2, <3>2
      <4>2. r[i] = t[i - 2]  BY <2>3, <4>1
      <4>3. t[i - 2] = o[i - 1]  BY <1>6, <4>1
      <4>4. g[i] = o[i - 1]  BY <4>1
      <4> QED  BY <4>2, <4>3, <4>4
    <3> QED  BY <3>1, <3>2
  <2>6. g = r  BY <1>8, <2>3, <2>4, <2>5, SeqEqual
  <2> QED  BY <2>6 DEF r, e
<1>11. Chat!Spoken(a \o b) = Chat!Spoken(a)
  <2>1. Chat!Spoken(b) = <<>>
    <3>1. Chat!Spoken(<<d>>) = Chat!SpokenIn(d.content)  BY <1>3, SpokenOne
    <3> QED  BY <3>1, Marks DEF b, d
  <2>2. Chat!Spoken(a \o b) = Chat!Spoken(a) \o Chat!Spoken(b) /\ Chat!Spoken(a) \in Seq(Said)
    BY <1>8, SpokenConcat DEF S
  <2>3. Chat!Spoken(a) \o <<>> = Chat!Spoken(a)  BY <2>2, ConcatEmptySeq
  <2> QED  BY <2>1, <2>2, <2>3
<1>12. a \o b \in Seq(S)  BY <1>8, ConcatEffect
<1>13. /\ Chat!Spoken((a \o b) \o t) = Chat!Spoken(a \o b) \o Chat!Spoken(t)
       /\ Chat!Spoken(a \o t) = Chat!Spoken(a) \o Chat!Spoken(t)
  BY <1>8, <1>12, SpokenConcat DEF S
<1> QED  BY <1>9, <1>10, <1>11, <1>13

LEMMA PreprocessSpoken ==
    ASSUME NEW W, "prompt" \in W, "Hello." \in W, NEW h \in Conversations(W)
    PROVE  Chat!Spoken(Chat!PreprocessMessages(h)) = Chat!Spoken(h)
<1> DEFINE o == Chat!WithUserFirst(Chat!Clean(h))
           g == Chat!PreprocessMessages(h)
<1>1. /\ o \in Seq(Told(W)) /\ g \in Seq(Told(W)) /\ Len(g) = Len(o)
      /\ \A i \in 1..Len(g) : g[i] = Chat!WithoutMarker(o[i])
  BY PreprocessEffect
<1>2. Chat!Spoken(o) = Chat!Spoken(h)
  <2>1. Chat!Clean(h) \in Seq(Told(W)) /\ TakesTurns(Chat!Clean(h))  BY CleanTakesTurns
  <2>2. h \in Seq(Told(W))  BY DEF Conversations
  <2> QED  BY <2>1, <2>2, CleanSpoken, UserFirstSpoken
<1> HIDE DEF o, g
<1>3. \A i \in 1..Len(o) : Chat!SpokenIn(g[i].content) = Chat!SpokenIn(o[i].content)
  <2> SUFFICES ASSUME NEW i \in 1..Len(o)
               PROVE  Chat!SpokenIn(g[i].content) = Chat!SpokenIn(o[i].content)
    OBVIOUS
  <2>1. o[i] \in Told(W) /\ g[i] = Chat!WithoutMarker(o[i])  BY <1>1
  <2> QED  BY <2>1, WithoutMarkerSpoken
<1>4. DOMAIN g = 1..Len(o) /\ DOMAIN o = 1..Len(o)  BY <1>1
<1>5. [i \in DOMAIN g |-> Chat!SpokenIn(g[i].content)] = [i \in DOMAIN o |-> Chat!SpokenIn(o[i].content)]
  BY <1>3, <1>4
<1>6. Chat!Spoken(g) = Chat!Spoken(o)  BY <1>5 DEF Chat!Spoken
<1> QED  BY <1>2, <1>6 DEF g

\* The LLM is shown every word that was said, in order: where
\* preprocess_messages_for_llm() drops, merges and strips messages, it loses and
\* repeats none.
THEOREM ContextKeepsWhatWasSaid == Chat!Spec => []ContextKeepsWords
<1>1. HistoryOK => ContextKeepsWords
  <2> SUFFICES ASSUME HistoryOK, Len(history) > 2
               PROVE  Chat!Spoken(Chat!Preprocessed(history)) = Chat!Spoken(history)
    BY DEF ContextKeepsWords, Chat!ContextKeepsWords
  <2>1. history \in Conversations(Shown) /\ Chat!Preprocessed(history) = Chat!PreprocessMessages(history)
    BY ShownHistory
  <2>2. "prompt" \in Shown /\ "Hello." \in Shown  BY DEF Shown, Vocabulary
  <2> QED  BY <2>1, <2>2, PreprocessSpoken
<1> QED  BY <1>1, HistoryInvariant, PTL

-----------------------------------------------------------------------------
(* The words of a text *)

Chars == Letters \cup {R!Space}

EndsInSpace(t) == t # <<>> /\ t[Len(t)] = R!Space

\* What a character adds to the merged text.
Added(t, i) ==
    IF t[i] = R!Space THEN <<>>
    ELSE IF i > 1 /\ t[i - 1] = R!Space THEN <<R!Space, t[i]>> ELSE <<t[i]>>

LEMMA LettersAreNoSpace == \A c \in Letters : c # R!Space
  BY ChatAssumption DEF R!RechunkAssumption

LEMMA SameFlatten == \A s : R!FlattenSeq(s) = Chat!FlattenSeq(s)
  BY DEF R!FlattenSeq, Chat!FlattenSeq

LEMMA MergedIsFlat ==
    ASSUME NEW t \in Seq(Chars)
    PROVE  LET added == [i \in 1..Len(t) |-> Added(t, i)] IN
           /\ added \in Seq(Seq(Chars)) /\ Len(added) = Len(t)
           /\ R!Merged(t) = Chat!FlattenSeq(added) /\ R!Merged(t) \in Seq(Chars)
<1> DEFINE added == [i \in 1..Len(t) |-> Added(t, i)]
           Q == Seq(Chars)
<1>1. DOMAIN t = 1..Len(t) /\ Len(t) \in Nat  OBVIOUS
<1>2. R!Merged(t) = Chat!FlattenSeq(added)  BY <1>1, SameFlatten DEF R!Merged, Added
<1>3. \A i \in 1..Len(t) : Added(t, i) \in Q
  <2>1. <<>> \in Q /\ \A c \in Chars : <<c>> \in Q /\ <<R!Space, c>> \in Q
    <3>1. R!Space \in Chars  BY DEF Chars
    <3> QED  BY <3>1
  <2>2. \A i \in 1..Len(t) : t[i] \in Chars  OBVIOUS
  <2> HIDE DEF Q
  <2> QED  BY <2>1, <2>2 DEF Added
<1>4. added \in Seq(Q) /\ Len(added) = Len(t)
  <2> HIDE DEF Q
  <2> QED  BY <1>1, <1>3
<1> HIDE DEF added
<1>5. Chat!FlattenSeq(added) \in Seq(Chars)
  <2>1. <<>> \in Seq(Chars)  OBVIOUS
  <2> QED  BY <1>4, <2>1, FlattenAppend
<1> QED  BY <1>2, <1>4, <1>5 DEF added

LEMMA CharsConcat == \A a, b, c \in Seq(Chars) : (a \o b) \o c = a \o (b \o c)
  BY ConcatAssociative

LEMMA PairConcat == \A a, b : <<a>> \o <<b>> = <<a, b>>
<1> SUFFICES ASSUME NEW a, NEW b PROVE <<a>> \o <<b>> = <<a, b>>
  OBVIOUS
<1> DEFINE S == {a, b}
           u == <<a>>
           v == <<b>>
           q == <<a, b>>
           r == u \o v
<1>1. u \in Seq(S) /\ Len(u) = 1 /\ u[1] = a  OBVIOUS
<1>2. v \in Seq(S) /\ Len(v) = 1 /\ v[1] = b  OBVIOUS
<1>3. q \in Seq(S) /\ Len(q) = 2 /\ q[1] = a /\ q[2] = b  OBVIOUS
<1> HIDE DEF S, u, v, q
<1>4. /\ r \in Seq(S) /\ Len(r) = Len(u) + Len(v)
      /\ \A i \in 1..Len(u) : r[i] = u[i]
      /\ \A i \in 1..Len(v) : r[Len(u) + i] = v[i]
  BY <1>1, <1>2, ConcatEffect
<1> HIDE DEF r
<1>5. Len(r) = 2 /\ r[1] = a /\ r[1 + 1] = b  BY <1>1, <1>2, <1>4
<1>6. \A i \in 1..2 : r[i] = q[i]
  <2>1. \A i \in 1..2 : i = 1 \/ i = 2  OBVIOUS
  <2> QED  BY <1>3, <1>5, <2>1
<1>7. r = q  BY <1>3, <1>4, <1>5, <1>6, SeqEqual
<1> QED  BY <1>7 DEF r, q, u, v

LEMMA MergedAppend ==
    ASSUME NEW t \in Seq(Chars), NEW x \in Chars
    PROVE  /\ x = R!Space => R!Merged(Append(t, x)) = R!Merged(t)
           /\ x # R!Space /\ EndsInSpace(t) => R!Merged(Append(t, x)) = R!Merged(t) \o <<R!Space, x>>
           /\ x # R!Space /\ ~EndsInSpace(t) => R!Merged(Append(t, x)) = R!Merged(t) \o <<x>>
<1> DEFINE N == Len(t)
           u == Append(t, x)
           p == [i \in 1..Len(t) |-> Added(t, i)]
           q == [i \in 1..Len(u) |-> Added(u, i)]
           a == Added(u, N + 1)
<1>1. /\ u \in Seq(Chars) /\ Len(u) = N + 1 /\ N \in Nat
      /\ u[N + 1] = x /\ \A i \in 1..N : u[i] = t[i]
  BY AppendProperties
<1>2. p \in Seq(Seq(Chars)) /\ Len(p) = N /\ R!Merged(t) = Chat!FlattenSeq(p)
      /\ R!Merged(t) \in Seq(Chars)
  BY MergedIsFlat
<1> HIDE DEF u
<1>3. q \in Seq(Seq(Chars)) /\ Len(q) = N + 1 /\ R!Merged(u) = Chat!FlattenSeq(q)
  BY <1>1, MergedIsFlat
<1>4. \A i \in 1..N : q[i] = p[i]
  <2> SUFFICES ASSUME NEW i \in 1..N PROVE Added(u, i) = Added(t, i)
    BY <1>1
  <2>1. u[i] = t[i] /\ (i > 1 => u[i - 1] = t[i - 1])  BY <1>1
  <2> QED  BY <2>1 DEF Added
<1>5. q[N + 1] = a  BY <1>1
<1>6. a \in Seq(Chars)
  <2>1. N + 1 \in 1..Len(q)  BY <1>1, <1>3
  <2> HIDE DEF a, q
  <2> QED  BY <1>3, <1>5, <2>1
<1> HIDE DEF p, q, a
<1>7. q = Append(p, a)
  <2> DEFINE Q == Seq(Chars)
             r == Append(p, a)
  <2>1. p \in Seq(Q) /\ a \in Q /\ q \in Seq(Q)  BY <1>2, <1>3, <1>6
  <2> HIDE DEF Q
  <2>2. r \in Seq(Q) /\ Len(r) = N + 1 /\ r[N + 1] = a /\ \A i \in 1..N : r[i] = p[i]
    BY <1>2, <2>1, AppendProperties
  <2> HIDE DEF r
  <2>3. \A i \in 1..(N + 1) : q[i] = r[i]
    <3> SUFFICES ASSUME NEW i \in 1..(N + 1) PROVE q[i] = r[i]
      OBVIOUS
    <3>1. i = N + 1 \/ i \in 1..N  BY <1>1
    <3> QED  BY <1>4, <1>5, <2>2, <3>1
  <2>4. q = r  BY <1>3, <2>1, <2>2, <2>3, SeqEqual
  <2> QED  BY <2>4 DEF r
<1>8. R!Merged(u) = R!Merged(t) \o a  BY <1>2, <1>3, <1>6, <1>7, FlattenAppend
<1>9. EndsInSpace(t) <=> N > 0 /\ t[N] = R!Space
  <2>1. t # <<>> <=> N > 0  OBVIOUS
  <2> QED  BY <2>1 DEF EndsInSpace
<1>10. N + 1 > 1 <=> N > 0  BY <1>1
<1>11. (N + 1) - 1 = N /\ (N > 0 => u[N] = t[N])  BY <1>1
<1>12. x = R!Space => a = <<>>  BY <1>1 DEF a, Added
<1>13. x # R!Space /\ EndsInSpace(t) => a = <<R!Space, x>>
  BY <1>1, <1>9, <1>10, <1>11 DEF a, Added
<1>14. x # R!Space /\ ~EndsInSpace(t) => a = <<x>>
  BY <1>1, <1>9, <1>10, <1>11 DEF a, Added
<1>15. R!Merged(t) \o <<>> = R!Merged(t)  BY <1>2, ConcatEmptySeq
<1> QED  BY <1>8, <1>12, <1>13, <1>14, <1>15 DEF u

\* Spaces add nothing until a word follows.
LEMMA MergedSpaces ==
    ASSUME NEW t \in Seq(Chars), NEW s \in Seq(Chars), \A i \in 1..Len(s) : s[i] = R!Space
    PROVE  R!Merged(t \o s) = R!Merged(t)
<1> DEFINE P(n) == SubSeq(s, 1, n)
           T == {n \in 0..Len(s) : R!Merged(t \o P(n)) = R!Merged(t)}
<1>1. T = 0..Len(s)
  <2>1. T \in SUBSET (0..Len(s)) /\ Len(s) \in Nat  OBVIOUS
  <2>2. 0 \in T
    <3>1. P(0) = <<>> /\ t \o <<>> = t  BY SubSeqEmpty, ConcatEmptySeq
    <3>2. R!Merged(t \o P(0)) = R!Merged(t)  BY <3>1
    <3>3. 0 \in 0..Len(s)  BY <2>1
    <3> HIDE DEF P
    <3> QED  BY <3>2, <3>3
  <2>3. ASSUME NEW n \in 1..Len(s), n - 1 \in T PROVE n \in T
    <3> DEFINE p == P(n - 1)
               x == s[n]
    <3>1. p \in Seq(Chars) /\ x \in Chars /\ P(n) = Append(p, x)  BY LastOfPrefix
    <3>2. R!Merged(t \o p) = R!Merged(t) /\ x = R!Space  BY <2>3
    <3> HIDE DEF p, x, P
    <3>3. t \o p \in Seq(Chars) /\ t \o Append(p, x) = Append(t \o p, x)  BY <3>1, AppendToConcat
    <3>4. R!Merged(Append(t \o p, x)) = R!Merged(t \o p)  BY <3>1, <3>2, <3>3, MergedAppend
    <3>5. n \in 0..Len(s)  OBVIOUS
    <3> QED  BY <3>1, <3>2, <3>3, <3>4, <3>5
  <2> HIDE DEF T
  <2> QED  BY <2>1, <2>2, <2>3, Induction
<1>2. Len(s) \in T  BY <1>1
<1>3. P(Len(s)) = s  BY SubSeqFull
<1> QED  BY <1>2, <1>3

\* A word is put behind one space if there was any, and letter by letter.
LEMMA MergedWord ==
    ASSUME NEW t \in Seq(Chars), NEW w \in Seq(Letters), w # <<>>
    PROVE  R!Merged(t \o w) =
                R!Merged(t) \o ((IF EndsInSpace(t) THEN <<R!Space>> ELSE <<>>) \o w)
<1> DEFINE pre == IF EndsInSpace(t) THEN <<R!Space>> ELSE <<>>
           P(n) == SubSeq(w, 1, n)
           T == {n \in 0..Len(w) : n > 0 => /\ R!Merged(t \o P(n)) = R!Merged(t) \o (pre \o P(n))
                                            /\ ~EndsInSpace(t \o P(n))}
<1>0. pre \in Seq(Chars) /\ w \in Seq(Chars) /\ R!Merged(t) \in Seq(Chars)
  <2>1. <<R!Space>> \in Seq(Chars) /\ <<>> \in Seq(Chars)  BY DEF Chars
  <2>2. w \in Seq(Chars)  BY DEF Chars
  <2> QED  BY <2>1, <2>2, MergedIsFlat
<1>1. T = 0..Len(w)
  <2>1. T \in SUBSET (0..Len(w)) /\ Len(w) \in Nat  OBVIOUS
  <2>2. 0 \in T
    <3>1. 0 \in 0..Len(w) /\ ~(0 > 0)  BY <2>1
    <3> HIDE DEF P, pre
    <3> QED  BY <3>1
  <2>3. ASSUME NEW n \in 1..Len(w), n - 1 \in T PROVE n \in T
    <3> DEFINE p == P(n - 1)
               x == w[n]
    <3>1. p \in Seq(Chars) /\ x \in Chars /\ P(n) = Append(p, x)  BY <1>0, LastOfPrefix
    <3>2. x \in Letters /\ x # R!Space  BY LettersAreNoSpace
    <3>3. n - 1 > 0 => /\ R!Merged(t \o p) = R!Merged(t) \o (pre \o p) /\ ~EndsInSpace(t \o p)
      BY <2>3
    <3>4. n = 1 => p = <<>>  BY SubSeqEmpty
    <3>5. n \in 0..Len(w) /\ (n # 1 => n - 1 > 0)  OBVIOUS
    <3> HIDE DEF p, x, P, T, pre
    <3> DEFINE u == t \o p
    <3>6. u \in Seq(Chars) /\ t \o Append(p, x) = Append(u, x)  BY <3>1, AppendToConcat
    <3> HIDE DEF u
    <3>7. ~EndsInSpace(Append(u, x))
      <4>1. Append(u, x) # <<>> /\ Len(Append(u, x)) = Len(u) + 1 /\ Append(u, x)[Len(u) + 1] = x
        BY <3>1, <3>6, AppendProperties
      <4> QED  BY <3>2, <4>1 DEF EndsInSpace
    <3>8. R!Merged(Append(u, x)) = R!Merged(t) \o (pre \o Append(p, x))
      <4>1. CASE n = 1
        <5>1. p = <<>> /\ u = t /\ Append(p, x) = <<x>>
          <6>1. t \o <<>> = t /\ Append(<<>>, x) = <<x>>  BY ConcatEmptySeq
          <6> QED  BY <3>4, <4>1, <6>1 DEF u
        <5>2. pre \o <<x>> = IF EndsInSpace(t) THEN <<R!Space, x>> ELSE <<x>>
          <6>1. <<R!Space>> \o <<x>> = <<R!Space, x>>  BY ONLY PairConcat
          <6>2. <<>> \o <<x>> = <<x>>  OBVIOUS
          <6> QED  BY <6>1, <6>2 DEF pre
        <5>3. R!Merged(Append(t, x)) = R!Merged(t) \o (IF EndsInSpace(t) THEN <<R!Space, x>> ELSE <<x>>)
          BY <3>1, <3>2, MergedAppend
        <5> QED  BY <5>1, <5>2, <5>3
      <4>2. CASE n # 1
        <5>1. R!Merged(u) = R!Merged(t) \o (pre \o p) /\ ~EndsInSpace(u)
          BY <3>3, <3>5, <4>2 DEF u
        <5>2. R!Merged(Append(u, x)) = R!Merged(u) \o <<x>>
          BY <3>1, <3>2, <3>6, <5>1, MergedAppend
        <5> DEFINE m == R!Merged(t)
                   v == pre \o p
        <5>3. m \in Seq(Chars) /\ v \in Seq(Chars) /\ <<x>> \in Seq(Chars)
          BY <1>0, <3>1
        <5>4. pre \o Append(p, x) = Append(v, x)  BY <1>0, <3>1, AppendToConcat
        <5> HIDE DEF m, v
        <5>5. m \o Append(v, x) = Append(m \o v, x) /\ m \o v \in Seq(Chars)
          BY <3>1, <5>3, AppendToConcat
        <5>6. Append(m \o v, x) = (m \o v) \o <<x>>  BY <3>1, <5>5, AppendIsConcat
        <5> QED  BY <5>1, <5>2, <5>4, <5>5, <5>6 DEF m, v
      <4> QED  BY <4>1, <4>2
    <3> QED  BY <3>1, <3>5, <3>6, <3>7, <3>8 DEF T, u
  <2> HIDE DEF T
  <2> QED  BY <2>1, <2>2, <2>3, Induction
<1>2. Len(w) \in T /\ Len(w) > 0
  <2>1. Len(w) \in 0..Len(w) /\ Len(w) > 0  OBVIOUS
  <2> HIDE DEF T
  <2> QED  BY <1>1, <2>1
<1>3. P(Len(w)) = w  BY SubSeqFull
<1> QED  BY <1>2, <1>3

\* What comes later only adds to it.
LEMMA MergedExtends ==
    ASSUME NEW t \in Seq(Chars), NEW b \in Seq(Chars)
    PROVE  R!IsPrefix(R!Merged(t), R!Merged(t \o b))
<1> DEFINE P(n) == SubSeq(b, 1, n)
           M == R!Merged(t)
           T == {n \in 0..Len(b) : \E r \in Seq(Chars) : R!Merged(t \o P(n)) = M \o r}
<1>1. M \in Seq(Chars)  BY MergedIsFlat
<1>2. T = 0..Len(b)
  <2>1. T \in SUBSET (0..Len(b)) /\ Len(b) \in Nat  OBVIOUS
  <2>2. 0 \in T
    <3>1. P(0) = <<>> /\ t \o <<>> = t /\ M \o <<>> = M  BY <1>1, SubSeqEmpty, ConcatEmptySeq
    <3>4. <<>> \in Seq(Chars)  OBVIOUS
    <3>2. R!Merged(t \o P(0)) = M \o <<>> /\ <<>> \in Seq(Chars)  BY <3>1, <3>4
    <3>3. 0 \in 0..Len(b)  BY <2>1
    <3> HIDE DEF P, M
    <3> QED  BY <3>2, <3>3
  <2>3. ASSUME NEW n \in 1..Len(b), n - 1 \in T PROVE n \in T
    <3> DEFINE p == P(n - 1)
               x == b[n]
    <3>1. p \in Seq(Chars) /\ x \in Chars /\ P(n) = Append(p, x)  BY LastOfPrefix
    <3>2. PICK r \in Seq(Chars) : R!Merged(t \o p) = M \o r  BY <2>3
    <3> HIDE DEF p, x, P, M
    <3> DEFINE u == t \o p
    <3>3. u \in Seq(Chars) /\ t \o Append(p, x) = Append(u, x)  BY <3>1, AppendToConcat
    <3> HIDE DEF u
    <3>4. \E a \in Seq(Chars) : R!Merged(Append(u, x)) = R!Merged(u) \o a
      <4>1. <<>> \in Seq(Chars) /\ <<x>> \in Seq(Chars) /\ <<R!Space, x>> \in Seq(Chars)
        <5>1. R!Space \in Chars  BY DEF Chars
        <5> QED  BY <3>1, <5>1
      <4>2. R!Merged(u) \o <<>> = R!Merged(u)
        <5>1. R!Merged(u) \in Seq(Chars)  BY <3>3, MergedIsFlat
        <5> QED  BY <5>1, ConcatEmptySeq
      <4> QED  BY <3>1, <3>3, <4>1, <4>2, MergedAppend
    <3>5. PICK a \in Seq(Chars) : R!Merged(Append(u, x)) = R!Merged(u) \o a  BY <3>4
    <3>6. (M \o r) \o a = M \o (r \o a)  BY <1>1, CharsConcat
    <3>7. r \o a \in Seq(Chars)  OBVIOUS
    <3>8. R!Merged(t \o P(n)) = M \o (r \o a)  BY <3>1, <3>2, <3>3, <3>5, <3>6 DEF u
    <3>9. n \in 0..Len(b)  OBVIOUS
    <3> DEFINE z == r \o a
    <3> HIDE DEF z
    <3>10. z \in Seq(Chars) /\ R!Merged(t \o P(n)) = M \o z  BY <3>7, <3>8 DEF z
    <3> QED  BY <3>9, <3>10
  <2> HIDE DEF T
  <2> QED  BY <2>1, <2>2, <2>3, Induction
<1>3. Len(b) \in T
  <2>1. Len(b) \in 0..Len(b)  OBVIOUS
  <2> HIDE DEF T
  <2> QED  BY <1>2, <2>1
<1>4. P(Len(b)) = b  BY SubSeqFull
<1>5. PICK r \in Seq(Chars) : R!Merged(t \o b) = M \o r  BY <1>3, <1>4
<1> HIDE DEF M
<1>6. /\ M \o r \in Seq(Chars) /\ Len(M \o r) = Len(M) + Len(r)
      /\ \A i \in 1..Len(M) : (M \o r)[i] = M[i]
  BY <1>1, ConcatEffect
<1> DEFINE g == M \o r
<1> HIDE DEF g
<1>7. g \in Seq(Chars) /\ Len(M) <= Len(g) /\ \A i \in 1..Len(M) : g[i] = M[i]
  <2>1. Len(M) \in Nat /\ Len(r) \in Nat  BY <1>1
  <2> QED  BY <1>6, <2>1 DEF g
<1>8. SubSeq(M, 1, Len(M)) = SubSeq(g, 1, Len(M))  BY <1>1, <1>7
<1> QED  BY <1>5, <1>7, <1>8 DEF R!IsPrefix, g, M

-----------------------------------------------------------------------------
(* The words the TTS is given *)

\* A word behind a space, or the first one.
IsGiven(w, k) ==
    \E c \in Seq(Letters) : c # <<>> /\ (w = <<R!Space>> \o c \/ (k = 1 /\ w = c))

\* What came before what is in the buffer has been given, and left its space.
Passed(t) ==
    /\ text = t \o buffer /\ Chat!FlattenSeq(words) = R!Merged(t)
    /\ prefix = (IF EndsInSpace(t) THEN <<R!Space>> ELSE <<>>)
    /\ ~EndsInSpace(t) => words = <<>>

WordsInv ==
    /\ text \in Seq(Chars) /\ buffer \in Seq(Chars) /\ words \in Seq(Seq(Chars))
    /\ \A k \in 1..Len(words) : IsGiven(words[k], k)
    /\ IF stream = "ended"
       THEN buffer = <<>> /\ Chat!FlattenSeq(words) = R!Merged(text)
       ELSE \E t \in Seq(Chars) : Passed(t)

LEMMA SpaceIsChar ==
    /\ R!Space \in Chars /\ Letters \subseteq Chars
    /\ \A c \in Seq(Letters) : c \in Seq(Chars)
  BY DEF Chars

\* A buffer without spaces is (part of) a word.
LEMMA LettersOnly ==
    ASSUME NEW b \in Seq(Chars), \A i \in 1..Len(b) : b[i] # R!Space
    PROVE  b \in Seq(Letters)
<1>1. \A i \in 1..Len(b) : b[i] \in Letters  BY DEF Chars
<1> QED  BY <1>1

\* Giving a word, or none.
LEMMA GivenEffect ==
    ASSUME WordsInv, NEW t \in Seq(Chars), Passed(t), NEW c \in Seq(Letters)
    PROVE  /\ R!Given(c) \in Seq(Seq(Chars))
           /\ \A k \in 1..Len(R!Given(c)) : IsGiven(R!Given(c)[k], k)
           /\ Chat!FlattenSeq(R!Given(c)) = R!Merged(t \o c)
<1> DEFINE w == prefix \o c
           g == R!Given(c)
<1>1. CASE c = <<>>
  <2>1. t \o <<>> = t  BY ConcatEmptySeq
  <2> QED  BY <1>1, <2>1 DEF R!Given, WordsInv, Passed
<1>2. CASE c # <<>>
  <2>1. g = Append(words, w)  BY <1>2 DEF R!Given
  <2>2. prefix \in Seq(Chars) /\ c \in Seq(Chars)
    <3>1. <<R!Space>> \in Seq(Chars) /\ <<>> \in Seq(Chars)  BY SpaceIsChar
    <3> QED  BY <3>1, SpaceIsChar DEF Passed
  <2>3. w \in Seq(Chars)  BY <2>2
  <2>4. IsGiven(w, Len(words) + 1)
    <3>1. CASE EndsInSpace(t)  BY <1>2, <3>1 DEF Passed, IsGiven
    <3>2. CASE ~EndsInSpace(t)
      <4>1. words = <<>> /\ prefix = <<>>  BY <3>2 DEF Passed
      <4>2. w = c  BY <2>2, <4>1, ConcatEmptySeq
      <4>3. Len(words) + 1 = 1  BY <4>1
      <4> QED  BY <1>2, <4>2, <4>3 DEF IsGiven
    <3> QED  BY <3>1, <3>2
  <2> DEFINE Q == Seq(Chars)
  <2>5. words \in Seq(Q) /\ w \in Q  BY <2>3 DEF WordsInv
  <2> HIDE DEF w, Q
  <2>6. /\ Append(words, w) \in Seq(Q) /\ Len(Append(words, w)) = Len(words) + 1
        /\ \A k \in 1..Len(words) : Append(words, w)[k] = words[k]
        /\ Append(words, w)[Len(words) + 1] = w
    BY <2>5, AppendProperties
  <2> HIDE DEF g
  <2>7. g \in Seq(Q) /\ Len(g) = Len(words) + 1 /\ g[Len(words) + 1] = w
        /\ \A k \in 1..Len(words) : g[k] = words[k]
    BY <2>1, <2>6
  <2>8. \A k \in 1..Len(g) : IsGiven(g[k], k)
    <3> SUFFICES ASSUME NEW k \in 1..Len(g) PROVE IsGiven(g[k], k)
      OBVIOUS
    <3>1. Len(words) \in Nat  BY <2>5
    <3>2. k = Len(words) + 1 \/ k \in 1..Len(words)  BY <2>7, <3>1
    <3> QED  BY <2>4, <2>7, <3>2 DEF WordsInv
  <2>9. Chat!FlattenSeq(g) = R!Merged(t) \o w
    <3>1. Chat!FlattenSeq(Append(words, w)) = Chat!FlattenSeq(words) \o w
      BY <2>5, FlattenAppend DEF Q
    <3> QED  BY <2>1, <3>1 DEF Passed
  <2>10. R!Merged(t \o c) = R!Merged(t) \o w  BY <1>2, MergedWord DEF Passed, w
  <2> QED  BY <2>7, <2>8, <2>9, <2>10 DEF g, Q
<1> QED  BY <1>1, <1>2

LEMMA WordsInit == R!Init => WordsInv
<1> SUFFICES ASSUME R!Init PROVE WordsInv
  OBVIOUS
<1>1. /\ stream = "open" /\ text = <<>> /\ buffer = <<>> /\ prefix = <<>> /\ words = <<>>
  BY DEF R!Init
<1>2. <<>> \in Seq(Chars) /\ <<>> \in Seq(Seq(Chars)) /\ Len(<<>>) = 0 /\ 1..0 = {}  OBVIOUS
<1>3. <<>> \o <<>> = <<>>
  <2>1. <<>> \in Seq(Chars)  OBVIOUS
  <2> QED  BY <2>1, ConcatEmptySeq
<1>4. Chat!FlattenSeq(<<>>) = <<>> /\ R!Merged(<<>>) = <<>>
  <2>1. Chat!FlattenSeq(<<>>) = <<>>  BY <1>2, FlattenOne
  <2>2. [i \in 1..Len(<<>>) |-> Added(<<>>, i)] = <<>>  OBVIOUS
  <2> QED  BY <1>2, <2>1, <2>2, MergedIsFlat
<1>5. ~EndsInSpace(<<>>)  BY DEF EndsInSpace
<1>6. Passed(<<>>)  BY <1>1, <1>3, <1>4, <1>5 DEF Passed
<1> QED  BY <1>1, <1>2, <1>6 DEF WordsInv

LEMMA ArrivesKeepsWords == WordsInv /\ R!Arrives => WordsInv'
<1> SUFFICES ASSUME WordsInv, R!Arrives PROVE WordsInv'
  OBVIOUS
<1>1. PICK content \in R!Chunks : text' = text \o content /\ buffer' = buffer \o content
  BY DEF R!Arrives
<1>2. content \in Seq(Chars)
  <2>1. PICK m \in 0..MaxChunk : content \in [1..m -> Chars]  BY DEF R!Chunks, R!SeqOf, Chars
  <2>2. m \in Nat  OBVIOUS
  <2> QED  BY <2>1, <2>2
<1>3. /\ text \in Seq(Chars) /\ buffer \in Seq(Chars)
      /\ stream = "open" /\ stream' = stream /\ prefix' = prefix /\ words' = words
  BY DEF R!Arrives, WordsInv
<1>4. text' \in Seq(Chars) /\ buffer' \in Seq(Chars)  BY <1>1, <1>2, <1>3
<1>5. PICK t \in Seq(Chars) : Passed(t)  BY <1>3 DEF WordsInv
<1>6. text' = t \o buffer'
  <2>1. (t \o buffer) \o content = t \o (buffer \o content)  BY <1>2, <1>3, CharsConcat
  <2> QED  BY <1>1, <1>5, <2>1 DEF Passed
<1>7. Passed(t)'  BY <1>3, <1>5, <1>6 DEF Passed
<1> QED  BY <1>3, <1>4, <1>7 DEF WordsInv

LEMMA SplitKeepsWords == WordsInv /\ R!Split => WordsInv'
<1> SUFFICES ASSUME WordsInv, R!Split PROVE WordsInv'
  OBVIOUS
<1> DEFINE N == Len(buffer)
<1>1. PICK start \in R!Spaces, end \in R!Spaces :
        /\ start = R!Min(R!Spaces) /\ start..end \subseteq R!Spaces /\ end + 1 \notin R!Spaces
        /\ words' = R!Given(SubSeq(buffer, 1, start - 1))
        /\ buffer' = SubSeq(buffer, end + 1, N)
  BY DEF R!Split
<1>2. /\ buffer \in Seq(Chars) /\ N \in Nat /\ text \in Seq(Chars)
      /\ prefix' = <<R!Space>> /\ stream' = stream /\ text' = text
  BY DEF R!Split, WordsInv
<1>3. R!Spaces = {i \in 1..N : buffer[i] = R!Space}  BY <1>2 DEF R!Spaces
<1>4. \A i \in R!Spaces : start <= i
  <2>1. \E k \in R!Spaces : \A m \in R!Spaces : k <= m
    <3> DEFINE T == R!Spaces
    <3>1. T \in SUBSET (0..N) /\ T # {}  BY <1>2, <1>3
    <3> HIDE DEF T
    <3>2. \E k \in T : \A m \in T : k <= m  BY <1>2, <3>1, Least
    <3> QED  BY <3>2 DEF T
  <2>2. R!Min(R!Spaces) = CHOOSE x \in R!Spaces : \A y \in R!Spaces : x <= y  BY DEF R!Min
  <2> QED  BY <1>1, <2>1, <2>2
<1>5. stream # "ended"
  <2>1. N # 0  BY <1>1, <1>3
  <2>2. buffer = <<>> => N = 0  OBVIOUS
  <2> QED  BY <2>1, <2>2 DEF WordsInv
<1>6. PICK t \in Seq(Chars) : Passed(t)  BY <1>5 DEF WordsInv
<1>7. start \in 1..N /\ end \in 1..N /\ start <= end /\ buffer[end] = R!Space  BY <1>1, <1>3, <1>4
<1> DEFINE c == SubSeq(buffer, 1, start - 1)
           s == SubSeq(buffer, start, end)
           rest == SubSeq(buffer, end + 1, N)
<1>8. c \in Seq(Letters)
  <2>1. c \in Seq(Chars) /\ Len(c) = start - 1 /\ \A i \in 1..(start - 1) : c[i] = buffer[i]
    BY <1>2, <1>7
  <2>2. \A i \in 1..Len(c) : c[i] # R!Space
    <3> SUFFICES ASSUME NEW i \in 1..Len(c), c[i] = R!Space PROVE FALSE
      OBVIOUS
    <3>1. i \in 1..N /\ ~(start <= i) /\ buffer[i] = R!Space  BY <1>2, <1>7, <2>1
    <3> QED  BY <1>3, <1>4, <3>1
  <2> HIDE DEF c
  <2> QED  BY <2>1, <2>2, LettersOnly
<1>9. /\ s \in Seq(Chars) /\ Len(s) = end - start + 1
      /\ \A i \in 1..Len(s) : s[i] = R!Space
      /\ s[Len(s)] = R!Space /\ Len(s) > 0
  <2>1. s \in Seq(Chars) /\ Len(s) = end - start + 1
        /\ \A i \in 1..(end - start + 1) : s[i] = buffer[start + i - 1]
    BY <1>2, <1>7
  <2>2. \A i \in 1..(end - start + 1) : start + i - 1 \in start..end  BY <1>7
  <2>3. \A i \in start..end : buffer[i] = R!Space  BY <1>1, <1>3
  <2> HIDE DEF s
  <2>4. \A i \in 1..Len(s) : s[i] = R!Space  BY <2>1, <2>2, <2>3
  <2>5. Len(s) > 0 /\ Len(s) \in 1..Len(s)  BY <1>7, <2>1
  <2> QED  BY <2>1, <2>4, <2>5
<1>10. rest \in Seq(Chars)  BY <1>2, <1>7
<1>11. (c \o s) \o rest = buffer
  <2>1. 1 \in 1..(N + 1) /\ start - 1 \in (1 - 1)..N /\ end \in (start - 1)..N
        /\ (start - 1) + 1 = start
    BY <1>2, <1>7
  <2>2. SubSeq(buffer, 1, start - 1) \o SubSeq(buffer, (start - 1) + 1, end) = SubSeq(buffer, 1, end)
    BY <1>2, <2>1, ConcatAdjacentSubSeq
  <2>3. end \in (1 - 1)..N /\ N \in end..N  BY <1>2, <1>7
  <2>4. SubSeq(buffer, 1, end) \o SubSeq(buffer, end + 1, N) = SubSeq(buffer, 1, N)
    BY <1>2, <2>1, <2>3, ConcatAdjacentSubSeq
  <2>5. SubSeq(buffer, 1, N) = buffer  BY <1>2, SubSeqFull
  <2> QED  BY <2>1, <2>2, <2>4, <2>5
<1>12. c \in Seq(Chars)  BY <1>8, SpaceIsChar
<1> HIDE DEF c, s, rest
<1> DEFINE u == t \o c
           v == u \o s
<1>13. u \in Seq(Chars) /\ c \o s \in Seq(Chars)  BY <1>9, <1>12
<1>14. /\ v \in Seq(Chars) /\ Len(v) = Len(u) + Len(s)
       /\ \A i \in 1..Len(s) : v[Len(u) + i] = s[i]
  <2>1. u \in Seq(Chars) /\ s \in Seq(Chars)  BY <1>9, <1>13
  <2> HIDE DEF u
  <2> QED  BY ONLY <2>1, ConcatEffect
<1>15. text = v \o rest
  <2>1. t \o ((c \o s) \o rest) = (t \o (c \o s)) \o rest  BY <1>10, <1>13, CharsConcat
  <2>2. t \o (c \o s) = (t \o c) \o s  BY <1>9, <1>12, CharsConcat
  <2> QED  BY <1>6, <1>11, <2>1, <2>2 DEF Passed
<1>16. R!Merged(v) = R!Merged(u)
  <2> HIDE DEF u
  <2> QED  BY <1>9, <1>13, MergedSpaces
<1>17. /\ words' \in Seq(Seq(Chars))
       /\ \A k \in 1..Len(words') : IsGiven(words'[k], k)
       /\ Chat!FlattenSeq(words') = R!Merged(u)
  <2>1. words' = R!Given(c)  BY <1>1 DEF c
  <2> QED  BY <1>6, <1>8, <2>1, GivenEffect
<1>18. EndsInSpace(v)
  <2> HIDE DEF u, v
  <2>1. Len(u) \in Nat /\ Len(s) \in Nat  BY <1>9, <1>13
  <2>2. Len(v) > 0 /\ v[Len(v)] = s[Len(s)]
    <3>1. Len(s) \in 1..Len(s)  BY <1>9, <2>1
    <3> QED  BY <1>9, <1>14, <2>1, <3>1
  <2>3. v # <<>>  BY <2>2
  <2> QED  BY <1>9, <2>2, <2>3 DEF EndsInSpace
<1> HIDE DEF u, v
<1>19. PICK x \in Seq(Chars) : x = v  BY <1>14
<1>20. Passed(x)'
  <2>1. text' = x \o buffer'  BY <1>1, <1>2, <1>15, <1>19 DEF rest
  <2>2. Chat!FlattenSeq(words') = R!Merged(x)  BY <1>16, <1>17, <1>19
  <2>3. EndsInSpace(x)  BY <1>18, <1>19
  <2> QED  BY <1>2, <2>1, <2>2, <2>3 DEF Passed
<1>21. buffer' \in Seq(Chars)  BY <1>1, <1>10 DEF rest
<1> QED  BY <1>2, <1>5, <1>17, <1>20, <1>21 DEF WordsInv

LEMMA EndsKeepsWords == WordsInv /\ R!Ends => WordsInv'
<1> SUFFICES ASSUME WordsInv, R!Ends PROVE WordsInv'
  OBVIOUS
<1>1. /\ stream = "open" /\ R!Spaces = {} /\ stream' = "ended"
      /\ words' = R!Given(buffer) /\ buffer' = <<>> /\ text' = text
  BY DEF R!Ends, R!Rest
<1>2. buffer \in Seq(Chars) /\ text \in Seq(Chars)  BY DEF WordsInv
<1>3. PICK t \in Seq(Chars) : Passed(t)  BY <1>1 DEF WordsInv
<1>4. buffer \in Seq(Letters)
  <2>1. \A i \in 1..Len(buffer) : buffer[i] # R!Space  BY <1>1, <1>2 DEF R!Spaces
  <2> QED  BY <1>2, <2>1, LettersOnly
<1>5. /\ words' \in Seq(Seq(Chars))
      /\ \A k \in 1..Len(words') : IsGiven(words'[k], k)
      /\ Chat!FlattenSeq(words') = R!Merged(t \o buffer)
  BY <1>1, <1>3, <1>4, GivenEffect
<1>6. text' = t \o buffer  BY <1>1, <1>3 DEF Passed
<1>7. <<>> \in Seq(Chars)  OBVIOUS
<1> QED  BY <1>1, <1>2, <1>5, <1>6, <1>7 DEF WordsInv

LEMMA WordsStep == WordsInv /\ [R!Next]_rechunkVars => WordsInv'
<1> SUFFICES ASSUME WordsInv, [R!Next]_rechunkVars PROVE WordsInv'
  OBVIOUS
<1>1. CASE R!Breaks
  <2>1. /\ stream = "open" /\ stream' = "broken"
        /\ text' = text /\ buffer' = buffer /\ prefix' = prefix /\ words' = words
    BY <1>1 DEF R!Breaks
  <2> QED  BY <2>1 DEF WordsInv, Passed
<1>2. CASE UNCHANGED rechunkVars
  <2>1. /\ stream' = stream /\ text' = text /\ buffer' = buffer /\ prefix' = prefix /\ words' = words
    BY <1>2 DEF rechunkVars
  <2> QED  BY <2>1 DEF WordsInv, Passed
<1> QED  BY <1>1, <1>2, ArrivesKeepsWords, SplitKeepsWords, EndsKeepsWords DEF R!Next

\* What rechunk_to_words() gives the TTS are the words of the text so far, whole, in order and each
\* but the first behind one space, however the stream is cut into chunks; at the end
\* of the stream it has been given all of them.
THEOREM WordsAreWhole == R!Spec => []WholeWords
<1>1. WordsInv => WholeWords
  <2> SUFFICES ASSUME WordsInv PROVE WholeWords
    OBVIOUS
  <2>1. /\ text \in Seq(Chars) /\ buffer \in Seq(Chars) /\ words \in Seq(Seq(Chars))
        /\ \A k \in 1..Len(words) : IsGiven(words[k], k)
    BY DEF WordsInv
  <2>2. ASSUME NEW k \in DOMAIN words
        PROVE  IF Head(words[k]) = R!Space THEN R!IsWord(Tail(words[k]))
               ELSE k = 1 /\ R!IsWord(words[k])
    <3>1. k \in 1..Len(words)  BY <2>1
    <3>2. PICK c \in Seq(Letters) : c # <<>> /\ (words[k] = <<R!Space>> \o c \/ (k = 1 /\ words[k] = c))
      BY <2>1, <3>1 DEF IsGiven
    <3>3. \A i \in DOMAIN c : c[i] # R!Space  BY LettersAreNoSpace
    <3>4. R!IsWord(c)  BY <3>2, <3>3 DEF R!IsWord
    <3>5. CASE words[k] = <<R!Space>> \o c
      <4>1. Head(<<R!Space>> \o c) = R!Space /\ Tail(<<R!Space>> \o c) = c
        <5> DEFINE a == <<R!Space>>
                   w == a \o c
        <5>1. a \in Seq(Chars) /\ Len(a) = 1 /\ a[1] = R!Space /\ c \in Seq(Chars)  BY SpaceIsChar
        <5> HIDE DEF a
        <5>2. /\ w \in Seq(Chars) /\ Len(w) = Len(a) + Len(c)
              /\ \A i \in 1..Len(a) : w[i] = a[i]
              /\ \A i \in 1..Len(c) : w[Len(a) + i] = c[i]
          BY <5>1, ConcatEffect
        <5> HIDE DEF w
        <5>3. Len(c) \in Nat  BY <5>1
        <5>4. w # <<>> /\ w[1] = R!Space  BY <5>1, <5>2, <5>3
        <5> DEFINE v == Tail(w)
        <5>5. v \in Seq(Chars) /\ Len(v) = Len(c) /\ \A i \in 1..Len(c) : v[i] = w[i + 1]
          BY <5>1, <5>2, <5>3, <5>4
        <5>6. \A i \in 1..Len(c) : v[i] = c[i]
          <6>1. \A i \in 1..Len(c) : 1 + i = i + 1  BY <5>3
          <6> HIDE DEF v
          <6> QED  BY <5>1, <5>2, <5>5, <6>1
        <5>7. Head(w) = R!Space  BY <5>2, <5>4
        <5> HIDE DEF v
        <5>8. v = c  BY <5>1, <5>5, <5>6, SeqEqual
        <5> QED  BY <5>7, <5>8 DEF v, w, a
      <4> QED  BY <3>4, <3>5, <4>1
    <3>6. CASE k = 1 /\ words[k] = c
      <4>1. Head(c) \in Letters  BY <3>2
      <4> QED  BY <3>4, <3>6, <4>1, LettersAreNoSpace
    <3> QED  BY <3>2, <3>5, <3>6
  <2>3. /\ R!IsPrefix(Chat!FlattenSeq(words), R!Merged(text))
        /\ stream = "ended" => Chat!FlattenSeq(words) = R!Merged(text)
    <3>1. CASE stream = "ended"
      <4>1. Chat!FlattenSeq(words) = R!Merged(text)  BY <3>1 DEF WordsInv
      <4>2. R!Merged(text) \in Seq(Chars)  BY <2>1, MergedIsFlat
      <4>3. R!IsPrefix(R!Merged(text), R!Merged(text))  BY <4>2 DEF R!IsPrefix
      <4> QED  BY <4>1, <4>3
    <3>2. CASE stream # "ended"
      <4>1. PICK t \in Seq(Chars) : Passed(t)  BY <3>2 DEF WordsInv
      <4>2. R!IsPrefix(R!Merged(t), R!Merged(t \o buffer))  BY <2>1, MergedExtends
      <4> QED  BY <3>2, <4>1, <4>2 DEF Passed
    <3> QED  BY <3>1, <3>2
  <2> QED  BY <2>2, <2>3, SameFlatten DEF WholeWords, R!WholeWords
<1>2. R!vars = rechunkVars  BY DEF R!vars, rechunkVars
<1>3. WordsInv /\ [R!Next]_R!vars => WordsInv'  BY <1>2, WordsStep DEF R!vars, rechunkVars
<1> QED  BY <1>1, <1>3, WordsInit, PTL DEF R!Spec

-----------------------------------------------------------------------------
(* The load test *)

TestMsgs == [role : {"user", "assistant"}, said : SUBSET Nat]
TestHists == Seq(TestMsgs)
Milestones == {"created", "text", "audio", "done"}
NewsTypes == Milestones \cup {"word", "outputs", "closed", "lost"}
TestNews == [type : NewsTypes, of : Nat, hist : TestHists]
UserTimes == [audio_start : Nat, text_start : Nat, audio_end : Nat]
BotTimes == [created : Nat, text : Nat, audio : Nat, done : Nat]
Entries == [role : {"user", "assistant"}, said : SUBSET Nat, times : UserTimes \cup BotTimes]

\* A place in the conversation: the turn of the bot, what was put out of it, and the history
\* that was last sent.
Places == [turn : Nat, stage : {"", "created", "text", "audio"}, hist : TestHists]
Place(n, s, h) == [turn |-> n, stage |-> s, hist |-> h]

\* What the history ends in: the bot's message of a turn, after what the user said before;
\* the whole of what the bot said; or that, and perhaps what the user says to it.
AnswerIn(m, n) == m.role = "user" /\ m.said # {} /\ m.said \subseteq {Test!Silence, n}
TurnIn(h, n) ==
    /\ h # <<>> /\ h[Len(h)].role = "assistant"
    /\ IF n = 1 THEN Len(h) = 1 ELSE Len(h) > 1 /\ AnswerIn(h[Len(h) - 1], n - 1)
SpokenIn(h, n) == TurnIn(h, n) /\ h[Len(h)].said = {n}
HeardIn(h, n) == h # <<>> /\ h[Len(h)].role = "user" /\ h[Len(h)].said \subseteq {Test!Silence, n}
ToldIn(h, n) == IF n = 0 THEN h = <<>> ELSE SpokenIn(h, n) \/ HeardIn(h, n)

\* The bot may answer a turn: but for the turns in S, the client was told what the user said.
InTime(h, n, S) == ToldIn(h, n) /\ (n # 0 /\ n \notin S => AnswerIn(h[Len(h)], n))

\* A message leads from a place to the next.
Leads(p, m, q, S) ==
    \/ /\ m.type = "created" /\ m.of = p.turn + 1 /\ InTime(p.hist, p.turn, S)
       /\ p.stage = "" /\ q = Place(m.of, "created", p.hist)
    \/ /\ m.type = "text" /\ m.of = p.turn
       /\ p.stage = "created" /\ q = Place(m.of, "text", p.hist)
    \/ /\ m.type = "audio" /\ m.of = p.turn
       /\ p.stage = "text" /\ q = Place(m.of, "audio", p.hist)
    \/ /\ m.type = "done" /\ m.of = p.turn /\ SpokenIn(p.hist, p.turn)
       /\ p.stage = "audio" /\ q = Place(m.of, "", p.hist)
    \/ /\ m.type = "word" /\ m.of = p.turn /\ p.turn > 0
       /\ p.stage = "" /\ q = p
    \/ /\ m.type = "outputs" /\ q = Place(p.turn, p.stage, m.hist)
    \/ /\ m.type \in {"closed", "lost"} /\ q = p

Way(t, w, S) == t \in [0..Len(w) -> Places] /\ \A i \in 1..Len(w) : Leads(t[i - 1], w[i], t[i], S)
WireLeads(p, w, q, S) == \E t : Way(t, w, S) /\ t[0] = p /\ t[Len(w)] = q

\* The stopwatch of the user while the bot waits, and the report up to its turn: it goes on
\* from a file before if the entry of that file is missing.
Waits(n) ==
    /\ Len(report) > 0 /\ report[Len(report)].role = "assistant" /\ report[Len(report)].times.done = n
    /\ \E j \in 1..n : /\ user.audio_start = j /\ user.audio_end = j
                       /\ user.text_start = j \/ (user.text_start = Test!None /\ j = n)
    /\ Len(report) = 1 \/ report[Len(report) - 1].role = "user" => user.audio_start = n

\* The same while the bot speaks, of the turn before.
UserDone(n) ==
    /\ report[Len(report)].role = "user" /\ Len(report) > 1
    /\ report[Len(report) - 1].times.done = n /\ user = Test!UserReset
UserMissing(n, S) ==
    /\ report[Len(report)].role = "assistant" /\ report[Len(report)].times.done = n /\ n \in S
    /\ \E j \in 1..n : user = [audio_start |-> j, text_start |-> j, audio_end |-> j]
UpTo(n, S) ==
    /\ n = 0 => Len(report) = 0 /\ user = Test!UserReset
    /\ n # 0 => Len(report) > 0 /\ (UserDone(n) \/ UserMissing(n, S))

\* The place the client is at, by its stopwatches.
ClientAt(p) ==
    /\ seen = p.hist
    /\ p.stage = "" =>
          /\ files = p.turn /\ bot = Test!BotReset
          /\ p.turn = 0 => user = Test!UserReset /\ Len(report) = 0
          /\ p.turn # 0 => Waits(p.turn)
    /\ p.stage # "" =>
          /\ p.turn > 0 /\ files = p.turn - 1 /\ UpTo(p.turn - 1, stale)
          /\ bot = [created |-> p.turn,
                    text |-> IF p.stage = "created" THEN Test!None ELSE p.turn,
                    audio |-> IF p.stage = "audio" THEN p.turn ELSE Test!None,
                    done |-> Test!None]

\* What the history ends in at a stage of a turn.
EndsIn(h, n, s) ==
    /\ n = 0 => s = "" /\ h = <<>>
    /\ n # 0 /\ s = "" => HeardIn(h, n)
    /\ s \in {"created", "text", "audio"} => TurnIn(h, n) /\ h[Len(h)].said \subseteq {n}

\* The place the session is at.
SessionAt(q) ==
    stage # "over" =>
        /\ q = Place(turn, stage, told) /\ EndsIn(hist, turn, stage)
        /\ stage = "" => ToldIn(told, turn)

\* A file is on its way while the bot waits for it: nothing of a turn is under way, and
\* nothing comes after the end of one.
Sending == inbox # <<>> \/ sentFile.left > 0 \/ queue # <<>>
Quiet(w) == \A i \in 1..Len(w) : w[i].type \notin Milestones
DoneIsLast(w, q) ==
    \A i \in 1..Len(w) : w[i].type = "done" =>
        /\ q.stage = "" /\ q.turn = w[i].of
        /\ \A j \in 1..Len(w) : i < j => w[j].type \notin Milestones
FilesAt(w, q) ==
    /\ Sending => files > 0 /\ q.stage = "" /\ q.turn = files /\ Quiet(w)
    /\ DoneIsLast(w, q)
    /\ \A i \in 1..Len(inbox) : inbox[i] = files
    /\ \A i \in 1..Len(queue) : queue[i] = files
    /\ sentFile.left > 0 => sentFile.id = files

TestTypes ==
    /\ hist \in TestHists /\ told \in TestHists /\ seen \in TestHists
    /\ turn \in Nat /\ files \in Nat /\ wire \in Seq(TestNews)
    /\ stage \in {"", "created", "text", "audio", "over"}
    /\ inbox \in Seq(Nat) /\ queue \in Seq(Nat) /\ sentFile \in [id : Nat, left : Nat]
    /\ user \in UserTimes /\ bot \in BotTimes /\ report \in Seq(Entries) /\ stale \in SUBSET Nat

Between(p, q) ==
    WireLeads(p, wire, q, stale) /\ ClientAt(p) /\ SessionAt(q) /\ FilesAt(wire, q)
InStep == TestTypes /\ \E p, q \in Places : Between(p, q)

TestInv == disturbed = {} => RightTimes /\ (recv = "run" => InStep)

-----------------------------------------------------------------------------
\* The first message of the wire leads to the place from which the rest leads.
LEMMA WireTail ==
    ASSUME NEW w \in Seq(TestNews), w # <<>>, NEW p, NEW q, NEW S, WireLeads(p, w, q, S)
    PROVE  \E r \in Places : Leads(p, Head(w), r, S) /\ WireLeads(r, Tail(w), q, S)
<1>1. PICK t : Way(t, w, S) /\ t[0] = p /\ t[Len(w)] = q  BY DEF WireLeads
<1>2. Len(w) \in Nat /\ Len(w) > 0 /\ Head(w) = w[1]  OBVIOUS
<1>3. /\ Len(Tail(w)) = Len(w) - 1
      /\ \A i \in 1..Len(w) - 1 : Tail(w)[i] = w[i + 1]
  OBVIOUS
<1> DEFINE v == Tail(w)
           u == [i \in 0..Len(v) |-> t[i + 1]]
<1>4. t \in [0..Len(w) -> Places] /\ \A i \in 1..Len(w) : Leads(t[i - 1], w[i], t[i], S)  BY <1>1 DEF Way
<1>5. Len(v) = Len(w) - 1 /\ \A i \in 1..Len(v) : v[i] = w[i + 1]  BY <1>3
<1> HIDE DEF v
<1>6. u \in [0..Len(v) -> Places]  BY <1>2, <1>4, <1>5
<1>7. ASSUME NEW i \in 1..Len(v) PROVE Leads(u[i - 1], v[i], u[i], S)
  <2>1. i + 1 \in 1..Len(w) /\ (i + 1) - 1 = i /\ (i - 1) + 1 = i /\ i - 1 \in 0..Len(v) /\ i \in 0..Len(v)
    BY <1>2, <1>5
  <2>2. u[i - 1] = t[i] /\ u[i] = t[i + 1] /\ v[i] = w[i + 1]  BY <1>5, <2>1
  <2>3. Leads(t[(i + 1) - 1], w[i + 1], t[i + 1], S)  BY <1>4, <2>1
  <2> QED  BY <2>1, <2>2, <2>3
<1>8. u[0] = t[1] /\ u[Len(v)] = q
  <2>1. 0 \in 0..Len(v) /\ Len(v) \in 0..Len(v) /\ 0 + 1 = 1 /\ Len(v) + 1 = Len(w)  BY <1>2, <1>5
  <2> QED  BY <1>1, <2>1
<1>9. t[1] \in Places /\ Leads(p, Head(w), t[1], S)
  <2>1. 1 \in 1..Len(w) /\ 1 - 1 = 0  BY <1>2
  <2> QED  BY <1>1, <1>2, <1>4, <2>1
<1> HIDE DEF u
<1>10. WireLeads(t[1], v, q, S)  BY <1>6, <1>7, <1>8 DEF WireLeads, Way
<1> QED  BY <1>9, <1>10 DEF v

\* A message at the end of the wire leads on.
LEMMA WireAppend ==
    ASSUME NEW w \in Seq(TestNews), NEW m \in TestNews, NEW p, NEW q, NEW S, WireLeads(p, w, q, S),
           NEW r \in Places, Leads(q, m, r, S)
    PROVE  WireLeads(p, Append(w, m), r, S)
<1>1. PICK t : Way(t, w, S) /\ t[0] = p /\ t[Len(w)] = q  BY DEF WireLeads
<1>2. Len(w) \in Nat  OBVIOUS
<1> DEFINE v == Append(w, m)
           u == [i \in 0..Len(v) |-> IF i <= Len(w) THEN t[i] ELSE r]
<1>4. t \in [0..Len(w) -> Places] /\ \A i \in 1..Len(w) : Leads(t[i - 1], w[i], t[i], S)  BY <1>1 DEF Way
<1>5. Len(v) = Len(w) + 1 /\ v[Len(w) + 1] = m /\ \A i \in 1..Len(w) : v[i] = w[i]  OBVIOUS
<1> HIDE DEF v
<1>6. u \in [0..Len(v) -> Places]
  <2>1. \A i \in 0..Len(v) : i <= Len(w) => i \in 0..Len(w)  BY <1>2, <1>5
  <2> QED  BY <1>4, <2>1
<1>7. ASSUME NEW i \in 1..Len(v) PROVE Leads(u[i - 1], v[i], u[i], S)
  <2>1. i - 1 \in 0..Len(v) /\ i \in 0..Len(v) /\ i - 1 <= Len(w)  BY <1>2, <1>5
  <2>2. u[i - 1] = t[i - 1]  BY <2>1
  <2>3. CASE i = Len(w) + 1
    <3>1. u[i] = r /\ v[i] = m /\ i - 1 = Len(w)  BY <1>2, <1>5, <2>1, <2>3
    <3> QED  BY <1>1, <2>2, <3>1
  <2>4. CASE i # Len(w) + 1
    <3>1. i \in 1..Len(w)  BY <1>2, <1>5, <2>4
    <3>2. u[i] = t[i] /\ v[i] = w[i]  BY <1>5, <2>1, <3>1
    <3> QED  BY <1>4, <2>2, <3>1, <3>2
  <2> QED  BY <2>3, <2>4
<1>8. u[0] = p /\ u[Len(v)] = r
  <2>1. 0 \in 0..Len(v) /\ Len(v) \in 0..Len(v) /\ 0 <= Len(w) /\ ~(Len(v) <= Len(w))  BY <1>2, <1>5
  <2> QED  BY <1>1, <2>1
<1> HIDE DEF u
<1>9. WireLeads(p, v, r, S)  BY <1>6, <1>7, <1>8 DEF WireLeads, Way
<1> QED  BY <1>9 DEF v

\* An empty wire leads nowhere else.
LEMMA WireEmpty == ASSUME NEW p \in Places, NEW S PROVE WireLeads(p, <<>>, p, S)
<1> DEFINE t == [i \in 0..0 |-> p]
<1>1. t \in [0..Len(<<>>) -> Places] /\ t[0] = p /\ t[Len(<<>>)] = p /\ Len(<<>>) = 0  OBVIOUS
<1> HIDE DEF t
<1>2. \A i \in 1..Len(<<>>) : FALSE  BY <1>1
<1> QED  BY <1>1, <1>2 DEF WireLeads, Way

\* More turns that may begin too early.
LEMMA WireStale ==
    ASSUME NEW w, NEW p, NEW q, NEW S, NEW T, S \subseteq T, WireLeads(p, w, q, S)
    PROVE  WireLeads(p, w, q, T)
<1>1. \A h, n : InTime(h, n, S) => InTime(h, n, T)  BY DEF InTime
<1>2. \A x, m, y : Leads(x, m, y, S) => Leads(x, m, y, T)
  <2> SUFFICES ASSUME NEW x, NEW m, NEW y, Leads(x, m, y, S) PROVE Leads(x, m, y, T)
    OBVIOUS
  <2>1. InTime(x.hist, x.turn, S) => InTime(x.hist, x.turn, T)  BY <1>1
  <2> QED  BY <2>1 DEF Leads
<1> QED  BY <1>2 DEF WireLeads, Way

\* What the wire holds after one more message.
LEMMA NewsAppend ==
    ASSUME NEW w \in Seq(TestNews), NEW m \in TestNews
    PROVE  LET v == Append(w, m) IN
           /\ v \in Seq(TestNews) /\ Len(w) \in Nat /\ Len(v) = Len(w) + 1
           /\ v[Len(w) + 1] = m /\ \A i \in 1..Len(w) : v[i] = w[i]
           /\ \A i \in 1..Len(v) : i \in 1..Len(w) \/ i = Len(w) + 1
  OBVIOUS

\* Nothing comes after the last message.
LEMMA NoneAfterLast == \A n \in Nat : \A j \in 1..(n + 1) : ~(n + 1 < j)
  OBVIOUS

\* The pieces of one file, without the first.
LEMMA NumbersTail ==
    ASSUME NEW s \in Seq(Nat), s # <<>>, NEW n, \A i \in 1..Len(s) : s[i] = n
    PROVE  /\ Tail(s) \in Seq(Nat) /\ Head(s) = n
           /\ \A i \in 1..Len(Tail(s)) : Tail(s)[i] = n
  OBVIOUS

\* The pieces of one file, with one more.
LEMMA NumbersAppend ==
    ASSUME NEW s \in Seq(Nat), NEW n \in Nat, \A i \in 1..Len(s) : s[i] = n
    PROVE  Append(s, n) \in Seq(Nat) /\ \A i \in 1..Len(Append(s, n)) : Append(s, n)[i] = n
  OBVIOUS

\* Any message but a milestone may follow.
LEMMA QuietAppend ==
    ASSUME NEW w \in Seq(TestNews), NEW m \in TestNews, m.type \notin Milestones,
           NEW q \in Places, NEW r \in Places, r.turn = q.turn, r.stage = q.stage, DoneIsLast(w, q)
    PROVE  /\ DoneIsLast(Append(w, m), r)
           /\ Quiet(w) => Quiet(Append(w, m))
<1> DEFINE v == Append(w, m)
<1>1. Len(w) \in Nat /\ Len(v) = Len(w) + 1 /\ v[Len(w) + 1] = m /\ \A i \in 1..Len(w) : v[i] = w[i]
  BY NewsAppend
<1>2. \A i \in 1..Len(v) : i \in 1..Len(w) \/ i = Len(w) + 1  BY NewsAppend
<1> HIDE DEF v
<1>3. m.type # "done"  BY DEF Milestones
<1>4. DoneIsLast(v, r)
  <2> SUFFICES ASSUME NEW i \in 1..Len(v), v[i].type = "done"
               PROVE  /\ r.stage = "" /\ r.turn = v[i].of
                      /\ \A j \in 1..Len(v) : i < j => v[j].type \notin Milestones
    BY DEF DoneIsLast
  <2>1. i \in 1..Len(w) /\ v[i] = w[i]  BY <1>1, <1>2, <1>3
  <2>2. /\ q.stage = "" /\ q.turn = w[i].of
        /\ \A j \in 1..Len(w) : i < j => w[j].type \notin Milestones
    BY <2>1 DEF DoneIsLast
  <2> QED  BY <1>1, <1>2, <2>1, <2>2
<1>5. Quiet(w) => Quiet(v)  BY <1>1, <1>2 DEF Quiet
<1> QED  BY <1>4, <1>5 DEF v

\* A milestone comes when no turn has ended before it on the wire.
LEMMA MilestoneAppend ==
    ASSUME NEW w \in Seq(TestNews), NEW m \in TestNews, NEW r \in Places,
           \A i \in 1..Len(w) : w[i].type # "done",
           m.type = "done" => r.stage = "" /\ r.turn = m.of
    PROVE  DoneIsLast(Append(w, m), r)
<1> DEFINE v == Append(w, m)
<1>1. Len(w) \in Nat /\ Len(v) = Len(w) + 1 /\ v[Len(w) + 1] = m /\ \A i \in 1..Len(w) : v[i] = w[i]
  BY NewsAppend
<1>2. \A i \in 1..Len(v) : i \in 1..Len(w) \/ i = Len(w) + 1  BY NewsAppend
<1> HIDE DEF v
<1>4. DoneIsLast(v, r)
  <2> SUFFICES ASSUME NEW i \in 1..Len(v), v[i].type = "done"
               PROVE  /\ r.stage = "" /\ r.turn = v[i].of
                      /\ \A j \in 1..Len(v) : i < j => v[j].type \notin Milestones
    BY DEF DoneIsLast
  <2>1. i = Len(w) + 1  BY <1>1, <1>2
  <2>2. \A j \in 1..Len(v) : ~(i < j)  BY <1>1, <2>1, NoneAfterLast
  <2> QED  BY <1>1, <2>1, <2>2
<1> QED  BY <1>4 DEF v

\* The order of the wire outlives the reading of its first message.
LEMMA QuietTail ==
    ASSUME NEW w \in Seq(TestNews), w # <<>>, NEW q \in Places, DoneIsLast(w, q)
    PROVE  /\ DoneIsLast(Tail(w), q)
           /\ Quiet(w) => Quiet(Tail(w)) /\ Head(w).type \notin Milestones
           /\ Head(w).type = "done" => Quiet(Tail(w)) /\ q.stage = "" /\ q.turn = Head(w).of
<1> DEFINE v == Tail(w)
<1>1. Len(w) \in Nat /\ Len(w) > 0 /\ Len(v) = Len(w) - 1 /\ \A i \in 1..Len(v) : v[i] = w[i + 1]
  OBVIOUS
<1>2. Head(w) = w[1] /\ 1 \in 1..Len(w)  BY <1>1
<1> HIDE DEF v
<1>3. \A i \in 1..Len(v) : i + 1 \in 1..Len(w) /\ 1 < i + 1  BY <1>1
<1>4. DoneIsLast(v, q)
  <2> SUFFICES ASSUME NEW i \in 1..Len(v), v[i].type = "done"
               PROVE  /\ q.stage = "" /\ q.turn = v[i].of
                      /\ \A j \in 1..Len(v) : i < j => v[j].type \notin Milestones
    BY DEF DoneIsLast
  <2>1. /\ q.stage = "" /\ q.turn = w[i + 1].of
        /\ \A j \in 1..Len(w) : i + 1 < j => w[j].type \notin Milestones
    BY <1>1, <1>3 DEF DoneIsLast
  <2>2. \A j \in 1..Len(v) : i < j => i + 1 < j + 1  BY <1>1
  <2> QED  BY <1>1, <1>3, <2>1, <2>2
<1>5. Quiet(w) => Quiet(v) /\ Head(w).type \notin Milestones  BY <1>1, <1>2, <1>3 DEF Quiet
<1>6. Head(w).type = "done" => Quiet(v) /\ q.stage = "" /\ q.turn = Head(w).of
  <2> SUFFICES ASSUME w[1].type = "done" PROVE Quiet(v) /\ q.stage = "" /\ q.turn = w[1].of
    BY <1>2
  <2>1. /\ q.stage = "" /\ q.turn = w[1].of
        /\ \A j \in 1..Len(w) : 1 < j => w[j].type \notin Milestones
    BY <1>2 DEF DoneIsLast
  <2> QED  BY <1>1, <1>3, <2>1 DEF Quiet
<1> QED  BY <1>4, <1>5, <1>6 DEF v

-----------------------------------------------------------------------------
(* The session *)

\* A step that does not change the report and the stopwatch of the user.
LEMMA UpToStays ==
    ASSUME UNCHANGED <<user, report>>, stale \subseteq stale'
    PROVE  \A n : UpTo(n, stale) => UpTo(n, stale)'
  BY DEF UpTo, UserDone, UserMissing, Test!UserReset

\* A step that does not change the client's side of the place.
LEMMA ClientStays ==
    ASSUME NEW p \in Places, ClientAt(p), UNCHANGED <<seen, user, bot, files, report>>,
           stale \subseteq stale'
    PROVE  ClientAt(p)'
<1>1. \A n : UpTo(n, stale) => UpTo(n, stale)'  BY UpToStays
<1>2. \A n : Waits(n) => Waits(n)'  BY DEF Waits, Test!None
<1> QED  BY <1>1, <1>2 DEF ClientAt, Test!UserReset, Test!BotReset, Test!None

\* The session says something that is not of the turn: a word, its history, its end.
LEMMA SaysAside ==
    ASSUME TestTypes, NEW p \in Places, NEW q \in Places, Between(p, q), NEW m \in TestNews,
           NEW r \in Places, Leads(q, m, r, stale), m.type \notin Milestones, wire' = Append(wire, m),
           UNCHANGED <<queue, sentFile, seen, user, bot, files, report, stale>>,
           inbox' = inbox \/ (inbox # <<>> /\ inbox' = Tail(inbox)), SessionAt(r)'
    PROVE  \E s, t \in Places : Between(s, t)'
<1>1. WireLeads(p, wire', r, stale)  BY WireAppend DEF TestTypes, Between
<1>2. r.turn = q.turn /\ r.stage = q.stage
  <2>1. r = q \/ r = Place(q.turn, q.stage, m.hist)  BY DEF Leads, Milestones
  <2> QED  BY <2>1 DEF Place
<1>3. DoneIsLast(wire', r) /\ (Quiet(wire) => Quiet(wire'))
  BY <1>2, QuietAppend DEF TestTypes, Between, FilesAt
<1>4. Sending' => Sending  BY DEF Sending
<1>5. \A i \in 1..Len(inbox') : inbox'[i] = files
  <2>1. CASE inbox' = inbox  BY <2>1 DEF Between, FilesAt
  <2>2. CASE inbox # <<>> /\ inbox' = Tail(inbox)
    <3>1. inbox \in Seq(Nat) /\ \A i \in 1..Len(inbox) : inbox[i] = files
      BY DEF Between, FilesAt, TestTypes
    <3> QED  BY <2>2, <3>1, NumbersTail
  <2> QED  BY <2>1, <2>2
<1>6. FilesAt(wire, r)'  BY <1>2, <1>3, <1>4, <1>5 DEF Between, FilesAt
<1>7. ClientAt(p)'  BY ClientStays DEF Between
<1>8. WireLeads(p, wire, r, stale)'  BY <1>1
<1> QED  BY <1>6, <1>7, <1>8 DEF Between

\* The last message of the history gets a word more.
LEMMA SaysMore ==
    ASSUME NEW h \in TestHists, h # <<>>, NEW n \in Nat
    PROVE  LET g == [h EXCEPT ![Len(h)].said = @ \cup {n}] IN
           /\ g \in TestHists /\ g # <<>> /\ Len(g) = Len(h)
           /\ g[Len(h)].role = h[Len(h)].role
           /\ g[Len(h)].said = h[Len(h)].said \cup {n}
           /\ \A i \in 1..Len(h) : i # Len(h) => g[i] = h[i]
<1> DEFINE l == Len(h)
           x == [h[l] EXCEPT !.said = @ \cup {n}]
           g == [h EXCEPT ![l] = x]
<1>1. l \in Nat /\ l > 0 /\ h[l] \in TestMsgs  BY DEF TestHists
<1> HIDE DEF l
<1>2. x \in TestMsgs /\ x.role = h[l].role /\ x.said = h[l].said \cup {n}  BY <1>1 DEF TestMsgs
<1> HIDE DEF x
<1>3. l = Len(h) /\ l \in 1..Len(h)  BY <1>1 DEF l
<1>4. /\ g \in TestHists /\ g # <<>> /\ Len(g) = Len(h) /\ g[l] = x
      /\ \A i \in 1..Len(h) : i # Len(h) => g[i] = h[i]
  BY <1>2, <1>3 DEF TestHists
<1> QED  BY <1>2, <1>4 DEF l, x, g

\* A session that is not over is at its place.
LEMMA SessionPlace ==
    ASSUME NEW q \in Places, SessionAt(q), stage # "over"
    PROVE  /\ q = Place(turn, stage, told) /\ q.turn = turn /\ q.stage = stage /\ q.hist = told
           /\ EndsIn(hist, turn, stage) /\ (stage = "" => ToldIn(told, turn))
<1>1. /\ q = Place(turn, stage, told)
      /\ EndsIn(hist, turn, stage) /\ (stage = "" => ToldIn(told, turn))
  BY DEF SessionAt
<1> QED  BY <1>1 DEF Place

\* The whole wire is the part up to its end.
LEMMA WholeWire == ASSUME NEW w \in Seq(TestNews) PROVE SubSeq(w, 1, Len(w)) = w
  OBVIOUS

\* The parts of the types that the steps need.
LEMMA TestTyped ==
    ASSUME TestTypes
    PROVE  /\ wire \in Seq(TestNews) /\ inbox \in Seq(Nat) /\ queue \in Seq(Nat)
           /\ hist \in TestHists /\ told \in TestHists /\ seen \in TestHists
           /\ turn \in Nat /\ files \in Nat /\ stale \in SUBSET Nat
           /\ stage \in {"", "created", "text", "audio", "over"}
  BY DEF TestTypes

\* What the files on their way are, and where the session is meanwhile.
LEMMA WhileSending ==
    ASSUME NEW q \in Places, FilesAt(wire, q), SessionAt(q), stage # "over", Sending
    PROVE  stage = "" /\ turn = files /\ turn > 0 /\ Quiet(wire)
<1>1. files > 0 /\ q.stage = "" /\ q.turn = files /\ Quiet(wire)  BY DEF FilesAt
<1>2. q.turn = turn /\ q.stage = stage  BY SessionPlace
<1> QED  BY <1>1, <1>2

\* A history with one more message is a history.
LEMMA HistAppend ==
    ASSUME NEW h \in TestHists, NEW x \in TestMsgs
    PROVE  LET g == Append(h, x) IN
           /\ g \in TestHists /\ g # <<>> /\ g[Len(g)] = x
           /\ Len(h) \in Nat /\ Len(g) = Len(h) + 1
           /\ h = <<>> => Len(h) = 0
           /\ h # <<>> => Len(h) > 0 /\ g[Len(g) - 1] = h[Len(h)]
<1> DEFINE g == Append(h, x)
<1>1. /\ Len(h) \in Nat /\ Len(g) = Len(h) + 1 /\ g[Len(h) + 1] = x
      /\ h = <<>> => Len(h) = 0
      /\ h # <<>> => Len(h) > 0 /\ g[Len(h)] = h[Len(h)]
  BY DEF TestHists
<1>2. g \in TestHists /\ g # <<>>
  <2>1. g \in TestHists  BY DEF TestHists
  <2>2. Len(g) # 0  BY <1>1
  <2>3. g = <<>> => Len(g) = 0
    <3> HIDE DEF g
    <3> QED  OBVIOUS
  <2> QED  BY <2>1, <2>2, <2>3
<1>3. Len(g) - 1 = Len(h)  BY <1>1
<1> QED  BY <1>1, <1>2, <1>3

\* The types that a step of the session keeps.
LEMMA SessionTypes ==
    ASSUME TestTypes, wire' \in Seq(TestNews), inbox' \in Seq(Nat), hist' \in TestHists,
           told' \in TestHists, turn' \in Nat, stage' \in {"", "created", "text", "audio", "over"},
           stale' \in SUBSET Nat,
           UNCHANGED <<sentFile, queue, seen, user, bot, files, report>>
    PROVE  TestTypes'
  BY DEF TestTypes

\* The session is at a place, if its history is in order.
LEMMA SessionMoves ==
    ASSUME NEW r, r = Place(turn', stage', told'), EndsIn(hist', turn', stage'),
           stage' = "" => ToldIn(told', turn')
    PROVE  SessionAt(r)'
  BY DEF SessionAt, Place, EndsIn, HeardIn, TurnIn, AnswerIn, ToldIn, SpokenIn, Test!Silence

\* The user may have said something to a turn that ended.
LEMMA EndsWaiting ==
    ASSUME NEW h, NEW n
    PROVE  /\ n # 0 /\ HeardIn(h, n) => EndsIn(h, n, "") /\ ToldIn(h, n)
           /\ n # 0 /\ EndsIn(h, n, "") => HeardIn(h, n)
           /\ EndsIn(h, n, "") => ToldIn(h, n)
           /\ n = 0 /\ EndsIn(h, n, "") => h = <<>>
  BY DEF EndsIn, ToldIn

\* A message that the session may send.
LEMMA NewsMade ==
    \A type \in NewsTypes, n \in Nat, h \in TestHists :
        [type |-> type, of |-> n, hist |-> h] \in TestNews
  BY DEF TestNews

\* The empty history.
LEMMA NoHist == <<>> \in TestHists
  BY DEF TestHists

\* A place is what it is made of.
LEMMA PlaceMade ==
    \A n \in Nat, s \in {"", "created", "text", "audio"}, h \in TestHists : Place(n, s, h) \in Places
  BY DEF Places, Place

LEMMA TwoMore ==
    ASSUME NEW w \in Seq(TestNews), NEW m \in TestNews, NEW d \in TestNews
    PROVE  Append(w, m) \in Seq(TestNews) /\ w \o <<m, d>> = Append(Append(w, m), d)
  OBVIOUS

\* The user's word is heard: the history has it, and the client is told.
LEMMA HearsStep ==
    ASSUME TestTypes, NEW p \in Places, NEW q \in Places, Between(p, q), disturbed' = {}, Test!Hears
    PROVE  InStep'
<1> DEFINE heard == [Test!News("word") EXCEPT !.of = Head(inbox)]
<1>0. /\ stage = "" /\ wire' = Append(wire, heard) /\ stage' = ""
      /\ hist' = [hist EXCEPT ![Len(hist)].said = @ \cup {Head(inbox)}]
  <2>1. ~Test!Interrupted(Append(wire, heard))  BY DEF Test!Interrupted, Test!Disturbed
  <2> HIDE DEF heard
  <2>2. \/ /\ stage = "" /\ wire' = Append(wire, heard)
           /\ hist' = [hist EXCEPT ![Len(hist)].said = @ \cup {Head(inbox)}]
           /\ UNCHANGED <<stage, disturbed>>
        \/ Test!Interrupted(Append(wire, heard))
    BY DEF Test!Hears, heard
  <2> QED  BY <2>1, <2>2
<1>1. /\ stage = "" /\ inbox # <<>> /\ turn > 0 /\ inbox' = Tail(inbox)
      /\ stage' = "" /\ turn' = turn /\ told' = told
      /\ UNCHANGED <<sentFile, queue, seen, user, bot, files, report, stale>>
  BY <1>0 DEF Test!Hears, Test!emitVars, Test!recvVars
<1>2. /\ wire \in Seq(TestNews) /\ inbox \in Seq(Nat) /\ turn \in Nat /\ hist \in TestHists
      /\ SessionAt(q) /\ FilesAt(wire, q) /\ \A i \in 1..Len(inbox) : inbox[i] = files
  BY TestTyped DEF Between, FilesAt
<1>3. q = Place(turn, "", told) /\ q.turn = turn /\ q.stage = "" /\ EndsIn(hist, turn, "")
      /\ ToldIn(told, turn)
  BY <1>1, <1>2, SessionPlace
<1>4. files = turn /\ Head(inbox) = turn /\ inbox' \in Seq(Nat)
  <2>1. Sending  BY <1>1 DEF Sending
  <2>2. files = turn  BY <1>1, <1>2, <2>1, WhileSending
  <2>3. Head(inbox) = files /\ Tail(inbox) \in Seq(Nat)  BY <1>1, <1>2, NumbersTail
  <2> QED  BY <1>1, <2>2, <2>3
<1>5. PICK m \in TestNews : m = [type |-> "word", of |-> turn, hist |-> <<>>]
  BY <1>2, NewsMade, NoHist DEF NewsTypes
<1>6. wire' = Append(wire, m)
  <2>1. heard = m  BY <1>4, <1>5 DEF Test!News
  <2> HIDE DEF heard
  <2> QED  BY <1>0, <2>1
<1> HIDE DEF heard
<1>7. Leads(q, m, q, stale) /\ m.type \notin Milestones  BY <1>1, <1>3, <1>5 DEF Leads, Milestones
<1>8. turn # 0 /\ HeardIn(hist, turn)
  <2>1. turn # 0
    <3>1. turn > 0 /\ turn \in Nat  BY <1>1, <1>2
    <3> QED  BY <3>1
  <2> QED  BY <1>3, <2>1, EndsWaiting
<1>9. hist' \in TestHists /\ HeardIn(hist', turn)
  <2>1. hist' = [hist EXCEPT ![Len(hist)].said = @ \cup {turn}]  BY <1>0, <1>4
  <2>2. hist # <<>> /\ hist[Len(hist)].role = "user" /\ hist[Len(hist)].said \subseteq {Test!Silence, turn}
    BY <1>8 DEF HeardIn
  <2>3. /\ hist' \in TestHists /\ hist' # <<>> /\ Len(hist') = Len(hist)
        /\ hist'[Len(hist)].role = hist[Len(hist)].role
        /\ hist'[Len(hist)].said = hist[Len(hist)].said \cup {turn}
    BY <1>2, <2>1, <2>2, SaysMore
  <2>4. hist'[Len(hist')].role = "user" /\ hist'[Len(hist')].said \subseteq {Test!Silence, turn}
    BY <2>2, <2>3
  <2> QED  BY <2>3, <2>4 DEF HeardIn
<1>10. EndsIn(hist', turn, "")  BY <1>8, <1>9, EndsWaiting
<1>11. SessionAt(q)'  BY <1>1, <1>3, <1>10, SessionMoves
<1>12. TestTypes'
  <2>1. wire' \in Seq(TestNews)  BY <1>2, <1>6, NewsAppend
  <2>2. turn' \in Nat /\ told' \in TestHists /\ stage' = "" /\ stale' \in SUBSET Nat
    BY <1>1, <1>2, TestTyped
  <2> QED  BY <1>1, <1>4, <1>9, <2>1, <2>2, SessionTypes
<1>13. \E s, t \in Places : Between(s, t)'
  BY <1>1, <1>6, <1>7, <1>11, SaysAside
<1> QED  BY <1>12, <1>13 DEF InStep

\* The rest of the steps that say something aside.
LEMMA UpdatesStep ==
    ASSUME TestTypes, NEW p \in Places, NEW q \in Places, Between(p, q), Test!Updates
    PROVE  InStep'
<1>1. /\ stage # "over" /\ told' = hist
      /\ UNCHANGED <<hist, turn, stage, inbox, sentFile, queue, seen, user, bot, files, report, stale>>
  BY DEF Test!Updates, Test!HasRoom, Test!Connected, Test!emitVars, Test!recvVars
<1>2. /\ wire \in Seq(TestNews) /\ inbox \in Seq(Nat) /\ turn \in Nat /\ hist \in TestHists
      /\ stage \in {"", "created", "text", "audio", "over"} /\ SessionAt(q)
  BY TestTyped DEF Between
<1>3. q = Place(turn, stage, told) /\ q.turn = turn /\ q.stage = stage /\ EndsIn(hist, turn, stage)
  BY <1>1, <1>2, SessionPlace
<1>4. PICK m \in TestNews : m = [type |-> "outputs", of |-> turn, hist |-> hist]
  BY <1>2, NewsMade DEF NewsTypes
<1>5. PICK r \in Places : r = Place(turn, stage, hist)  BY <1>1, <1>2, PlaceMade
<1>6. wire' = Append(wire, m)  BY <1>4 DEF Test!Updates, Test!Outputs
<1>7. Leads(q, m, r, stale) /\ m.type \notin Milestones  BY <1>3, <1>4, <1>5 DEF Leads, Milestones
<1>8. SessionAt(r)'
  <2>1. stage = "" => ToldIn(hist, turn)  BY <1>3, EndsWaiting
  <2> QED  BY <1>1, <1>3, <1>5, <2>1, SessionMoves
<1>9. \E s, t \in Places : Between(s, t)'  BY <1>1, <1>6, <1>7, <1>8, SaysAside
<1>10. wire' \in Seq(TestNews)  BY <1>2, <1>6, NewsAppend
<1>11. TestTypes'  BY <1>1, <1>2, <1>10, TestTyped, SessionTypes
<1> QED  BY <1>9, <1>11 DEF InStep

\* The session is over: the end is the last message.
LEMMA SessionEndsStep ==
    ASSUME TestTypes, NEW p \in Places, NEW q \in Places, Between(p, q), Test!SessionEnds
    PROVE  InStep'
<1>1. /\ stage' = "over"
      /\ UNCHANGED <<hist, turn, told, inbox, sentFile, queue, seen, user, bot, files, report, stale>>
  BY DEF Test!SessionEnds, Test!emitVars, Test!recvVars
<1>2. /\ wire \in Seq(TestNews) /\ turn \in Nat /\ inbox \in Seq(Nat) /\ hist \in TestHists
      /\ told \in TestHists
  BY TestTyped
<1>3. PICK m \in TestNews : m.type \in {"closed", "lost"} /\ wire' = Append(wire, m)
  <2>1. PICK how \in {"closed", "lost"} : wire' = Append(wire, Test!News(how))  BY DEF Test!SessionEnds
  <2>2. Test!News(how) \in TestNews /\ Test!News(how).type = how
    BY <1>2 DEF Test!News, TestNews, NewsTypes, TestHists
  <2> QED  BY <2>1, <2>2
<1>4. Leads(q, m, q, stale) /\ m.type \notin Milestones  BY <1>3 DEF Leads, Milestones
<1>5. SessionAt(q)'  BY <1>1 DEF SessionAt
<1>6. \E s, t \in Places : Between(s, t)'  BY <1>1, <1>3, <1>4, <1>5, SaysAside
<1>7. wire' \in Seq(TestNews)  BY <1>2, <1>3, NewsAppend
<1>8. TestTypes'  BY <1>1, <1>2, <1>7, TestTyped, SessionTypes
<1> QED  BY <1>6, <1>8 DEF InStep

\* The session says a milestone, when no file is on its way and no end of a turn on the wire.
LEMMA SaysMilestone ==
    ASSUME TestTypes, NEW p \in Places, NEW q \in Places, Between(p, q), NEW m \in TestNews,
           NEW r \in Places, Leads(q, m, r, stale'), stale \subseteq stale', wire' = Append(wire, m),
           ~Sending, \A i \in 1..Len(wire) : wire[i].type # "done", m.type # "done",
           UNCHANGED <<inbox, queue, sentFile, seen, user, bot, files, report>>, SessionAt(r)'
    PROVE  \E s, t \in Places : Between(s, t)'
<1>1. WireLeads(p, wire', r, stale')
  <2>1. WireLeads(p, wire, q, stale')  BY WireStale DEF Between
  <2> QED  BY <2>1, TestTyped, WireAppend
<1>2. DoneIsLast(wire', r)  BY TestTyped, MilestoneAppend
<1>3. ~Sending'  BY DEF Sending
<1>4. FilesAt(wire, r)'  BY <1>2, <1>3 DEF Between, FilesAt
<1>5. ClientAt(p)'  BY ClientStays DEF Between
<1>6. WireLeads(p, wire, r, stale)'  BY <1>1
<1> QED  BY <1>4, <1>5, <1>6 DEF Between

\* The bot answers: a milestone, since no file is on its way.
LEMMA AnswersStep ==
    ASSUME TestTypes, NEW p \in Places, NEW q \in Places, Between(p, q), disturbed' = {}, Test!Answers
    PROVE  InStep'
<1>0. turn + 1 \in Nat
  <2>1. turn \in Nat  BY TestTyped
  <2> QED  BY <2>1
<1>1. /\ stage = "" /\ stage' = "created" /\ turn' = turn + 1
      /\ ~Test!UserSpeaks /\ stale' = (IF told = hist THEN stale ELSE stale \cup {turn})
      /\ UNCHANGED <<told, inbox, sentFile, queue, seen, user, bot, files, report>>
  <2>1. ~Test!UserSpeaks
    <3>1. ~Test!Disturbed(turn + 1)  BY DEF Test!Disturbed
    <3> QED  BY <3>1 DEF Test!Answers
  <2> QED  BY <2>1 DEF Test!Answers, Test!emitVars, Test!recvVars
<1>2. /\ wire \in Seq(TestNews) /\ turn \in Nat /\ hist \in TestHists /\ told \in TestHists
      /\ inbox \in Seq(Nat) /\ stale \in SUBSET Nat /\ SessionAt(q)
  BY TestTyped DEF Between
<1>3. q = Place(turn, "", told) /\ q.turn = turn /\ q.stage = "" /\ q.hist = told
      /\ EndsIn(hist, turn, "") /\ ToldIn(told, turn)
  BY <1>1, <1>2, SessionPlace
<1>4. ~Sending /\ \A i \in 1..Len(wire) : wire[i].type # "done"
  <2>1. DOMAIN wire = 1..Len(wire)  BY <1>2
  <2> QED  BY <1>1, <2>1 DEF Test!UserSpeaks, Sending
<1>5. PICK m \in TestNews : m = [type |-> "created", of |-> turn + 1, hist |-> <<>>]
  BY <1>2, <1>0, NewsMade, NoHist DEF NewsTypes, Milestones
<1>6. wire' = Append(wire, m)
  <2>1. [Test!News("created") EXCEPT !.of = turn + 1] = m  BY <1>5 DEF Test!News
  <2> QED  BY <2>1 DEF Test!Answers
<1>7. PICK r \in Places : r = Place(turn + 1, "created", told)  BY <1>0, <1>2, PlaceMade
<1>8. turn # 0 => hist # <<>> /\ AnswerIn(hist[Len(hist)], turn)
  <2>1. hist # <<>> => hist[Len(hist)].said # {}  BY DEF Test!Answers, Test!Last
  <2>2. turn # 0 => HeardIn(hist, turn)  BY <1>3, EndsWaiting
  <2> QED  BY <2>1, <2>2 DEF HeardIn, AnswerIn
<1>9. stale \subseteq stale' /\ stale' \in SUBSET Nat /\ InTime(told, turn, stale')
  BY <1>1, <1>2, <1>3, <1>8 DEF InTime
<1>10. Leads(q, m, r, stale') /\ m.type # "done"
  BY <1>3, <1>5, <1>7, <1>9 DEF Leads
<1>11. hist' \in TestHists /\ EndsIn(hist', turn + 1, "created")
  <2>1. hist' = Append(hist, Test!Message("assistant", {}))  BY DEF Test!Answers
  <2>2. /\ Test!Message("assistant", {}) \in TestMsgs /\ Test!Message("assistant", {}).said = {}
        /\ Test!Message("assistant", {}).role = "assistant"
    BY DEF Test!Message, TestMsgs
  <2>3. /\ hist' \in TestHists /\ hist' # <<>> /\ Len(hist') = Len(hist) + 1 /\ Len(hist) \in Nat
        /\ hist'[Len(hist')] = Test!Message("assistant", {})
        /\ hist # <<>> => Len(hist) > 0 /\ hist'[Len(hist') - 1] = hist[Len(hist)]
        /\ hist = <<>> => Len(hist) = 0
    BY <1>2, <2>1, <2>2, HistAppend
  <2>4. TurnIn(hist', turn + 1)
    <3>1. CASE turn = 0
      <4>1. hist = <<>>  BY <1>3, <3>1, EndsWaiting
      <4> QED  BY <2>2, <2>3, <3>1, <4>1 DEF TurnIn
    <3>2. CASE turn # 0
      <4>1. turn + 1 # 1 /\ (turn + 1) - 1 = turn  BY <1>2, <3>2
      <4>2. hist # <<>> /\ AnswerIn(hist[Len(hist)], turn)  BY <1>8, <3>2
      <4>3. Len(hist') > 1  BY <2>3, <4>2
      <4> QED  BY <2>2, <2>3, <4>1, <4>2, <4>3 DEF TurnIn
    <3> QED  BY <3>1, <3>2
  <2>5. turn + 1 # 0  BY <1>2
  <2> QED  BY <2>2, <2>3, <2>4, <2>5 DEF EndsIn
<1>12. SessionAt(r)'  BY <1>1, <1>7, <1>11, SessionMoves
<1>13. \E s, t \in Places : Between(s, t)'
  BY <1>1, <1>4, <1>6, <1>9, <1>10, <1>12, SaysMilestone
<1>14. wire' \in Seq(TestNews)  BY <1>2, <1>6, NewsAppend
<1>15. turn' \in Nat /\ stage' = "created"  BY <1>0, <1>1
<1>16. TestTypes'  BY <1>1, <1>2, <1>9, <1>11, <1>14, <1>15, SessionTypes
<1> QED  BY <1>13, <1>16 DEF InStep

\* Of a turn that is under way no end is on the wire, and the user waits for it.
LEMMA WhileSpeaking ==
    ASSUME NEW q \in Places, FilesAt(wire, q), SessionAt(q), stage \in {"created", "text", "audio"}
    PROVE  ~Sending /\ \A i \in 1..Len(wire) : wire[i].type # "done"
<1>1. q.stage # ""  BY SessionPlace
<1> QED  BY <1>1 DEF FilesAt, DoneIsLast

\* The bot puts out its text, then its audio.
LEMMA BotGoesOnStep ==
    ASSUME TestTypes, NEW p \in Places, NEW q \in Places, Between(p, q), Test!BotGoesOn
    PROVE  InStep'
<1>1. PICK s, n : /\ (s = "created" /\ n = "text") \/ (s = "text" /\ n = "audio")
                  /\ stage = s /\ stage' = n /\ wire' = Append(wire, Test!News(n))
  BY DEF Test!BotGoesOn
<1>2. UNCHANGED <<hist, turn, told, inbox, sentFile, queue, seen, user, bot, files, report, stale>>
  BY DEF Test!BotGoesOn, Test!emitVars, Test!recvVars
<1>3. /\ wire \in Seq(TestNews) /\ turn \in Nat /\ hist \in TestHists /\ told \in TestHists
      /\ inbox \in Seq(Nat) /\ stale \in SUBSET Nat /\ SessionAt(q) /\ FilesAt(wire, q)
  BY TestTyped DEF Between
<1>4. q = Place(turn, s, told) /\ q.turn = turn /\ q.stage = s /\ q.hist = told
      /\ EndsIn(hist, turn, s)
  BY <1>1, <1>3, SessionPlace
<1>5. ~Sending /\ \A i \in 1..Len(wire) : wire[i].type # "done"
  BY <1>1, <1>3, WhileSpeaking
<1>6. PICK m \in TestNews : m = [type |-> n, of |-> turn, hist |-> <<>>]
  <2>1. n \in NewsTypes  BY <1>1 DEF NewsTypes, Milestones
  <2> QED  BY <1>3, <2>1, NewsMade, NoHist
<1>7. wire' = Append(wire, m)  BY <1>1, <1>6 DEF Test!News
<1>8. PICK r \in Places : r = Place(turn, n, told)  BY <1>1, <1>3, PlaceMade
<1>9. Leads(q, m, r, stale') /\ m.type # "done"  BY <1>1, <1>2, <1>4, <1>6, <1>8 DEF Leads
<1>10. EndsIn(hist, turn, n)  BY <1>1, <1>4 DEF EndsIn
<1>11. SessionAt(r)'
  <2>1. n # ""  BY <1>1
  <2> QED  BY <1>1, <1>2, <1>8, <1>10, <2>1, SessionMoves
<1>12. \E x, y \in Places : Between(x, y)'
  BY <1>2, <1>5, <1>7, <1>9, <1>11, SaysMilestone
<1>13. wire' \in Seq(TestNews)  BY <1>3, <1>7, NewsAppend
<1>14. stage' \in {"text", "audio"}  BY <1>1
<1>15. TestTypes'  BY <1>2, <1>3, <1>13, <1>14, SessionTypes
<1> QED  BY <1>12, <1>15 DEF InStep

\* A step of the session that sends nothing.
LEMMA SaysNothing ==
    ASSUME TestTypes, NEW p \in Places, NEW q \in Places, Between(p, q), hist' \in TestHists,
           EndsIn(hist', turn, stage), stage # "over",
           UNCHANGED <<turn, stage, told, wire, inbox, sentFile, queue, seen, user, bot, files,
                       report, stale>>
    PROVE  InStep'
<1>1. /\ wire \in Seq(TestNews) /\ turn \in Nat /\ inbox \in Seq(Nat) /\ told \in TestHists
      /\ stale \in SUBSET Nat /\ stage \in {"", "created", "text", "audio", "over"}
      /\ SessionAt(q) /\ FilesAt(wire, q) /\ WireLeads(p, wire, q, stale) /\ ClientAt(p)
  BY TestTyped DEF Between
<1>2. q = Place(turn, stage, told) /\ (stage = "" => ToldIn(told, turn))  BY <1>1, SessionPlace
<1>3. SessionAt(q)'  BY <1>2, SessionMoves
<1>4. ClientAt(p)'  BY <1>1, ClientStays
<1>5. FilesAt(wire, q)' /\ WireLeads(p, wire, q, stale)'  BY <1>1 DEF FilesAt, Sending
<1>6. TestTypes'  BY <1>1, SessionTypes
<1> QED  BY <1>3, <1>4, <1>5, <1>6 DEF InStep, Between

\* The history gets the words of the bot.
LEMMA BotSaysStep ==
    ASSUME TestTypes, NEW p \in Places, NEW q \in Places, Between(p, q), Test!BotSays
    PROVE  InStep'
<1>1. /\ stage \in {"text", "audio"} /\ hist[Len(hist)].said = {}
      /\ hist' = [hist EXCEPT ![Len(hist)].said = {turn}]
      /\ UNCHANGED <<turn, stage, told, wire, inbox, sentFile, queue, seen, user, bot, files, report, stale>>
  BY DEF Test!BotSays, Test!Last, Test!emitVars, Test!recvVars
<1>2. turn \in Nat /\ hist \in TestHists /\ EndsIn(hist, turn, stage)
  BY <1>1, TestTyped, SessionPlace DEF Between
<1>3. turn # 0 /\ TurnIn(hist, turn)  BY <1>1, <1>2 DEF EndsIn
<1>4. /\ hist' \in TestHists /\ hist' # <<>> /\ Len(hist') = Len(hist)
      /\ hist'[Len(hist)].role = hist[Len(hist)].role
      /\ hist'[Len(hist)].said = hist[Len(hist)].said \cup {turn}
      /\ \A i \in 1..Len(hist) : i # Len(hist) => hist'[i] = hist[i]
  <2>1. hist' = [hist EXCEPT ![Len(hist)].said = @ \cup {turn}]  BY <1>1
  <2>2. hist # <<>>  BY <1>3 DEF TurnIn
  <2> QED  BY <1>2, <2>1, <2>2, SaysMore
<1>5. TurnIn(hist', turn)
  <2>1. Len(hist) \in Nat  BY <1>2 DEF TestHists
  <2>2. Len(hist) > 1 => hist'[Len(hist) - 1] = hist[Len(hist) - 1]
    <3>1. Len(hist) > 1 => Len(hist) - 1 \in 1..Len(hist) /\ Len(hist) - 1 # Len(hist)  BY <2>1
    <3> QED  BY <1>4, <3>1
  <2> QED  BY <1>3, <1>4, <2>2 DEF TurnIn
<1>6. EndsIn(hist', turn, stage)  BY <1>1, <1>3, <1>4, <1>5 DEF EndsIn
<1> QED  BY <1>1, <1>4, <1>6, SaysNothing

\* A turn ends with its history and the news of it, at once.
LEMMA BotEndsStep ==
    ASSUME TestTypes, NEW p \in Places, NEW q \in Places, Between(p, q), disturbed' = {}, Test!BotEnds
    PROVE  InStep'
<1>0. stage = "audio" /\ hist[Len(hist)].said # {}
  <2>1. ~Test!Disturbed(turn)  BY DEF Test!Disturbed
  <2> QED  BY <2>1 DEF Test!BotEnds, Test!Last
<1>1. /\ stage = "audio" /\ stage' = "" /\ told' = hist
      /\ UNCHANGED <<turn, inbox, sentFile, queue, seen, user, bot, files, report, stale>>
  BY <1>0 DEF Test!BotEnds, Test!emitVars, Test!recvVars
<1>2. /\ wire \in Seq(TestNews) /\ turn \in Nat /\ hist \in TestHists /\ inbox \in Seq(Nat)
      /\ stale \in SUBSET Nat
      /\ SessionAt(q) /\ FilesAt(wire, q) /\ WireLeads(p, wire, q, stale) /\ ClientAt(p)
  BY TestTyped DEF Between
<1>3. q = Place(turn, "audio", told) /\ q.turn = turn /\ q.stage = "audio"
      /\ EndsIn(hist, turn, "audio")
  BY <1>1, <1>2, SessionPlace
<1>4. ~Sending /\ \A i \in 1..Len(wire) : wire[i].type # "done"
  BY <1>1, <1>2, WhileSpeaking
<1>5. turn # 0 /\ SpokenIn(hist, turn)
  BY <1>0, <1>3 DEF EndsIn, SpokenIn
<1>6. PICK m \in TestNews : m = [type |-> "outputs", of |-> turn, hist |-> hist]
  BY <1>2, NewsMade DEF NewsTypes
<1>7. PICK d \in TestNews : d = [type |-> "done", of |-> turn, hist |-> <<>>]
  BY <1>2, NewsMade, NoHist DEF NewsTypes, Milestones
<1>8. PICK r \in Places : r = Place(turn, "audio", hist)  BY <1>2, PlaceMade
<1>9. PICK s \in Places : s = Place(turn, "", hist)  BY <1>2, PlaceMade
<1>10. r.turn = turn /\ r.stage = "audio" /\ r.hist = hist /\ s.turn = turn /\ s.stage = ""
  BY <1>8, <1>9 DEF Place
<1> DEFINE w == Append(wire, m)
<1>11. w \in Seq(TestNews) /\ wire' = Append(w, d)
  <2>1. Test!EndOfTurn = <<m, d>>  BY <1>6, <1>7 DEF Test!EndOfTurn, Test!Outputs, Test!News
  <2>2. PICK flush \in {<<>>} : wire' = wire \o flush \o <<m, d>>  BY <1>0, <2>1 DEF Test!BotEnds
  <2>3. wire \o flush = wire  BY <1>2
  <2> QED  BY <1>2, <2>2, <2>3, TwoMore
<1>12. Leads(q, m, r, stale)  BY <1>3, <1>6, <1>8 DEF Leads
<1>13. WireLeads(p, w, r, stale)  BY <1>2, <1>12, WireAppend
<1>15. Leads(r, d, s, stale)  BY <1>5, <1>7, <1>9, <1>10 DEF Leads
<1>16. \A i \in 1..Len(w) : w[i].type # "done"
  <2>1. /\ w[Len(wire) + 1] = m /\ \A i \in 1..Len(wire) : w[i] = wire[i]
        /\ \A i \in 1..Len(w) : i \in 1..Len(wire) \/ i = Len(wire) + 1
    BY <1>2, NewsAppend
  <2>2. m.type # "done"  BY <1>6
  <2> HIDE DEF w
  <2> QED  BY <1>4, <2>1, <2>2
<1> HIDE DEF w
<1>17. WireLeads(p, wire', s, stale)  BY <1>11, <1>13, <1>15, WireAppend
<1>18. DoneIsLast(wire', s)
  <2>1. d.type = "done" => s.stage = "" /\ s.turn = d.of  BY <1>7, <1>10
  <2> QED  BY <1>11, <1>16, <2>1, MilestoneAppend
<1>19. FilesAt(wire, s)'
  <2>1. ~Sending'  BY <1>1, <1>4 DEF Sending
  <2> QED  BY <1>1, <1>2, <1>18, <2>1 DEF FilesAt
<1>20. hist' \in TestHists /\ HeardIn(hist', turn)
  <2>1. hist' = Append(hist, Test!Message("user", {}))  BY DEF Test!BotEnds
  <2>2. /\ Test!Message("user", {}) \in TestMsgs /\ Test!Message("user", {}).said = {}
        /\ Test!Message("user", {}).role = "user"
    BY DEF Test!Message, TestMsgs
  <2> QED  BY <1>2, <2>1, <2>2, HistAppend DEF HeardIn
<1>21. EndsIn(hist', turn, "") /\ ToldIn(hist, turn)  BY <1>5, <1>20, EndsWaiting DEF ToldIn
<1>22. SessionAt(s)'  BY <1>1, <1>9, <1>21, SessionMoves
<1>23. ClientAt(p)'  BY <1>1, <1>2, ClientStays
<1>24. WireLeads(p, wire, s, stale)'  BY <1>1, <1>17
<1>25. wire' \in Seq(TestNews)  BY <1>11, NewsAppend
<1>26. TestTypes'  BY <1>1, <1>2, <1>20, <1>25, SessionTypes
<1> QED  BY <1>19, <1>22, <1>23, <1>24, <1>26 DEF InStep, Between

\* A silence is all that the user says: the history has it, nobody is told yet.
LEMMA LongSilenceStep ==
    ASSUME TestTypes, NEW p \in Places, NEW q \in Places, Between(p, q), Test!LongSilence
    PROVE  InStep'
<1>1. /\ stage = "" /\ hist # <<>> /\ hist[Len(hist)].said = {}
      /\ hist' = [hist EXCEPT ![Len(hist)].said = {0}]
      /\ UNCHANGED <<turn, stage, told, wire, inbox, sentFile, queue, seen, user, bot, files, report, stale>>
  BY DEF Test!LongSilence, Test!Last, Test!Silence, Test!emitVars, Test!recvVars
<1>2. turn \in Nat /\ hist \in TestHists /\ EndsIn(hist, turn, "")
  BY <1>1, TestTyped, SessionPlace DEF Between
<1>3. turn # 0 /\ HeardIn(hist, turn)
  <2>1. turn # 0  BY <1>1, <1>2 DEF EndsIn
  <2> QED  BY <1>2, <2>1, EndsWaiting
<1>4. hist' \in TestHists /\ HeardIn(hist', turn)
  <2>0. PICK n \in Nat : n = 0  OBVIOUS
  <2>1. hist' = [hist EXCEPT ![Len(hist)].said = @ \cup {n}]  BY <1>1, <2>0
  <2>2. /\ hist' \in TestHists /\ hist' # <<>> /\ Len(hist') = Len(hist)
        /\ hist'[Len(hist)].role = hist[Len(hist)].role
        /\ hist'[Len(hist)].said = hist[Len(hist)].said \cup {n}
    <3>1. hist # <<>> /\ hist \in TestHists  BY <1>1, <1>2
    <3> QED  BY <2>1, <3>1, SaysMore
  <2> QED  BY <1>1, <1>3, <2>0, <2>2 DEF HeardIn, Test!Silence
<1>5. EndsIn(hist', turn, stage)  BY <1>1, <1>3, <1>4, EndsWaiting
<1> QED  BY <1>1, <1>4, <1>5, SaysNothing

-----------------------------------------------------------------------------
(* The files on their way *)

\* A step that only moves a file on.
LEMMA FilesMove ==
    ASSUME TestTypes, NEW p \in Places, NEW q \in Places, Between(p, q), Sending' => Sending,
           inbox' \in Seq(Nat), queue' \in Seq(Nat), sentFile' \in [id : Nat, left : Nat],
           \A i \in 1..Len(inbox') : inbox'[i] = files,
           \A i \in 1..Len(queue') : queue'[i] = files,
           sentFile'.left > 0 => sentFile'.id = files,
           UNCHANGED <<hist, turn, stage, wire, told, seen, user, bot, files, report, stale>>
    PROVE  InStep'
<1>1. SessionAt(q)'
  <2>1. CASE stage = "over"  BY <2>1 DEF SessionAt
  <2>2. CASE stage # "over"
    <3>1. SessionAt(q)  BY DEF Between
    <3> QED  BY <2>2, <3>1, SessionPlace, SessionMoves
  <2> QED  BY <2>1, <2>2
<1>2. ClientAt(p)'  BY ClientStays DEF Between
<1>3. WireLeads(p, wire, q, stale)'  BY DEF Between
<1>4. FilesAt(wire, q)'  BY DEF Between, FilesAt
<1>5. TestTypes'  BY DEF TestTypes
<1> QED  BY <1>1, <1>2, <1>3, <1>4, <1>5 DEF InStep, Between

\* A file on its way moves from the queue to the session.
LEMMA FilesStep ==
    ASSUME TestTypes, NEW p \in Places, NEW q \in Places, Between(p, q),
           \/ Test!HearsNothing \/ Test!Begins \/ Test!SendsUpdate \/ Test!Takes \/ Test!Sends
           \/ Test!EmitBreaks
    PROVE  InStep'
<1>1. /\ inbox \in Seq(Nat) /\ queue \in Seq(Nat) /\ files \in Nat
      /\ \A i \in 1..Len(inbox) : inbox[i] = files
      /\ \A i \in 1..Len(queue) : queue[i] = files
      /\ sentFile.left > 0 => sentFile.id = files
      /\ sentFile \in [id : Nat, left : Nat]
      /\ FilesAt(wire, q)
  BY DEF TestTypes, Between, FilesAt
<1> USE DEF Test!sessionVars, Test!recvVars, Test!emitVars
<1>2. CASE Test!HearsNothing
  <2>1. /\ inbox # <<>> /\ inbox' = Tail(inbox)
        /\ UNCHANGED <<hist, turn, stage, wire, told, sentFile, queue, seen, user, bot, files, report, stale>>
    BY <1>2 DEF Test!HearsNothing
  <2>2. inbox' \in Seq(Nat) /\ \A i \in 1..Len(inbox') : inbox'[i] = files
    BY <1>1, <2>1, NumbersTail
  <2>3. Sending' => Sending  BY <2>1 DEF Sending
  <2> QED  BY <1>1, <2>1, <2>2, <2>3, FilesMove
<1>3. CASE Test!Begins \/ Test!SendsUpdate \/ Test!EmitBreaks
  <2>1. UNCHANGED <<hist, turn, stage, inbox, wire, told, sentFile, queue, seen, user, bot, files,
                   report, stale>>
    BY <1>3 DEF Test!Begins, Test!SendsUpdate, Test!EmitBreaks
  <2>2. Sending' => Sending  BY <2>1 DEF Sending
  <2> QED  BY <1>1, <2>1, <2>2, FilesMove
<1>4. CASE Test!Takes
  <2>1. /\ queue # <<>> /\ queue' = Tail(queue)
        /\ UNCHANGED <<hist, turn, stage, inbox, wire, told, seen, user, bot, files, report, stale>>
    BY <1>4 DEF Test!Takes
  <2>2. /\ queue' \in Seq(Nat) /\ Head(queue) = files
        /\ \A i \in 1..Len(queue') : queue'[i] = files
    BY <1>1, <2>1, NumbersTail
  <2>3. Sending  BY <2>1 DEF Sending
  <2>4. files > 0  BY <1>1, <2>3 DEF FilesAt
  <2>5. sentFile' = [id |-> files, left |-> 2]
    BY <1>1, <1>4, <2>2, <2>4 DEF Test!Takes, Test!CloseStream, Test!Pieces
  <2>6. sentFile' \in [id : Nat, left : Nat] /\ sentFile'.id = files  BY <1>1, <2>5
  <2> QED  BY <1>1, <2>1, <2>2, <2>3, <2>6, FilesMove
<1>5. CASE Test!Sends
  <2>1. /\ sentFile.left > 0 /\ inbox' = Append(inbox, sentFile.id)
        /\ UNCHANGED <<hist, turn, stage, queue, wire, told, seen, user, bot, files, report, stale>>
    BY <1>5 DEF Test!Sends
  <2>2. inbox' \in Seq(Nat) /\ \A i \in 1..Len(inbox') : inbox'[i] = files
    BY <1>1, <2>1, NumbersAppend
  <2>3. Sending  BY <2>1 DEF Sending
  <2>4. sentFile' = [sentFile EXCEPT !.left = @ - 1]  BY <1>5 DEF Test!Sends
  <2>5. sentFile' \in [id : Nat, left : Nat] /\ sentFile'.id = files  BY <1>1, <2>1, <2>4
  <2> QED  BY <1>1, <2>1, <2>2, <2>3, <2>5, FilesMove
<1> QED  BY <1>2, <1>3, <1>4, <1>5

-----------------------------------------------------------------------------
(* The client *)

\* What an entry of the report rep should say, if the bot was early for the turns in S.
TurnIs(rep, i) == rep[IF rep[i].role = "assistant" THEN i ELSE i - 1].times.done
RightBot(rep, i, S) ==
    /\ TurnIs(rep, i) = (IF i = 1 THEN 1 ELSE TurnIs(rep, i - 1) + 1)
    /\ Test!TimedBy(rep[i].times, TurnIs(rep, i)) /\ rep[i].said = {TurnIs(rep, i)}
    /\ i > 1 /\ rep[i - 1].role = "assistant" => TurnIs(rep, i - 1) \in S
RightUser(rep, i, S) ==
    /\ i > 1 /\ rep[i - 1].role = "assistant"
    /\ rep[i].said # {}
    /\ \/ rep[i].said \subseteq {Test!Silence, TurnIs(rep, i)}
       \/ TurnIs(rep, i) \in S /\ rep[i].said \subseteq {Test!Silence, TurnIs(rep, i) - 1}
    /\ \E j \in 1..TurnIs(rep, i) : Test!TimedBy(rep[i].times, j)
    /\ i = 2 \/ rep[i - 2].role = "user" => Test!TimedBy(rep[i].times, TurnIs(rep, i))
RightEntry(rep, i, S) == IF rep[i].role = "assistant" THEN RightBot(rep, i, S) ELSE RightUser(rep, i, S)
RightReport(rep, S) == \A i \in DOMAIN rep : RightEntry(rep, i, S)

\* An entry is judged by itself and the two before it.
LEMMA EntryKept ==
    ASSUME NEW rep, NEW more, NEW S, NEW i \in Nat, i > 0, \A k \in 1..i : more[k] = rep[k],
           i > 1 /\ rep[i - 1].role # "assistant" => i > 2, RightEntry(rep, i, S)
    PROVE  RightEntry(more, i, S)
<1>1. more[i] = rep[i] /\ (i > 1 => more[i - 1] = rep[i - 1]) /\ (i > 2 => more[i - 2] = rep[i - 2])
  <2>1. i \in 1..i /\ (i > 1 => i - 1 \in 1..i) /\ (i > 2 => i - 2 \in 1..i)  OBVIOUS
  <2> QED  BY <2>1
<1>2. rep[i].role = "assistant" \/ i > 1 => TurnIs(more, i) = TurnIs(rep, i)
  BY <1>1 DEF TurnIs
<1>3. i > 1 => TurnIs(more, i - 1) = TurnIs(rep, i - 1)
  <2>1. (i - 1) - 1 = i - 2  OBVIOUS
  <2> QED  BY <1>1, <2>1 DEF TurnIs
<1>4. CASE rep[i].role = "assistant"
  <2>1. i = 1 \/ i > 1  OBVIOUS
  <2>2. RightBot(rep, i, S)  BY <1>4 DEF RightEntry
  <2>3. RightBot(more, i, S)  BY <1>1, <1>2, <1>3, <1>4, <2>1, <2>2 DEF RightBot
  <2> QED  BY <1>1, <1>4, <2>3 DEF RightEntry
<1>5. CASE rep[i].role # "assistant"
  <2>1. RightUser(rep, i, S)  BY <1>5 DEF RightEntry
  <2>2. i > 1 /\ (i = 2 \/ i > 2)  BY <2>1 DEF RightUser
  <2>3. TurnIs(more, i) = TurnIs(rep, i)  BY <1>2, <2>2
  <2>4. RightUser(more, i, S)  BY <1>1, <2>1, <2>2, <2>3 DEF RightUser
  <2> QED  BY <1>1, <1>5, <2>4 DEF RightEntry
<1> QED  BY <1>4, <1>5

\* A report stays right with one more entry that is.
LEMMA ReportGrows ==
    ASSUME NEW rep \in Seq(Entries), NEW e \in Entries, NEW S, RightReport(rep, S),
           RightEntry(Append(rep, e), Len(rep) + 1, S)
    PROVE  RightReport(Append(rep, e), S)
<1> DEFINE N == Len(rep)
           more == Append(rep, e)
<1>1. N \in Nat /\ DOMAIN rep = 1..N /\ DOMAIN more = 1..(N + 1) /\ \A k \in 1..N : more[k] = rep[k]
  OBVIOUS
<1> HIDE DEF more, N
<1>2. ASSUME NEW i \in 1..(N + 1), i # N + 1 PROVE RightEntry(more, i, S)
  <2>1. i \in 1..N /\ i \in Nat /\ i > 0 /\ \A k \in 1..i : k \in 1..N  BY <1>1, <1>2
  <2>2. RightEntry(rep, i, S)  BY <1>1, <2>1 DEF RightReport
  <2>3. i > 1 /\ rep[i - 1].role # "assistant" => i > 2
    <3> SUFFICES ASSUME i > 1, rep[i - 1].role # "assistant" PROVE i > 2
      OBVIOUS
    <3>1. i - 1 \in 1..N  BY <1>1, <2>1
    <3>2. i - 1 > 1  BY <1>1, <3>1 DEF RightReport, RightEntry, RightUser
    <3> QED  BY <2>1, <3>2
  <2> QED  BY <1>1, <2>1, <2>2, <2>3, EntryKept
<1>3. RightEntry(more, N + 1, S)  BY DEF more, N
<1>4. RightReport(more, S)  BY <1>1, <1>2, <1>3 DEF RightReport
<1> QED  BY <1>4 DEF more

\* More turns may have begun too early.
LEMMA ReportStale ==
    ASSUME NEW rep, NEW S, NEW T, S \subseteq T, RightReport(rep, S)
    PROVE  RightReport(rep, T)
<1> SUFFICES ASSUME NEW i \in DOMAIN rep PROVE RightEntry(rep, i, T)
  BY DEF RightReport
<1>1. RightEntry(rep, i, S)  BY DEF RightReport
<1> QED  BY <1>1 DEF RightEntry, RightBot, RightUser

\* What is received leads the client on.
LEMMA Received ==
    ASSUME TestTypes, NEW p \in Places, NEW q \in Places, Between(p, q), NEW type, Test!Receives(type)
    PROVE  /\ UNCHANGED <<hist, turn, stage, inbox, told, sentFile, stale>>
           /\ \E m \in TestNews, r \in Places :
                /\ m = Head(wire) /\ m.type = type /\ Leads(p, m, r, stale) /\ WireLeads(r, wire, q, stale)'
           /\ SessionAt(q)' /\ wire' \in Seq(TestNews) /\ DoneIsLast(wire', q)
           /\ Quiet(wire) => Quiet(wire') /\ type \notin Milestones
           /\ type = "done" => Quiet(wire') /\ q.stage = "" /\ q.turn = Head(wire).of
<1>1. /\ wire # <<>> /\ Head(wire).type = type /\ wire' = Tail(wire)
      /\ UNCHANGED <<hist, turn, stage, inbox, told, sentFile, stale>>
  BY DEF Test!Receives
<1>2. /\ wire \in Seq(TestNews) /\ WireLeads(p, wire, q, stale) /\ DoneIsLast(wire, q) /\ SessionAt(q)
  BY TestTyped DEF Between, FilesAt
<1>3. Head(wire) \in TestNews /\ wire' \in Seq(TestNews)  BY <1>1, <1>2
<1>4. PICK r \in Places : Leads(p, Head(wire), r, stale) /\ WireLeads(r, Tail(wire), q, stale)
  BY <1>1, <1>2, WireTail
<1>5. WireLeads(r, wire, q, stale)'  BY <1>1, <1>4
<1>6. SessionAt(q)'
  <2>1. CASE stage = "over"  BY <1>1, <2>1 DEF SessionAt
  <2>2. CASE stage # "over"  BY <1>1, <1>2, <2>2, SessionPlace, SessionMoves
  <2> QED  BY <2>1, <2>2
<1>7. /\ DoneIsLast(wire', q)
      /\ Quiet(wire) => Quiet(wire') /\ Head(wire).type \notin Milestones
      /\ Head(wire).type = "done" => Quiet(wire') /\ q.stage = "" /\ q.turn = Head(wire).of
  BY <1>1, <1>2, QuietTail
<1> QED  BY <1>1, <1>3, <1>4, <1>5, <1>6, <1>7

\* The client is led to a place without a change in the files on their way.
LEMMA ClientMoves ==
    ASSUME TestTypes, NEW p \in Places, NEW q \in Places, Between(p, q), NEW type, Test!Receives(type),
           NEW r \in Places, WireLeads(r, wire, q, stale)', ClientAt(r)',
           seen' \in TestHists, user' \in UserTimes, bot' \in BotTimes, report' \in Seq(Entries),
           UNCHANGED <<queue, files>>
    PROVE  InStep'
<1>1. /\ UNCHANGED <<hist, turn, stage, inbox, told, sentFile, stale>>
      /\ SessionAt(q)' /\ wire' \in Seq(TestNews)
      /\ DoneIsLast(wire', q) /\ (Quiet(wire) => Quiet(wire'))
  BY Received
<1>2. FilesAt(wire, q)'  BY <1>1 DEF Between, FilesAt, Sending
<1>3. TestTypes'  BY <1>1 DEF TestTypes
<1> QED  BY <1>1, <1>2, <1>3 DEF InStep, Between

\* What the client notes.
Notes == recv' # "error" /\ RightReport(report, stale)' /\ (recv' = "run" => InStep')

\* A step that leaves the report alone keeps what is noted right.
LEMMA NotesKept ==
    ASSUME RightReport(report, stale), report' = report, stale \subseteq stale'
    PROVE  RightReport(report, stale)'
  BY ReportStale

\* An entry of the bot is right after the turn before, with the user's entry or without.
LEMMA BotEntry ==
    ASSUME NEW rep \in Seq(Entries), NEW e \in Entries, NEW S, NEW n \in Nat, n # 0,
           e.role = "assistant", e.said = {n},
           e.times = [created |-> n, text |-> n, audio |-> n, done |-> n],
           n = 1 => Len(rep) = 0,
           n # 1 => Len(rep) > 0,
           n # 1 => \/ /\ rep[Len(rep)].role = "user" /\ Len(rep) > 1
                       /\ rep[Len(rep) - 1].times.done = n - 1
                    \/ /\ rep[Len(rep)].role = "assistant" /\ rep[Len(rep)].times.done = n - 1
                       /\ n - 1 \in S
    PROVE  RightEntry(Append(rep, e), Len(rep) + 1, S)
<1> DEFINE N == Len(rep)
           more == Append(rep, e)
<1>1. N \in Nat /\ more[N + 1] = e /\ \A k \in 1..N : more[k] = rep[k]  OBVIOUS
<1>2. (N + 1 = 1 <=> n = 1) /\ (n # 1 => N > 0) /\ N + 1 - 1 = N  BY <1>1
<1>3. n # 1 => \/ rep[N].role = "user" /\ N > 1 /\ rep[N - 1].times.done = n - 1
               \/ rep[N].role = "assistant" /\ rep[N].times.done = n - 1 /\ n - 1 \in S
  OBVIOUS
<1> HIDE DEF N, more
<1>4. TurnIs(more, N + 1) = n  BY <1>1 DEF TurnIs
<1>5. Test!TimedBy(e.times, n)  BY DEF Test!TimedBy
<1>6. CASE n = 1
  <2>1. N + 1 = 1  BY <1>2, <1>6
  <2>2. RightBot(more, N + 1, S)  BY <1>1, <1>4, <1>5, <1>6, <2>1 DEF RightBot
  <2> QED  BY <1>1, <2>2 DEF RightEntry, N, more
<1>7. CASE n # 1
  <2>1. more[N] = rep[N] /\ (N > 1 => more[N - 1] = rep[N - 1])
    <3>1. N \in 1..N /\ (N > 1 => N - 1 \in 1..N)  BY <1>1, <1>2, <1>7
    <3> QED  BY <1>1, <3>1
  <2>2. TurnIs(more, N) = n - 1 /\ (more[N].role = "assistant" => n - 1 \in S)
    BY <1>3, <1>7, <2>1 DEF TurnIs
  <2>3. n = (n - 1) + 1 /\ N + 1 # 1  BY <1>2, <1>7
  <2>4. RightBot(more, N + 1, S)  BY <1>1, <1>2, <1>4, <1>5, <2>2, <2>3 DEF RightBot
  <2> QED  BY <1>1, <2>4 DEF RightEntry, N, more
<1> QED  BY <1>6, <1>7

\* An entry of the user is right after the turn that it answers.
LEMMA UserEntry ==
    ASSUME NEW rep \in Seq(Entries), NEW e \in Entries, NEW S, NEW n \in Nat, NEW j \in 1..n,
           e.role = "user", e.said # {},
           \/ e.said \subseteq {Test!Silence, n}
           \/ n \in S /\ e.said \subseteq {Test!Silence, n - 1},
           e.times = [audio_start |-> j, text_start |-> j, audio_end |-> j],
           Len(rep) > 0, rep[Len(rep)].role = "assistant", rep[Len(rep)].times.done = n,
           Len(rep) = 1 \/ rep[Len(rep) - 1].role = "user" => j = n
    PROVE  RightEntry(Append(rep, e), Len(rep) + 1, S)
<1> DEFINE N == Len(rep)
           more == Append(rep, e)
<1>1. /\ N \in Nat /\ N > 0 /\ more[N + 1] = e /\ \A k \in 1..N : more[k] = rep[k]
      /\ rep[N].role = "assistant" /\ rep[N].times.done = n
      /\ N = 1 \/ rep[N - 1].role = "user" => j = n
  OBVIOUS
<1> HIDE DEF N, more
<1>2. N + 1 > 1 /\ N + 1 - 1 = N /\ N + 1 - 2 = N - 1 /\ (N + 1 = 2 => N = 1) /\ N + 1 # 1
  BY <1>1
<1>3. more[N] = rep[N] /\ (N # 1 => more[N - 1] = rep[N - 1])
  <2>1. N \in 1..N /\ (N # 1 => N - 1 \in 1..N)  BY <1>1
  <2> QED  BY <1>1, <2>1
<1>4. TurnIs(more, N + 1) = n  BY <1>1, <1>2, <1>3 DEF TurnIs
<1>5. Test!TimedBy(e.times, j)  BY DEF Test!TimedBy
<1>6. N + 1 = 2 \/ more[(N + 1) - 2].role = "user" => j = n
  BY <1>1, <1>2, <1>3
<1>7. RightUser(more, N + 1, S)
  BY <1>1, <1>2, <1>3, <1>4, <1>5, <1>6 DEF RightUser
<1>8. more[N + 1].role # "assistant"  BY <1>1
<1> QED  BY <1>7, <1>8 DEF RightEntry, N, more

\* The client notes the first text of the turn: its bot has been created.
LEMMA TextStep ==
    ASSUME TestTypes, NEW p \in Places, NEW q \in Places, Between(p, q), RightReport(report, stale),
           recv = "run", Test!OnText
    PROVE  Notes
<1>1. Test!Receives("text")  BY DEF Test!OnText
<1>2. PICK m \in TestNews, r \in Places :
        m = Head(wire) /\ m.type = "text" /\ Leads(p, m, r, stale) /\ WireLeads(r, wire, q, stale)'
  BY <1>1, Received
<1>3. p.stage = "created" /\ m.of = p.turn /\ r = Place(p.turn, "text", p.hist)
  BY <1>2 DEF Leads
<1>4. r.turn = p.turn /\ r.stage = "text" /\ r.hist = p.hist  BY <1>3 DEF Place
<1>5. /\ p.turn > 0 /\ p.turn \in Nat /\ seen = p.hist /\ files = p.turn - 1
      /\ UpTo(p.turn - 1, stale)
      /\ bot = [created |-> p.turn, text |-> Test!None, audio |-> Test!None, done |-> Test!None]
  BY <1>3 DEF Between, ClientAt, Places
<1>6. p.turn # 0  BY <1>5
<1>7. Test!Done(bot, {"created"})
  BY <1>5, <1>6 DEF Test!Done, Test!None
<1>8. UNCHANGED <<recv, queue, seen, user, files, report, stale>> /\ bot' = Test!Timed(bot, "text", m.of)
  BY <1>1, <1>2, <1>7, Received DEF Test!OnText
<1>9. bot' = [created |-> p.turn, text |-> p.turn, audio |-> Test!None, done |-> Test!None]
  BY <1>3, <1>5, <1>8 DEF Test!Timed, Test!None
<1>10. ClientAt(r)'
  <2>1. UpTo(p.turn - 1, stale)'  BY <1>5, <1>8, UpToStays
  <2> QED  BY <1>4, <1>5, <1>8, <1>9, <2>1 DEF ClientAt, Test!None
<1>11. /\ seen' \in TestHists /\ user' \in UserTimes /\ bot' \in BotTimes /\ report' \in Seq(Entries)
  <2>1. bot' \in BotTimes  BY <1>5, <1>9 DEF BotTimes, Test!None
  <2> QED  BY <1>8, <2>1 DEF TestTypes
<1>12. InStep'  BY <1>1, <1>2, <1>8, <1>10, <1>11, ClientMoves
<1> QED  BY <1>8, <1>12, NotesKept DEF Notes

\* The client notes the first audio of the turn.
LEMMA AudioStep ==
    ASSUME TestTypes, NEW p \in Places, NEW q \in Places, Between(p, q), RightReport(report, stale),
           recv = "run", Test!OnAudio
    PROVE  Notes
<1>1. Test!Receives("audio")  BY DEF Test!OnAudio
<1>2. PICK m \in TestNews, r \in Places :
        m = Head(wire) /\ m.type = "audio" /\ Leads(p, m, r, stale) /\ WireLeads(r, wire, q, stale)'
  BY <1>1, Received
<1>3. p.stage = "text" /\ m.of = p.turn /\ r = Place(p.turn, "audio", p.hist)
  BY <1>2 DEF Leads
<1>4. r.turn = p.turn /\ r.stage = "audio" /\ r.hist = p.hist  BY <1>3 DEF Place
<1>5. /\ p.turn > 0 /\ p.turn \in Nat /\ seen = p.hist /\ files = p.turn - 1
      /\ UpTo(p.turn - 1, stale)
      /\ bot = [created |-> p.turn, text |-> p.turn, audio |-> Test!None, done |-> Test!None]
  BY <1>3 DEF Between, ClientAt, Places
<1>6. UNCHANGED <<recv, queue, seen, user, files, report, stale>> /\ bot' = Test!Timed(bot, "audio", m.of)
  BY <1>1, <1>2, Received DEF Test!OnAudio
<1>7. bot' = [created |-> p.turn, text |-> p.turn, audio |-> p.turn, done |-> Test!None]
  BY <1>3, <1>5, <1>6 DEF Test!Timed, Test!None
<1>8. ClientAt(r)'
  <2>1. UpTo(p.turn - 1, stale)'  BY <1>5, <1>6, UpToStays
  <2> QED  BY <1>4, <1>5, <1>6, <1>7, <2>1 DEF ClientAt, Test!None
<1>9. /\ seen' \in TestHists /\ user' \in UserTimes /\ bot' \in BotTimes /\ report' \in Seq(Entries)
  <2>1. bot' \in BotTimes  BY <1>5, <1>7 DEF BotTimes, Test!None
  <2> QED  BY <1>6, <2>1 DEF TestTypes
<1>10. InStep'  BY <1>1, <1>2, <1>6, <1>8, <1>9, ClientMoves
<1> QED  BY <1>6, <1>10, NotesKept DEF Notes

\* The client notes the first word that was heard of its file.
LEMMA WordStep ==
    ASSUME TestTypes, NEW p \in Places, NEW q \in Places, Between(p, q), RightReport(report, stale),
           recv = "run", Test!OnWord
    PROVE  Notes
<1>1. Test!Receives("word")  BY DEF Test!OnWord
<1>2. PICK m \in TestNews, r \in Places :
        m = Head(wire) /\ m.type = "word" /\ Leads(p, m, r, stale) /\ WireLeads(r, wire, q, stale)'
  BY <1>1, Received
<1>3. p.stage = "" /\ m.of = p.turn /\ p.turn > 0 /\ r = p  BY <1>2 DEF Leads
<1>4. /\ p.turn \in Nat /\ p.turn # 0 /\ seen = p.hist /\ files = p.turn
      /\ bot = Test!BotReset /\ Waits(p.turn)
  <2>1. p.turn \in Nat /\ p.turn # 0
    <3>1. p.turn > 0 /\ p.turn \in Nat  BY <1>3 DEF Places
    <3> QED  BY <3>1
  <2> QED  BY <1>3, <2>1 DEF Between, ClientAt
<1>5. PICK j \in 1..p.turn : /\ user.audio_start = j /\ user.audio_end = j
                             /\ user.text_start = j \/ (user.text_start = Test!None /\ j = p.turn)
  BY <1>4 DEF Waits
<1>6. user = [audio_start |-> j, text_start |-> user.text_start, audio_end |-> j] /\ j # 0 /\ j \in Nat
  <2>1. user \in UserTimes  BY DEF TestTypes
  <2>2. j # 0 /\ j \in Nat  BY <1>4
  <2> QED  BY <1>5, <2>1, <2>2 DEF UserTimes
<1>7. Test!Done(user, {"audio_start"})
  BY <1>5, <1>6 DEF Test!Done, Test!None
<1>8. /\ UNCHANGED <<recv, queue, seen, bot, files, report, stale>>
      /\ user' = Test!Timed(user, "text_start", m.of)
  BY <1>1, <1>2, <1>7, Received DEF Test!OnWord
<1>9. user' = [audio_start |-> j, text_start |-> j, audio_end |-> j]
  <2>1. CASE user.text_start = j
    <3>1. user = [audio_start |-> j, text_start |-> j, audio_end |-> j]  BY <1>6, <2>1
    <3>2. Test!Timed(user, "text_start", m.of) = user  BY <1>6, <2>1 DEF Test!Timed, Test!None
    <3> QED  BY <1>8, <3>1, <3>2
  <2>2. CASE user.text_start = Test!None /\ j = p.turn
    <3>1. user = [audio_start |-> j, text_start |-> Test!None, audio_end |-> j]  BY <1>6, <2>2
    <3>2. Test!Timed(user, "text_start", j) = [audio_start |-> j, text_start |-> j, audio_end |-> j]
      BY <3>1 DEF Test!Timed
    <3> QED  BY <1>3, <1>8, <2>2, <3>2
  <2> QED  BY <1>5, <2>1, <2>2
<1>10. /\ user'.audio_start = j /\ user'.audio_end = j /\ user'.text_start = j
       /\ user' \in UserTimes
  BY <1>6, <1>9 DEF UserTimes
<1>11. ClientAt(r)'
  <2>1. Waits(p.turn)'  BY <1>4, <1>5, <1>8, <1>10 DEF Waits
  <2> QED  BY <1>3, <1>4, <1>8, <2>1 DEF ClientAt, Test!BotReset, Test!None
<1>12. seen' \in TestHists /\ bot' \in BotTimes /\ report' \in Seq(Entries)  BY <1>8 DEF TestTypes
<1>13. InStep'  BY <1>1, <1>2, <1>8, <1>10, <1>11, <1>12, ClientMoves
<1> QED  BY <1>8, <1>13, NotesKept DEF Notes

\* The client is given the history.
LEMMA OutputsStep ==
    ASSUME TestTypes, NEW p \in Places, NEW q \in Places, Between(p, q), RightReport(report, stale),
           recv = "run", Test!OnOutputs
    PROVE  Notes
<1>1. Test!Receives("outputs")  BY DEF Test!OnOutputs
<1>2. PICK m \in TestNews, r \in Places :
        m = Head(wire) /\ m.type = "outputs" /\ Leads(p, m, r, stale) /\ WireLeads(r, wire, q, stale)'
  BY <1>1, Received
<1>3. r = Place(p.turn, p.stage, m.hist)  BY <1>2 DEF Leads
<1>4. r.turn = p.turn /\ r.stage = p.stage /\ r.hist = m.hist  BY <1>3 DEF Place
<1>5. UNCHANGED <<recv, queue, user, bot, files, report, stale>> /\ seen' = m.hist
  BY <1>1, <1>2, Received DEF Test!OnOutputs
<1>6. ClientAt(r)'
  <2>1. /\ \A n : UpTo(n, stale) => UpTo(n, stale)'
        /\ \A n : Waits(n) => Waits(n)'
    BY <1>5, UpToStays DEF Waits, Test!None
  <2> QED  BY <1>4, <1>5, <2>1 DEF Between, ClientAt, Test!None, Test!UserReset, Test!BotReset
<1>7. m.hist \in TestHists  BY DEF TestNews
<1>8. seen' \in TestHists /\ user' \in UserTimes /\ bot' \in BotTimes /\ report' \in Seq(Entries)
  BY <1>5, <1>7 DEF TestTypes
<1>9. InStep'  BY <1>1, <1>2, <1>5, <1>6, <1>8, ClientMoves
<1> QED  BY <1>5, <1>9, NotesKept DEF Notes

\* The end of the connection leaves the report as it is.
LEMMA EndStep ==
    ASSUME RightReport(report, stale), Test!OnClosed \/ Test!OnLost \/ Test!BeginsNot
    PROVE  Notes
<1>1. report' = report /\ stale' = stale /\ recv' \notin {"run", "error"}
  BY DEF Test!OnClosed, Test!OnLost, Test!BeginsNot, Test!Receives
<1> QED  BY <1>1, NotesKept DEF Notes

\* The last message of the user is the one after which there is none of the user.
LEMMA LastOfUser ==
    ASSUME NEW h \in TestHists, NEW l \in 1..Len(h), h[l].role = "user",
           \A i \in 1..Len(h) : l < i => h[i].role # "user"
    PROVE  LET users == {i \in DOMAIN h : h[i].role = "user"} IN users # {} /\ Test!Max(users) = l
<1> DEFINE users == {i \in DOMAIN h : h[i].role = "user"}
<1>1. Len(h) \in Nat /\ DOMAIN h = 1..Len(h)  BY DEF TestHists
<1>2. l \in users /\ \A i \in users : i \in Nat /\ i <= l  BY <1>1
<1> HIDE DEF users
<1>3. l \in Nat /\ \A x \in users : (\A y \in users : x >= y) => x = l  BY <1>2
<1>4. \A y \in users : l >= y  BY <1>2, <1>3
<1>5. Test!Max(users) = l  BY <1>2, <1>3, <1>4 DEF Test!Max
<1> QED  BY <1>2, <1>5 DEF users

\* What the client knows of the user when the bot begins: nothing, or what was said to the
\* turn before the last, only if it was told too late.
LEMMA ToldOfUser ==
    ASSUME NEW h \in TestHists, NEW n \in Nat, n # 0, NEW S, InTime(h, n, S)
    PROVE  LET users == {i \in DOMAIN h : h[i].role = "user"}
               said == h[Test!Max(users)].said
           IN IF users = {} \/ said = {} THEN n \in S
              ELSE /\ said \in SUBSET Nat
                   /\ \/ said \subseteq {Test!Silence, n}
                      \/ n \in S /\ said \subseteq {Test!Silence, n - 1}
<1> DEFINE users == {i \in DOMAIN h : h[i].role = "user"}
           l == Len(h)
<1>1. l \in Nat /\ DOMAIN h = 1..l /\ \A i \in 1..l : h[i].said \in SUBSET Nat
  <2>1. l \in Nat /\ DOMAIN h = 1..l /\ \A i \in 1..l : h[i] \in TestMsgs  BY DEF TestHists
  <2>2. \A x \in TestMsgs : x.said \in SUBSET Nat  BY DEF TestMsgs
  <2> QED  BY <2>1, <2>2
<1>2. SpokenIn(h, n) \/ HeardIn(h, n)  BY DEF InTime, ToldIn
<1>3. n \notin S => AnswerIn(h[l], n)  BY DEF InTime
<1>4. h # <<>>  BY <1>2 DEF SpokenIn, TurnIn, HeardIn
<1>5. l > 0  BY <1>1, <1>4 DEF TestHists
<1>6. CASE h[l].role = "user"
  <2>1. l \in 1..l /\ \A i \in 1..l : ~(l < i)  BY <1>1, <1>5
  <2>2. users # {} /\ Test!Max(users) = l
    <3> HIDE DEF users
    <3> QED  BY <1>6, <2>1, LastOfUser DEF users
  <2>3. h[l].said \subseteq {Test!Silence, n}
    <3>1. ~SpokenIn(h, n)  BY <1>6 DEF SpokenIn, TurnIn
    <3> QED  BY <1>2, <3>1 DEF HeardIn
  <2>4. h[l].said = {} => n \in S  BY <1>3 DEF AnswerIn
  <2>5. h[l].said \in SUBSET Nat  BY <1>1, <2>1
  <2> HIDE DEF users
  <2> QED  BY <2>2, <2>3, <2>4, <2>5 DEF users
<1>7. CASE h[l].role # "user"
  <2>1. SpokenIn(h, n) /\ h[l].role = "assistant"
    <3>1. ~HeardIn(h, n)  BY <1>7 DEF HeardIn
    <3> QED  BY <1>2, <3>1 DEF SpokenIn, TurnIn
  <2>2. n \in S  BY <1>3, <1>7 DEF AnswerIn
  <2>3. CASE n = 1
    <3>1. l = 1  BY <2>1, <2>3 DEF SpokenIn, TurnIn
    <3>2. users = {}  BY <1>1, <1>7, <3>1
    <3> HIDE DEF users
    <3> QED  BY <2>2, <3>2 DEF users
  <2>4. CASE n # 1
    <3>1. l > 1 /\ AnswerIn(h[l - 1], n - 1)  BY <2>1, <2>4 DEF SpokenIn, TurnIn
    <3>2. /\ h[l - 1].role = "user" /\ h[l - 1].said # {}
          /\ h[l - 1].said \subseteq {Test!Silence, n - 1}
      BY <3>1 DEF AnswerIn
    <3>3. l - 1 \in 1..l /\ \A i \in 1..l : l - 1 < i => i = l
      <4> HIDE DEF l
      <4> QED  BY <1>1, <3>1
    <3>4. \A i \in 1..l : l - 1 < i => h[i].role # "user"  BY <1>7, <3>3
    <3>5. users # {} /\ Test!Max(users) = l - 1
      <4> HIDE DEF users
      <4> QED  BY <3>2, <3>3, <3>4, LastOfUser DEF users
    <3>6. h[l - 1].said \in SUBSET Nat  BY <1>1, <3>3
    <3> HIDE DEF users
    <3> QED  BY <2>2, <3>2, <3>5, <3>6 DEF users
  <2> QED  BY <2>3, <2>4
<1> QED  BY <1>6, <1>7

\* The stopwatch of the user when the bot begins.
LEMMA WatchStops ==
    ASSUME TestTypes, NEW n \in Nat, n # 0, files = n, Waits(n)
    PROVE  \E j \in 1..n :
             /\ (IF user.audio_start = Test!None THEN user ELSE Test!Timed(user, "text_start", files))
                = [audio_start |-> j, text_start |-> j, audio_end |-> j]
             /\ Len(report) = 1 \/ report[Len(report) - 1].role = "user" => j = n
<1>1. PICK j \in 1..n : /\ user.audio_start = j /\ user.audio_end = j
                        /\ user.text_start = j \/ (user.text_start = Test!None /\ j = n)
  BY DEF Waits
<1>2. user = [audio_start |-> j, text_start |-> user.text_start, audio_end |-> j] /\ j # 0 /\ j \in Nat
  <2>1. user \in UserTimes  BY DEF TestTypes
  <2>2. j # 0 /\ j \in Nat  OBVIOUS
  <2> QED  BY <1>1, <2>1, <2>2 DEF UserTimes
<1>3. user.audio_start # Test!None  BY <1>1, <1>2 DEF Test!None
<1>4. Test!Timed(user, "text_start", files) = [audio_start |-> j, text_start |-> j, audio_end |-> j]
  <2>1. CASE user.text_start = j
    <3>1. user = [audio_start |-> j, text_start |-> j, audio_end |-> j]  BY <1>2, <2>1
    <3> QED  BY <1>2, <3>1 DEF Test!Timed, Test!None
  <2>2. CASE user.text_start = Test!None /\ j = n
    <3>1. user = [audio_start |-> j, text_start |-> Test!None, audio_end |-> j]  BY <1>2, <2>2
    <3> QED  BY <2>2, <3>1 DEF Test!Timed
  <2> QED  BY <1>1, <2>1, <2>2
<1>5. Len(report) = 1 \/ report[Len(report) - 1].role = "user" => j = n  BY <1>1 DEF Waits
<1> QED  BY <1>3, <1>4, <1>5

\* The bot begins: what the user has said to the turn before goes into the report.
LEMMA CreatedStep ==
    ASSUME TestTypes, NEW p \in Places, NEW q \in Places, Between(p, q), RightReport(report, stale),
           recv = "run", Test!OnCreated
    PROVE  Notes
<1>1. Test!Receives("created")  BY DEF Test!OnCreated
<1>2. PICK m \in TestNews, r \in Places :
        m = Head(wire) /\ m.type = "created" /\ Leads(p, m, r, stale) /\ WireLeads(r, wire, q, stale)'
  BY <1>1, Received
<1>3. /\ p.stage = "" /\ m.of = p.turn + 1 /\ InTime(p.hist, p.turn, stale)
      /\ r = Place(p.turn + 1, "created", p.hist)
  BY <1>2 DEF Leads
<1>4. r.turn = p.turn + 1 /\ r.stage = "created" /\ r.hist = p.hist /\ stale' = stale
  BY <1>1, <1>3, Received DEF Place
<1>5. /\ p.turn \in Nat /\ seen = p.hist /\ seen \in TestHists /\ files = p.turn /\ bot = Test!BotReset
      /\ p.turn = 0 => user = Test!UserReset /\ Len(report) = 0
      /\ p.turn # 0 => Waits(p.turn)
      /\ user \in UserTimes /\ report \in Seq(Entries)
  BY <1>3 DEF Between, ClientAt, Places, TestTypes
<1> DEFINE n == p.turn
           made == [created |-> n + 1, text |-> Test!None, audio |-> Test!None, done |-> Test!None]
           watch == IF user.audio_start = Test!None THEN user
                    ELSE Test!Timed(user, "text_start", files)
           users == {i \in DOMAIN seen : seen[i].role = "user"}
           said == seen[Test!Max(users)].said
<1>6. Test!Timed(bot, "created", m.of) = made /\ made \in BotTimes
  <2>1. n + 1 \in Nat  BY <1>5
  <2>2. m.of = n + 1 /\ bot = Test!BotReset  BY <1>3, <1>5
  <2>3. Test!Timed(Test!BotReset, "created", n + 1) = made
    BY DEF Test!Timed, Test!BotReset, Test!None
  <2>4. made \in BotTimes  BY <2>1 DEF BotTimes, Test!None
  <2> QED  BY <2>2, <2>3, <2>4
<1>7. IF users = {} \/ said = {}
      THEN user' = watch /\ bot' = made /\ UNCHANGED <<recv, queue, seen, files, report>>
      ELSE Test!Done(watch, DOMAIN watch) =>
             /\ Test!Reported("user", said, watch, user') /\ bot' = made
             /\ UNCHANGED <<recv, queue, seen, files>>
  <2> HIDE DEF made
  <2> QED  BY <1>2, <1>6 DEF Test!OnCreated
<1> HIDE DEF watch, users, said, made
<1>8. ASSUME recv' = recv, bot' = made, UNCHANGED <<queue, seen, files>>, user' \in UserTimes,
             report' \in Seq(Entries), UpTo(n, stale)', RightReport(report, stale)'
      PROVE  Notes
  <2>1. n + 1 \in Nat /\ n + 1 > 0 /\ (n + 1) - 1 = n  BY <1>5
  <2>2. ClientAt(r)'
    <3> HIDE DEF n
    <3> QED  BY <1>4, <1>5, <1>8, <2>1 DEF ClientAt, Test!None, made, n
  <2>3. seen' \in TestHists /\ bot' \in BotTimes  BY <1>5, <1>6, <1>8
  <2>4. InStep'  BY <1>1, <1>2, <1>8, <2>2, <2>3, ClientMoves
  <2> QED  BY <1>8, <2>4 DEF Notes
<1>9. CASE n = 0
  <2>1. users = {}
    <3>1. seen = <<>>  BY <1>3, <1>5, <1>9 DEF InTime, ToldIn
    <3> QED  BY <3>1 DEF users
  <2>2. user = Test!UserReset /\ Len(report) = 0 /\ watch = Test!UserReset
    BY <1>5, <1>9 DEF Test!UserReset, Test!None, watch
  <2>3. user' = Test!UserReset /\ bot' = made /\ UNCHANGED <<recv, queue, seen, files, report>>
    BY <1>7, <2>1, <2>2
  <2>4. UpTo(n, stale)'  BY <1>9, <2>2, <2>3 DEF UpTo, Test!UserReset
  <2>5. RightReport(report, stale)'  BY <1>4, <2>3, NotesKept
  <2> QED  BY <1>5, <1>8, <2>2, <2>3, <2>4, <2>5
<1>10. CASE n # 0
  <2>1. PICK j \in 1..n : /\ watch = [audio_start |-> j, text_start |-> j, audio_end |-> j]
                          /\ Len(report) = 1 \/ report[Len(report) - 1].role = "user" => j = n
    BY <1>5, <1>10, WatchStops DEF watch
  <2>2. IF users = {} \/ said = {} THEN n \in stale
        ELSE /\ said \in SUBSET Nat
             /\ said \subseteq {Test!Silence, n} \/ (n \in stale /\ said \subseteq {Test!Silence, n - 1})
    BY <1>3, <1>5, <1>10, ToldOfUser DEF users, said
  <2>3. n \in Nat /\ j \in Nat /\ j # 0  BY <1>5
  <2>4. watch \in UserTimes  BY <2>1, <2>3 DEF UserTimes
  <2>5. /\ Len(report) > 0 /\ report[Len(report)].role = "assistant"
        /\ report[Len(report)].times.done = n
    BY <1>5, <1>10 DEF Waits
  <2>6. CASE users = {} \/ said = {}
    <3>1. user' = watch /\ bot' = made /\ UNCHANGED <<recv, queue, seen, files, report>>
      BY <1>7, <2>6
    <3>2. UserMissing(n, stale)'  BY <1>4, <2>1, <2>2, <2>5, <2>6, <3>1 DEF UserMissing
    <3>3. UpTo(n, stale)'  BY <1>10, <2>5, <3>1, <3>2 DEF UpTo
    <3>4. RightReport(report, stale)'  BY <1>4, <3>1, NotesKept
    <3> QED  BY <1>5, <1>8, <2>4, <3>1, <3>3, <3>4
  <2>7. CASE ~(users = {} \/ said = {})
    <3> DEFINE e == [role |-> "user", said |-> said, times |-> watch]
    <3>1. Test!Done(watch, DOMAIN watch)  BY <2>1, <2>3 DEF Test!Done, Test!None
    <3>2. /\ Test!Reported("user", said, watch, user') /\ bot' = made
          /\ UNCHANGED <<recv, queue, seen, files>>
      BY <1>7, <2>7, <3>1
    <3>3. report' = Append(report, e) /\ user' = Test!UserReset
      BY <2>1, <3>2 DEF Test!Reported, Test!Entry, Test!UserReset
    <3>4. e \in Entries /\ e.role = "user" /\ e.said = said /\ e.times = watch
      BY <2>2, <2>4, <2>7 DEF Entries
    <3> HIDE DEF e
    <3>5. RightEntry(Append(report, e), Len(report) + 1, stale)
      BY <1>5, <2>1, <2>2, <2>3, <2>5, <2>7, <3>4, UserEntry
    <3>6. RightReport(report', stale)
      BY <1>5, <3>3, <3>4, <3>5, ReportGrows
    <3>7. report' \in Seq(Entries) /\ Len(report') = Len(report) + 1 /\ Len(report) \in Nat
          /\ report'[Len(report')] = e /\ report'[Len(report') - 1] = report[Len(report)]
      <4>1. Len(report) \in Nat /\ Len(report) \in 1..Len(report)  BY <1>5, <2>5
      <4>2. \A k \in 1..Len(report) : Append(report, e)[k] = report[k]  BY <1>5
      <4>3. /\ Append(report, e) \in Seq(Entries) /\ Len(Append(report, e)) = Len(report) + 1
            /\ Append(report, e)[Len(report) + 1] = e
        BY <1>5, <3>4
      <4>4. (Len(report) + 1) - 1 = Len(report)  BY <4>1
      <4> QED  BY <3>3, <4>1, <4>2, <4>3, <4>4
    <3>8. UserDone(n)'
      <4>1. Len(report') > 1  BY <2>5, <3>7
      <4>2. report'[Len(report')].role = "user"  BY <3>4, <3>7
      <4>3. report'[Len(report') - 1].times.done = n  BY <2>5, <3>7
      <4> QED  BY <3>3, <4>1, <4>2, <4>3 DEF UserDone, Test!UserReset
    <3>9. UpTo(n, stale)'
      <4>1. Len(report') > 0  BY <3>7
      <4> QED  BY <1>10, <3>8, <4>1 DEF UpTo
    <3>10. user' \in UserTimes  BY <3>3 DEF Test!UserReset, Test!None, UserTimes
    <3>11. RightReport(report, stale)'  BY <1>4, <3>6
    <3> QED  BY <1>8, <3>2, <3>7, <3>9, <3>10, <3>11
  <2> QED  BY <2>6, <2>7
<1> QED  BY <1>9, <1>10

\* The turn of the bot has ended: it goes into the report, and the answer into the queue.
LEMMA DoneStep ==
    ASSUME TestTypes, NEW p \in Places, NEW q \in Places, Between(p, q), RightReport(report, stale),
           recv = "run", Test!OnDone
    PROVE  Notes
<1>1. Test!Receives("done")  BY DEF Test!OnDone
<1>2. PICK m \in TestNews, r \in Places :
        m = Head(wire) /\ m.type = "done" /\ Leads(p, m, r, stale) /\ WireLeads(r, wire, q, stale)'
  BY <1>1, Received
<1>3. p.stage = "audio" /\ m.of = p.turn /\ SpokenIn(p.hist, p.turn) /\ r = Place(p.turn, "", p.hist)
  BY <1>2 DEF Leads
<1>4. r.turn = p.turn /\ r.stage = "" /\ r.hist = p.hist /\ stale' = stale
  BY <1>1, <1>3, Received DEF Place
<1>5. /\ p.turn > 0 /\ p.turn \in Nat /\ seen = p.hist /\ seen \in TestHists /\ files = p.turn - 1
      /\ UpTo(p.turn - 1, stale) /\ report \in Seq(Entries) /\ Len(report) \in Nat
      /\ bot = [created |-> p.turn, text |-> p.turn, audio |-> p.turn, done |-> Test!None]
  <2>1. ClientAt(p) /\ p.turn \in Nat  BY DEF Between, Places
  <2>2. seen \in TestHists /\ report \in Seq(Entries)  BY DEF TestTypes
  <2>3. Len(report) \in Nat  BY <2>2
  <2> QED  BY <1>3, <2>1, <2>2, <2>3 DEF ClientAt
<1> DEFINE n == p.turn
           times == [created |-> n, text |-> n, audio |-> n, done |-> n]
           said == seen[Len(seen)].said
           e == [role |-> "assistant", said |-> said, times |-> times]
<1>6. n \in Nat /\ n > 0 /\ n # 0 /\ files + 1 = n /\ n - 1 \in Nat /\ (n - 1 = 0 <=> n = 1)
  <2>1. n \in Nat /\ n > 0 /\ files = n - 1  BY <1>5
  <2> HIDE DEF n
  <2> QED  BY <2>1
<1>7. seen # <<>> /\ said = {n} /\ Test!Last(seen).said = said
  BY <1>3, <1>5 DEF SpokenIn, TurnIn, Test!Last
<1>8. Test!Done(bot, {"created", "text", "audio"})
  BY <1>5, <1>6 DEF Test!Done, Test!None
<1>9. /\ Test!Reported("assistant", said, Test!Timed(bot, "done", n), bot')
      /\ files' = n /\ seen' = seen
      /\ user' = Test!Timed(Test!Timed(user, "audio_start", n), "audio_end", n)
      /\ \/ recv' = "report"
         \/ recv' = "run" /\ queue' = queue \o <<n>>
  <2> HIDE DEF n, said
  <2> QED  BY <1>2, <1>3, <1>6, <1>7, <1>8 DEF Test!OnDone, n
<1>10. Test!Timed(bot, "done", n) = times
  BY <1>5 DEF Test!Timed, Test!None
<1>11. report' = Append(report, e) /\ bot' = Test!BotReset
  BY <1>9, <1>10 DEF Test!Reported, Test!Entry, Test!BotReset
<1>12. e \in Entries /\ e.role = "assistant" /\ e.said = {n} /\ e.times = times
  <2>1. said \in SUBSET Nat  BY <1>6, <1>7
  <2>2. times \in BotTimes  BY <1>6 DEF BotTimes
  <2> HIDE DEF said, times
  <2> QED  BY <1>7, <2>1, <2>2 DEF Entries
<1>13. e.times.done = n  BY <1>12
<1>14. UpTo(n - 1, stale) /\ (n # 1 => UserDone(n - 1) \/ UserMissing(n - 1, stale))
  BY <1>5, <1>6 DEF UpTo
<1>15. n = 1 => Len(report) = 0 /\ user = Test!UserReset
  BY <1>6, <1>14 DEF UpTo
<1>16. n # 1 => Len(report) > 0  BY <1>6, <1>14 DEF UpTo
<1>17. n # 1 => \/ /\ report[Len(report)].role = "user" /\ Len(report) > 1
                   /\ report[Len(report) - 1].times.done = n - 1
                \/ /\ report[Len(report)].role = "assistant"
                   /\ report[Len(report)].times.done = n - 1 /\ n - 1 \in stale
  BY <1>14 DEF UserDone, UserMissing
<1> HIDE DEF e, said
<1>18. RightEntry(Append(report, e), Len(report) + 1, stale)
  <2> HIDE DEF n
  <2> QED  BY <1>5, <1>6, <1>12, <1>15, <1>16, <1>17, BotEntry DEF n
<1>19. RightReport(report', stale)  BY <1>5, <1>11, <1>12, <1>18, ReportGrows
<1>20. /\ report' \in Seq(Entries) /\ Len(report') = Len(report) + 1 /\ report'[Len(report')] = e
       /\ Len(report) > 0 => report'[Len(report') - 1] = report[Len(report)]
  <2>1. Len(report) > 0 => Len(report) \in 1..Len(report)  BY <1>5
  <2>2. \A k \in 1..Len(report) : Append(report, e)[k] = report[k]  BY <1>5
  <2>3. /\ Append(report, e) \in Seq(Entries) /\ Len(Append(report, e)) = Len(report) + 1
        /\ Append(report, e)[Len(report) + 1] = e
    BY <1>5, <1>12
  <2>4. (Len(report) + 1) - 1 = Len(report)  BY <1>5
  <2> QED  BY <1>11, <2>1, <2>2, <2>3, <2>4
<1>21. Waits(n)' /\ user' \in UserTimes
  <2>1. /\ Len(report') > 0 /\ report'[Len(report')].role = "assistant"
        /\ report'[Len(report')].times.done = n
    BY <1>5, <1>12, <1>13, <1>20
  <2>2. CASE user = Test!UserReset
    <3>1. user' = [audio_start |-> n, text_start |-> Test!None, audio_end |-> n]
      BY <1>6, <1>9, <2>2 DEF Test!Timed, Test!None, Test!UserReset
    <3>2. user' \in UserTimes  BY <1>6, <3>1 DEF UserTimes, Test!None
    <3>3. n \in 1..n  BY <1>6
    <3>4. /\ user'.audio_start = n /\ user'.audio_end = n /\ user'.text_start = Test!None
      BY <3>1
    <3> HIDE DEF n
    <3> QED  BY <2>1, <3>2, <3>3, <3>4 DEF Waits, Test!None
  <2>3. CASE user # Test!UserReset
    <3>1. n # 1 /\ ~UserDone(n - 1)  BY <1>15, <2>3 DEF UserDone
    <3>2. UserMissing(n - 1, stale) /\ Len(report) > 0  BY <1>14, <1>16, <3>1
    <3>3. PICK j \in 1..(n - 1) : user = [audio_start |-> j, text_start |-> j, audio_end |-> j]
      BY <3>2 DEF UserMissing
    <3>4. j \in Nat /\ j # 0 /\ j \in 1..n  BY <1>6
    <3>5. user' = [audio_start |-> j, text_start |-> j, audio_end |-> j]
      BY <1>9, <3>3, <3>4 DEF Test!Timed, Test!None
    <3>6. Len(report') # 1 /\ report'[Len(report') - 1].role = "assistant"
      BY <1>5, <1>20, <3>2 DEF UserMissing
    <3>7. user' \in UserTimes  BY <3>4, <3>5 DEF UserTimes
    <3>8. user'.audio_start = j /\ user'.audio_end = j /\ user'.text_start = j  BY <3>5
    <3> HIDE DEF n
    <3> QED  BY <2>1, <3>4, <3>6, <3>7, <3>8 DEF Waits
  <2> QED  BY <2>2, <2>3
<1>22. ASSUME recv' = "run" PROVE InStep'
  <2>1. /\ UNCHANGED <<hist, turn, stage, inbox, told, sentFile>>
        /\ SessionAt(q)' /\ wire' \in Seq(TestNews) /\ DoneIsLast(wire', q)
        /\ ~Quiet(wire) /\ Quiet(wire') /\ q.stage = "" /\ q.turn = n
    BY <1>1, <1>2, <1>3, Received DEF Milestones
  <2>2. inbox = <<>> /\ queue = <<>> /\ ~(sentFile.left > 0)
    BY <2>1 DEF Between, FilesAt, Sending
  <2>3. queue' = <<n>>  BY <1>9, <1>22, <2>2
  <2>4. FilesAt(wire, q)'
    <3>1. /\ \A i \in 1..Len(inbox') : inbox'[i] = files'
          /\ \A i \in 1..Len(queue') : queue'[i] = files'
      <4>1. Len(inbox') = 0  BY <2>1, <2>2
      <4>2. Len(queue') = 1 /\ queue'[1] = n /\ files' = n  BY <1>9, <2>3
      <4> QED  BY <4>1, <4>2
    <3> QED  BY <1>6, <1>9, <2>1, <2>2, <3>1 DEF FilesAt
  <2>5. ClientAt(r)'
    <3> HIDE DEF n
    <3> QED  BY <1>4, <1>5, <1>6, <1>9, <1>11, <1>21 DEF ClientAt, Test!BotReset, Test!None, n
  <2>6. TestTypes'
    <3>1. queue' \in Seq(Nat)  BY <1>6, <2>3
    <3>2. bot' \in BotTimes  BY <1>11 DEF BotTimes, Test!None, Test!BotReset
    <3>3. files' \in Nat /\ seen' \in TestHists  BY <1>5, <1>6, <1>9
    <3>4. stale' \in SUBSET Nat  BY <1>4 DEF TestTypes
    <3> QED  BY <1>20, <1>21, <2>1, <3>1, <3>2, <3>3, <3>4 DEF TestTypes
  <2> QED  BY <1>2, <2>1, <2>4, <2>5, <2>6 DEF InStep, Between
<1>23. recv' # "error"  BY <1>9
<1>24. RightReport(report, stale)'  BY <1>4, <1>19
<1> QED  BY <1>22, <1>23, <1>24 DEF Notes

-----------------------------------------------------------------------------
LEMMA NotPositive == \A n \in Nat : n = 0 => ~(n > 0)
  OBVIOUS

\* The invariant holds at the start: everyone is at the place before the first turn.
LEMMA TestStart == Test!Init => TestInv
<1> SUFFICES ASSUME Test!Init PROVE TestInv  OBVIOUS
<1>1. /\ hist = <<>> /\ inbox = <<>> /\ wire = <<>> /\ told = <<>>
      /\ queue = <<>> /\ seen = <<>> /\ report = <<>>
  BY DEF Test!Init
<1>2. turn = 0 /\ files = 0 /\ stage = ""  BY DEF Test!Init
<1>3. user = Test!UserReset /\ bot = Test!BotReset /\ recv # "error"  BY DEF Test!Init
<1>4. sentFile \in [id : Nat, left : Nat] /\ ~(sentFile.left > 0)
  <2>1. sentFile = [id |-> 0, left |-> 0]  BY DEF Test!Init, Test!None
  <2>2. sentFile \in [id : Nat, left : Nat] /\ sentFile.left = 0  BY <2>1
  <2> QED  BY <2>2, NotPositive
<1>5. PICK p \in Places : p = Place(0, "", <<>>)  BY PlaceMade, NoHist
<1>6. p.turn = 0 /\ p.stage = "" /\ p.hist = <<>>  BY <1>5 DEF Place
<1>7. Len(<<>>) = 0 /\ DOMAIN <<>> = {} /\ \A i \in 1..0 : FALSE  OBVIOUS
<1>8. stale = {} /\ WireLeads(p, wire, p, stale)  BY <1>1, WireEmpty DEF Test!Init
<1>9. ClientAt(p)
  <2>1. seen = p.hist /\ files = p.turn /\ Len(report) = 0  BY <1>1, <1>2, <1>6, <1>7
  <2>2. ~(p.turn > 0)
    <3>1. p.turn = 0  BY <1>6
    <3>2. p.turn \in Nat  BY <3>1
    <3> QED  BY <3>1, <3>2, NotPositive
  <2> QED  BY <1>3, <1>6, <2>1, <2>2 DEF ClientAt
<1>10. SessionAt(p)
  <2>1. EndsIn(<<>>, 0, "")  BY DEF EndsIn
  <2>2. ToldIn(<<>>, 0)  BY DEF ToldIn
  <2> QED  BY <1>1, <1>2, <1>5, <2>1, <2>2 DEF SessionAt
<1>11. FilesAt(wire, p)
  <2>1. ~Sending  BY <1>1, <1>4 DEF Sending
  <2>2. DoneIsLast(wire, p)  BY <1>1, <1>7 DEF DoneIsLast
  <2>3. (\A i \in 1..Len(inbox) : FALSE) /\ (\A i \in 1..Len(queue) : FALSE)  BY <1>1, <1>7
  <2> QED  BY <1>4, <2>1, <2>2, <2>3 DEF FilesAt
<1>12. TestTypes
  <2>1. user \in UserTimes /\ bot \in BotTimes
    BY <1>3 DEF Test!UserReset, Test!BotReset, Test!None, UserTimes, BotTimes
  <2>2. hist \in TestHists /\ told \in TestHists /\ seen \in TestHists  BY <1>1, NoHist
  <2>3. wire \in Seq(TestNews) /\ inbox \in Seq(Nat) /\ queue \in Seq(Nat) /\ report \in Seq(Entries)
    <3>1. \A S : <<>> \in Seq(S)  OBVIOUS
    <3> QED  BY <1>1, <3>1
  <2> QED  BY <1>2, <1>4, <1>8, <2>1, <2>2, <2>3 DEF TestTypes
<1>13. RightTimes
  <2>1. DOMAIN report = {}  BY <1>1, <1>7
  <2> QED  BY <1>3, <2>1 DEF RightTimes, Test!RightTimes
<1> QED  BY <1>5, <1>8, <1>9, <1>10, <1>11, <1>12, <1>13 DEF TestInv, InStep, Between

\* What was disturbed stays so.
LEMMA DisturbedStays == [Test!Next]_testVars /\ disturbed' = {} => disturbed = {}
<1>1. \A n : Test!Disturbed(n) => disturbed' # {}  BY DEF Test!Disturbed
<1>2. \A news : Test!Interrupted(news) => disturbed' # {}  BY <1>1 DEF Test!Interrupted
<1>3. Test!Answers \/ Test!BotEnds \/ Test!Hears \/ Test!InterruptedByVAD
      => disturbed' = disturbed \/ disturbed' # {}
  BY <1>1, <1>2 DEF Test!Answers, Test!BotEnds, Test!Hears, Test!InterruptedByVAD
<1>4. \/ Test!LongSilence \/ Test!BotGoesOn \/ Test!BotSays \/ Test!HearsNothing \/ Test!Updates
      \/ Test!SessionEnds \/ Test!Begins \/ Test!BeginsNot \/ Test!SendsUpdate \/ Test!Takes
      \/ Test!Sends \/ Test!EmitBreaks
      => disturbed' = disturbed
  BY DEF Test!LongSilence, Test!BotGoesOn, Test!BotSays, Test!HearsNothing, Test!Updates,
         Test!SessionEnds, Test!Begins, Test!BeginsNot, Test!SendsUpdate, Test!Takes, Test!Sends,
         Test!EmitBreaks, Test!sessionVars
<1>5. \A type : Test!Receives(type) => disturbed' = disturbed  BY DEF Test!Receives
<1>6. \/ Test!OnCreated \/ Test!OnText \/ Test!OnAudio \/ Test!OnDone \/ Test!OnWord
      \/ Test!OnOutputs \/ Test!OnClosed \/ Test!OnLost
      => disturbed' = disturbed
  BY <1>5 DEF Test!OnCreated, Test!OnText, Test!OnAudio, Test!OnDone, Test!OnWord, Test!OnOutputs,
              Test!OnClosed, Test!OnLost
<1>7. UNCHANGED testVars => disturbed' = disturbed  BY DEF testVars
<1> QED  BY <1>3, <1>4, <1>6, <1>7 DEF Test!Next

\* A step of the session or of a file changes nothing of what the client notes.
LEMMA SessionLeavesNotes ==
    \/ Test!LongSilence \/ Test!Answers \/ Test!BotGoesOn \/ Test!BotSays \/ Test!BotEnds
    \/ Test!Hears \/ Test!InterruptedByVAD \/ Test!HearsNothing \/ Test!Updates
    \/ Test!SessionEnds \/ Test!Begins \/ Test!SendsUpdate \/ Test!Takes \/ Test!Sends
    \/ Test!EmitBreaks
    => UNCHANGED <<recv, report>> /\ stale \subseteq stale'
  BY DEF Test!LongSilence, Test!Answers, Test!BotGoesOn, Test!BotSays, Test!BotEnds, Test!Hears,
         Test!InterruptedByVAD, Test!HearsNothing, Test!Updates, Test!SessionEnds, Test!Begins,
         Test!SendsUpdate, Test!Takes, Test!Sends, Test!EmitBreaks, Test!recvVars, Test!sessionVars

\* What the report of an undisturbed conversation should be.
LEMMA RightTimesIs ==
    RightTimes <=> (disturbed = {} => recv # "error" /\ RightReport(report, stale))
  BY DEF RightTimes, Test!RightTimes, Test!OfTheBot, Test!OfTheUser, Test!TurnOf, TurnIs,
         RightReport, RightEntry, RightBot, RightUser

\* Every step keeps the invariant, case by case.
LEMMA TestStep == TestInv /\ [Test!Next]_testVars => TestInv'
<1> SUFFICES ASSUME TestInv, [Test!Next]_testVars, disturbed' = {}, disturbed = {}
             PROVE  RightTimes' /\ (recv' = "run" => InStep')
  BY DisturbedStays DEF TestInv
<1>1. recv # "error" /\ RightReport(report, stale) /\ (recv = "run" => InStep)
  BY RightTimesIs DEF TestInv
<1> SUFFICES Notes
  <2>1. Notes => RightTimes'
    BY DEF Notes, RightTimes, Test!RightTimes, Test!OfTheBot, Test!OfTheUser, Test!TurnOf, TurnIs,
           RightReport, RightEntry, RightBot, RightUser, Test!TimedBy, Test!Silence
  <2> QED  BY <2>1 DEF Notes
<1>2. CASE recv # "run"
  <2>1. CASE UNCHANGED <<recv, report>> /\ stale \subseteq stale'
    BY <1>1, <1>2, <2>1, NotesKept DEF Notes
  <2>2. CASE Test!BeginsNot  BY <1>1, <2>2, EndStep
  <2>3. UNCHANGED testVars => UNCHANGED <<recv, report>> /\ stale \subseteq stale'  BY DEF testVars
  <2>4. \A type : ~Test!Receives(type)  BY <1>2 DEF Test!Receives
  <2>5. ~(\/ Test!OnCreated \/ Test!OnText \/ Test!OnAudio \/ Test!OnDone \/ Test!OnWord
          \/ Test!OnOutputs \/ Test!OnClosed \/ Test!OnLost)
    BY <2>4 DEF Test!OnCreated, Test!OnText, Test!OnAudio, Test!OnDone, Test!OnWord, Test!OnOutputs,
                Test!OnClosed, Test!OnLost
  <2> QED  BY <2>1, <2>2, <2>3, <2>5, SessionLeavesNotes DEF Test!Next
<1>3. CASE recv = "run"
  <2>1. TestTypes  BY <1>1, <1>3 DEF InStep
  <2>2. PICK p, q \in Places : Between(p, q)  BY <1>1, <1>3 DEF InStep
  <2>3. CASE \/ Test!LongSilence \/ Test!Answers \/ Test!BotGoesOn \/ Test!BotSays \/ Test!BotEnds
             \/ Test!Hears \/ Test!HearsNothing \/ Test!Updates \/ Test!SessionEnds
             \/ Test!Begins \/ Test!SendsUpdate \/ Test!Takes \/ Test!Sends \/ Test!EmitBreaks
    <3>1. UNCHANGED <<recv, report>> /\ stale \subseteq stale'  BY <2>3, SessionLeavesNotes
    <3>2. InStep'
      BY <2>1, <2>2, <2>3, LongSilenceStep, AnswersStep, BotGoesOnStep, BotSaysStep, BotEndsStep,
         HearsStep, UpdatesStep, SessionEndsStep, FilesStep
    <3> QED  BY <1>1, <1>3, <3>1, <3>2, NotesKept DEF Notes
  <2>4. CASE Test!InterruptedByVAD
    BY <2>4 DEF Test!InterruptedByVAD, Test!Interrupted, Test!Disturbed
  <2>5. CASE \/ Test!OnCreated \/ Test!OnText \/ Test!OnAudio \/ Test!OnDone \/ Test!OnWord
             \/ Test!OnOutputs
    BY <1>1, <1>3, <2>1, <2>2, <2>5, CreatedStep, TextStep, AudioStep, DoneStep, WordStep, OutputsStep
  <2>6. CASE Test!BeginsNot \/ Test!OnClosed \/ Test!OnLost  BY <1>1, <1>3, <2>6, EndStep
  <2>7. CASE UNCHANGED testVars
    <3>1. UNCHANGED <<hist, turn, stage, inbox, wire, told, sentFile, queue, seen, user, bot, files,
                      report, stale>>
      BY <2>7 DEF testVars
    <3>2. /\ inbox \in Seq(Nat) /\ queue \in Seq(Nat) /\ sentFile \in [id : Nat, left : Nat]
          /\ \A i \in 1..Len(inbox) : inbox[i] = files
          /\ \A i \in 1..Len(queue) : queue[i] = files
          /\ sentFile.left > 0 => sentFile.id = files
      BY <2>1, <2>2 DEF TestTypes, Between, FilesAt
    <3>3. Sending' => Sending  BY <3>1 DEF Sending
    <3>4. InStep'  BY <2>1, <2>2, <3>1, <3>2, <3>3, FilesMove
    <3> QED  BY <1>1, <1>3, <2>7, <3>4, NotesKept DEF Notes, testVars
  <2> QED  BY <2>3, <2>4, <2>5, <2>6, <2>7 DEF Test!Next
<1> QED  BY <1>2, <1>3

\* In a conversation of any length in which the bot waits for the end of each file and puts
\* its turns out to their ends, the phase checks never fail, the bot's entries are of one turn
\* after the other and measured on it, and a history that comes too late for an answer leaves
\* out or mixes up at most the user's entries until it is in time again.
THEOREM ReportIsRight == Test!Spec => []RightTimes
<1>1. TestInv => RightTimes  BY DEF TestInv, RightTimes, Test!RightTimes
<1>2. TestInv /\ [Test!Next]_Test!vars => TestInv'
  BY TestStep DEF Test!vars, Test!sessionVars, Test!emitVars, Test!recvVars, testVars
<1> QED  BY <1>1, <1>2, TestStart, PTL DEF Test!Spec
=============================================================================
