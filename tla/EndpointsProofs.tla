--------------------------- MODULE EndpointsProofs ---------------------------
(***************************************************************************)
(* Proofs about the endpoints besides the websocket, for any number of     *)
(* processes, submissions and requests, any crash and any error of the     *)
(* disk, of Redis or of a server.                                          *)
(*                                                                         *)
(* Voices: a donation that was acknowledged.                               *)
(* With Redis every process sees the same verification, and the files are  *)
(* safe from all but the submissions handled at the same time; without it  *)
(* at most one process is concerned with the verification (OneHolder).     *)
(* Both are the condition Alone, under which the files follow the handler. *)
(* The embedding of a voice is the upload itself, or older than an hour.   *)
(*                                                                         *)
(* OneShot: an answer that is given as a success.  The route says that it  *)
(* is done after silence that was long enough for the last word (Enough),  *)
(* and the collector ends with the server, or with everything that was to  *)
(* come (Rest).                                                            *)
(***************************************************************************)
EXTENDS MCEndpoints, FiniteSetTheorems, TLAPS

\* The verification, as a process sees it.
Ver(p) == cache["verification"][CacheOf(p)]

\* The process has it, or handles a submission of it.
Active(p) == doing[p] # None \/ Ver(p) # Nothing

Alone(s) == ~redis \/ rivals[s] = {}

\* A process handles one submission or none, and nobody else handles it.
Handling ==
    \A p \in Processes :
        /\ doing[p].step = "idle" <=> doing[p].sub = Nothing
        /\ \A s \in Submissions : s \in doing[p].sub => doing[p].sub = {s} /\ reply[s] = "none"
        /\ \A q \in Processes : doing[p].sub # Nothing /\ doing[q].sub = doing[p].sub => q = p

\* Those that are handled have met.
Together ==
    \A p, q \in Processes, s, t \in Submissions :
        doing[p].sub = {s} /\ doing[q].sub = {t} /\ s # t => t \in rivals[s]

OneHolder == ~redis => \A p, q \in Processes : Active(p) /\ Active(q) => p = q

Unasked == asked = Nothing => \A p \in Processes : ~Active(p)

\* Whoever was acknowledged has used the verification up; who is handled still was let
\* in before.
UsedUp ==
    \A s \in Submissions : reply[s] = "ok" =>
        /\ asked # Nothing
        /\ \A p \in Processes : Ver(p) = Nothing /\ (Alone(s) => doing[p] = None)

Files ==
    \A s \in Submissions : Alone(s) =>
        /\ reply[s] = "ok" => wav = s /\ json = s
        /\ \A p \in Processes : doing[p].sub = {s} =>
            /\ doing[p].step \in {"metadata", "delete"} => wav = s
            /\ doing[p].step = "delete" => json = s

Inv == Handling /\ Together /\ OneHolder /\ Unasked /\ UsedUp /\ Files

-----------------------------------------------------------------------------
(* Types *)

LEMMA Records ==
    ASSUME TypeOK, NEW p \in Processes
    PROVE  doing[p] = [sub |-> doing[p].sub, step |-> doing[p].step]
  BY DEF TypeOK

LEMMA KeysOK ==
    ASSUME NEW p \in Processes
    PROVE  CacheOf(p) \in Caches /\ {p} \in Caches /\ {} \in Caches
                /\ "verification" \in Kinds /\ "voice" \in Kinds
  BY DEF CacheOf, Caches, Kinds

\* Whatever is set in a cache, deleted or expires, it holds times.
LEMMA CacheOps ==
    ASSUME TypeOK, NEW p \in Processes, NEW k \in Kinds
    PROVE  /\ Set(k, p) \in [Kinds -> [Caches -> SUBSET Nat]]
           /\ Delete(k, p) \in [Kinds -> [Caches -> SUBSET Nat]]
           /\ AfterGet(k, p) \in [Kinds -> [Caches -> SUBSET Nat]]
<1>1. now \in Nat  BY VoicesAssumption DEF TypeOK
<1>2. CacheOf(p) \in Caches  BY KeysOK
<1>3. cache \in [Kinds -> [Caches -> SUBSET Nat]]  BY DEF TypeOK
<1>4. Set(k, p) \in [Kinds -> [Caches -> SUBSET Nat]]  BY <1>1, <1>2, <1>3 DEF Set
<1>5. Delete(k, p) \in [Kinds -> [Caches -> SUBSET Nat]]  BY <1>2, <1>3 DEF Delete, Nothing
<1> QED  BY <1>3, <1>4, <1>5 DEF AfterGet

LEMMA TypeInit == Init => TypeOK
  BY VoicesAssumption DEF Init, TypeOK, None, Nothing

LEMMA MeetsType ==
    ASSUME TypeOK, NEW s \in Submissions
    PROVE  Meets(s) \in [Submissions -> SUBSET Submissions]
  BY DEF Meets, InHand, TypeOK

\* The types of doing and reply at the end of a submission.
LEMMA EndsTypes ==
    ASSUME TypeOK, NEW p \in Processes, NEW s \in Submissions,
           NEW answer \in {"ok", "400", "500"}, Ends(p, s, answer)
    PROVE  /\ doing' \in [Processes -> [sub : SUBSET Submissions, step : {"idle", "audio", "metadata", "delete"}]]
           /\ reply' \in [Submissions -> {"none", "ok", "400", "500", "lost"}]
  BY DEF TypeOK, Ends, None, Nothing

LEMMA DonationTypes ==
    ASSUME TypeOK, NEW p \in Processes, NEW s \in Submissions,
           \/ Submit(p, s) \/ SubmitFails(p, s) \/ WriteAudio(p, s) \/ WriteMetadata(p, s) \/ Finish(p, s)
    PROVE  TypeOK'
<1>1. CASE Submit(p, s)
  <2>1. cache' \in [Kinds -> [Caches -> SUBSET Nat]]  BY <1>1, CacheOps, KeysOK DEF Submit
  <2>2. CASE Valid(p)
    <3>1. doing' \in [Processes -> [sub : SUBSET Submissions, step : {"idle", "audio", "metadata", "delete"}]]
      BY <1>1, <2>2 DEF Submit, TypeOK
    <3>2. rivals' \in [Submissions -> SUBSET Submissions]  BY <1>1, <2>2, MeetsType DEF Submit
    <3> QED  BY <1>1, <2>1, <2>2, <3>1, <3>2 DEF Submit, TypeOK
  <2>3. CASE ~Valid(p)
    <3>1. Ends(p, s, "400") /\ rivals' = rivals  BY <1>1, <2>3 DEF Submit
    <3> QED  BY <1>1, <2>1, <3>1, EndsTypes DEF Submit, TypeOK
  <2> QED  BY <2>2, <2>3
<1>2. CASE SubmitFails(p, s)
  <2>1. reply' \in [Submissions -> {"none", "ok", "400", "500", "lost"}]  BY <1>2 DEF SubmitFails, TypeOK
  <2> QED  BY <1>2, <2>1 DEF SubmitFails, TypeOK
<1>3. CASE WriteAudio(p, s)
  <2>1. CASE wav' = s /\ doing' = [doing EXCEPT ![p].step = "metadata"] /\ UNCHANGED reply
    <3>1. doing' \in [Processes -> [sub : SUBSET Submissions, step : {"idle", "audio", "metadata", "delete"}]]
      BY <2>1 DEF TypeOK
    <3> QED  BY <1>3, <2>1, <3>1 DEF WriteAudio, TypeOK
  <2>2. CASE wav' = "torn" /\ Ends(p, s, "500")
    BY <1>3, <2>2, EndsTypes DEF WriteAudio, TypeOK
  <2> QED  BY <1>3, <2>1, <2>2 DEF WriteAudio
<1>4. CASE WriteMetadata(p, s)
  <2>1. CASE json' = s /\ doing' = [doing EXCEPT ![p].step = "delete"] /\ UNCHANGED reply
    <3>1. doing' \in [Processes -> [sub : SUBSET Submissions, step : {"idle", "audio", "metadata", "delete"}]]
      BY <2>1 DEF TypeOK
    <3> QED  BY <1>4, <2>1, <3>1 DEF WriteMetadata, TypeOK
  <2>2. CASE json' = "torn" /\ Ends(p, s, "500")
    BY <1>4, <2>2, EndsTypes DEF WriteMetadata, TypeOK
  <2> QED  BY <1>4, <2>1, <2>2 DEF WriteMetadata
<1>5. CASE Finish(p, s)
  <2>1. cache' \in [Kinds -> [Caches -> SUBSET Nat]]
    <3>1. cache' = Delete("verification", p) \/ cache' = cache  BY <1>5 DEF Finish, Spent
    <3>2. Delete("verification", p) \in [Kinds -> [Caches -> SUBSET Nat]]  BY CacheOps, KeysOK
    <3> QED  BY <3>1, <3>2 DEF TypeOK
  <2>2. Ends(p, s, "ok") \/ Ends(p, s, "500")  BY <1>5 DEF Finish
  <2> QED  BY <1>5, <2>1, <2>2, EndsTypes DEF Finish, TypeOK
<1> QED  BY <1>1, <1>2, <1>3, <1>4, <1>5

LEMMA TypeStep == TypeOK /\ [Next]_vars => TypeOK'
<1> SUFFICES ASSUME TypeOK, [Next]_vars PROVE TypeOK'  OBVIOUS
<1>1. CASE Tick
  <2>1. now' \in 0..Horizon  BY <1>1, VoicesAssumption DEF Tick, TypeOK
  <2> QED  BY <1>1, <2>1 DEF Tick, TypeOK
<1>2. ASSUME NEW k \in Kinds, RedisExpires(k) PROVE TypeOK'
  <2>1. cache' \in [Kinds -> [Caches -> SUBSET Nat]]  BY <1>2 DEF RedisExpires, TypeOK, Nothing
  <2> QED  BY <1>2, <2>1 DEF RedisExpires, TypeOK
<1>3. ASSUME NEW k \in Kinds, NEW p \in Processes, Cleanup(k, p) PROVE TypeOK'
  <2>1. cache' \in [Kinds -> [Caches -> SUBSET Nat]]  BY <1>3, CacheOps DEF Cleanup
  <2> QED  BY <1>3, <2>1 DEF Cleanup, TypeOK
<1>4. ASSUME NEW p \in Processes, Generate(p) PROVE TypeOK'
  <2>1. cache' \in [Kinds -> [Caches -> SUBSET Nat]]  BY <1>4, CacheOps, KeysOK DEF Generate
  <2>2. asked' \in SUBSET Nat  BY <1>4, VoicesAssumption DEF Generate, TypeOK
  <2> QED  BY <1>4, <2>1, <2>2 DEF Generate, TypeOK
<1>5. ASSUME NEW p \in Processes, CloneVoice(p) PROVE TypeOK'
  <2>1. cache' \in [Kinds -> [Caches -> SUBSET Nat]]  BY <1>5, CacheOps, KeysOK DEF CloneVoice
  <2>2. uploaded' \in SUBSET Nat  BY <1>5, VoicesAssumption DEF CloneVoice, TypeOK
  <2> QED  BY <1>5, <2>1, <2>2 DEF CloneVoice, TypeOK
<1>6. ASSUME NEW p \in Processes, StartVoice(p) PROVE TypeOK'
  <2>1. AfterGet("voice", p) \in [Kinds -> [Caches -> SUBSET Nat]]  BY CacheOps, KeysOK
  <2>2. cache' \in [Kinds -> [Caches -> SUBSET Nat]]
    <3>1. cache' = AfterGet("voice", p) \/ cache' = cache  BY <1>6 DEF StartVoice
    <3> QED  BY <2>1, <3>1 DEF TypeOK
  <2>3. voice' \in {"none", "custom", "default", "failed"}  BY <1>6 DEF StartVoice
  <2> QED  BY <1>6, <2>2, <2>3 DEF StartVoice, TypeOK
<1>7. ASSUME NEW p \in Processes, Restart(p) PROVE TypeOK'
  <2>1. cache' \in [Kinds -> [Caches -> SUBSET Nat]]  BY <1>7 DEF Restart, TypeOK, Nothing
  <2>2. doing' \in [Processes -> [sub : SUBSET Submissions, step : {"idle", "audio", "metadata", "delete"}]]
    BY <1>7 DEF Restart, TypeOK, None, Nothing
  <2>3. reply' \in [Submissions -> {"none", "ok", "400", "500", "lost"}]
    BY <1>7 DEF Restart, TypeOK
  <2>4. wav' \in Submissions \cup {"none", "torn"} /\ json' \in Submissions \cup {"none", "torn"}
    BY <1>7 DEF Restart, TypeOK
  <2> QED  BY <1>7, <2>1, <2>2, <2>3, <2>4 DEF Restart, TypeOK
<1>8. CASE UNCHANGED vars  BY <1>8 DEF vars, TypeOK
<1> QED  BY <1>1, <1>2, <1>3, <1>4, <1>5, <1>6, <1>7, <1>8, DonationTypes DEF Next

-----------------------------------------------------------------------------
(* What the steps do to the verification *)

\* Nobody gets to see a verification that it did not see.
Shrinks == \A p \in Processes : Ver(p)' \in {Ver(p), Nothing}

LEMMA CacheEffects ==
    ASSUME TypeOK, NEW p \in Processes, redis' = redis
    PROVE  /\ cache' = cache => Shrinks
           /\ cache' = Set("voice", p) => Shrinks
           /\ \A k \in Kinds : cache' = Delete(k, p) \/ cache' = AfterGet(k, p) => Shrinks
           /\ cache' = Delete("verification", p) => Ver(p)' = Nothing
<1> USE DEF Ver, CacheOf, Kinds
<1>1. cache' = cache => Shrinks  BY DEF Shrinks
<1>2. cache' = Set("voice", p) => Shrinks  BY KeysOK DEF Shrinks, Set, TypeOK
<1>3. ASSUME NEW k \in Kinds, cache' = Delete(k, p) PROVE Shrinks
  BY <1>3, KeysOK DEF Shrinks, Delete, TypeOK
<1>4. ASSUME NEW k \in Kinds, cache' = AfterGet(k, p) PROVE Shrinks
  BY <1>4, <1>1, <1>3 DEF AfterGet
<1>5. ASSUME cache' = Delete("verification", p) PROVE Ver(p)' = Nothing
  <2>1. "verification" \in Kinds /\ CacheOf(p) \in Caches  BY KeysOK
  <2>2. cache'["verification"][CacheOf(p)] = Nothing  BY <1>5, <2>1 DEF Delete, TypeOK
  <2> QED  BY <2>2
<1> QED  BY <1>1, <1>2, <1>3, <1>4, <1>5

\* Nobody forgets whom it met.
Remembers == \A t \in Submissions : rivals[t] \subseteq rivals'[t]

LEMMA Monotone ==
    ASSUME redis' = redis, Remembers, NEW t \in Submissions, Alone(t)'
    PROVE  Alone(t)
  BY DEF Alone, Remembers

LEMMA TogetherStays ==
    ASSUME Inv, rivals' = rivals,
           \A p \in Processes : doing'[p].sub = doing[p].sub \/ doing'[p].sub = Nothing
    PROVE  Together'
<1> SUFFICES ASSUME NEW p \in Processes, NEW q \in Processes, NEW s \in Submissions,
                    NEW t \in Submissions, doing'[p].sub = {s}, doing'[q].sub = {t}, s # t
             PROVE  t \in rivals'[s]
  BY DEF Together
<1>1. doing[p].sub = {s} /\ doing[q].sub = {t}  BY DEF Nothing
<1> QED  BY <1>1 DEF Inv, Together

\* Steps that let nobody see the verification, or handle it, who did not see it.
LEMMA Fades ==
    ASSUME Inv, redis' = redis, asked' = asked, Shrinks, Remembers,
           \A p \in Processes : doing'[p] = None \/ Active(p),
           \A s \in Submissions : reply'[s] = "ok" => reply[s] = "ok"
    PROVE  OneHolder' /\ Unasked' /\ UsedUp'
<1>1. \A p \in Processes : Active(p)' => Active(p)  BY DEF Active, Shrinks
<1>2. OneHolder'  BY <1>1 DEF Inv, OneHolder
<1>3. Unasked'  BY <1>1 DEF Inv, Unasked
<1>4. UsedUp'
  <2> SUFFICES ASSUME NEW s \in Submissions, reply'[s] = "ok"
               PROVE  /\ asked' # Nothing
                      /\ \A p \in Processes : Ver(p)' = Nothing /\ (Alone(s)' => doing'[p] = None)
    BY DEF UsedUp
  <2>1. asked # Nothing /\ \A p \in Processes : Ver(p) = Nothing /\ (Alone(s) => doing[p] = None)
    BY DEF Inv, UsedUp
  <2>2. Alone(s)' => Alone(s)  BY Monotone
  <2> QED  BY <2>1, <2>2 DEF Shrinks, Active
<1> QED  BY <1>2, <1>3, <1>4

\* Steps that leave the files alone, and take no submission past the first of them.
LEMMA FilesStay ==
    ASSUME Inv, redis' = redis, wav' = wav, json' = json, Remembers,
           \A p \in Processes : doing'[p].step \in {"metadata", "delete"} => doing'[p] = doing[p],
           \A s \in Submissions : reply'[s] = "ok" => reply[s] = "ok"
    PROVE  Files'
<1> SUFFICES ASSUME NEW s \in Submissions, Alone(s)'
             PROVE  /\ reply'[s] = "ok" => wav' = s /\ json' = s
                    /\ \A p \in Processes : doing'[p].sub = {s} =>
                        /\ doing'[p].step \in {"metadata", "delete"} => wav' = s
                        /\ doing'[p].step = "delete" => json' = s
  BY DEF Files
<1>1. Alone(s)  BY Monotone
<1> QED  BY <1>1 DEF Inv, Files

\* Steps that have nothing to do with the donation.
LEMMA Quiet ==
    ASSUME Inv, Shrinks, UNCHANGED <<redis, asked, doing, reply, wav, json, rivals>>
    PROVE  Inv'
<1>0. Remembers  BY DEF Remembers
<1>1. OneHolder' /\ Unasked' /\ UsedUp'  BY <1>0, Fades DEF Active
<1>2. Files'  BY <1>0, FilesStay
<1>3. Handling' /\ Together'  BY TogetherStays DEF Inv, Handling
<1> QED  BY <1>1, <1>2, <1>3 DEF Inv

\* While s is handled, whoever has not met it was not acknowledged and is not handled.
LEMMA Others ==
    ASSUME TypeOK, Inv, NEW p \in Processes, NEW s \in Submissions, doing[p].sub = {s},
           NEW t \in Submissions \ {s}, Alone(t)
    PROVE  reply[t] # "ok" /\ \A q \in Processes : doing[q].sub # {t}
<1>1. doing[p] # None  BY DEF None, Nothing
<1>2. reply[t] # "ok"  BY <1>1 DEF Inv, UsedUp
<1>3. ASSUME NEW q \in Processes, doing[q].sub = {t} PROVE FALSE
  <2>1. CASE redis
    <3>1. s \in rivals[t]  BY <1>3 DEF Inv, Together
    <3> QED  BY <2>1, <3>1 DEF Alone
  <2>2. CASE ~redis
    <3>1. doing[q] # None  BY <1>3 DEF None, Nothing
    <3>2. q = p  BY <1>1, <2>2, <3>1 DEF Inv, OneHolder, Active
    <3> QED  BY <1>3, <3>2
  <2> QED  BY <2>1, <2>2
<1> QED  BY <1>2, <1>3

\* A step of the process that handles s, which leaves every other submission alone.
LEMMA OwnStep ==
    ASSUME TypeOK, Inv, NEW p \in Processes, NEW s \in Submissions, doing[p].sub = {s},
           redis' = redis, rivals' = rivals,
           \A q \in Processes \ {p} : doing'[q] = doing[q],
           \A t \in Submissions \ {s} : reply'[t] = reply[t],
           \/ doing'[p] = None /\ reply'[s] \in {"ok", "500", "lost"}
           \/ doing'[p].sub = {s} /\ doing'[p].step # "idle" /\ reply'[s] = reply[s],
           Alone(s) =>
             /\ reply'[s] = "ok" => wav' = s /\ json' = s
             /\ doing'[p].step \in {"metadata", "delete"} => wav' = s
             /\ doing'[p].step = "delete" => json' = s
    PROVE  Handling' /\ Together' /\ Files'
<1>1. reply[s] = "none"  BY DEF Inv, Handling
<1>2. \A q \in Processes \ {p} : s \notin doing[q].sub
  <2> SUFFICES ASSUME NEW q \in Processes \ {p}, s \in doing[q].sub PROVE FALSE  OBVIOUS
  <2>1. doing[q].sub = {s}  BY DEF Inv, Handling
  <2>2. doing[p].sub # Nothing /\ doing[q].sub = doing[p].sub  BY <2>1 DEF Nothing
  <2> QED  BY <2>2 DEF Inv, Handling
<1>3. Handling'
  <2> SUFFICES ASSUME NEW q \in Processes
               PROVE  /\ doing'[q].step = "idle" <=> doing'[q].sub = Nothing
                      /\ \A t \in Submissions : t \in doing'[q].sub => doing'[q].sub = {t} /\ reply'[t] = "none"
                      /\ \A r \in Processes : doing'[q].sub # Nothing /\ doing'[r].sub = doing'[q].sub => r = q
    BY DEF Handling
  <2>1. doing'[q].step = "idle" <=> doing'[q].sub = Nothing  BY DEF Inv, Handling, None, Nothing
  <2>2. \A t \in Submissions : t \in doing'[q].sub => doing'[q].sub = {t} /\ reply'[t] = "none"
    BY <1>1, <1>2 DEF Inv, Handling, None, Nothing
  <2>3. \A r \in Processes : doing'[q].sub # Nothing /\ doing'[r].sub = doing'[q].sub => r = q
    BY <1>2 DEF Inv, Handling, None, Nothing
  <2> QED  BY <2>1, <2>2, <2>3
<1>4. Together'
  <2>1. None.sub = Nothing  BY DEF None
  <2>2. doing'[p].sub = doing[p].sub \/ doing'[p].sub = Nothing  BY <2>1
  <2>3. \A q \in Processes : doing'[q].sub = doing[q].sub \/ doing'[q].sub = Nothing  BY <2>2
  <2> QED  BY <2>3, TogetherStays
<1>5. Files'
  <2> SUFFICES ASSUME NEW t \in Submissions, Alone(t)'
               PROVE  /\ reply'[t] = "ok" => wav' = t /\ json' = t
                      /\ \A q \in Processes : doing'[q].sub = {t} =>
                          /\ doing'[q].step \in {"metadata", "delete"} => wav' = t
                          /\ doing'[q].step = "delete" => json' = t
    BY DEF Files
  <2>1. CASE t = s
    <3>1. Alone(s)  BY <2>1 DEF Alone
    <3>2. \A q \in Processes : doing'[q].sub = {s} => q = p  BY <1>2
    <3> QED  BY <2>1, <3>1, <3>2
  <2>2. CASE t # s
    <3>1. Alone(t)  BY DEF Alone
    <3>2. reply[t] # "ok" /\ \A q \in Processes : doing[q].sub # {t}  BY <2>2, <3>1, Others
    <3>3. \A q \in Processes : doing'[q].sub # {t}  BY <2>2, <3>2 DEF None, Nothing
    <3> QED  BY <2>2, <3>2, <3>3
  <2> QED  BY <2>1, <2>2
<1> QED  BY <1>3, <1>4, <1>5

-----------------------------------------------------------------------------
(* The steps *)

LEMMA GenerateStep ==
    ASSUME TypeOK, Inv, NEW p \in Processes, Generate(p)
    PROVE  Inv'
<1>1. UNCHANGED <<redis, doing, reply, wav, json, rivals>> /\ asked = Nothing
  BY DEF Generate
<1>2. asked' # Nothing  BY DEF Generate, Nothing
<1>3. \A q \in Processes : ~Active(q)  BY <1>1 DEF Inv, Unasked
<1>4. ASSUME ~redis, NEW q \in Processes \ {p} PROVE Ver(q)' = Ver(q)
  <2>1. {p} \in Caches /\ {q} \in Caches /\ {q} # {p} /\ "verification" \in Kinds  BY KeysOK
  <2>2. cache' = [cache EXCEPT !["verification"][{p}] = {now}]  BY <1>4 DEF Generate, Set, CacheOf
  <2>3. cache'["verification"][{q}] = cache["verification"][{q}]  BY <2>1, <2>2 DEF TypeOK
  <2> QED  BY <1>1, <1>4, <2>3 DEF Ver, CacheOf
<1>5. OneHolder'  BY <1>1, <1>3, <1>4 DEF OneHolder, Active
<1>6. Unasked'  BY <1>2 DEF Unasked
<1>7. UsedUp'  BY <1>1 DEF Inv, UsedUp
<1>8. Files'  BY <1>1, FilesStay DEF Remembers
<1>9. Handling' /\ Together'  BY <1>1, TogetherStays DEF Inv, Handling
<1> QED  BY <1>5, <1>6, <1>7, <1>8, <1>9 DEF Inv

LEMMA SubmitStep ==
    ASSUME TypeOK, Inv, NEW p \in Processes, NEW s \in Submissions, Submit(p, s)
    PROVE  Inv'
<1>1. redis' = redis /\ asked' = asked /\ wav' = wav /\ json' = json  BY DEF Submit
<1>2. doing[p] = None /\ reply[s] = "none" /\ \A q \in Processes : doing[q].sub # {s}  BY DEF Submit
<1>3. Shrinks
  <2>1. cache' = AfterGet("verification", p)  BY DEF Submit
  <2> QED  BY <1>1, <2>1, CacheEffects, KeysOK
<1>4. CASE Valid(p)
  <2>1. doing' = [doing EXCEPT ![p] = [sub |-> {s}, step |-> "audio"]] /\ reply' = reply
        /\ rivals' = Meets(s)
    BY <1>4 DEF Submit
  <2>2. Ver(p) # Nothing  BY <1>4 DEF Valid, Get, Ver, Nothing
  <2>3. doing'[p] = [sub |-> {s}, step |-> "audio"] /\ \A q \in Processes \ {p} : doing'[q] = doing[q]
    BY <2>1 DEF TypeOK
  <2>4. Remembers  BY <2>1 DEF Remembers, Meets
  <2>5. OneHolder' /\ Unasked' /\ UsedUp'
    <3>1. \A q \in Processes : doing'[q] = None \/ Active(q)  BY <2>2, <2>3 DEF Active
    <3> QED  BY <1>1, <1>3, <2>1, <2>4, <3>1, Fades
  <2>6. Files'  BY <1>1, <2>1, <2>3, <2>4, FilesStay
  <2>7. Handling'  BY <1>2, <2>1, <2>3 DEF Inv, Handling, Nothing
  <2>8. Together'
    <3> SUFFICES ASSUME NEW q \in Processes, NEW o \in Processes, NEW t \in Submissions,
                        NEW u \in Submissions, doing'[q].sub = {t}, doing'[o].sub = {u}, t # u
                 PROVE  u \in rivals'[t]
      BY DEF Together
    <3>1. CASE q = p
      <4>1. t = s /\ doing[o].sub = {u}  BY <2>3, <3>1
      <4> QED  BY <2>1, <4>1 DEF Meets, InHand
    <3>2. CASE o = p /\ q # p
      <4>1. u = s /\ doing[q].sub = {t}  BY <2>3, <3>2
      <4> QED  BY <2>1, <4>1 DEF Meets, InHand
    <3>3. CASE o # p /\ q # p
      <4>1. u \in rivals[t]  BY <2>3, <3>3 DEF Inv, Together
      <4> QED  BY <2>4, <4>1 DEF Remembers
    <3> QED  BY <3>1, <3>2, <3>3
  <2> QED  BY <2>5, <2>6, <2>7, <2>8 DEF Inv
<1>5. CASE ~Valid(p)
  <2>1. Ends(p, s, "400") /\ rivals' = rivals  BY <1>5 DEF Submit
  <2>2. doing' = doing  BY <1>2, <2>1 DEF Ends, TypeOK
  <2>3. reply'[s] = "400" /\ \A t \in Submissions \ {s} : reply'[t] = reply[t]
    BY <2>1 DEF Ends, TypeOK
  <2>4. OneHolder' /\ Unasked' /\ UsedUp'
    BY <1>1, <1>3, <2>1, <2>2, <2>3, Fades DEF Active, Remembers
  <2>5. Files'  BY <1>1, <2>1, <2>2, <2>3, FilesStay DEF Remembers
  <2>6. Handling' /\ Together'  BY <1>2, <2>1, <2>2, <2>3, TogetherStays DEF Inv, Handling
  <2> QED  BY <2>4, <2>5, <2>6 DEF Inv
<1> QED  BY <1>4, <1>5

LEMMA SubmitFailsStep ==
    ASSUME TypeOK, Inv, NEW p \in Processes, NEW s \in Submissions, SubmitFails(p, s)
    PROVE  Inv'
<1>1. UNCHANGED <<redis, cache, asked, doing, wav, json, rivals>> /\ reply[s] = "none"
  BY DEF SubmitFails
<1>2. \A q \in Processes : doing[q].sub # {s}  BY DEF SubmitFails
<1>3. reply'[s] = "500" /\ \A t \in Submissions \ {s} : reply'[t] = reply[t]  BY DEF SubmitFails, TypeOK
<1>4. Shrinks  BY <1>1, CacheEffects
<1>5. OneHolder' /\ Unasked' /\ UsedUp'  BY <1>1, <1>3, <1>4, Fades DEF Active, Remembers
<1>6. Files'  BY <1>1, <1>3, FilesStay DEF Remembers
<1>7. Handling' /\ Together'  BY <1>1, <1>2, <1>3, TogetherStays DEF Inv, Handling
<1> QED  BY <1>5, <1>6, <1>7 DEF Inv

\* The end of a submission: the process is free and the submission answered.
LEMMA EndsEffects ==
    ASSUME TypeOK, NEW p \in Processes, NEW s \in Submissions, NEW answer, Ends(p, s, answer)
    PROVE  /\ doing'[p] = None /\ \A q \in Processes \ {p} : doing'[q] = doing[q]
           /\ reply'[s] = answer /\ \A t \in Submissions \ {s} : reply'[t] = reply[t]
  BY DEF Ends, TypeOK

\* Going on with a submission: nobody else sees the verification for it.
LEMMA OwnFades ==
    ASSUME Inv, NEW p \in Processes, NEW s \in Submissions, doing[p].sub = {s},
           redis' = redis, asked' = asked, rivals' = rivals, Shrinks,
           \A q \in Processes \ {p} : doing'[q] = doing[q],
           \A t \in Submissions \ {s} : reply'[t] = reply[t],
           reply'[s] = "ok" => reply[s] = "ok"
    PROVE  OneHolder' /\ Unasked' /\ UsedUp'
<1>1. doing[p] # None  BY DEF None, Nothing
<1>2. \A q \in Processes : doing'[q] = None \/ Active(q)  BY <1>1 DEF Active
<1>3. \A t \in Submissions : reply'[t] = "ok" => reply[t] = "ok"  OBVIOUS
<1> QED  BY <1>2, <1>3, Fades DEF Remembers

LEMMA WriteAudioStep ==
    ASSUME TypeOK, Inv, NEW p \in Processes, NEW s \in Submissions, WriteAudio(p, s)
    PROVE  Inv'
<1>1. doing[p].sub = {s} /\ UNCHANGED <<redis, cache, asked, json, rivals>>
  BY DEF WriteAudio
<1>2. Shrinks  BY <1>1, CacheEffects
<1>3. CASE wav' = s /\ doing' = [doing EXCEPT ![p].step = "metadata"] /\ UNCHANGED reply
  <2>1. doing'[p].sub = {s} /\ doing'[p].step = "metadata" /\ \A q \in Processes \ {p} : doing'[q] = doing[q]
    BY <1>1, <1>3 DEF TypeOK
  <2>2. reply[s] = "none"  BY <1>1 DEF Inv, Handling
  <2>3. Handling' /\ Together' /\ Files'  BY <1>1, <1>3, <2>1, <2>2, OwnStep
  <2>4. OneHolder' /\ Unasked' /\ UsedUp'  BY <1>1, <1>2, <1>3, <2>1, OwnFades
  <2> QED  BY <2>3, <2>4 DEF Inv
<1>4. CASE wav' = "torn" /\ Ends(p, s, "500")
  <2>1. /\ doing'[p] = None /\ \A q \in Processes \ {p} : doing'[q] = doing[q]
        /\ reply'[s] = "500" /\ \A t \in Submissions \ {s} : reply'[t] = reply[t]
    BY <1>4, EndsEffects
  <2>2. Handling' /\ Together' /\ Files'  BY <1>1, <2>1, OwnStep DEF None
  <2>3. OneHolder' /\ Unasked' /\ UsedUp'  BY <1>1, <1>2, <2>1, OwnFades
  <2> QED  BY <2>2, <2>3 DEF Inv
<1> QED  BY <1>3, <1>4 DEF WriteAudio

LEMMA WriteMetadataStep ==
    ASSUME TypeOK, Inv, NEW p \in Processes, NEW s \in Submissions, WriteMetadata(p, s)
    PROVE  Inv'
<1>1. doing[p] = [sub |-> {s}, step |-> "metadata"] /\ UNCHANGED <<redis, cache, asked, wav, rivals>>
  BY DEF WriteMetadata
<1>2. Shrinks  BY <1>1, CacheEffects
<1>3. CASE json' = s /\ doing' = [doing EXCEPT ![p].step = "delete"] /\ UNCHANGED reply
  <2>1. doing'[p].sub = {s} /\ doing'[p].step = "delete" /\ \A q \in Processes \ {p} : doing'[q] = doing[q]
    BY <1>1, <1>3 DEF TypeOK
  <2>2. reply[s] = "none"  BY <1>1 DEF Inv, Handling
  <2>3. Alone(s) => wav = s  BY <1>1 DEF Inv, Files
  <2>4. Handling' /\ Together' /\ Files'  BY <1>1, <1>3, <2>1, <2>2, <2>3, OwnStep
  <2>5. OneHolder' /\ Unasked' /\ UsedUp'  BY <1>1, <1>2, <1>3, <2>1, OwnFades
  <2> QED  BY <2>4, <2>5 DEF Inv
<1>4. CASE json' = "torn" /\ Ends(p, s, "500")
  <2>1. /\ doing'[p] = None /\ \A q \in Processes \ {p} : doing'[q] = doing[q]
        /\ reply'[s] = "500" /\ \A t \in Submissions \ {s} : reply'[t] = reply[t]
    BY <1>4, EndsEffects
  <2>2. Handling' /\ Together' /\ Files'  BY <1>1, <2>1, OwnStep DEF None
  <2>3. OneHolder' /\ Unasked' /\ UsedUp'  BY <1>1, <1>2, <2>1, OwnFades
  <2> QED  BY <2>2, <2>3 DEF Inv
<1> QED  BY <1>3, <1>4 DEF WriteMetadata

\* The verification is deleted for every process: with Redis they share the cache, without it
\* nobody else is concerned.
LEMMA FinishStep ==
    ASSUME TypeOK, Inv, NEW p \in Processes, NEW s \in Submissions, Finish(p, s)
    PROVE  Inv'
<1>1. doing[p] = [sub |-> {s}, step |-> "delete"] /\ UNCHANGED <<redis, asked, wav, json, rivals>>
  BY DEF Finish
<1>2. doing[p] # None  BY <1>1 DEF None
<1>3. Alone(s) => wav = s /\ json = s  BY <1>1 DEF Inv, Files
<1>4. CASE cache' = Spent(p) /\ Ends(p, s, "ok")
  <2>1. /\ doing'[p] = None /\ \A q \in Processes \ {p} : doing'[q] = doing[q]
        /\ reply'[s] = "ok" /\ \A t \in Submissions \ {s} : reply'[t] = reply[t]
    BY <1>4, EndsEffects
  <2>2. Handling' /\ Together' /\ Files'  BY <1>1, <1>3, <2>1, OwnStep DEF None
  <2>3. Shrinks /\ Ver(p)' = Nothing  BY <1>1, <1>4, CacheEffects, KeysOK DEF Spent
  <2>4. \A q \in Processes : Active(q)' => Active(q)  BY <1>2, <2>1, <2>3 DEF Active, Shrinks
  <2>5. OneHolder'  BY <1>1, <2>4 DEF Inv, OneHolder
  <2>6. asked' # Nothing  BY <1>1, <1>2 DEF Inv, Unasked, Active
  <2>7. \A q \in Processes : Ver(q)' = Nothing
    <3> SUFFICES ASSUME NEW q \in Processes PROVE Ver(q)' = Nothing  OBVIOUS
    <3>1. CASE redis
      <4>1. CacheOf(q)' = CacheOf(p)'  BY <1>1, <3>1 DEF CacheOf
      <4> QED  BY <1>1, <3>1, <2>3, <4>1 DEF Ver
    <3>2. CASE ~redis /\ q = p  BY <3>2, <2>3
    <3>3. CASE ~redis /\ q # p
      <4>1. ~Active(q)  BY <1>2, <3>3 DEF Inv, OneHolder, Active
      <4> QED  BY <4>1, <2>3 DEF Active, Shrinks
    <3> QED  BY <3>1, <3>2, <3>3
  <2>8. ASSUME NEW t \in Submissions, reply'[t] = "ok", Alone(t)', NEW q \in Processes
        PROVE  doing'[q] = None
    <3>1. Alone(t)  BY <1>1, <2>8 DEF Alone
    <3>2. t = s
      <4>1. t # s => reply[t] # "ok"  BY <1>1, <3>1, Others
      <4> QED  BY <2>1, <2>8, <4>1
    <3>3. CASE q = p  BY <2>1, <3>3
    <3>4. CASE q # p
      <4>1. ASSUME doing[q] # None PROVE FALSE
        <5>1. CASE ~redis  BY <1>2, <3>4, <4>1, <5>1 DEF Inv, OneHolder, Active
        <5>2. CASE redis
          <6>1. doing[q].sub # Nothing
            <7>1. doing[q] = [sub |-> doing[q].sub, step |-> doing[q].step]  BY Records
            <7>2. doing[q].sub = Nothing => doing[q].step = "idle"  BY DEF Inv, Handling
            <7> QED  BY <4>1, <7>1, <7>2 DEF None
          <6>2. PICK u \in Submissions : u \in doing[q].sub  BY <6>1 DEF TypeOK, Nothing
          <6>3. doing[q].sub = {u}  BY <6>2 DEF Inv, Handling
          <6>4. u # s
            <7>1. u = s => doing[q].sub = doing[p].sub  BY <1>1, <6>3
            <7> QED  BY <3>4, <6>1, <7>1 DEF Inv, Handling
          <6>5. doing[p].sub = {s}  BY <1>1
          <6>6. u \in rivals[s]  BY <6>3, <6>4, <6>5 DEF Inv, Together
          <6> QED  BY <3>1, <3>2, <5>2, <6>6 DEF Alone
        <5> QED  BY <5>1, <5>2
      <4> QED  BY <2>1, <3>4, <4>1
    <3> QED  BY <3>3, <3>4
  <2>9. UsedUp'  BY <2>6, <2>7, <2>8 DEF UsedUp
  <2> QED  BY <2>2, <2>5, <2>6, <2>9 DEF Inv, Unasked
<1>5. CASE UNCHANGED cache /\ Ends(p, s, "500")
  <2>1. /\ doing'[p] = None /\ \A q \in Processes \ {p} : doing'[q] = doing[q]
        /\ reply'[s] = "500" /\ \A t \in Submissions \ {s} : reply'[t] = reply[t]
    BY <1>5, EndsEffects
  <2>2. Handling' /\ Together' /\ Files'  BY <1>1, <2>1, OwnStep DEF None
  <2>3. Shrinks  BY <1>1, <1>5, CacheEffects
  <2>4. OneHolder' /\ Unasked' /\ UsedUp'  BY <1>1, <2>1, <2>3, OwnFades
  <2> QED  BY <2>2, <2>4 DEF Inv
<1> QED  BY <1>4, <1>5 DEF Finish

LEMMA RestartStep ==
    ASSUME TypeOK, Inv, NEW p \in Processes, Restart(p)
    PROVE  Inv'
<1>1. UNCHANGED <<redis, asked, rivals>>  BY DEF Restart
<1>2. Shrinks
  <2> SUFFICES ASSUME NEW q \in Processes PROVE Ver(q)' \in {Ver(q), Nothing}  BY DEF Shrinks
  <2>1. cache' = [k \in Kinds |-> [cache[k] EXCEPT ![{p}] = Nothing]]  BY DEF Restart
  <2>2. CacheOf(q) \in Caches /\ "verification" \in Kinds  BY KeysOK
  <2>3. cache'["verification"][CacheOf(q)] \in {cache["verification"][CacheOf(q)], Nothing}
    BY <2>1, <2>2 DEF TypeOK
  <2>4. CacheOf(q)' = CacheOf(q)  BY <1>1 DEF CacheOf
  <2> QED  BY <2>3, <2>4 DEF Ver
<1>3. doing' = [doing EXCEPT ![p] = None]  BY DEF Restart
<1>4. doing'[p] = None /\ \A q \in Processes \ {p} : doing'[q] = doing[q]  BY <1>3 DEF TypeOK
<1>5. reply' = [s \in Submissions |-> IF doing[p].sub = {s} THEN "lost" ELSE reply[s]]  BY DEF Restart
<1>6. CASE doing[p].sub = Nothing
  <2>1. doing[p].step = "idle"  BY <1>6 DEF Inv, Handling
  <2>2. doing' = doing
    <3>1. doing[p] = None  BY <1>6, <2>1, Records DEF None
    <3> QED  BY <1>3, <3>1 DEF TypeOK
  <2>3. reply' = reply  BY <1>5, <1>6 DEF TypeOK, Nothing
  <2>4. wav' = wav /\ json' = json  BY <2>1 DEF Restart
  <2> QED  BY <1>1, <1>2, <2>2, <2>3, <2>4, Quiet
<1>7. CASE doing[p].sub # Nothing
  <2>1. PICK s \in Submissions : s \in doing[p].sub  BY <1>7 DEF TypeOK, Nothing
  <2>2. doing[p].sub = {s}  BY <2>1 DEF Inv, Handling
  <2>3. reply'[s] = "lost" /\ \A t \in Submissions \ {s} : reply'[t] = reply[t]  BY <1>5, <2>2
  <2>4. Handling' /\ Together' /\ Files'  BY <1>1, <1>4, <2>2, <2>3, OwnStep DEF None
  <2>5. OneHolder' /\ Unasked' /\ UsedUp'  BY <1>1, <1>2, <1>4, <2>2, <2>3, OwnFades
  <2> QED  BY <2>4, <2>5 DEF Inv
<1> QED  BY <1>6, <1>7

-----------------------------------------------------------------------------
LEMMA Starting == Init => Inv
<1> SUFFICES ASSUME Init PROVE Inv  OBVIOUS
<1>1. \A p \in Processes : doing[p] = None  BY DEF Init
<1>2. \A p \in Processes : Ver(p) = Nothing  BY KeysOK DEF Init, Ver
<1>3. \A s \in Submissions : reply[s] = "none"  BY DEF Init
<1>4. Handling
  <2>1. None.sub = Nothing /\ None.step = "idle"  BY DEF None
  <2> QED  BY <1>1, <2>1 DEF Handling, Nothing
<1>5. Together /\ OneHolder /\ Unasked
  BY <1>1, <1>2 DEF Together, OneHolder, Unasked, Active, None, Nothing
<1>6. UsedUp  BY <1>3 DEF UsedUp
<1>7. Files  BY <1>1, <1>3 DEF Files, None, Nothing
<1> QED  BY <1>4, <1>5, <1>6, <1>7 DEF Inv

LEMMA Step == TypeOK /\ Inv /\ [Next]_vars => Inv'
<1> SUFFICES ASSUME TypeOK, Inv, [Next]_vars PROVE Inv'  OBVIOUS
<1>1. CASE Tick
  <2>1. UNCHANGED <<redis, cache, asked, doing, reply, wav, json, rivals>>  BY <1>1 DEF Tick
  <2>2. Shrinks  BY <2>1 DEF Shrinks, Ver, CacheOf
  <2> QED  BY <2>1, <2>2, Quiet
<1>2. ASSUME NEW k \in Kinds, RedisExpires(k) PROVE Inv'
  <2>1. UNCHANGED <<redis, asked, doing, reply, wav, json, rivals>> /\ redis  BY <1>2 DEF RedisExpires
  <2>2. Shrinks
    <3>1. cache' = [cache EXCEPT ![k][{}] = Nothing]  BY <1>2 DEF RedisExpires
    <3>2. {} \in Caches /\ "verification" \in Kinds  BY DEF Caches, Kinds
    <3>3. cache'["verification"][{}] \in {cache["verification"][{}], Nothing}  BY <3>1, <3>2 DEF TypeOK
    <3> QED  BY <2>1, <3>3 DEF Shrinks, Ver, CacheOf
  <2> QED  BY <2>1, <2>2, Quiet
<1>3. ASSUME NEW k \in Kinds, NEW p \in Processes, Cleanup(k, p) PROVE Inv'
  <2>1. UNCHANGED <<redis, asked, doing, reply, wav, json, rivals>> /\ cache' = Delete(k, p)
    BY <1>3 DEF Cleanup
  <2>2. Shrinks  BY <2>1, CacheEffects
  <2> QED  BY <2>1, <2>2, Quiet
<1>4. ASSUME NEW p \in Processes, CloneVoice(p) PROVE Inv'
  <2>1. UNCHANGED <<redis, asked, doing, reply, wav, json, rivals>> /\ cache' = Set("voice", p)
    BY <1>4 DEF CloneVoice
  <2>2. Shrinks  BY <2>1, CacheEffects
  <2> QED  BY <2>1, <2>2, Quiet
<1>5. ASSUME NEW p \in Processes, StartVoice(p) PROVE Inv'
  <2>1. UNCHANGED <<redis, asked, doing, reply, wav, json, rivals>>  BY <1>5 DEF StartVoice
  <2>2. cache' = AfterGet("voice", p) \/ cache' = cache  BY <1>5 DEF StartVoice
  <2>3. Shrinks  BY <2>1, <2>2, CacheEffects, KeysOK
  <2> QED  BY <2>1, <2>3, Quiet
<1>6. CASE UNCHANGED vars
  <2>1. UNCHANGED <<redis, cache, asked, doing, reply, wav, json, rivals>>  BY <1>6 DEF vars
  <2>2. Shrinks  BY <2>1 DEF Shrinks, Ver, CacheOf
  <2> QED  BY <2>1, <2>2, Quiet
<1> QED
  BY <1>1, <1>2, <1>3, <1>4, <1>5, <1>6, GenerateStep, RestartStep, SubmitStep, SubmitFailsStep,
     WriteAudioStep, WriteMetadataStep, FinishStep DEF Next

\* Only the checks of submit_voice_donation() let a submission in.
LEMMA OnlySubmit ==
    ASSUME TypeOK, Next, NEW p \in Processes, doing[p].step = "idle", doing'[p].step = "audio"
    PROVE  \E t \in Submissions : Submit(p, t) /\ Valid(p)
<1>1. doing'[p] # doing[p]  OBVIOUS
<1>2. ~Tick  BY <1>1 DEF Tick
<1>3. ASSUME NEW k \in Kinds, RedisExpires(k) PROVE FALSE  BY <1>1, <1>3 DEF RedisExpires
<1>4. ASSUME NEW k \in Kinds, NEW q \in Processes, Cleanup(k, q) PROVE FALSE  BY <1>1, <1>4 DEF Cleanup
<1>5. ASSUME NEW q \in Processes, Generate(q) \/ CloneVoice(q) \/ StartVoice(q) PROVE FALSE
  BY <1>1, <1>5 DEF Generate, CloneVoice, StartVoice
<1>6. ASSUME NEW q \in Processes, Restart(q) PROVE FALSE  BY <1>1, <1>6 DEF Restart, TypeOK, None
<1>7. ASSUME NEW q \in Processes, NEW t \in Submissions,
             SubmitFails(q, t) \/ WriteAudio(q, t) \/ WriteMetadata(q, t) \/ Finish(q, t)
      PROVE  FALSE
  <2>1. ~SubmitFails(q, t)  BY <1>1 DEF SubmitFails
  <2>2. ASSUME NEW answer, Ends(q, t, answer) PROVE FALSE  BY <1>1, <2>2 DEF Ends, TypeOK, None
  <2>3. ~WriteAudio(q, t)  BY <2>2 DEF WriteAudio, TypeOK
  <2>4. ~WriteMetadata(q, t)  BY <2>2 DEF WriteMetadata, TypeOK
  <2>5. ~Finish(q, t)  BY <2>2 DEF Finish
  <2> QED  BY <1>7, <2>1, <2>3, <2>4, <2>5
<1>8. PICK q \in Processes, t \in Submissions : Submit(q, t)
  BY <1>2, <1>3, <1>4, <1>5, <1>6, <1>7 DEF Next
<1>9. Valid(q)
  <2> SUFFICES ASSUME ~Valid(q) PROVE FALSE  OBVIOUS
  <2>1. Ends(q, t, "400")  BY <1>8 DEF Submit
  <2> QED  BY <1>1, <2>1 DEF Ends, TypeOK, None
<1>10. q = p  BY <1>1, <1>8, <1>9 DEF Submit, TypeOK
<1> QED  BY <1>8, <1>9, <1>10

LEMMA Invariant == Spec => [](TypeOK /\ Inv)
<1>1. Init => TypeOK /\ Inv  BY TypeInit, Starting
<1>2. TypeOK /\ Inv /\ [Next]_vars => (TypeOK /\ Inv)'  BY TypeStep, Step
<1> QED  BY <1>1, <1>2, PTL DEF Spec

\* The variables keep their types, for any time to live and any number of processes.
THEOREM TypeCorrect == Spec => []TypeOK
  BY Invariant, PTL

\* What was acknowledged stays on disk, whatever fails or dies, and whoever sends the
\* verification before or after: without Redis always, with it unless another submission
\* was handled at the same time.
THEOREM AcknowledgedIsKept == Spec => []OkIsKept
<1>1. TypeOK /\ Inv => OkIsKept  BY DEF Inv, Files, Alone, OkIsKept
<1> QED  BY <1>1, Invariant, PTL

\* A verification is good for one donation, however many processes serve the donor.
THEOREM GoodForOne == Spec => SpentOnce
<1> DEFINE A == \A p \in Processes, s \in Submissions :
                  reply[s] = "ok" => ~(doing[p].step = "idle" /\ doing'[p].step = "audio")
<1>1. TypeOK /\ Inv /\ [Next]_vars => [A]_vars
  <2> SUFFICES ASSUME TypeOK, Inv, Next, NEW p \in Processes, NEW s \in Submissions,
                      reply[s] = "ok", doing[p].step = "idle", doing'[p].step = "audio"
               PROVE  FALSE
    OBVIOUS
  <2>1. PICK t \in Submissions : Submit(p, t) /\ Valid(p)  BY OnlySubmit
  <2>2. Ver(p) # Nothing  BY <2>1 DEF Valid, Get, Ver, Nothing
  <2> QED  BY <2>2 DEF Inv, UsedUp
<1>2. Spec => [][A]_vars  BY <1>1, Invariant, PTL DEF Spec
<1> QED  BY <1>2 DEF SpentOnce

-----------------------------------------------------------------------------
(* The uploaded voice *)

OldUpload == \E t \in uploaded : now >= t + Hour
VoiceKept == redis => uploaded = Nothing \/ cache["voice"][{}] = uploaded \/ OldUpload

\* A step that leaves the shared embedding alone, or lets it expire.
LEMMA VoiceStays ==
    ASSUME TypeOK, VoiceKept, redis' = redis, uploaded' = uploaded, now' = now \/ now' = now + 1,
           redis => cache'["voice"][{}] = cache["voice"][{}] \/ Expired(cache["voice"][{}])
    PROVE  VoiceKept'
<1>1. OldUpload => OldUpload'
  <2>1. uploaded \in SUBSET Nat /\ now \in Nat /\ Hour \in Nat  BY VoicesAssumption DEF TypeOK
  <2> QED  BY <2>1 DEF OldUpload
<1>2. redis /\ cache["voice"][{}] = uploaded /\ Expired(cache["voice"][{}]) => OldUpload
  BY DEF Expired, OldUpload
<1> QED  BY <1>1, <1>2 DEF VoiceKept

\* The entry of the voice under an operation on either kind.
LEMMA VoiceEffects ==
    ASSUME TypeOK, redis, NEW p \in Processes
    PROVE  /\ Delete("verification", p)["voice"][{}] = cache["voice"][{}]
           /\ Set("verification", p)["voice"][{}] = cache["voice"][{}]
           /\ AfterGet("verification", p)["voice"][{}] = cache["voice"][{}]
           /\ Set("voice", p)["voice"][{}] = {now}
           /\ AfterGet("voice", p)["voice"][{}] = cache["voice"][{}] \/ Expired(cache["voice"][{}])
<1>1. CacheOf(p) = {} /\ {} \in Caches /\ "voice" \in Kinds /\ "verification" \in Kinds
  BY DEF CacheOf, Caches, Kinds
<1>2. Delete("verification", p)["voice"][{}] = cache["voice"][{}]  BY <1>1 DEF Delete, TypeOK
<1>3. Set("verification", p)["voice"][{}] = cache["voice"][{}]  BY <1>1 DEF Set, TypeOK
<1>4. AfterGet("verification", p)["voice"][{}] = cache["voice"][{}]  BY <1>2 DEF AfterGet
<1>5. Set("voice", p)["voice"][{}] = {now}  BY <1>1 DEF Set, TypeOK
<1>6. AfterGet("voice", p)["voice"][{}] = cache["voice"][{}] \/ Expired(cache["voice"][{}])
  BY <1>1 DEF AfterGet
<1> QED  BY <1>2, <1>3, <1>4, <1>5, <1>6

LEMMA VoiceStep == TypeOK /\ VoiceKept /\ [Next]_vars => VoiceKept'
<1> SUFFICES ASSUME TypeOK, VoiceKept, [Next]_vars PROVE VoiceKept'  OBVIOUS
<1>1. CASE Tick  BY <1>1, VoiceStays DEF Tick
<1>2. ASSUME NEW k \in Kinds, RedisExpires(k) PROVE VoiceKept'
  <2>1. cache'["voice"][{}] = cache["voice"][{}] \/ Expired(cache["voice"][{}])
    BY <1>2 DEF RedisExpires, TypeOK, Kinds, Caches
  <2> QED  BY <1>2, <2>1, VoiceStays DEF RedisExpires
<1>3. ASSUME NEW k \in Kinds, NEW p \in Processes, Cleanup(k, p) PROVE VoiceKept'
  BY <1>3 DEF Cleanup, VoiceKept
<1>4. ASSUME NEW p \in Processes, Generate(p) PROVE VoiceKept'
  BY <1>4, VoiceEffects, VoiceStays DEF Generate
<1>5. ASSUME NEW p \in Processes, CloneVoice(p) PROVE VoiceKept'
  <2>1. redis => cache'["voice"][{}] = {now}  BY <1>5, VoiceEffects DEF CloneVoice
  <2> QED  BY <1>5, <2>1 DEF CloneVoice, VoiceKept
<1>6. ASSUME NEW p \in Processes, StartVoice(p) PROVE VoiceKept'
  <2>1. redis => cache'["voice"][{}] = cache["voice"][{}] \/ Expired(cache["voice"][{}])
    <3>1. cache' = AfterGet("voice", p) \/ cache' = cache  BY <1>6 DEF StartVoice
    <3> QED  BY <3>1, VoiceEffects
  <2> QED  BY <1>6, <2>1, VoiceStays DEF StartVoice
<1>7. ASSUME NEW p \in Processes, Restart(p) PROVE VoiceKept'
  <2>1. cache' = [k \in Kinds |-> [cache[k] EXCEPT ![{p}] = Nothing]]  BY <1>7 DEF Restart
  <2>2. {} \in Caches /\ "voice" \in Kinds /\ {p} # {}  BY DEF Caches, Kinds
  <2>3. cache'["voice"][{}] = cache["voice"][{}]  BY <2>1, <2>2 DEF TypeOK
  <2> QED  BY <1>7, <2>3, VoiceStays DEF Restart
<1>8. ASSUME NEW p \in Processes, NEW s \in Submissions,
             \/ Submit(p, s) \/ SubmitFails(p, s) \/ WriteAudio(p, s) \/ WriteMetadata(p, s) \/ Finish(p, s)
      PROVE  VoiceKept'
  <2>1. redis' = redis /\ uploaded' = uploaded /\ now' = now
    BY <1>8 DEF Submit, SubmitFails, WriteAudio, WriteMetadata, Finish
  <2>2. cache' \in {cache, AfterGet("verification", p), Delete("verification", p)}
    BY <1>8 DEF Submit, SubmitFails, WriteAudio, WriteMetadata, Finish, Spent
  <2>3. redis => cache'["voice"][{}] = cache["voice"][{}]  BY <2>2, VoiceEffects
  <2> QED  BY <2>1, <2>3, VoiceStays
<1>9. CASE UNCHANGED vars  BY <1>9, VoiceStays DEF vars
<1> QED  BY <1>1, <1>2, <1>3, <1>4, <1>5, <1>6, <1>7, <1>8, <1>9 DEF Next

\* The voice of a user lasts for an hour in every process that shares the cache.
THEOREM VoiceIsShared == Spec => SharedAnHour
<1> DEFINE A == redis /\ voice' = "default" /\ voice # "default" => \E t \in uploaded : now >= t + Hour
<1>1. Init => VoiceKept  BY DEF Init, VoiceKept
<1>2. Spec => [](TypeOK /\ VoiceKept)  BY TypeInit, TypeStep, <1>1, VoiceStep, PTL DEF Spec
<1>3. TypeOK /\ VoiceKept /\ [Next]_vars => [A]_vars
  <2> SUFFICES ASSUME TypeOK, VoiceKept, Next, redis, voice' = "default", voice # "default"
               PROVE  OldUpload
    BY DEF OldUpload
  <2>1. PICK p \in Processes : StartVoice(p)
    BY DEF Next, Tick, RedisExpires, Cleanup, Generate, CloneVoice, Restart, Submit, SubmitFails,
           WriteAudio, WriteMetadata, Finish
  <2>2. uploaded # Nothing /\ Get("voice", p) = Nothing  BY <2>1 DEF StartVoice
  <2>3. CacheOf(p) = {}  BY DEF CacheOf
  <2>4. CASE Expired(cache["voice"][{}])  BY <2>2, <2>4 DEF VoiceKept, Expired, OldUpload
  <2>5. CASE ~Expired(cache["voice"][{}])
    <3>1. cache["voice"][{}] = Nothing  BY <2>2, <2>3, <2>5 DEF Get
    <3> QED  BY <2>2, <3>1 DEF VoiceKept
  <2> QED  BY <2>4, <2>5
<1>4. Spec => [][A]_vars  BY <1>2, <1>3, PTL DEF Spec
<1> QED  BY <1>4 DEF SharedAnHour

-----------------------------------------------------------------------------
(* OneShot *)

\* A request as it is kept.
Request ==
    [at : Audio!Stages, link : Audio!Links, sent : Nat, eof : BOOLEAN,
     col : {"none", "running", "ended", "failed"}, heard : SUBSET (1..Length),
     count : Nat, batch : Nat, exc : BOOLEAN, died : BOOLEAN,
     reply : {"none", "200", "400", "500"}]

\* The server has all it needs to answer the whole of the request.
Enough(r, q) == \A i \in said[r] : i + Audio!DelayOf(r) <= q.sent

\* Words that are on their way when the collector ends are lost.
Rest(r, q) == {i \in said[r] : i + Audio!DelayOf(r) <= q.sent} \ q.heard

\* The route says that it is done after the last of the silence, and waits for the collector.
RouteOK(r, q) ==
    /\ q.at \in {"start", "waiting"} => q.col = "none"
    /\ q.at \in {"flush", "asleep"} => kind[r] = "transcribe"
    /\ q.at = "flush" => q.sent >= Length
    /\ q.at = "asleep" => q.sent >= Length + 1
    /\ q.at = "end" \/ q.eof => Enough(r, q)
    /\ q.eof => q.at \in {"collect", "closing"}
    /\ q.at \in {"collect", "closing"} => q.exc \/ q.eof
    /\ q.at \in {"sending", "flush", "asleep", "end", "collect", "closing"} => q.col # "none"
    /\ q.at = "closing" /\ ~q.exc => q.col # "running"

\* The collector ends with everything, or with the server.
CollectorOK(r, q) ==
    /\ q.heard \subseteq said[r]
    /\ q.link = "ended" => q.eof
    /\ q.link = "lost" => q.died
    /\ q.col = "ended" =>
        \/ q.link = "ended" /\ Rest(r, q) = {}
        \/ q.link = "lost" /\ kind[r] = "transcribe"

AnswerOK(r, q) ==
    /\ q.reply # "none" => q.at = "done"
    /\ q.at = "done" => q.link = "closed" /\ q.col = "none" /\ ~q.eof
    /\ q.reply = "200" /\ (kind[r] = "transcribe" => ~q.died) => q.heard = said[r]

RequestOK(r, q) == q \in Request /\ RouteOK(r, q) /\ CollectorOK(r, q) /\ AnswerOK(r, q)

AudioInv ==
    /\ kind \in [Requests -> Audio!Kinds] /\ said \in [Requests -> SUBSET (1..Length)]
    /\ \A r \in Requests : said[r] \subseteq 1..Audio!Units(r)
    /\ req \in [Requests -> Request]
    /\ \A r \in Requests : RequestOK(r, req[r])

\* A step of one request, which leaves it in order.
LEMMA OneRequest ==
    ASSUME AudioInv, NEW r \in Requests, NEW to, Audio!Becomes(r, to), RequestOK(r, to)
    PROVE  AudioInv'
<1>1. kind' = kind /\ said' = said /\ req' = [req EXCEPT ![r] = to]  BY DEF Audio!Becomes
<1>2. to \in Request  BY DEF RequestOK
<1>3. req' \in [Requests -> Request] /\ req'[r] = to /\ \A s \in Requests : s # r => req'[s] = req[s]
  BY <1>1, <1>2 DEF AudioInv
<1>4. ASSUME NEW s \in Requests PROVE RequestOK(s, req[s])' 
  <2>1. RequestOK(s, req'[s])  BY <1>3 DEF AudioInv
  <2> QED  BY <1>1, <2>1 DEF RequestOK, RouteOK, CollectorOK, AnswerOK, Enough, Rest, Audio!DelayOf
<1>5. Request' = Request  OBVIOUS
<1>6. \A s \in Requests : said'[s] \subseteq 1..Audio!Units(s)'
  BY <1>1 DEF AudioInv, Audio!Units
<1> QED  BY <1>1, <1>3, <1>4, <1>6 DEF AudioInv

LEMMA Facts ==
    ASSUME AudioInv, NEW r \in Requests
    PROVE  /\ req[r] \in Request /\ RequestOK(r, req[r])
           /\ kind[r] \in {"transcribe", "synthesize"} /\ said[r] \subseteq 1..Length
           /\ said[r] \subseteq 1..Audio!Units(r)
           /\ Length \in Nat \ {0} /\ MaxBatches \in Nat \ {0} /\ Delay \in {0, 1}
  BY BoundsAssumption DEF AudioInv, Audio!OneShotAssumption, Audio!Kinds

\* A route's step in which the server and the collector have no part.
LEMMA ServerStep ==
    ASSUME AudioInv, NEW r \in Requests, Audio!Server(r) \/ Audio!ServerDies(r)
    PROVE  AudioInv'
<1> DEFINE q == req[r]
<1>1. q \in Request /\ RequestOK(r, q)  BY Facts
<1> SUFFICES \E to : Audio!Becomes(r, to) /\ RequestOK(r, to)  BY OneRequest
<1> USE DEF Audio!Links, Audio!Stages
<1>2. CASE Audio!Accepts(r)
  <2> DEFINE to == [q EXCEPT !.link = IF Audio!Served(r) < Capacity THEN "up" ELSE "refused"]
  <2>1. Audio!Becomes(r, to) /\ q.link = "open"  BY <1>2 DEF Audio!Accepts
  <2>2. to \in Request  BY <1>1 DEF Request
  <2>3. RouteOK(r, to)  BY <1>1 DEF RequestOK, RouteOK, Enough, Request
  <2>4. CollectorOK(r, to)  BY <1>1, <2>1 DEF RequestOK, CollectorOK, Rest, Request
  <2>5. AnswerOK(r, to)  BY <1>1, <2>1 DEF RequestOK, AnswerOK, Request
  <2> QED  BY <2>1, <2>2, <2>3, <2>4, <2>5 DEF RequestOK
<1>3. CASE Audio!ServerEnds(r)
  <2> DEFINE to == [q EXCEPT !.link = "ended"]
  <2>1. Audio!Becomes(r, to) /\ q.link = "up" /\ q.eof  BY <1>3 DEF Audio!ServerEnds
  <2>2. to \in Request  BY <1>1 DEF Request
  <2>3. RouteOK(r, to)  BY <1>1 DEF RequestOK, RouteOK, Enough, Request
  <2>4. CollectorOK(r, to)  BY <1>1, <2>1 DEF RequestOK, CollectorOK, Rest, Request
  <2>5. AnswerOK(r, to)  BY <1>1, <2>1 DEF RequestOK, AnswerOK, Request
  <2> QED  BY <2>1, <2>2, <2>3, <2>4, <2>5 DEF RequestOK
<1>4. CASE Audio!ServerDies(r)
  <2> DEFINE to == [q EXCEPT !.link = "lost", !.died = TRUE]
  <2>1. Audio!Becomes(r, to) /\ q.link \in {"open", "up"}  BY <1>4 DEF Audio!ServerDies
  <2>2. to \in Request  BY <1>1 DEF Request
  <2>3. RouteOK(r, to)  BY <1>1 DEF RequestOK, RouteOK, Enough, Request
  <2>4. CollectorOK(r, to)  BY <1>1, <2>1 DEF RequestOK, CollectorOK, Rest, Request
  <2>5. AnswerOK(r, to)  BY <1>1, <2>1 DEF RequestOK, AnswerOK, Request
  <2> QED  BY <2>1, <2>2, <2>3, <2>4, <2>5 DEF RequestOK
<1> QED  BY <1>2, <1>3, <1>4 DEF Audio!Server

\* Among the words that are coming there is a first one.
LEMMA FirstComing ==
    ASSUME AudioInv, NEW r \in Requests, Audio!Coming(r) # {}
    PROVE  Audio!Min(Audio!Coming(r)) \in Audio!Coming(r)
<1> DEFINE T == Audio!Coming(r)
           U == {0..t : t \in T}
           S == StrictSubsetOrdering(0..Length)
<1>1. Length \in Nat /\ T \subseteq 0..Length  BY Facts DEF Audio!Coming
<1>2. IsFiniteSet(0..Length)  BY <1>1, FS_Interval
<1>3. FiniteSubsetsOf(0..Length) = SUBSET (0..Length)  BY <1>2, FS_Subset DEF FiniteSubsetsOf
<1>4. IsWellFoundedOn(S, SUBSET (0..Length))
  BY <1>2, <1>3, FS_StrictSubsetOrderingWellFounded, FS_FiniteSubsetsOfFinite
<1> HIDE DEF T
<1>5. U \subseteq SUBSET (0..Length) /\ U # {}
  <2>1. \A t \in 0..Length : 0..t \subseteq 0..Length  BY <1>1
  <2> QED  BY <1>1, <2>1 DEF T
<1>6. PICK u \in U : \A v \in U : ~(<<v, u>> \in S)
  <2> HIDE DEF U, S
  <2> QED  BY <1>4, <1>5, WFMin
<1>7. PICK k \in T : u = 0..k  BY <1>6
<1>8. \A m \in T : k <= m
  <2> SUFFICES ASSUME NEW m \in T, ~(k <= m) PROVE FALSE
    OBVIOUS
  <2>1. k \in 0..Length /\ m \in 0..Length  BY <1>1
  <2>2. 0..m \in U /\ 0..m \subseteq 0..k /\ 0..m # 0..k  BY <1>1, <2>1
  <2>3. <<0..m, 0..k>> \in S  BY <1>1, <2>1, <2>2 DEF StrictSubsetOrdering
  <2> QED  BY <1>6, <1>7, <2>2, <2>3
<1>9. Audio!Min(T) \in T  BY <1>8 DEF Audio!Min
<1> QED  BY <1>9 DEF T

LEMMA CollectorStep ==
    ASSUME AudioInv, NEW r \in Requests, Audio!Collector(r) \/ Audio!CollectorFails(r)
    PROVE  AudioInv'
<1> DEFINE q == req[r]
<1>1. q \in Request /\ RequestOK(r, q) /\ q.col = "running"
  BY Facts DEF Audio!Collector, Audio!Collects, Audio!CollectorEnds, Audio!CollectorFails, Audio!Reads
<1>2. q.at # "done" /\ q.reply # "200" /\ q.reply \in {"none", "200", "400", "500"}
      /\ q.reply = "none"
  BY <1>1 DEF RequestOK, AnswerOK, Request
<1> SUFFICES \E to : Audio!Becomes(r, to) /\ RequestOK(r, to)  BY OneRequest
<1>3. CASE Audio!Collects(r)
  <2> DEFINE i == Audio!Min(Audio!Coming(r))
             to == [q EXCEPT !.heard = @ \cup {i}]
  <2>1. Audio!Becomes(r, to)  BY <1>3 DEF Audio!Collects
  <2>2. i \in Audio!Coming(r)  BY <1>3, FirstComing DEF Audio!Collects
  <2>3. i \in said[r] /\ i \in 1..Length  BY <2>2, Facts DEF Audio!Coming
  <2> HIDE DEF i
  <2>4. to \in Request  BY <1>1, <2>3 DEF Request
  <2>5. RouteOK(r, to)  BY <1>1 DEF RequestOK, RouteOK, Enough, Request
  <2>6. CollectorOK(r, to)  BY <1>1, <2>3 DEF RequestOK, CollectorOK, Rest, Request
  <2>7. AnswerOK(r, to)  BY <1>1, <1>2 DEF RequestOK, AnswerOK, Request
  <2> QED  BY <2>1, <2>4, <2>5, <2>6, <2>7 DEF RequestOK
<1>4. ASSUME NEW how \in {"ended", "failed"}, Audio!Becomes(r, [q EXCEPT !.col = how]),
             how = "ended" => \/ q.link = "ended" /\ Audio!Coming(r) = {}
                              \/ q.link = "lost" /\ kind[r] = "transcribe"
      PROVE  \E to : Audio!Becomes(r, to) /\ RequestOK(r, to)
  <2> DEFINE to == [q EXCEPT !.col = how]
  <2>1. to \in Request  BY <1>1 DEF Request
  <2>2. RouteOK(r, to)  BY <1>1 DEF RequestOK, RouteOK, Enough, Request
  <2>3. CollectorOK(r, to)  BY <1>1, <1>4 DEF RequestOK, CollectorOK, Rest, Audio!Coming, Request
  <2>4. AnswerOK(r, to)  BY <1>1, <1>2 DEF RequestOK, AnswerOK, Request
  <2> QED  BY <1>4, <2>1, <2>2, <2>3, <2>4 DEF RequestOK
<1>5. CASE Audio!CollectorEnds(r)  BY <1>4, <1>5, Facts DEF Audio!CollectorEnds
<1>6. CASE Audio!CollectorFails(r)  BY <1>4, <1>6 DEF Audio!CollectorFails
<1> QED  BY <1>3, <1>5, <1>6 DEF Audio!Collector

\* The end of a request: what was heard and whether the server died are still told.
LEMMA AnswerStep ==
    ASSUME AudioInv, NEW r \in Requests, NEW how \in {"200", "400", "500"}, Audio!Answer(r, how),
           how = "200" /\ (kind[r] = "transcribe" => ~req[r].died) => req[r].heard = said[r]
    PROVE  AudioInv'
<1> DEFINE q == req[r]
           to == [Audio!New EXCEPT !.at = "done", !.link = "closed", !.reply = how,
                                   !.heard = q.heard, !.died = q.died]
<1>1. q \in Request /\ RequestOK(r, q)  BY Facts
<1>2. Audio!Becomes(r, to)  BY DEF Audio!Answer
<1>3. Audio!New \in Request  BY <1>1 DEF Audio!New, Request, Audio!Links, Audio!Stages
<1>4. /\ to \in Request /\ to.at = "done" /\ to.link = "closed" /\ to.col = "none" /\ ~to.eof
      /\ ~to.exc /\ to.heard = q.heard /\ to.died = q.died /\ to.reply = how
  <2> DEFINE new == Audio!New
             t1 == [new EXCEPT !.at = "done"]
             t2 == [t1 EXCEPT !.link = "closed"]
             t3 == [t2 EXCEPT !.reply = how]
             t4 == [t3 EXCEPT !.heard = q.heard]
             t5 == [t4 EXCEPT !.died = q.died]
  <2>1. new.col = "none" /\ ~new.eof /\ ~new.exc  BY DEF Audio!New
  <2>2. new \in Request  BY <1>3
  <2>3. q.heard \in SUBSET (1..Length) /\ q.died \in BOOLEAN  BY <1>1 DEF Request
  <2> HIDE DEF new
  <2>4. t5 \in Request  BY <2>2, <2>3 DEF Request, Audio!Links, Audio!Stages
  <2>5. /\ t5.at = "done" /\ t5.link = "closed" /\ t5.col = "none" /\ ~t5.eof
        /\ ~t5.exc /\ t5.heard = q.heard /\ t5.died = q.died /\ t5.reply = how
    BY <2>1, <2>2 DEF Request
  <2>6. to = t5  BY DEF new
  <2> QED  BY <2>4, <2>5, <2>6
<1> HIDE DEF to
<1>5. RouteOK(r, to)  BY <1>4 DEF RouteOK
<1>6. CollectorOK(r, to)  BY <1>1, <1>4 DEF RequestOK, CollectorOK
<1>7. AnswerOK(r, to)  BY <1>4 DEF AnswerOK
<1> QED  BY <1>2, <1>4, <1>5, <1>6, <1>7, OneRequest DEF RequestOK

\* A step of the route that does not answer leaves the server's side alone.
LEMMA RouteGoesOn ==
    ASSUME AudioInv, NEW r \in Requests, NEW to \in Request, Audio!Becomes(r, to), RouteOK(r, to),
           to.heard = req[r].heard, to.died = req[r].died, to.reply = "none", to.at # "done",
           \/ to.link = req[r].link /\ to.col = req[r].col /\ (req[r].eof => to.eof)
              /\ (to.sent = req[r].sent \/ ~req[r].eof)
           \/ to.link \notin {"ended", "lost"} /\ to.col # "ended"
    PROVE  AudioInv'
<1>1. RequestOK(r, req[r])  BY Facts
<1>2. CollectorOK(r, to)  BY <1>1 DEF RequestOK, CollectorOK, Rest
<1>3. AnswerOK(r, to)  BY DEF AnswerOK
<1> QED  BY <1>2, <1>3, OneRequest DEF RequestOK

\* A word that was said is answered before the last of the silence.
LEMMA SilenceIsEnough ==
    ASSUME AudioInv, NEW r \in Requests, NEW q \in Request,
           (IF kind[r] = "transcribe" THEN Length + 1 ELSE Audio!Payload(r)) <= q.sent
    PROVE  Enough(r, q)
<1> SUFFICES ASSUME NEW i \in said[r] PROVE i + Audio!DelayOf(r) <= q.sent  BY DEF Enough
<1>1. q.sent \in Nat /\ Length \in Nat /\ Delay \in {0, 1} /\ i \in 1..Audio!Units(r)
  BY Facts DEF Request
<1>2. CASE kind[r] = "transcribe"
  BY <1>1, <1>2 DEF Audio!Units, Audio!DelayOf
<1>3. CASE kind[r] # "transcribe"
  <2>1. Audio!Payload(r) = 1  BY DEF Audio!Payload
  <2> QED  BY <1>1, <1>3, <2>1 DEF Audio!Units, Audio!DelayOf
<1> QED  BY <1>2, <1>3

LEMMA HeardIsFinite ==
    ASSUME AudioInv, NEW X \in SUBSET (1..Length)
    PROVE  Audio!Cardinality(X) \in Nat
<1>1. 1 \in Int /\ Length \in Int  BY BoundsAssumption DEF Audio!OneShotAssumption
<1>2. IsFiniteSet(1..Length)  BY <1>1, FS_Interval
<1>3. Cardinality(X) \in Nat  BY <1>2, FS_Subset, FS_CardinalityType
<1> QED  BY <1>3 DEF Cardinality, Audio!Cardinality

LEMMA RouteStep ==
    ASSUME AudioInv, NEW r \in Requests, Audio!Route(r)
    PROVE  AudioInv'
<1> DEFINE q == req[r]
<1>1. q \in Request /\ RequestOK(r, q)  BY Facts
<1>2. /\ q.at \in Audio!Stages /\ q.link \in Audio!Links /\ q.sent \in Nat /\ q.eof \in BOOLEAN
      /\ q.exc \in BOOLEAN /\ q.col \in {"none", "running", "ended", "failed"}
      /\ q.batch \in Nat
      /\ q.reply \in {"none", "200", "400", "500"} /\ q.heard \in SUBSET (1..Length)
  BY <1>1 DEF Request
<1>3. q.at # "done" => q.reply = "none"  BY <1>1 DEF RequestOK, AnswerOK
<1>4. Length \in Nat /\ kind[r] \in {"transcribe", "synthesize"}  BY Facts
<1> USE DEF Audio!Is
<1>5. CASE Audio!CannotStart(r)  BY <1>5, AnswerStep DEF Audio!CannotStart
<1>6. CASE Audio!NotStarted(r)  BY <1>6, AnswerStep DEF Audio!NotStarted
<1>7. CASE Audio!Connect(r)
  <2> DEFINE to == [q EXCEPT !.at = "waiting", !.link = "open"]
  <2>1. Audio!Becomes(r, to) /\ q.at = "start"  BY <1>7 DEF Audio!Connect
  <2>2. to \in Request  BY <1>1, <1>2 DEF Request, Audio!Stages, Audio!Links
  <2>3. /\ to.at = "waiting" /\ to.link = "open" /\ to.eof = q.eof /\ to.exc = q.exc
        /\ to.col = q.col /\ to.sent = q.sent
        /\ to.heard = q.heard /\ to.died = q.died /\ to.reply = q.reply
    BY <1>1 DEF Request
  <2> HIDE DEF to
  <2>4. RouteOK(r, to)  BY <1>1, <1>2, <1>4, <2>1, <2>3 DEF RequestOK, RouteOK
  <2> QED  BY <1>1, <1>3, <2>1, <2>2, <2>3, <2>4, RouteGoesOn DEF RequestOK, RouteOK
<1>8. CASE Audio!StartedUp(r)
  <2> DEFINE to == [q EXCEPT !.at = "sending", !.col = "running"]
  <2>1. Audio!Becomes(r, to) /\ q.at = "waiting" /\ q.link = "up"  BY <1>8 DEF Audio!StartedUp
  <2>2. to \in Request  BY <1>1, <1>2 DEF Request, Audio!Stages, Audio!Links
  <2>3. /\ to.at = "sending" /\ to.link = q.link /\ to.eof = q.eof /\ to.exc = q.exc
        /\ to.col = "running" /\ to.sent = q.sent
        /\ to.heard = q.heard /\ to.died = q.died /\ to.reply = q.reply
    BY <1>1 DEF Request
  <2> HIDE DEF to
  <2>4. RouteOK(r, to)  BY <1>1, <1>2, <1>4, <2>1, <2>3 DEF RequestOK, RouteOK
  <2> QED  BY <1>1, <1>3, <2>1, <2>2, <2>3, <2>4, RouteGoesOn DEF RequestOK, RouteOK
<1>9. CASE Audio!Send(r)
  <2> DEFINE to == [q EXCEPT !.sent = @ + 1]
  <2>1. Audio!Becomes(r, to) /\ q.at = "sending"  BY <1>9 DEF Audio!Send
  <2>2. to \in Request  BY <1>1, <1>2 DEF Request, Audio!Stages, Audio!Links
  <2>3. /\ to.at = q.at /\ to.link = q.link /\ to.eof = q.eof /\ to.exc = q.exc
        /\ to.col = q.col /\ to.sent = q.sent + 1
        /\ to.heard = q.heard /\ to.died = q.died /\ to.reply = q.reply
    BY <1>1 DEF Request
  <2> HIDE DEF to
  <2>4. RouteOK(r, to)  BY <1>1, <1>2, <1>4, <2>1, <2>3 DEF RequestOK, RouteOK
  <2> QED  BY <1>1, <1>3, <2>1, <2>2, <2>3, <2>4, RouteGoesOn DEF RequestOK, RouteOK
<1>10. CASE Audio!AllSent(r)
  <2> DEFINE n == Audio!Cardinality(q.heard)
             to == [q EXCEPT !.at = IF kind[r] = "transcribe" THEN "flush" ELSE "end", !.count = n]
  <2>1. Audio!Becomes(r, to) /\ q.at = "sending" /\ q.sent = Audio!Units(r) * Audio!Payload(r)
    BY <1>10 DEF Audio!AllSent
  <2>2. n \in Nat  BY <1>2, HeardIsFinite
  <2> HIDE DEF n
  <2>3. to \in Request  BY <1>1, <1>2, <2>2 DEF Request, Audio!Stages
  <2>4. /\ to.at = IF kind[r] = "transcribe" THEN "flush" ELSE "end"
        /\ to.link = q.link /\ to.eof = q.eof /\ to.exc = q.exc /\ to.col = q.col /\ to.sent = q.sent
        /\ to.heard = q.heard /\ to.died = q.died /\ to.reply = q.reply
    BY <1>1 DEF Request
  <2> HIDE DEF to
  <2>5. kind[r] = "transcribe" => q.sent = Length
    BY <1>4, <2>1 DEF Audio!Units, Audio!Payload
  <2>6. kind[r] # "transcribe" => Enough(r, to)
    <3>1. kind[r] # "transcribe" => Audio!Payload(r) \in {0, 1} /\ Audio!Units(r) = 1
      BY DEF Audio!Units, Audio!Payload
    <3>2. kind[r] # "transcribe" => Audio!Payload(r) <= to.sent
      BY <2>1, <2>4, <3>1
    <3> QED  BY <2>3, <3>2, SilenceIsEnough
  <2>7. RouteOK(r, to)  BY <1>1, <1>4, <2>1, <2>4, <2>5, <2>6 DEF RequestOK, RouteOK
  <2> QED  BY <1>1, <1>3, <2>1, <2>3, <2>4, <2>7, RouteGoesOn
<1>11. CASE Audio!Flush(r)
  <2> DEFINE sent == q.sent + 1
             batch == q.batch + 1
             to == [q EXCEPT !.at = "asleep", !.sent = sent, !.batch = batch]
  <2>1. Audio!Becomes(r, to) /\ q.at = "flush"  BY <1>11 DEF Audio!Flush
  <2>2. sent \in Nat /\ batch \in Nat /\ sent = q.sent + 1  BY <1>2
  <2> HIDE DEF sent, batch
  <2>3. to \in Request  BY <1>1, <1>2, <2>2 DEF Request, Audio!Stages
  <2>4. /\ to.at = "asleep" /\ to.link = q.link /\ to.eof = q.eof /\ to.exc = q.exc
        /\ to.col = q.col /\ to.sent = q.sent + 1
        /\ to.heard = q.heard /\ to.died = q.died /\ to.reply = q.reply
    BY <1>1, <2>2 DEF Request
  <2> HIDE DEF to
  <2>5. RouteOK(r, to)  BY <1>1, <1>2, <1>4, <2>1, <2>4 DEF RequestOK, RouteOK
  <2> QED  BY <1>1, <1>3, <2>1, <2>3, <2>4, <2>5, RouteGoesOn DEF RequestOK, RouteOK
<1>12. CASE Audio!Checks(r)
  <2> DEFINE n == Audio!Cardinality(q.heard)
             ends == n = q.count \/ q.batch = MaxBatches
             to == [q EXCEPT !.at = IF ends THEN "end" ELSE "flush", !.count = n]
  <2>1. Audio!Becomes(r, to) /\ q.at = "asleep"  BY <1>12 DEF Audio!Checks
  <2>2. n \in Nat  BY <1>2, HeardIsFinite
  <2>3. ends \/ q.batch # MaxBatches  OBVIOUS
  <2> HIDE DEF n, ends
  <2>4. to \in Request  BY <1>1, <1>2, <2>2 DEF Request, Audio!Stages
  <2>5. /\ to.at = IF ends THEN "end" ELSE "flush"
        /\ to.link = q.link /\ to.eof = q.eof /\ to.exc = q.exc
        /\ to.col = q.col /\ to.sent = q.sent
        /\ to.heard = q.heard /\ to.died = q.died /\ to.reply = q.reply
    BY <1>1 DEF Request
  <2> HIDE DEF to
  <2>6. kind[r] = "transcribe" /\ Length + 1 <= q.sent  BY <1>1, <2>1 DEF RequestOK, RouteOK
  <2>7. Enough(r, to)  BY <2>4, <2>5, <2>6, SilenceIsEnough
  <2>8. RouteOK(r, to)  BY <1>1, <1>2, <1>4, <2>1, <2>3, <2>5, <2>6, <2>7 DEF RequestOK, RouteOK
  <2> QED  BY <1>1, <1>3, <2>1, <2>4, <2>5, <2>8, RouteGoesOn
<1>13. CASE Audio!SendEnd(r)
  <2> DEFINE to == [q EXCEPT !.at = "collect", !.eof = TRUE]
  <2>1. Audio!Becomes(r, to) /\ q.at = "end"  BY <1>13 DEF Audio!SendEnd
  <2>2. to \in Request  BY <1>1, <1>2 DEF Request, Audio!Stages, Audio!Links
  <2>3. /\ to.at = "collect" /\ to.link = q.link /\ to.eof = TRUE /\ to.exc = q.exc
        /\ to.col = q.col /\ to.sent = q.sent
        /\ to.heard = q.heard /\ to.died = q.died /\ to.reply = q.reply
    BY <1>1 DEF Request
  <2> HIDE DEF to
  <2>4. RouteOK(r, to)  BY <1>1, <1>2, <1>4, <2>1, <2>3 DEF RequestOK, RouteOK, Enough
  <2> QED  BY <1>1, <1>3, <2>1, <2>2, <2>3, <2>4, RouteGoesOn DEF RequestOK, RouteOK
<1>14. CASE Audio!Join(r)
  <2> DEFINE to == [q EXCEPT !.at = "closing"]
  <2>1. Audio!Becomes(r, to) /\ q.at = "collect" /\ q.col # "running"  BY <1>14 DEF Audio!Join, Audio!Reads
  <2>2. to \in Request  BY <1>1, <1>2 DEF Request, Audio!Stages, Audio!Links
  <2>3. /\ to.at = "closing" /\ to.link = q.link /\ to.eof = q.eof /\ to.exc = q.exc
        /\ to.col = q.col /\ to.sent = q.sent
        /\ to.heard = q.heard /\ to.died = q.died /\ to.reply = q.reply
    BY <1>1 DEF Request
  <2> HIDE DEF to
  <2>4. RouteOK(r, to)  BY <1>1, <1>2, <1>4, <2>1, <2>3 DEF RequestOK, RouteOK, Enough
  <2> QED  BY <1>1, <1>3, <2>1, <2>2, <2>3, <2>4, RouteGoesOn DEF RequestOK, RouteOK
<1>15. CASE Audio!SendFails(r)
  <2> DEFINE to == [q EXCEPT !.exc = TRUE, !.at = IF kind[r] = "transcribe" THEN "collect" ELSE "closing"]
  <2>1. Audio!Becomes(r, to) /\ q.at \in {"sending", "flush", "end"}  BY <1>15 DEF Audio!SendFails
  <2>2. to \in Request  BY <1>1, <1>2 DEF Request, Audio!Stages
  <2>3. /\ to.at \in {"collect", "closing"} /\ to.link = q.link /\ to.eof = q.eof /\ to.exc
        /\ to.col = q.col /\ to.sent = q.sent
        /\ to.heard = q.heard /\ to.died = q.died /\ to.reply = q.reply
    BY <1>1 DEF Request
  <2> HIDE DEF to
  <2>4. RouteOK(r, to)  BY <1>1, <2>1, <2>3 DEF RequestOK, RouteOK
  <2> QED  BY <1>3, <2>1, <2>2, <2>3, <2>4, RouteGoesOn
<1>16. CASE Audio!Close(r)
  <2>1. q.at = "closing"  BY <1>16 DEF Audio!Close
  <2>2. CASE Audio!Answer(r, "400") \/ Audio!Answer(r, "500")  BY <2>2, AnswerStep
  <2>3. CASE Audio!Answer(r, "200") /\ ~Audio!Failed(r)
    <3>1. q.col = "ended" /\ q.eof
      BY <1>1, <1>2, <2>1, <2>3 DEF RequestOK, RouteOK, Audio!Failed
    <3>2. Enough(r, q) /\ q.heard \subseteq said[r]
      BY <1>1, <3>1 DEF RequestOK, RouteOK, CollectorOK
    <3>3. CASE Rest(r, q) = {}
      <4>1. q.heard = said[r]  BY <3>2, <3>3 DEF Enough, Rest
      <4> QED  BY <2>3, <4>1, AnswerStep
    <3>4. CASE q.link = "lost" /\ kind[r] = "transcribe"
      <4>1. q.died  BY <1>1, <3>4 DEF RequestOK, CollectorOK
      <4> QED  BY <2>3, <3>4, <4>1, AnswerStep
    <3> QED  BY <1>1, <3>1, <3>3, <3>4 DEF RequestOK, CollectorOK
  <2> QED  BY <1>16, <2>2, <2>3 DEF Audio!Close
<1> QED
  BY <1>5, <1>6, <1>7, <1>8, <1>9, <1>10, <1>11, <1>12, <1>13, <1>14, <1>15, <1>16 DEF Audio!Route

LEMMA AudioInit == Audio!Init => AudioInv
<1> SUFFICES ASSUME Audio!Init PROVE AudioInv
  OBVIOUS
<1>1. Length \in Nat /\ MaxBatches \in Nat  BY BoundsAssumption DEF Audio!OneShotAssumption
<1>2. Audio!New \in Request  BY <1>1 DEF Audio!New, Request, Audio!Stages, Audio!Links
<1>3. req = [r \in Requests |-> Audio!New]  BY DEF Audio!Init
<1>4. ASSUME NEW r \in Requests PROVE RequestOK(r, req[r])
  <2> DEFINE q == Audio!New
  <2>1. /\ q.at = "start" /\ q.link = "none" /\ ~q.eof /\ q.col = "none" /\ q.heard = {}
        /\ q.reply = "none"
    BY DEF Audio!New
  <2>2. req[r] = q  BY <1>3
  <2> HIDE DEF q
  <2>3. RouteOK(r, q) /\ CollectorOK(r, q) /\ AnswerOK(r, q)
    BY <2>1 DEF RouteOK, CollectorOK, AnswerOK
  <2> QED  BY <1>2, <2>2, <2>3 DEF RequestOK, q
<1> QED  BY <1>2, <1>3, <1>4 DEF AudioInv, Audio!Init

\* A successful answer is whole, for any number of requests, files of any length and
\* however slow the server, as long as its delay is no longer than a batch of silence.
THEOREM SuccessIsWhole == Audio!Spec => []WholeAnswer
<1>1. AudioInv /\ [Audio!Next]_Audio!vars => AudioInv'
  <2> SUFFICES ASSUME AudioInv, [Audio!Next]_Audio!vars PROVE AudioInv'
    OBVIOUS
  <2>1. CASE Audio!Next
    BY <2>1, ServerStep, CollectorStep, RouteStep DEF Audio!Next
  <2>2. CASE UNCHANGED Audio!vars
    <3>1. kind' = kind /\ said' = said /\ req' = req  BY <2>2 DEF Audio!vars
    <3> QED
      BY <3>1 DEF AudioInv, RequestOK, RouteOK, CollectorOK, AnswerOK, Enough, Rest,
                  Audio!DelayOf, Audio!Units
  <2> QED  BY <2>1, <2>2
<1>2. AudioInv => WholeAnswer
  BY DEF AudioInv, RequestOK, AnswerOK, WholeAnswer, Audio!WholeAnswer
<1> QED  BY <1>1, <1>2, AudioInit, PTL DEF Audio!Spec
=============================================================================
