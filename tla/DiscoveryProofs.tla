---------------------------- MODULE DiscoveryProofs ----------------------------
(***************************************************************************)
(* find_instance() never runs past its list and never uses addresses that  *)
(* were old when it asked, for any instances, trials, timeouts and TTLs.   *)
(*                                                                         *)
(* The first needs that the trials that are left fit into the instances    *)
(* that are left, the second that the time of an entry of the cache is not *)
(* later than the time at which its addresses were given.                  *)
(***************************************************************************)
EXTENDS Discovery, FiniteSetTheorems, TLAPS

Places == {"idle", "lock", "resolving", "resolved", "connecting", "waiting", "closing"} \cup Ends
Finding ==
    [at : Places, todo : SUBSET Instances, left : Nat, on : SUBSET Instances, by : Nat, asked : Nat,
     seen : Nat, stale : BOOLEAN, exc : {"none", "internal", "capacity", "timeout"}]

Trying == {"connecting", "waiting", "closing"}

\* The trials that are left after this one fit into the instances that are left.
Fits(r) == r.at \in Trying => r.left > 0 /\ r.left - 1 <= Cardinality(r.todo)

\* What has been resolved is not older than the question, and is not empty.
Timely(r) ==
    /\ r.at = "resolving" => r.asked <= now
    /\ r.at = "resolved" => r.asked <= r.seen /\ r.todo # {}

Decides(r) == r.at # "unreachable"
Fresh(r) == ~r.stale

Good(r) == Fits(r) /\ Timely(r) /\ Decides(r) /\ Fresh(r)

World ==
    /\ now \in Nat /\ alive \in SUBSET Instances /\ alive # {}
    /\ cache \in [time : Nat, ips : SUBSET Instances, seen : Nat] /\ cache.time <= cache.seen

Inv ==
    /\ World
    /\ find \in [Finders -> Finding]
    /\ \A f \in Finders : Good(find[f])

\* The number of instances of a list.
LEMMA ListSize ==
    ASSUME NEW S \in SUBSET Instances
    PROVE  /\ Cardinality(S) \in Nat
           /\ Cardinality(S) > 0 <=> S # {}
           /\ \A i \in S : Cardinality(S \ {i}) = Cardinality(S) - 1
<1>1. IsFiniteSet(S)  BY DiscoveryAssumption, FS_Subset
<1>2. Cardinality(S) \in Nat  BY <1>1, FS_CardinalityType
<1>3. Cardinality(S) = 0 <=> S = {}  BY <1>1, FS_EmptySet
<1>4. \A i \in S : Cardinality(S \ {i}) = Cardinality(S) - 1  BY <1>1, FS_RemoveElement
<1> QED  BY <1>2, <1>3, <1>4

\* A step of one finder that leaves the rest of the world alone.
LEMMA OneMoves ==
    ASSUME Inv, NEW f \in Finders, NEW r \in Finding,
           find' = [find EXCEPT ![f] = r],
           World', now' = now, Good(r)
    PROVE  Inv'
<1>1. find' \in [Finders -> Finding]  BY DEF Inv
<1>2. ASSUME NEW g \in Finders PROVE Good(find[g])' 
  <2>1. Good(find'[g])
    <3>1. CASE g = f  BY <3>1 DEF Inv
    <3>2. CASE g # f  BY <3>2 DEF Inv
    <3> QED  BY <3>1, <3>2
  <2> QED  BY <2>1 DEF Good, Fits, Timely, Decides, Fresh
<1> QED  BY <1>1, <1>2 DEF Inv

\* A finder gets its answer, or is cancelled.
LEMMA EndGood ==
    ASSUME Inv, NEW f \in Finders, NEW how \in {"found", "failed", "cancelled"},
           NEW exc \in {"none", "internal", "capacity", "timeout"}, End(f, how, exc),
           World', now' = now
    PROVE  Inv'
<1> DEFINE r == [Idle EXCEPT !.at = how, !.exc = exc]
<1>1. r \in Finding  BY DEF Idle, Finding, Places, Ends
<1>2. r.at = how /\ r.stale = FALSE  BY DEF Idle
<1>3. Good(r)  BY <1>2 DEF Good, Fits, Timely, Decides, Fresh, Trying
<1>4. find' = [find EXCEPT ![f] = r]  BY DEF End
<1> HIDE DEF r
<1> QED  BY <1>1, <1>3, <1>4, OneMoves

\* Another instance is tried, when there are as many as there are trials left.
LEMMA TryGood ==
    ASSUME Inv, NEW f \in Finders, NEW to \in Finding, Try(f, to), Fresh(to),
           to.left > 0, to.left <= Cardinality(to.todo),
           World', now' = now
    PROVE  Inv'
<1>1. to.todo \in SUBSET Instances /\ to.left \in Nat  BY DEF Finding
<1>2. to.todo # {}
  <2>1. Cardinality(to.todo) \in Nat  BY <1>1, ListSize
  <2>2. Cardinality(to.todo) > 0  BY <1>1, <2>1
  <2> QED  BY <1>1, <2>2, ListSize
<1>3. PICK i \in to.todo :
        find' = [find EXCEPT ![f] = [to EXCEPT !.at = "connecting", !.todo = @ \ {i},
                                               !.on = {i}, !.by = now + Timeout]]
  BY <1>2 DEF Try
<1> DEFINE r == [to EXCEPT !.at = "connecting", !.todo = @ \ {i}, !.on = {i}, !.by = now + Timeout]
<1>4. now + Timeout \in Nat  BY DiscoveryAssumption DEF Inv, World
<1>5. r \in Finding  BY <1>1, <1>4 DEF Finding, Places
<1>6. r.at = "connecting" /\ r.left = to.left /\ r.todo = to.todo \ {i} /\ r.stale = to.stale
  BY DEF Finding
<1>7. find' = [find EXCEPT ![f] = r]  BY <1>3
<1> HIDE DEF r
<1>8. Fits(r)
  <2>1. Cardinality(to.todo \ {i}) = Cardinality(to.todo) - 1 /\ Cardinality(to.todo) \in Nat
    BY <1>1, ListSize
  <2> QED  BY <1>1, <1>6, <2>1 DEF Fits
<1>9. Timely(r) /\ Decides(r)  BY <1>6 DEF Timely, Decides
<1>10. Fresh(r)  BY <1>6, Zenon DEF Fresh
<1> QED  BY <1>5, <1>7, <1>8, <1>9, <1>10, OneMoves DEF Good

\* The trials start: as many as there are addresses, or max_trials.
LEMMA BeginGood ==
    ASSUME Inv, NEW f \in Finders, NEW ips \in SUBSET Instances, ips # {},
           NEW asked \in Nat, NEW seen \in Nat, asked < seen + Ttl, Begin(f, ips, asked, seen),
           World', now' = now
    PROVE  Inv'
<1> DEFINE to == [find[f] EXCEPT !.todo = ips, !.left = Trials(ips), !.asked = 0, !.seen = 0,
                                 !.stale = seen + Ttl <= asked]
<1>1. Cardinality(ips) \in Nat /\ Cardinality(ips) > 0  BY ListSize
<1>2. Trials(ips) \in Nat /\ Trials(ips) > 0 /\ Trials(ips) <= Cardinality(ips)
  <2> DEFINE S == {Cardinality(ips), MaxTrials}
  <2>1. \E x \in S : \A y \in S : x <= y  BY <1>1, DiscoveryAssumption
  <2>2. Trials(ips) \in S /\ \A y \in S : Trials(ips) <= y  BY <2>1 DEF Trials, Min
  <2> QED  BY <1>1, <2>2, DiscoveryAssumption
<1>3. (seen + Ttl <= asked) = FALSE  BY DiscoveryAssumption
<1>4. find[f] \in Finding  BY DEF Inv
<1>5. to = [find[f] EXCEPT !.todo = ips, !.left = Trials(ips), !.asked = 0, !.seen = 0, !.stale = FALSE]
  BY <1>3
<1>6. Try(f, to)  BY DEF Begin
<1> HIDE DEF to
<1>7. to \in Finding /\ to.left = Trials(ips) /\ to.todo = ips /\ to.stale = FALSE
  BY <1>2, <1>4, <1>5 DEF Finding
<1>8. Fresh(to)  BY <1>7 DEF Fresh
<1> QED  BY <1>2, <1>6, <1>7, <1>8, TryGood

\* A trial has failed.
LEMMA FailsGood ==
    ASSUME Inv, NEW f \in Finders, find[f].at \in Trying, NEW exc \in {"internal", "capacity", "timeout"},
           Fails(f, exc), World', now' = now
    PROVE  Inv'
<1>1. find[f] \in Finding  BY DEF Inv
<1>2. find[f].left \in Nat /\ find[f].left > 0 /\ find[f].left - 1 <= Cardinality(find[f].todo)
  BY <1>1 DEF Inv, Good, Fits, Finding
<1>3. CASE Attempts(f) > 0
  <2> DEFINE to == [find[f] EXCEPT !.left = Attempts(f), !.on = {}]
  <2>1. Try(f, to)  BY <1>3 DEF Fails
  <2>2. Attempts(f) \in Nat /\ Attempts(f) = find[f].left - 1  BY <1>2 DEF Attempts
  <2>3. to \in Finding /\ to.left = Attempts(f) /\ to.todo = find[f].todo /\ to.stale = find[f].stale
    BY <1>1, <2>2 DEF Finding
  <2> HIDE DEF to
  <2>4. Fresh(find[f])  BY DEF Inv, Good
  <2>5. Fresh(to)  BY <2>3, <2>4, Zenon DEF Fresh
  <2>6. to.left > 0 /\ to.left <= Cardinality(to.todo)  BY <1>2, <1>3, <2>2, <2>3
  <2> QED  BY <2>1, <2>3, <2>5, <2>6, TryGood
<1>4. CASE ~(Attempts(f) > 0)
  <2>1. End(f, "failed", exc)  BY <1>4 DEF Fails
  <2> QED  BY <2>1, EndGood
<1> QED  BY <1>3, <1>4
-----------------------------------------------------------------------------
(* The steps *)

LEMMA WorldStays == Inv /\ now' = now /\ alive' = alive /\ cache' = cache => World'
  BY DEF Inv, World

LEMMA NothingMoves ==
    ASSUME Inv, now' = now, alive' = alive, cache' = cache, find' = find
    PROVE  Inv'
<1>1. \A f \in Finders : Good(find[f])'  BY DEF Inv, Good, Fits, Timely, Decides, Fresh
<1> QED  BY <1>1, WorldStays DEF Inv

LEMMA OutsideStep ==
    ASSUME Inv,
           \/ Tick \/ Rescale \/ CloneStarts \/ CloneEnds
           \/ \E f \in Finders : Answers(f) \/ ServerCloses(f)
    PROVE  Inv'
<1>1. CASE Tick
  <2>1. find' = find /\ now' = now + 1 /\ alive' = alive /\ cache' = cache  BY <1>1 DEF Tick
  <2>2. World'  BY <2>1 DEF Inv, World
  <2>3. ASSUME NEW f \in Finders PROVE Good(find[f])'
    <3>1. Good(find[f]) /\ find[f] \in Finding /\ now \in Nat  BY DEF Inv, World
    <3>2. find[f].asked \in Nat  BY <3>1 DEF Finding
    <3>3. Timely(find[f])'  BY <2>1, <3>1, <3>2 DEF Good, Timely
    <3>4. Fits(find[f])' /\ Decides(find[f])' /\ Fresh(find[f])'  BY <2>1, <3>1 DEF Good, Fits, Decides, Fresh
    <3> QED  BY <3>3, <3>4 DEF Good
  <2> QED  BY <2>1, <2>2, <2>3 DEF Inv
<1>2. CASE Rescale
  <2>1. find' = find /\ now' = now /\ cache' = cache /\ alive' \in SUBSET Instances /\ alive' # {}
    BY <1>2 DEF Rescale
  <2>2. World'  BY <2>1 DEF Inv, World
  <2>3. \A f \in Finders : Good(find[f])'  BY <2>1 DEF Inv, Good, Fits, Timely, Decides, Fresh
  <2> QED  BY <2>1, <2>2, <2>3 DEF Inv
<1>3. CASE CloneStarts \/ CloneEnds  BY <1>3, NothingMoves DEF CloneStarts, CloneEnds
<1>4. CASE \E f \in Finders : Answers(f) \/ ServerCloses(f)
  BY <1>4, NothingMoves DEF Answers, ServerCloses
<1> QED  BY <1>1, <1>2, <1>3, <1>4

\* A finder that only changes its place.
LEMMA GoesGood ==
    ASSUME Inv, NEW f \in Finders, NEW to \in {"lock", "waiting", "closing"}, Goes(f, to),
           to \in Trying => find[f].at \in Trying,
           now' = now, alive' = alive, cache' = cache
    PROVE  Inv'
<1> DEFINE r == [find[f] EXCEPT !.at = to]
<1>1. find[f] \in Finding /\ Good(find[f])  BY DEF Inv
<1>2. r \in Finding /\ r.at = to /\ r.left = find[f].left /\ r.todo = find[f].todo /\ r.stale = find[f].stale
  BY <1>1 DEF Finding, Places
<1>3. find' = [find EXCEPT ![f] = r]  BY <1>1 DEF Goes, Inv
<1> HIDE DEF r
<1>4. Fits(r) /\ Timely(r) /\ Decides(r)  BY <1>1, <1>2 DEF Good, Fits, Timely, Decides, Trying
<1>5. Fresh(r)  BY <1>1, <1>2, Zenon DEF Good, Fresh
<1> QED  BY <1>2, <1>3, <1>4, <1>5, WorldStays, OneMoves DEF Good

LEMMA ResolverStep ==
    ASSUME Inv, NEW f \in Finders,
           \/ Call(f) \/ Hit(f) \/ Miss(f) \/ Resolved(f) \/ ResolveFails(f) \/ Store(f)
    PROVE  Inv'
<1>1. find[f] \in Finding /\ Good(find[f])  BY DEF Inv
<1>2. CASE Call(f)  BY <1>2, GoesGood DEF Call, Trying
<1>3. CASE Hit(f)
  <2>1. Begin(f, cache.ips, now, cache.seen) /\ cache.ips # {} /\ now - cache.time < Ttl
    BY <1>3 DEF Hit, IsFresh
  <2>2. now' = now /\ alive' = alive /\ cache' = cache  BY <1>3 DEF Hit
  <2>3. now \in Nat /\ cache.ips \in SUBSET Instances /\ cache.seen \in Nat /\ cache.time \in Nat
        /\ cache.time <= cache.seen
    BY DEF Inv, World
  <2>4. now < cache.seen + Ttl  BY <2>1, <2>3, DiscoveryAssumption
  <2> QED  BY <2>1, <2>2, <2>3, <2>4, WorldStays, BeginGood
<1>4. CASE Miss(f)
  <2> DEFINE r == [find[f] EXCEPT !.at = "resolving", !.asked = now]
  <2>1. now' = now /\ alive' = alive /\ cache' = cache /\ now \in Nat  BY <1>4 DEF Miss, Inv, World
  <2>2. r \in Finding /\ r.at = "resolving" /\ r.asked = now /\ r.stale = find[f].stale
    BY <1>1, <2>1 DEF Finding, Places
  <2>3. find' = [find EXCEPT ![f] = r]  BY <1>1, <1>4 DEF Miss, Inv
  <2> HIDE DEF r
  <2>4. Fits(r) /\ Timely(r) /\ Decides(r)  BY <2>1, <2>2 DEF Fits, Timely, Decides, Trying
  <2>5. Fresh(r)  BY <1>1, <2>2, Zenon DEF Good, Fresh
  <2> QED  BY <2>1, <2>2, <2>3, <2>4, <2>5, WorldStays, OneMoves DEF Good
<1>5. CASE Resolved(f)
  <2> DEFINE r == [find[f] EXCEPT !.at = "resolved", !.todo = alive, !.seen = now]
  <2>1. /\ now' = now /\ alive' = alive /\ cache' = cache
        /\ now \in Nat /\ alive \in SUBSET Instances /\ alive # {}
    BY <1>5 DEF Resolved, Inv, World
  <2>2. /\ r \in Finding /\ r.at = "resolved" /\ r.asked = find[f].asked /\ r.seen = now
        /\ r.todo = alive /\ r.stale = find[f].stale
    BY <1>1, <2>1 DEF Finding, Places
  <2>3. find' = [find EXCEPT ![f] = r]  BY <1>1, <1>5 DEF Resolved, Inv
  <2> HIDE DEF r
  <2>4. find[f].asked <= now  BY <1>1, <1>5 DEF Resolved, Good, Timely
  <2>5. Fits(r) /\ Timely(r) /\ Decides(r)  BY <2>1, <2>2, <2>4 DEF Fits, Timely, Decides, Trying
  <2>6. Fresh(r)  BY <1>1, <2>2, Zenon DEF Good, Fresh
  <2> QED  BY <2>1, <2>2, <2>3, <2>5, <2>6, WorldStays, OneMoves DEF Good
<1>6. CASE ResolveFails(f)  BY <1>6, WorldStays, EndGood DEF ResolveFails
<1>7. CASE Store(f)
  <2>1. now' = now /\ alive' = alive /\ cache' = Entry(f)
        /\ Begin(f, find[f].todo, find[f].asked, find[f].seen)
    BY <1>7 DEF Store
  <2>2. find[f].asked <= find[f].seen /\ find[f].todo # {}
    BY <1>1, <1>7 DEF Store, At, Good, Timely
  <2>3. find[f].asked \in Nat /\ find[f].seen \in Nat /\ find[f].todo \in SUBSET Instances
    BY <1>1 DEF Finding
  <2>4. World'  BY <2>1, <2>2, <2>3 DEF Inv, World, Entry
  <2>5. find[f].asked < find[f].seen + Ttl  BY <2>2, <2>3, DiscoveryAssumption
  <2> QED  BY <2>1, <2>2, <2>3, <2>4, <2>5, BeginGood
<1> QED  BY <1>2, <1>3, <1>4, <1>5, <1>6, <1>7

LEMMA AttemptStep ==
    ASSUME Inv, NEW f \in Finders,
           \/ Connect(f) \/ ConnectFails(f) \/ Ready(f) \/ Rejected(f) \/ Rejects(f) \/ Breaks(f)
           \/ TimedOut(f) \/ Cancel(f)
    PROVE  Inv'
<1> USE DEF At, Trying
<1>1. CASE Connect(f)  BY <1>1, GoesGood DEF Connect
<1>2. CASE ConnectFails(f)  BY <1>2, WorldStays, FailsGood DEF ConnectFails
<1>3. CASE Ready(f)  BY <1>3, WorldStays, EndGood DEF Ready
<1>4. CASE Rejected(f)  BY <1>4, GoesGood DEF Rejected
<1>5. CASE Rejects(f)  BY <1>5, WorldStays, FailsGood DEF Rejects
<1>6. CASE Breaks(f)  BY <1>6, WorldStays, FailsGood DEF Breaks
<1>7. CASE TimedOut(f)
  <2>1. Fails(f, "timeout") /\ find[f].at \in Trying  BY <1>7 DEF TimedOut, MayTimeOut
  <2>2. now' = now /\ alive' = alive /\ cache' = cache  BY <1>7 DEF TimedOut
  <2> QED  BY <2>1, <2>2, WorldStays, FailsGood
<1>8. CASE Cancel(f)  BY <1>8, WorldStays, EndGood DEF Cancel
<1> QED  BY <1>1, <1>2, <1>3, <1>4, <1>5, <1>6, <1>7, <1>8

LEMMA Starting == Init => Inv
<1> SUFFICES ASSUME Init PROVE Inv  OBVIOUS
<1>1. World  BY DEF Init, World, NoEntry
<1>2. Idle \in Finding /\ Idle.at = "idle" /\ Idle.stale = FALSE  BY DEF Idle, Finding, Places
<1>3. Good(Idle)  BY <1>2 DEF Good, Fits, Timely, Decides, Fresh, Trying
<1> QED  BY <1>1, <1>2, <1>3 DEF Init, Inv

LEMMA Invariant == Spec => []Inv
<1>1. Inv /\ UNCHANGED vars => Inv'  BY NothingMoves DEF vars
<1>2. Inv /\ [Next]_vars => Inv'
  BY <1>1, OutsideStep, ResolverStep, AttemptStep DEF Next, Proceeds
<1> QED  BY Starting, <1>2, PTL DEF Spec

\* "Should not be reached." is not reached, however many instances there are and whatever
\* they answer.
THEOREM Decided == Spec => []AlwaysDecides
<1>1. Inv => AlwaysDecides  BY DEF Inv, Good, Decides, AlwaysDecides
<1> QED  BY Invariant, <1>1, PTL

\* Nobody connects to an address that was older than the TTL when it was asked for,
\* however slow the name service is and whoever else asks.
THEOREM FreshAlways == Spec => []FreshInstances
<1>1. Inv => FreshInstances  BY DEF Inv, Good, Fresh, FreshInstances
<1> QED  BY Invariant, <1>1, PTL
=============================================================================
