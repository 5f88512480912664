---------------------------- MODULE FrontendProofs ----------------------------
(***************************************************************************)
(* Proofs about what the page and the backend share of a connection, for   *)
(* all constants: the lag of the page (Playback), the pages of a recording *)
(* on their way to the decoder (Uplink), and what follows the news of an   *)
(* interruption (Downlink).                                                *)
(*                                                                         *)
(* LagIsBounded is not inductive: after a drop the buffer holds Target,    *)
(* which is less than TotalMax only because the room above Target is       *)
(* never empty.  HeaderFirst follows from the order of the pages in the    *)
(* queue of the hook and on the wire, and this from there being one        *)
(* recorder at a time unless one was orphaned, which is for good.          *)
(* InterruptedIsLast follows from where the items are: the speech of a     *)
(* turn only in the queue that it began with, the news of its interruption *)
(* only in a later one, and emit_loop() never goes back.                   *)
(***************************************************************************)
EXTENDS MCFrontend, TLAPS

-----------------------------------------------------------------------------
(* The buffer of the page *)


\* The lesser and the greater of two numbers.
LEMMA MinOfTwo ==
    ASSUME NEW a \in Nat, NEW b \in Nat
    PROVE  Min({a, b}) = IF a <= b THEN a ELSE b
<1> DEFINE m == IF a <= b THEN a ELSE b
<1>1. m \in {a, b} /\ \A y \in {a, b} : m <= y  OBVIOUS
<1>2. \A x \in {a, b} : (\A y \in {a, b} : x <= y) => x = m  OBVIOUS
<1> QED  BY <1>1, <1>2 DEF Min

LEMMA MaxWithZero ==
    ASSUME NEW b \in Int
    PROVE  Max({0, b}) = IF b <= 0 THEN 0 ELSE b
<1> DEFINE m == IF b <= 0 THEN 0 ELSE b
<1>1. m \in {0, b} /\ \A y \in {0, b} : m >= y  OBVIOUS
<1>2. \A x \in {0, b} : (\A y \in {0, b} : x >= y) => x = m  OBVIOUS
<1> QED  BY <1>1, <1>2 DEF Max

\* The room of the buffer is never empty.
Room == maxBuffer > 0

BufferInv == TypeOK /\ Room /\ LagIsBounded /\ NothingLeftBehind

LEMMA BufferInit == Init => BufferInv
<1> SUFFICES ASSUME Init PROVE BufferInv  OBVIOUS
<1>1. /\ samples = 0 /\ remaining = 0 /\ partial = PartialBuffer /\ maxBuffer = DefaultMaxBuffer
      /\ started \in BOOLEAN /\ moves \in BOOLEAN
    BY Zenon DEF Init
<1>2. TypeOK  BY <1>1, PlaybackAssumption DEF TypeOK
<1>3. Room  BY <1>1, PlaybackAssumption DEF Room
<1>4. LagIsBounded  BY <1>1, PlaybackAssumption DEF LagIsBounded, TotalMax, Target
<1>5. NothingLeftBehind  BY <1>1, PlaybackAssumption DEF NothingLeftBehind
<1> QED  BY <1>2, <1>3, <1>4, <1>5 DEF BufferInv

\* A frame: what is kept is less than the room, old or new.
LEMMA FrameStep == BufferInv /\ GetFrame => BufferInv'
<1> SUFFICES ASSUME BufferInv, GetFrame PROVE BufferInv'  OBVIOUS
<1> USE PlaybackAssumption DEF BufferInv
<1> PICK frame \in FrameSizes :
        LET n == samples + frame IN
        /\ samples' = IF Drops(n) THEN Target ELSE n
        /\ maxBuffer' = IF Drops(n) THEN Min({MaxMaxBuffer, maxBuffer + MaxIncrement}) ELSE maxBuffer
        /\ started' = (started \/ Starts(n))
        /\ remaining' = IF Starts(n) THEN partial ELSE remaining
        /\ moves' = FALSE
        /\ UNCHANGED partial
    BY DEF GetFrame
<1> DEFINE n == samples + frame
<1> DEFINE room == Min({MaxMaxBuffer, maxBuffer + MaxIncrement})
<1>1. n \in Nat /\ maxBuffer + MaxIncrement \in Nat /\ MaxMaxBuffer \in Nat  BY DEF TypeOK
<1>2. room \in Nat /\ room > 0
  <2>1. room = IF MaxMaxBuffer <= maxBuffer + MaxIncrement THEN MaxMaxBuffer ELSE maxBuffer + MaxIncrement
    BY <1>1, MinOfTwo
  <2> HIDE DEF room
  <2> QED  BY <2>1 DEF Room, TypeOK
<1> HIDE DEF room
<1>3. started' = (started \/ Starts(n)) /\ moves' = FALSE  OBVIOUS
<1>4. /\ samples' = IF Drops(n) THEN Target ELSE n
      /\ maxBuffer' = IF Drops(n) THEN room ELSE maxBuffer
      /\ remaining' = IF Starts(n) THEN partial ELSE remaining
      /\ partial' = partial
    BY DEF room
<1>5. Target \in Nat /\ TotalMax \in Nat /\ Target' = Target
    BY <1>4 DEF TypeOK, Target, TotalMax
<1>6. TypeOK'
  <2>1. started' \in BOOLEAN /\ moves' \in BOOLEAN  BY <1>3, Zenon DEF TypeOK, Starts
  <2> QED  BY <1>1, <1>2, <1>4, <1>5, <2>1 DEF TypeOK
<1>7. Room'  BY <1>2, <1>4 DEF Room
<1>8. LagIsBounded'
  <2>1. samples' < TotalMax'
    <3>1. CASE Drops(n)  BY <3>1, <1>2, <1>4, <1>5 DEF TotalMax
    <3>2. CASE ~Drops(n)  BY <3>2, <1>1, <1>4, <1>5 DEF TotalMax, Drops
    <3> QED  BY <3>1, <3>2
  <2>2. remaining' <= partial' /\ partial' <= MaxPartial  BY <1>4 DEF TypeOK, LagIsBounded
  <2> QED  BY <2>1, <2>2 DEF LagIsBounded
<1>9. NothingLeftBehind'
  <2> SUFFICES ASSUME ~started' PROVE samples' < InitialBuffer  BY DEF NothingLeftBehind
  <2>0. ~(n >= InitialBuffer)  BY <1>3, Zenon DEF Starts
  <2>1. n < InitialBuffer  BY <2>0, <1>1
  <2>2. ~Drops(n)  BY <2>1, <1>1 DEF Drops, TotalMax, Target, TypeOK
  <2> QED  BY <2>1, <2>2, <1>4
<1> QED  BY <1>6, <1>7, <1>8, <1>9

\* A block: the samples go down and the room does not.
LEMMA BlockStep == BufferInv /\ Process => BufferInv'
<1> SUFFICES ASSUME BufferInv, Process PROVE BufferInv'  OBVIOUS
<1> USE PlaybackAssumption DEF BufferInv
<1>1. CASE Silence
  <2>1. remaining' = IF remaining - Block <= 0 THEN 0 ELSE remaining - Block
    <3>1. remaining - Block \in Int  BY DEF TypeOK
    <3> QED  BY <1>1, <3>1, MaxWithZero DEF Silence
  <2>2. remaining' \in Nat /\ remaining' <= remaining  BY <2>1 DEF TypeOK
  <2>3. samples' = samples /\ partial' = partial /\ maxBuffer' = maxBuffer  BY <1>1 DEF Silence
  <2>4. started' = started /\ moves' \in BOOLEAN  BY <1>1, Zenon DEF Silence
  <2>5. TypeOK'  BY <2>2, <2>3, <2>4 DEF TypeOK
  <2>6. LagIsBounded'  BY <2>2, <2>3 DEF TypeOK, LagIsBounded, TotalMax, Target
  <2> QED  BY <2>3, <2>4, <2>5, <2>6 DEF Room, NothingLeftBehind
<1>2. CASE Play
  BY <1>2 DEF Play, CanPlay, TypeOK, Room, LagIsBounded, TotalMax, Target, NothingLeftBehind
<1>3. CASE Underrun
  <2>1. partial' = IF MaxPartial <= partial + PartialIncrement THEN MaxPartial ELSE partial + PartialIncrement
    <3>1. partial + PartialIncrement \in Nat /\ MaxPartial \in Nat  BY DEF TypeOK
    <3> QED  BY <1>3, <3>1, MinOfTwo DEF Underrun
  <2> PICK more \in Nat : partial' = more /\ partial <= more /\ more <= MaxPartial
    BY <2>1 DEF TypeOK, LagIsBounded
  <2>3. samples' = 0 /\ remaining' = remaining /\ maxBuffer' = maxBuffer  BY <1>3 DEF Underrun
  <2>4. started' \in BOOLEAN /\ moves' \in BOOLEAN  BY <1>3, Zenon DEF Underrun
  <2>5. TypeOK'  BY <2>3, <2>4 DEF TypeOK
  <2>6. LagIsBounded'  BY <2>3 DEF TypeOK, Room, LagIsBounded, TotalMax, Target
  <2>7. NothingLeftBehind'  BY <2>3 DEF NothingLeftBehind
  <2> QED  BY <2>3, <2>5, <2>6, <2>7 DEF Room
<1> QED  BY <1>1, <1>2, <1>3 DEF Process

LEMMA BufferInvariant == Spec => []BufferInv
<1>1. BufferInv /\ UNCHANGED vars => BufferInv'
  BY DEF vars, BufferInv, TypeOK, Room, LagIsBounded, TotalMax, Target, NothingLeftBehind
<1>2. BufferInv /\ [Next]_vars => BufferInv'
  BY <1>1, FrameStep, BlockStep DEF Next
<1> QED  BY BufferInit, <1>2, PTL DEF Spec

\* The variables keep their types, however long the frames and the blocks are.
THEOREM TypeCorrect == Spec => []TypeOK
<1>1. BufferInv => TypeOK  BY DEF BufferInv
<1> QED  BY BufferInvariant, <1>1, PTL

\* The lag of the page is bounded by its buffers, at any speed of the server.
THEOREM Lag == Spec => []LagIsBounded
<1>1. BufferInv => LagIsBounded  BY DEF BufferInv
<1> QED  BY BufferInvariant, <1>1, PTL

\* When nothing is being played, less than the buffer to start with lies there.
THEOREM LeftBehind == Spec => []NothingLeftBehind
<1>1. BufferInv => NothingLeftBehind  BY DEF BufferInv
<1> QED  BY BufferInvariant, <1>1, PTL

-----------------------------------------------------------------------------
(* The user's voice *)

Page == Setups \X Nat

\* A page is that of a recording whose first page went before it, or of one that
\* goes before all first pages, and is skipped.
MayFollow(i, s, f) ==
    \/ <<i, 0>> \in f
    \/ \E q \in 1..Len(s) : s[q] = <<i, 0>>
    \/ f = {} /\ \A q \in 1..Len(s) : s[q][2] # 0

Follows(s, f) ==
    \A p \in 1..Len(s) : s[p][2] # 0 =>
        \/ <<s[p][1], 0>> \in f
        \/ \E q \in 1..(p - 1) : s[q] = <<s[p][1], 0>>
        \/ f = {} /\ \A q \in 1..(p - 1) : s[q][2] # 0

LEMMA AppendPage ==
  ASSUME NEW s \in Seq(Page), NEW x \in Page
  PROVE  /\ Append(s, x) \in Seq(Page) /\ Len(s) \in Nat /\ Len(Append(s, x)) = Len(s) + 1
         /\ \A q \in 1..Len(s) : Append(s, x)[q] = s[q]
         /\ Append(s, x)[Len(s) + 1] = x
  OBVIOUS

LEMMA TailPages ==
  ASSUME NEW s \in Seq(Page), s # <<>>
  PROVE  /\ Tail(s) \in Seq(Page) /\ Len(s) \in Nat \ {0} /\ Len(Tail(s)) = Len(s) - 1
         /\ \A q \in 1..(Len(s) - 1) : Tail(s)[q] = s[q + 1]
         /\ Head(s) \in Page /\ Head(s) = s[1]
  OBVIOUS

\* A page is sent.
LEMMA SendFollows ==
  ASSUME NEW s \in Seq(Page), NEW f, NEW i \in Setups, NEW n \in Nat,
         Follows(s, f), n # 0 => MayFollow(i, s, f)
  PROVE  Follows(Append(s, <<i, n>>), f) /\ MayFollow(i, Append(s, <<i, n>>), f)
<1> DEFINE t == Append(s, <<i, n>>)
           m == Len(s)
<1>1. /\ m \in Nat /\ Len(t) = m + 1 /\ \A q \in 1..m : t[q] = s[q]
      /\ t[m + 1] = <<i, n>>
  BY AppendPage DEF Page
<1> HIDE DEF t
<1>2. ASSUME NEW p \in 1..Len(t), t[p][2] # 0
      PROVE  \/ <<t[p][1], 0>> \in f
             \/ \E q \in 1..(p - 1) : t[q] = <<t[p][1], 0>>
             \/ f = {} /\ \A q \in 1..(p - 1) : t[q][2] # 0
  <2>1. CASE p \in 1..m
    <3>1. t[p] = s[p] /\ \A q \in 1..(p - 1) : t[q] = s[q]  BY <1>1, <2>1
    <3>2. \/ <<s[p][1], 0>> \in f
          \/ \E q \in 1..(p - 1) : s[q] = <<s[p][1], 0>>
          \/ f = {} /\ \A q \in 1..(p - 1) : s[q][2] # 0
      BY <1>2, <2>1, <3>1 DEF Follows
    <3> QED  BY <3>1, <3>2
  <2>2. CASE p = m + 1
    <3>1. t[p] = <<i, n>> /\ n # 0 /\ p - 1 = m  BY <1>1, <1>2, <2>2
    <3> QED  BY <1>1, <3>1 DEF MayFollow
  <2> QED  BY <1>1, <2>1, <2>2
<1>3. MayFollow(i, t, f)
  <2>1. m + 1 \in 1..Len(t)  BY <1>1
  <2>2. CASE n = 0  BY <1>1, <2>1, <2>2 DEF MayFollow
  <2>3. CASE n # 0
    <3>1. \A q \in 1..Len(t) : q \in 1..m \/ t[q] = <<i, n>>  BY <1>1
    <3>2. \A q \in 1..m : q \in 1..Len(t)  BY <1>1
    <3>3. MayFollow(i, s, f)  BY <2>3
    <3>4. \A q \in 1..Len(t) : t[q][2] # 0 \/ \E k \in 1..m : t[q] = s[k]
      BY <1>1, <2>3, <3>1
    <3>5. CASE \E q \in 1..m : s[q] = <<i, 0>>
      <4>1. PICK q \in 1..m : s[q] = <<i, 0>>  BY <3>5
      <4>2. t[q] = <<i, 0>> /\ q \in 1..Len(t)  BY <1>1, <3>2, <4>1
      <4> QED  BY <4>2 DEF MayFollow
    <3> QED  BY <3>3, <3>4, <3>5 DEF MayFollow, m
  <2> QED  BY <2>2, <2>3
<1> QED  BY <1>2, <1>3 DEF Follows, t

\* The server skips a page, or decodes one.
LEMMA SkipFollows ==
  ASSUME NEW s \in Seq(Page), s # <<>>, Head(s)[2] # 0, Follows(s, {})
  PROVE  /\ Follows(Tail(s), {})
         /\ \A i \in Setups : MayFollow(i, s, {}) => MayFollow(i, Tail(s), {})
<1> DEFINE t == Tail(s)
           m == Len(s) - 1
<1>1. m \in Nat /\ Len(s) = m + 1 /\ Len(t) = m /\ (\A q \in 1..m : t[q] = s[q + 1]) /\ s[1][2] # 0
  BY TailPages
<1> HIDE DEF t, m
<1>2. \A i \in Setups, k \in 1..Len(s) : s[k] = <<i, 0>> => k - 1 \in 1..m /\ t[k - 1] = s[k]
  <2> SUFFICES ASSUME NEW i \in Setups, NEW k \in 1..Len(s), s[k] = <<i, 0>>
               PROVE  k - 1 \in 1..m /\ t[k - 1] = s[k]
    OBVIOUS
  <2>1. k # 1  BY <1>1
  <2>2. k - 1 \in 1..m /\ (k - 1) + 1 = k  BY <1>1, <2>1
  <2> QED  BY <1>1, <2>2
<1>3. ASSUME NEW p \in 1..Len(t), t[p][2] # 0
      PROVE  \/ \E q \in 1..(p - 1) : t[q] = <<t[p][1], 0>>
             \/ \A q \in 1..(p - 1) : t[q][2] # 0
  <2>1. p + 1 \in 1..Len(s) /\ t[p] = s[p + 1] /\ p \in 1..m /\ (p + 1) - 1 = p  BY <1>1
  <2>2. CASE \E q \in 1..p : s[q] = <<s[p + 1][1], 0>>
    <3>1. PICK q \in 1..p : s[q] = <<s[p + 1][1], 0>>  BY <2>2
    <3>2. q \in 1..Len(s) /\ q # 1  BY <1>1, <2>1, <3>1
    <3>3. q - 1 \in 1..(p - 1) /\ q - 1 \in 1..m /\ (q - 1) + 1 = q  BY <1>1, <2>1, <3>2
    <3>4. t[q - 1] = <<t[p][1], 0>>  BY <1>1, <2>1, <3>1, <3>3
    <3> QED  BY <3>3, <3>4
  <2>3. CASE \A q \in 1..p : s[q][2] # 0
    <3>1. \A q \in 1..(p - 1) : q + 1 \in 1..p /\ q \in 1..m  BY <1>1, <2>1
    <3> QED  BY <1>1, <2>3, <3>1
  <2> QED  BY <1>3, <2>1, <2>2, <2>3 DEF Follows
<1>4. ASSUME NEW i \in Setups, MayFollow(i, s, {}) PROVE MayFollow(i, t, {})
  <2>1. CASE \E q \in 1..Len(s) : s[q] = <<i, 0>>
    <3>1. PICK q \in 1..Len(s) : s[q] = <<i, 0>>  BY <2>1
    <3>2. q - 1 \in 1..Len(t) /\ t[q - 1] = <<i, 0>>  BY <1>1, <1>2, <3>1
    <3> QED  BY <3>2 DEF MayFollow
  <2>2. CASE \A q \in 1..Len(s) : s[q][2] # 0
    <3>1. \A q \in 1..m : q + 1 \in 1..Len(s)  BY <1>1
    <3> QED  BY <1>1, <2>2, <3>1 DEF MayFollow
  <2> QED  BY <1>4, <2>1, <2>2 DEF MayFollow
<1> QED  BY <1>3, <1>4 DEF Follows, t

LEMMA DecodeFollows ==
  ASSUME NEW s \in Seq(Page), s # <<>>, NEW f, f # {} \/ Head(s)[2] = 0, Follows(s, f)
  PROVE  /\ Head(s)[2] # 0 => <<Head(s)[1], 0>> \in f
         /\ Follows(Tail(s), f \cup {Head(s)})
         /\ \A i \in Setups : MayFollow(i, s, f) => MayFollow(i, Tail(s), f \cup {Head(s)})
<1> DEFINE t == Tail(s)
           g == f \cup {Head(s)}
           m == Len(s) - 1
<1>1. /\ m \in Nat /\ Len(s) = m + 1 /\ Len(t) = m /\ (\A q \in 1..m : t[q] = s[q + 1])
      /\ Head(s) = s[1]
  BY TailPages
<1>2. s[1] \in g /\ f \subseteq g /\ (f # {} \/ s[1][2] = 0)  BY <1>1
<1> HIDE DEF t, g, m
<1>3. 1 \in 1..Len(s) /\ 1..(1 - 1) = {}  BY <1>1
<1>4. s[1][2] # 0 => <<s[1][1], 0>> \in f  BY <1>2, <1>3 DEF Follows
<1>5. ASSUME NEW p \in 1..Len(t), t[p][2] # 0
      PROVE  <<t[p][1], 0>> \in g \/ \E q \in 1..(p - 1) : t[q] = <<t[p][1], 0>>
  <2>1. p + 1 \in 1..Len(s) /\ t[p] = s[p + 1] /\ p \in 1..m /\ (p + 1) - 1 = p /\ 1 \in 1..p  BY <1>1
  <2>2. <<s[p + 1][1], 0>> \in f \/ \E q \in 1..p : s[q] = <<s[p + 1][1], 0>>
    BY <1>2, <1>5, <2>1 DEF Follows
  <2>3. CASE \E q \in 1..p : s[q] = <<s[p + 1][1], 0>>
    <3>1. PICK q \in 1..p : s[q] = <<s[p + 1][1], 0>>  BY <2>3
    <3>2. CASE q = 1  BY <1>2, <2>1, <3>1, <3>2
    <3>3. CASE q # 1
      <4>1. q - 1 \in 1..(p - 1) /\ q - 1 \in 1..m /\ (q - 1) + 1 = q  BY <1>1, <2>1, <3>3
      <4> QED  BY <1>1, <2>1, <3>1, <4>1
    <3> QED  BY <3>2, <3>3
  <2> QED  BY <1>2, <2>1, <2>2, <2>3
<1>6. ASSUME NEW i \in Setups, MayFollow(i, s, f) PROVE MayFollow(i, t, g)
  <2>1. <<i, 0>> \in f \/ \E q \in 1..Len(s) : s[q] = <<i, 0>>
    BY <1>2, <1>3, <1>6 DEF MayFollow
  <2>2. ASSUME NEW q \in 1..Len(s), s[q] = <<i, 0>>, q # 1 PROVE \E k \in 1..Len(t) : t[k] = <<i, 0>>
    <3>1. q - 1 \in 1..m /\ (q - 1) + 1 = q  BY <1>1, <2>2
    <3> QED  BY <1>1, <2>2, <3>1
  <2> QED  BY <1>2, <2>1, <2>2 DEF MayFollow
<1> QED  BY <1>1, <1>4, <1>5, <1>6 DEF Follows, t, g

\* What is on its way to the decoder, or will be when the page is connected.
Stream == IF ready = "open" THEN wire ELSE queue

Live(i) == setup[i] \in {"running", "stopping"}

UpTypes ==
    /\ setup \in [Setups -> {"free", "asking", "loading", "running", "stopping", "over"}]
    /\ made \in [Setups -> Nat] /\ ref \subseteq Setups
    /\ wire \in Seq(Page) /\ queue \in Seq(Page) /\ fed \subseteq Page

\* The hook keeps nothing while it is connected, and the decoder is new at each connection.
LinkOK ==
    /\ ready = "open" => queue = <<>>
    /\ ready # "open" => wire = <<>> /\ fed = {}
    /\ ready # "closed" => want
    /\ first <=> fed = {}

RecordersOK ==
    /\ \A i \in ref : setup[i] = "running"
    /\ \A i \in Setups : made[i] # 0 => setup[i] \in {"running", "stopping", "over"}

\* Unless a recorder was orphaned, one at a time makes pages.
OneLive == \A i, j \in Setups : Live(i) /\ Live(j) => i = j

PagesOK ==
    Up!Orphans = {} =>
        /\ OneLive
        /\ Follows(Stream, fed)
        /\ \A i \in Setups : Live(i) /\ made[i] # 0 => MayFollow(i, Stream, fed)
        /\ \A opus \in fed : <<opus[1], 0>> \in fed

UpInv == UpTypes /\ LinkOK /\ RecordersOK /\ PagesOK

LEMMA UpInit == Up!Init => UpInv
  <1> SUFFICES ASSUME Up!Init PROVE UpInv  OBVIOUS
  <1>1. UpTypes  BY DEF Up!Init, UpTypes
  <1>2. LinkOK  BY DEF Up!Init, LinkOK
  <1>3. RecordersOK  BY DEF Up!Init, RecordersOK
  <1>4. PagesOK  BY DEF Up!Init, PagesOK, OneLive, Live, Follows, Stream
  <1> QED  BY <1>1, <1>2, <1>3, <1>4 DEF UpInv

\* A step after which no other pages are to come and no recorder more makes them.
LEMMA UpQuiet ==
  ASSUME UpInv, UpTypes', LinkOK', Up!Orphans' = {} => Up!Orphans = {},
         (Stream' = Stream /\ fed' = fed) \/ (Stream' = <<>> /\ fed' = {}),
         \A i \in Setups : Live(i)' /\ made'[i] # 0 => Live(i) /\ made[i] # 0,
         OneLive => OneLive'
  PROVE  PagesOK'
<1> SUFFICES ASSUME Up!Orphans' = {}
             PROVE  /\ OneLive' /\ Follows(Stream, fed)'
                    /\ \A i \in Setups : Live(i)' /\ made'[i] # 0 => MayFollow(i, Stream', fed')
                    /\ \A opus \in fed' : <<opus[1], 0>> \in fed'
  BY DEF PagesOK
<1>1. /\ OneLive /\ Follows(Stream, fed)
      /\ \A i \in Setups : Live(i) /\ made[i] # 0 => MayFollow(i, Stream, fed)
      /\ \A opus \in fed : <<opus[1], 0>> \in fed
  BY DEF UpInv, PagesOK
<1>2. CASE Stream' = Stream /\ fed' = fed  BY <1>1, <1>2
<1>3. CASE Stream' = <<>> /\ fed' = {}
  <2>1. \A i \in Setups : MayFollow(i, Stream', fed')  BY <1>3 DEF MayFollow
  <2>2. Follows(Stream, fed)'  BY <1>3 DEF Follows
  <2> QED  BY <1>1, <1>3, <2>1, <2>2
<1> QED  BY <1>2, <1>3

\* A step of a set-up that makes no pages, before or after.
LEMMA SetupQuiet ==
  ASSUME UpInv, NEW i \in Setups, NEW to \in {"asking", "loading", "over"},
         setup[i] \notin {"running", "stopping"}, setup' = [setup EXCEPT ![i] = to],
         made[i] = 0 \/ to = "over",
         UNCHANGED <<made, ref, queue, wire, first, fed>>,
         \/ ready' = ready /\ want' = want
         \/ want' /\ (ready' = IF want THEN ready ELSE "connecting")
  PROVE  UpInv'
<1> USE DEF UpInv
<1>1. \A k \in Setups : setup'[k] = IF k = i THEN to ELSE setup[k]  BY DEF UpTypes
<1>2. UpTypes'  BY DEF UpTypes
<1>3. LinkOK'  BY DEF LinkOK
<1>4. RecordersOK'  BY <1>1 DEF UpTypes, RecordersOK
<1>5. \A k \in Setups : Live(k)' <=> Live(k)  BY <1>1 DEF Live
<1>6. Up!Orphans' = Up!Orphans  BY <1>1, <1>5 DEF Up!Orphans
<1>7. Stream' = Stream  BY <1>3 DEF LinkOK, Stream
<1>8. OneLive => OneLive'  BY <1>5 DEF OneLive
<1>9. \A k \in Setups : Live(k)' /\ made'[k] # 0 => Live(k) /\ made[k] # 0  BY <1>5
<1>10. Up!Orphans' = {} => Up!Orphans = {}  BY <1>6
<1>11. PagesOK'
  <2>1. (Stream' = Stream /\ fed' = fed) \/ (Stream' = <<>> /\ fed' = {})  BY <1>7
  <2> QED  BY <1>2, <1>3, <1>8, <1>9, <1>10, <2>1, UpQuiet
<1> QED  BY <1>2, <1>3, <1>4, <1>11

\* The page disconnects.
LEMMA DisconnectInv ==
  ASSUME UpInv, Up!ShutdownAudio, Up!Closed, want' = FALSE, UNCHANGED <<made, queue>>
  PROVE  UpInv'
<1> USE DEF UpInv
<1>1. \A k \in Setups : setup'[k] = IF k \in ref THEN "stopping" ELSE setup[k]
  BY DEF Up!ShutdownAudio
<1>2. UpTypes'  BY DEF UpTypes, Up!ShutdownAudio, Up!Closed
<1>3. LinkOK'  BY Zenon DEF LinkOK, Up!Closed
<1>4. RecordersOK'  BY <1>1 DEF UpTypes, RecordersOK, Up!ShutdownAudio
<1>5. \A k \in Setups : Live(k)' <=> Live(k)  BY <1>1 DEF Live, RecordersOK
<1>6. Up!Orphans' = {} => Up!Orphans = {}
  <2>1. Up!Orphans \subseteq Up!Orphans'
    BY <1>1 DEF Up!Orphans, Up!ShutdownAudio
  <2> QED  BY <2>1
<1>7. (Stream' = Stream /\ fed' = fed) \/ (Stream' = <<>> /\ fed' = {})
  BY DEF LinkOK, Stream, Up!Closed
<1>8. OneLive => OneLive'  BY <1>5 DEF OneLive
<1>9. PagesOK'  BY <1>2, <1>3, <1>5, <1>6, <1>7, <1>8, UpQuiet
<1> QED  BY <1>2, <1>3, <1>4, <1>9

\* A recorder hands out a page, and may be done.
LEMMA SendInv ==
  ASSUME UpInv, NEW i \in Setups, Live(i), Up!SendMessage(i),
         setup' = setup \/ (setup[i] = "stopping" /\ setup' = [setup EXCEPT ![i] = "over"])
  PROVE  UpInv'
<1> USE DEF UpInv
<1> DEFINE page == <<i, made[i]>>
<1>1. made[i] \in Nat /\ page \in Page  BY DEF UpTypes, Page
<1>2. /\ made' \in [Setups -> Nat] /\ made'[i] # 0
      /\ \A k \in Setups : made'[k] # made[k] => k = i
  <2>1. made' = [made EXCEPT ![i] = made[i] + 1]  BY DEF Up!SendMessage
  <2>2. made[i] + 1 \in Nat /\ made[i] + 1 # 0  BY <1>1
  <2> QED  BY <2>1, <2>2 DEF UpTypes
<1>3. \A k \in Setups : setup'[k] = setup[k] \/ (k = i /\ setup[i] = "stopping" /\ setup'[k] = "over")
  BY DEF UpTypes
<1>4. /\ IF ready = "open" THEN wire' = Append(wire, page) /\ queue' = queue
         ELSE queue' = Append(queue, page) /\ wire' = wire
      /\ UNCHANGED <<want, ref, ready, first, fed>>
  BY DEF Up!SendMessage, Up!server
<1>5. UpTypes'
  <2>1. wire' \in Seq(Page) /\ queue' \in Seq(Page)
    <3>1. Append(wire, page) \in Seq(Page) /\ Append(queue, page) \in Seq(Page)
      BY <1>1, AppendPage DEF UpTypes
    <3> QED  BY <1>4, <3>1 DEF UpTypes
  <2> QED  BY <1>2, <1>4, <2>1 DEF UpTypes
<1>6. LinkOK'  BY <1>4 DEF LinkOK
<1>7. RecordersOK'
  <2>1. i \in ref => setup[i] = "running"  BY DEF RecordersOK
  <2>2. \A k \in ref : setup'[k] = "running"  BY <1>3, <2>1 DEF RecordersOK, UpTypes
  <2>3. \A k \in Setups : made'[k] # 0 => setup'[k] \in {"running", "stopping", "over"}
    BY <1>2, <1>3 DEF RecordersOK, Live
  <2> QED  BY <1>4, <2>2, <2>3 DEF RecordersOK
<1>8. PagesOK'
  <2> SUFFICES ASSUME Up!Orphans' = {}
               PROVE  /\ OneLive' /\ Follows(Stream, fed)'
                      /\ \A k \in Setups : Live(k)' /\ made'[k] # 0 => MayFollow(k, Stream', fed')
                      /\ \A opus \in fed' : <<opus[1], 0>> \in fed'
    BY DEF PagesOK
  <2>1. Up!Orphans = {}
    <3>1. Up!Orphans \subseteq Up!Orphans'  BY <1>3, <1>4 DEF Up!Orphans
    <3> QED  BY <3>1
  <2>2. \A opus \in fed : <<opus[1], 0>> \in fed  BY <2>1 DEF PagesOK
  <2>3. \A k \in Setups : Live(k)' => k = i
    <3>1. OneLive  BY <2>1 DEF PagesOK
    <3>2. \A k \in Setups : Live(k)' => Live(k)  BY <1>3 DEF Live
    <3> QED  BY <3>1, <3>2 DEF OneLive
  <2>4. Stream \in Seq(Page) /\ Stream' = Append(Stream, page)  BY <1>4 DEF UpTypes, Stream
  <2> HIDE DEF Stream
  <2>5. Follows(Append(Stream, page), fed) /\ MayFollow(i, Append(Stream, page), fed)
    <3>1. Follows(Stream, fed)  BY <2>1 DEF PagesOK
    <3>2. made[i] # 0 => MayFollow(i, Stream, fed)  BY <2>1 DEF PagesOK
    <3> QED  BY <1>1, <2>4, <3>1, <3>2, SendFollows
  <2>6. fed' = fed  BY <1>4
  <2> HIDE DEF page
  <2>7. OneLive'  BY <2>3 DEF OneLive
  <2> QED  BY <2>2, <2>3, <2>4, <2>5, <2>6, <2>7
<1> QED  BY <1>5, <1>6, <1>7, <1>8

\* The server looks at the next page.
LEMMA ServerInv ==
  ASSUME UpInv, Up!Skips \/ Up!Decodes
  PROVE  UpInv'
<1> USE DEF UpInv
<1>1. wire \in Seq(Page) /\ wire # <<>> /\ wire' = Tail(wire)
      /\ UNCHANGED <<want, setup, ref, made, ready, queue>>
  BY DEF Up!Skips, Up!Decodes, Up!page, UpTypes
<1>2. \/ first' = first /\ fed' = fed /\ fed = {} /\ Head(wire)[2] # 0
      \/ ~first' /\ fed' = fed \cup {Head(wire)} /\ (fed # {} \/ Head(wire)[2] = 0)
  BY DEF Up!Skips, Up!Decodes, Up!Goes, Up!IsFirst, Up!server, LinkOK
<1>3. Tail(wire) \in Seq(Page) /\ Head(wire) \in Page  BY <1>1, TailPages
<1>4. ready = "open" /\ Stream = wire /\ Stream' = Tail(wire)  BY <1>1 DEF LinkOK, Stream
<1>5. UpTypes'  BY <1>1, <1>2, <1>3 DEF UpTypes
<1>6. LinkOK'  BY <1>1, <1>2, <1>4, Zenon DEF LinkOK
<1>7. RecordersOK'  BY <1>1 DEF RecordersOK
<1>8. PagesOK'
  <2> SUFFICES ASSUME Up!Orphans' = {}
               PROVE  /\ OneLive' /\ Follows(Stream, fed)'
                      /\ \A k \in Setups : Live(k)' /\ made'[k] # 0 => MayFollow(k, Stream', fed')
                      /\ \A opus \in fed' : <<opus[1], 0>> \in fed'
    BY DEF PagesOK
  <2>1. Up!Orphans = {}  BY <1>1 DEF Up!Orphans
  <2>2. /\ OneLive /\ Follows(wire, fed)
        /\ \A k \in Setups : Live(k) /\ made[k] # 0 => MayFollow(k, wire, fed)
        /\ \A opus \in fed : <<opus[1], 0>> \in fed
    BY <1>4, <2>1 DEF PagesOK
  <2>3. OneLive' /\ \A k \in Setups : Live(k)' /\ made'[k] # 0 => MayFollow(k, wire, fed)
    BY <1>1, <2>2 DEF OneLive, Live
  <2>4. CASE fed' = fed /\ fed = {} /\ Head(wire)[2] # 0
    <3>1. /\ Follows(Tail(wire), {})
          /\ \A k \in Setups : MayFollow(k, wire, {}) => MayFollow(k, Tail(wire), {})
      BY <1>1, <2>2, <2>4, SkipFollows
    <3> QED  BY <1>4, <2>2, <2>3, <2>4, <3>1
  <2>5. CASE fed' = fed \cup {Head(wire)} /\ (fed # {} \/ Head(wire)[2] = 0)
    <3>1. /\ Head(wire)[2] # 0 => <<Head(wire)[1], 0>> \in fed
          /\ Follows(Tail(wire), fed \cup {Head(wire)})
          /\ \A k \in Setups : MayFollow(k, wire, fed) => MayFollow(k, Tail(wire), fed \cup {Head(wire)})
      BY <1>1, <2>2, <2>5, DecodeFollows
    <3>2. Head(wire)[2] = 0 => <<Head(wire)[1], 0>> = Head(wire)  BY <1>3 DEF Page
    <3> QED  BY <1>4, <2>2, <2>3, <2>5, <3>1, <3>2
  <2> QED  BY <1>2, <2>4, <2>5
<1> QED  BY <1>5, <1>6, <1>7, <1>8

LEMMA UpStep == UpInv /\ [Up!Next]_Up!vars => UpInv'
  <1> SUFFICES ASSUME UpInv, [Up!Next]_Up!vars PROVE UpInv'  OBVIOUS
  <1> USE DEF Up!page, Up!server
  <1>1. CASE Up!CheckHealth \/ UNCHANGED Up!vars
    <2>1. UNCHANGED <<want, setup, made, ref, ready, queue, wire, first, fed>>
      BY <1>1 DEF Up!CheckHealth, Up!vars
    <2> QED
      BY <2>1
      DEF UpInv, UpTypes, LinkOK, RecordersOK, PagesOK, Stream, OneLive, Live, Up!Orphans
  <1>2. CASE Up!PressDisconnect \/ Up!Reconfigure \/ Up!Lost
    BY <1>2, DisconnectInv
    DEF Up!PressDisconnect, Up!Reconfigure, Up!Lost, Up!Disconnect
  <1>3. CASE Up!Opens
    <2>1. /\ ready = "connecting" /\ ready' = "open" /\ wire' = queue /\ queue' = <<>>
          /\ UNCHANGED <<want, setup, made, ref, first, fed>>
      BY <1>3 DEF Up!Opens
    <2>2. UpTypes'  BY <2>1 DEF UpInv, UpTypes
    <2>3. LinkOK'  BY <2>1 DEF UpInv, LinkOK
    <2>4. RecordersOK'  BY <2>1 DEF UpInv, RecordersOK
    <2>5. Stream' = Stream /\ fed' = fed /\ made' = made  BY <2>1 DEF Stream
    <2>6. \A i \in Setups : Live(i)' <=> Live(i)  BY <2>1 DEF Live
    <2>7. Up!Orphans' = Up!Orphans  BY <2>1 DEF Up!Orphans
    <2>8. OneLive => OneLive'  BY <2>6 DEF OneLive
    <2>9. PagesOK'
      <3>1. (Stream' = Stream /\ fed' = fed) \/ (Stream' = <<>> /\ fed' = {})  BY <2>5
      <3>2. \A i \in Setups : Live(i)' /\ made'[i] # 0 => Live(i) /\ made[i] # 0  BY <2>5, <2>6
      <3>3. Up!Orphans' = {} => Up!Orphans = {}  BY <2>7
      <3> QED  BY <2>2, <2>3, <2>8, <3>1, <3>2, <3>3, UpQuiet
    <2> QED  BY <2>2, <2>3, <2>4, <2>9 DEF UpInv
  <1>4. CASE Up!Skips \/ Up!Decodes  BY <1>4, ServerInv
  <1>5. ASSUME NEW i \in Setups, setup[i] \in {"free", "asking", "loading"}
        PROVE  made[i] = 0
    BY <1>5 DEF UpInv, RecordersOK
  <1>6. ASSUME NEW i \in Setups, Up!PressConnect(i) PROVE UpInv'
    BY <1>5, <1>6, SetupQuiet, Zenon DEF Up!PressConnect
  <1>7. ASSUME NEW i \in Setups, Up!Refused(i) PROVE UpInv'
    BY <1>5, <1>7, SetupQuiet, Zenon DEF Up!Refused
  <1>8. ASSUME NEW i \in Setups, Up!SetUpAlready(i) PROVE UpInv'
    BY <1>5, <1>8, SetupQuiet DEF Up!SetUpAlready, Up!SetShouldConnect
  <1>9. ASSUME NEW i \in Setups, Up!LoadsWorklet(i) PROVE UpInv'
    BY <1>5, <1>9, SetupQuiet, Zenon DEF Up!LoadsWorklet
  <1>10. ASSUME NEW i \in Setups, Up!SetUp(i) PROVE UpInv'
    <2>1. /\ setup[i] = "loading" /\ \A j \in Setups : setup[j] # "stopping"
          /\ setup' = [setup EXCEPT ![i] = "running"] /\ ref' = {i}
          /\ want' /\ ready' = IF want THEN ready ELSE "connecting"
          /\ UNCHANGED <<made, queue, wire, first, fed>>
      BY <1>10 DEF Up!SetUp, Up!SetShouldConnect
    <2>2. \A k \in Setups : setup'[k] = IF k = i THEN "running" ELSE setup[k]
      BY <2>1 DEF UpInv, UpTypes
    <2>3. UpTypes'  BY <2>1 DEF UpInv, UpTypes
    <2>4. LinkOK'  BY <2>1 DEF UpInv, LinkOK
    <2>5. RecordersOK'  BY <2>1, <2>2 DEF UpInv, RecordersOK
    <2>6. Stream' = Stream /\ fed' = fed  BY <2>1, <2>4 DEF UpInv, LinkOK, Stream
    <2>7. made'[i] = 0  BY <1>5, <2>1
    <2>8. \A k \in Setups : Live(k)' /\ made'[k] # 0 => Live(k) /\ made[k] # 0
      BY <2>1, <2>2, <2>7 DEF Live
    <2>9. Up!Orphans' = {} => Up!Orphans = {} /\ \A k \in Setups : Live(k)' => k = i
      <3>1. \A k \in Setups : Live(k)' => k = i \/ k \in Up!Orphans'
        BY <2>1, <2>2 DEF Live, Up!Orphans
      <3>2. Up!Orphans \subseteq Up!Orphans'  BY <2>1, <2>2 DEF Up!Orphans
      <3> QED  BY <3>1, <3>2
    <2>10. CASE Up!Orphans' = {}
      <3>1. OneLive'  BY <2>9, <2>10 DEF OneLive
      <3>2. Up!Orphans = {}  BY <2>9, <2>10
      <3>3. (Stream' = Stream /\ fed' = fed) \/ (Stream' = <<>> /\ fed' = {})  BY <2>6
      <3>4. PagesOK'  BY <2>3, <2>4, <2>8, <3>1, <3>2, <3>3, UpQuiet
      <3> QED  BY <2>3, <2>4, <2>5, <3>4 DEF UpInv
    <2>11. CASE Up!Orphans' # {}
      BY <2>3, <2>4, <2>5, <2>11 DEF UpInv, PagesOK
    <2> QED  BY <2>10, <2>11
  <1>11. ASSUME NEW i \in Setups, Up!Records(i) PROVE UpInv'
    BY <1>11, SendInv DEF Up!Records, Live
  <1>12. ASSUME NEW i \in Setups, Up!LastPage(i) PROVE UpInv'
    BY <1>12, SendInv DEF Up!LastPage, Live
  <1> QED
    BY <1>1, <1>2, <1>3, <1>4, <1>6, <1>7, <1>8, <1>9, <1>10, <1>11, <1>12 DEF Up!Next

\* The decoder gets no page of a recording without its first page before, whatever the
\* hook has kept of earlier recordings and connections, unless a recorder was orphaned.
THEOREM DecoderHasHeader == Up!Spec => []HeaderFirst
  <1>1. UpInv /\ [Up!Next]_Up!vars => UpInv'  BY UpStep
  <1>2. UpInv => HeaderFirst  BY DEF UpInv, PagesOK, HeaderFirst, Up!HeaderFirst
  <1> QED  BY <1>1, <1>2, UpInit, PTL DEF Up!Spec

-----------------------------------------------------------------------------
(* The bot's voice *)

\* Speech waits in the queue its turn began with, the news of the interruption of a turn
\* in a later one.
ItemOK(q, item) ==
    /\ item.what = "speech" => item.turn \in 1..turn /\ task[item.turn].q = q
    /\ item.what = "interrupted" => item.turn \in 1..turn /\ task[item.turn].q < q

DownTypes ==
    /\ turn \in 0..MaxTurns /\ gen \in 0..turn
    /\ outq \in [Down!Queues -> Seq(Down!Items)] /\ emitq \in Seq(Down!Items)
    /\ task \in [Down!Turns -> [at : {"none", "speaking", "cut", "finished", "over"}, q : Down!Queues]]
    /\ emit \in [at : {"top", "waiting", "encoding", "sending", "ended"}, q : Down!Queues, item : Down!Items]
    /\ told \subseteq Down!Turns

\* While a turn is spoken, its queue is the present one.
TurnsOK ==
    /\ \A t \in Down!Turns : IF t <= turn THEN task[t].q <= gen ELSE task[t].at = "none"
    /\ turn > 0 /\ task[turn].at = "speaking" => task[turn].q = gen /\ gen < turn

QueuesOK ==
    /\ \A q \in Down!Queues : \A k \in 1..Len(outq[q]) : ItemOK(q, outq[q][k])
    /\ \A k \in 1..Len(emitq) : emitq[k].what = "event"

\* emit() waits on queues in the order of their numbers.
EmitOK ==
    /\ emit.at = "waiting" => emit.q <= gen
    /\ emit.item.what = "interrupted" => emit.item.turn \in 1..turn /\ task[emit.item.turn].q < gen
    /\ emit.item.what = "speech" => emit.item.turn \notin told
    /\ \A t \in told : /\ t \in 1..turn /\ task[t].q < gen
                       /\ emit.at = "waiting" => task[t].q < emit.q

DownInv == DownTypes /\ TurnsOK /\ QueuesOK /\ EmitOK

LEMMA MaxTurnsNat == MaxTurns \in Nat
  BY BoundsAssumption DEF Down!DownlinkAssumption

LEMMA TurnIndex ==
  ASSUME DownInv
  PROVE  /\ turn \in Nat /\ gen \in Nat /\ gen <= turn /\ turn <= MaxTurns
         /\ gen \in Down!Queues /\ 0 \in Down!Queues /\ 1..turn \subseteq Down!Turns
         /\ \A t \in Down!Turns : t \in Nat /\ t \in 0..MaxTurns /\ (t <= turn => t \in 1..turn)
         /\ \A q \in Down!Queues : q \in Nat
  <1>1. turn \in 0..MaxTurns /\ gen \in 0..turn  BY DEF DownInv, DownTypes
  <1> QED  BY <1>1, MaxTurnsNat DEF Down!Queues, Down!Turns

LEMMA DownInit == Down!Init => DownInv
  <1> SUFFICES ASSUME Down!Init PROVE DownInv  OBVIOUS
  <1>1. /\ turn = 0 /\ gen = 0 /\ told = {} /\ emitq = <<>> /\ outq = [q \in Down!Queues |-> <<>>]
        /\ task = [t \in Down!Turns |-> [at |-> "none", q |-> 0]]
        /\ emit = [at |-> "top", q |-> 0, item |-> [what |-> "none", turn |-> 0]]
    BY DEF Down!Init, Down!Top, Down!Item
  <1>2. 0 \in 0..MaxTurns /\ 0 \in Down!Queues  BY MaxTurnsNat DEF Down!Queues
  <1>3. [what |-> "none", turn |-> 0] \in Down!Items  BY <1>2 DEF Down!Items, Down!Kinds
  <1>4. DownTypes  BY <1>1, <1>2, <1>3 DEF DownTypes
  <1>5. \A t \in Down!Turns : ~(t <= 0)  BY MaxTurnsNat DEF Down!Turns
  <1>6. TurnsOK  BY <1>1, <1>5 DEF TurnsOK
  <1>7. QueuesOK  BY <1>1 DEF QueuesOK
  <1>8. EmitOK  BY <1>1 DEF EmitOK
  <1> QED  BY <1>4, <1>6, <1>7, <1>8 DEF DownInv

LEMMA AppendItem ==
  ASSUME NEW s \in Seq(Down!Items), NEW x \in Down!Items
  PROVE  /\ Append(s, x) \in Seq(Down!Items)
         /\ \A k \in 1..Len(Append(s, x)) : Append(s, x)[k] = x \/ (k \in 1..Len(s) /\ Append(s, x)[k] = s[k])
  OBVIOUS

LEMMA TailItems ==
  ASSUME NEW s \in Seq(Down!Items), s # <<>>
  PROVE  /\ Tail(s) \in Seq(Down!Items) /\ Head(s) \in Down!Items /\ Head(s) = s[1] /\ 1 \in 1..Len(s)
         /\ \A k \in 1..Len(Tail(s)) : k + 1 \in 1..Len(s) /\ Tail(s)[k] = s[k + 1]
  OBVIOUS

\* A task puts an item into a queue.
LEMMA PutOK ==
  ASSUME DownInv, NEW q, NEW what \in Down!Kinds, NEW t \in 0..MaxTurns,
         ItemOK(q, [what |-> what, turn |-> t]), Down!Put(q, Down!Item(what, t))
  PROVE  /\ outq' \in [Down!Queues -> Seq(Down!Items)]
         /\ \A r \in Down!Queues : \A k \in 1..Len(outq'[r]) : ItemOK(r, outq'[r][k])
  <1> PICK x : x = Down!Item(what, t)  OBVIOUS
  <1>1. x \in Down!Items /\ ItemOK(q, x)  BY DEF Down!Item, Down!Items
  <1>2. outq' = outq \/ outq' = [outq EXCEPT ![q] = Append(outq[q], x)]  BY DEF Down!Put
  <1>3. outq \in [Down!Queues -> Seq(Down!Items)]  BY DEF DownInv, DownTypes
  <1>4. \A r \in Down!Queues : Append(outq[r], x) \in Seq(Down!Items)  BY <1>1, <1>3, AppendItem
  <1>5. \A r \in Down!Queues : outq'[r] = outq[r] \/ (r = q /\ outq'[r] = Append(outq[r], x))
    BY <1>2, <1>3
  <1>6. outq' \in [Down!Queues -> Seq(Down!Items)]  BY <1>2, <1>3, <1>4
  <1>7. ASSUME NEW r \in Down!Queues, NEW k \in 1..Len(outq'[r]) PROVE ItemOK(r, outq'[r][k])
    <2>1. CASE outq'[r] = outq[r]  BY <2>1 DEF DownInv, QueuesOK
    <2>2. CASE r = q /\ outq'[r] = Append(outq[r], x)
      <3>1. outq'[r][k] = x \/ (k \in 1..Len(outq[r]) /\ outq'[r][k] = outq[r][k])
        BY <1>1, <1>3, <2>2, AppendItem
      <3> QED  BY <1>1, <2>2, <3>1 DEF DownInv, QueuesOK
    <2> QED  BY <1>5, <2>1, <2>2
  <1> QED  BY <1>6, <1>7

\* A task comes to another stage.
LEMMA TaskAt ==
  ASSUME task \in [Down!Turns -> [at : {"none", "speaking", "cut", "finished", "over"}, q : Down!Queues]],
         NEW t \in Down!Turns, NEW at \in {"cut", "finished", "over"}, task' = [task EXCEPT ![t].at = at]
  PROVE  /\ task' \in [Down!Turns -> [at : {"none", "speaking", "cut", "finished", "over"}, q : Down!Queues]]
         /\ \A u \in Down!Turns : task'[u].q = task[u].q /\ task'[u].at = IF u = t THEN at ELSE task[u].at
  <1>1. task[t] = [at |-> task[t].at, q |-> task[t].q] /\ task[t].q \in Down!Queues
    OBVIOUS
  <1>2. task' = [task EXCEPT ![t] = [task[t] EXCEPT !.at = at]]  OBVIOUS
  <1>3. [task[t] EXCEPT !.at = at] = [at |-> at, q |-> task[t].q]  BY <1>1
  <1>4. task' = [task EXCEPT ![t] = [at |-> at, q |-> task[t].q]]  BY <1>2, <1>3
  <1> QED  BY <1>1, <1>4

\* A step of a task of the session, within a turn.
LEMMA TaskStep ==
  ASSUME DownInv, UNCHANGED <<emitq, gen, turn, emit, told>>,
         outq' \in [Down!Queues -> Seq(Down!Items)],
         \A r \in Down!Queues : \A k \in 1..Len(outq'[r]) : ItemOK(r, outq'[r][k]),
         \/ task' = task
         \/ \E t \in Down!Turns, at \in {"cut", "finished", "over"} :
                task[t].at # "none" /\ task' = [task EXCEPT ![t].at = at]
  PROVE  DownInv'
  <1>1. /\ task' \in [Down!Turns -> [at : {"none", "speaking", "cut", "finished", "over"}, q : Down!Queues]]
        /\ \A u \in Down!Turns : task'[u].q = task[u].q
        /\ \A u \in Down!Turns : task'[u].at # task[u].at => task[u].at # "none" /\ task'[u].at # "speaking"
    <2>1. CASE task' = task  BY <2>1 DEF DownInv, DownTypes
    <2>2. ASSUME NEW t \in Down!Turns, NEW at \in {"cut", "finished", "over"},
                 task[t].at # "none", task' = [task EXCEPT ![t].at = at]
          PROVE  <1>1!1 /\ <1>1!2 /\ <1>1!3
      <3>1. task \in [Down!Turns -> [at : {"none", "speaking", "cut", "finished", "over"}, q : Down!Queues]]
        BY DEF DownInv, DownTypes
      <3> QED  BY <2>2, <3>1, TaskAt
    <2> QED  BY <2>1, <2>2
  <1>2. DownTypes'  BY <1>1 DEF DownInv, DownTypes
  <1>3. TurnsOK'
    <2>1. turn > 0 => turn \in Down!Turns  BY TurnIndex
    <2> QED  BY <1>1, <2>1 DEF DownInv, TurnsOK
  <1>4. 1..turn \subseteq Down!Turns  BY TurnIndex
  <1>5. \A q \in Down!Queues, x \in Down!Items : ItemOK(q, x) => ItemOK(q, x)'
    BY <1>1, <1>4 DEF ItemOK
  <1>6. QueuesOK'
    <2>1. \A r \in Down!Queues : \A k \in 1..Len(outq'[r]) : outq'[r][k] \in Down!Items
      OBVIOUS
    <2> QED  BY <1>1, <1>4, <1>5, <2>1 DEF DownInv, QueuesOK, ItemOK
  <1>7. EmitOK'  BY <1>1, <1>4 DEF DownInv, EmitOK
  <1> QED  BY <1>2, <1>3, <1>6, <1>7 DEF DownInv

\* A step of emit_loop(), which may have taken an item from a queue.
LEMMA EmitStep ==
  ASSUME DownInv, UNCHANGED <<gen, turn, task>>, DownTypes',
         \A r \in Down!Queues : \A k \in 1..Len(outq'[r]) :
            \E l \in 1..Len(outq[r]) : outq'[r][k] = outq[r][l],
         \A k \in 1..Len(emitq') : \E l \in 1..Len(emitq) : emitq'[k] = emitq[l],
         emit'.at = "waiting" => emit'.q = gen,
         \/ emit'.item.what \notin {"speech", "interrupted"}
         \/ emit'.item = emit.item /\ told' = told
         \/ /\ emit.at = "waiting" /\ emit.q \in Down!Queues /\ emit'.at # "waiting" /\ told' = told
            /\ \E l \in 1..Len(outq[emit.q]) : emit'.item = outq[emit.q][l],
         \/ told' = told
         \/ /\ emit.item.what = "interrupted" /\ told' = told \cup {emit.item.turn}
            /\ emit'.at # "waiting"
  PROVE  DownInv'
  <1>1. TurnsOK'  BY DEF DownInv, TurnsOK
  <1>2. QueuesOK'
    <2>1. \A r \in Down!Queues : \A k \in 1..Len(outq'[r]) : ItemOK(r, outq'[r][k])
      BY DEF DownInv, QueuesOK
    <2>2. \A k \in 1..Len(emitq') : emitq'[k].what = "event"  BY DEF DownInv, QueuesOK
    <2> QED  BY <2>1, <2>2 DEF QueuesOK, ItemOK
  <1>3. EmitOK'
    <2>1. gen \in Nat /\ \A t \in 1..turn : task[t].q \in Nat
      BY TurnIndex DEF DownInv, DownTypes
    <2>2. emit'.at = "waiting" => emit'.q <= gen  BY <2>1
    <2>3. \A t \in told' : /\ t \in 1..turn /\ task[t].q < gen
                           /\ emit'.at = "waiting" => task[t].q < emit'.q
      BY DEF DownInv, EmitOK
    <2>4. emit'.item.what = "interrupted" => emit'.item.turn \in 1..turn /\ task[emit'.item.turn].q < gen
      <3>1. CASE emit'.item = emit.item  BY <3>1 DEF DownInv, EmitOK
      <3>2. CASE emit.at = "waiting" /\ emit.q \in Down!Queues
                 /\ \E l \in 1..Len(outq[emit.q]) : emit'.item = outq[emit.q][l]
        <4>1. ItemOK(emit.q, emit'.item)  BY <3>2 DEF DownInv, QueuesOK
        <4>2. emit.q <= gen /\ emit.q \in Nat  BY <3>2, TurnIndex DEF DownInv, EmitOK
        <4>3. emit'.item.what = "interrupted" => emit'.item.turn \in 1..turn /\ task[emit'.item.turn].q < emit.q
          BY <4>1 DEF ItemOK
        <4> QED  BY <2>1, <4>2, <4>3
      <3> QED  BY <3>1, <3>2
    <2>5. emit'.item.what = "speech" => emit'.item.turn \notin told'
      <3>1. CASE emit'.item = emit.item /\ told' = told  BY <3>1 DEF DownInv, EmitOK
      <3>2. CASE emit.at = "waiting" /\ emit.q \in Down!Queues /\ told' = told
                 /\ \E l \in 1..Len(outq[emit.q]) : emit'.item = outq[emit.q][l]
        <4>1. ItemOK(emit.q, emit'.item)  BY <3>2 DEF DownInv, QueuesOK
        <4>2. emit'.item.what = "speech" => emit'.item.turn \in 1..turn /\ task[emit'.item.turn].q = emit.q
          BY <4>1 DEF ItemOK
        <4>3. \A t \in told : task[t].q < emit.q  BY <3>2 DEF DownInv, EmitOK
        <4>4. emit.q \in Nat  BY <3>2, TurnIndex
        <4> QED  BY <3>2, <4>2, <4>3, <4>4
      <3> QED  BY <3>1, <3>2
    <2> QED  BY <2>2, <2>3, <2>4, <2>5 DEF EmitOK
  <1> QED  BY <1>1, <1>2, <1>3 DEF DownInv

LEMMA EmitLoopStep ==
  ASSUME DownInv, Down!EmitLoop \/ Down!CutOff
  PROVE  DownInv'
  <1> USE DEF Down!Unsent, Down!Ends, Down!Top, Down!Item, Down!At
  <1>0. /\ emit \in [at : {"top", "waiting", "encoding", "sending", "ended"}, q : Down!Queues, item : Down!Items]
        /\ outq \in [Down!Queues -> Seq(Down!Items)] /\ emitq \in Seq(Down!Items)
    BY DEF DownInv, DownTypes
  <1>1. /\ gen \in Down!Queues /\ 0 \in Down!Queues /\ gen <= gen
        /\ [what |-> "none", turn |-> 0] \in Down!Items
    <2>1. 0 \in 0..MaxTurns  BY MaxTurnsNat
    <2> QED  BY <2>1, TurnIndex DEF Down!Items, Down!Kinds
  <1>2. \A x \in Down!Items, at \in {"top", "waiting", "encoding", "sending", "ended"}, q \in Down!Queues :
          [at |-> at, q |-> q, item |-> x]
            \in [at : {"top", "waiting", "encoding", "sending", "ended"}, q : Down!Queues, item : Down!Items]
    OBVIOUS
  <1>3. ASSUME UNCHANGED <<outq, emitq>>
        PROVE  /\ \A r \in Down!Queues : \A k \in 1..Len(outq'[r]) :
                    \E l \in 1..Len(outq[r]) : outq'[r][k] = outq[r][l]
               /\ \A k \in 1..Len(emitq') : \E l \in 1..Len(emitq) : emitq'[k] = emitq[l]
    BY <1>3
  <1>4. CASE Down!Raises \/ Down!CutOff \/ Down!TimesOut \/ Down!Closes
    <2>1. /\ UNCHANGED <<gen, turn, task, told, outq, emitq>>
          /\ \E at \in {"top", "ended"} : emit' = [at |-> at, q |-> 0, item |-> [what |-> "none", turn |-> 0]]
      BY <1>4 DEF Down!Raises, Down!CutOff, Down!TimesOut, Down!Closes, Down!tasks
    <2>2. emit'.at # "waiting" /\ emit'.item.what = "none"  BY <2>1
    <2>3. DownTypes'  BY <1>1, <1>2, <2>1 DEF DownInv, DownTypes
    <2> QED  BY <1>3, <2>1, <2>2, <2>3, EmitStep
  <1>5. CASE Down!TakesAnswer
    <2>1. /\ emitq # <<>> /\ emitq' = Tail(emitq) /\ UNCHANGED <<gen, turn, task, told, outq>>
          /\ emit' = [at |-> "sending", q |-> 0, item |-> Head(emitq)]
      BY <1>5 DEF Down!TakesAnswer
    <2>2. /\ Tail(emitq) \in Seq(Down!Items) /\ Head(emitq) \in Down!Items /\ Head(emitq).what = "event"
          /\ \A k \in 1..Len(emitq') : \E l \in 1..Len(emitq) : emitq'[k] = emitq[l]
      BY <1>0, <2>1, TailItems DEF DownInv, QueuesOK
    <2>3. DownTypes'  BY <1>1, <1>2, <2>1, <2>2 DEF DownInv, DownTypes
    <2>4. emit'.at = "sending" /\ emit'.item.what = "event"  BY <2>1, <2>2
    <2>5. \A r \in Down!Queues : \A k \in 1..Len(outq'[r]) :
            \E l \in 1..Len(outq[r]) : outq'[r][k] = outq[r][l]
      BY <2>1
    <2> QED  BY <2>1, <2>2, <2>3, <2>4, <2>5, EmitStep
  <1>6. CASE Down!Waits
    <2>1. /\ UNCHANGED <<gen, turn, task, told, outq, emitq>>
          /\ emit' = [at |-> "waiting", q |-> gen, item |-> [what |-> "none", turn |-> 0]]
      BY <1>6 DEF Down!Waits
    <2>2. emit'.q = gen /\ emit'.item.what = "none"  BY <2>1
    <2>3. DownTypes'  BY <1>1, <1>2, <2>1 DEF DownInv, DownTypes
    <2> QED  BY <1>3, <2>1, <2>2, <2>3, EmitStep
  <1>7. CASE Down!Takes
    <2> PICK s : s = outq[emit.q]  OBVIOUS
    <2>1. /\ emit.at = "waiting" /\ s # <<>> /\ UNCHANGED <<gen, turn, task, told, emitq>>
          /\ \E at \in {"sending", "encoding"} : emit' = [at |-> at, q |-> 0, item |-> Head(s)]
          /\ outq' = [outq EXCEPT ![emit.q] = IF emit.q = gen THEN Tail(s) ELSE <<>>]
      BY <1>7 DEF Down!Takes, Down!Emitted
    <2>2. emit.q \in Down!Queues /\ s \in Seq(Down!Items)  BY <1>0
    <2>3. /\ Tail(s) \in Seq(Down!Items) /\ Head(s) \in Down!Items /\ Head(s) = s[1] /\ 1 \in 1..Len(s)
          /\ \A k \in 1..Len(Tail(s)) : k + 1 \in 1..Len(s) /\ Tail(s)[k] = s[k + 1]
      BY <2>1, <2>2, TailItems
    <2>4. /\ outq' \in [Down!Queues -> Seq(Down!Items)]
          /\ \A r \in Down!Queues : outq'[r] = IF r # emit.q THEN outq[r] ELSE IF r = gen THEN Tail(s) ELSE <<>>
      BY <1>0, <2>1, <2>3
    <2>5. \A r \in Down!Queues : \A k \in 1..Len(outq'[r]) :
            \E l \in 1..Len(outq[r]) : outq'[r][k] = outq[r][l]
      <3> SUFFICES ASSUME NEW r \in Down!Queues, NEW k \in 1..Len(outq'[r])
                   PROVE  \E l \in 1..Len(outq[r]) : outq'[r][k] = outq[r][l]
        OBVIOUS
      <3>1. CASE outq'[r] = outq[r]  BY <3>1
      <3>2. CASE outq'[r] = Tail(s) /\ r = emit.q  BY <2>3, <3>2
      <3>3. CASE outq'[r] = <<>>
        <4>1. 1..Len(outq'[r]) = {}  BY <3>3
        <4> QED  BY <4>1
      <3> QED  BY <2>4, <3>1, <3>2, <3>3
    <2>6. DownTypes'  BY <1>1, <1>2, <2>1, <2>3, <2>4 DEF DownInv, DownTypes
    <2>7. emit'.at # "waiting" /\ \E l \in 1..Len(outq[emit.q]) : emit'.item = outq[emit.q][l]
      BY <2>1, <2>3
    <2>8. \A k \in 1..Len(emitq') : \E l \in 1..Len(emitq) : emitq'[k] = emitq[l]  BY <2>1
    <2> QED  BY <2>1, <2>2, <2>5, <2>6, <2>7, <2>8, EmitStep
  <1>8. CASE Down!Encodes
    <2>1. /\ UNCHANGED <<gen, turn, task, told, outq, emitq>>
          /\ \/ emit' = [at |-> "sending", q |-> emit.q, item |-> emit.item]
             \/ emit' = [at |-> "top", q |-> 0, item |-> [what |-> "none", turn |-> 0]]
      BY <1>0, <1>8 DEF Down!Encodes
    <2>2. emit'.at # "waiting" /\ (emit'.item.what = "none" \/ emit'.item = emit.item)  BY <2>1
    <2>3. DownTypes'  BY <1>0, <1>1, <1>2, <2>1 DEF DownInv, DownTypes
    <2> QED  BY <1>3, <2>1, <2>2, <2>3, EmitStep
  <1>9. CASE Down!Sends \/ Down!SendsInVain
    <2>1. /\ UNCHANGED <<gen, turn, task, outq, emitq>>
          /\ \E at \in {"top", "ended"} : emit' = [at |-> at, q |-> 0, item |-> [what |-> "none", turn |-> 0]]
          /\ \/ told' = told
             \/ emit.item.what = "interrupted" /\ told' = told \cup {emit.item.turn}
      BY <1>9 DEF Down!Sends, Down!SendsInVain, Down!tasks
    <2>2. emit'.at # "waiting" /\ emit'.item.what = "none"  BY <2>1
    <2>3. told' \subseteq Down!Turns
      <3>1. emit.item.what = "interrupted" => emit.item.turn \in Down!Turns
        BY TurnIndex DEF DownInv, EmitOK
      <3> QED  BY <2>1, <3>1 DEF DownInv, DownTypes
    <2>4. DownTypes'  BY <1>1, <1>2, <2>1, <2>3 DEF DownInv, DownTypes
    <2> QED  BY <1>3, <2>1, <2>2, <2>4, EmitStep
  <1> QED
    BY <1>4, <1>5, <1>6, <1>7, <1>8, <1>9 DEF Down!EmitLoop

LEMMA DownStep == DownInv /\ [Down!Next]_Down!vars => DownInv'
  <1> SUFFICES ASSUME DownInv, [Down!Next]_Down!vars PROVE DownInv'  OBVIOUS
  <1> USE DEF Down!tasks, Down!Rest, Down!At
  <1>0. /\ outq \in [Down!Queues -> Seq(Down!Items)] /\ emitq \in Seq(Down!Items)
        /\ \A r \in Down!Queues : \A k \in 1..Len(outq[r]) : ItemOK(r, outq[r][k])
        /\ "event" \in Down!Kinds /\ "speech" \in Down!Kinds /\ "close" \in Down!Kinds
    BY DEF DownInv, DownTypes, QueuesOK, Down!Kinds
  <1>1. /\ 0 \in 0..MaxTurns
        /\ \A t \in Down!Turns : t \in 0..MaxTurns
        /\ \A t \in Down!Turns : task[t].at # "none" => t \in 1..turn
    <2>1. \A t \in Down!Turns : task[t].at # "none" => t <= turn  BY DEF DownInv, TurnsOK
    <2> QED  BY <2>1, TurnIndex, MaxTurnsNat
  <1>2. \A q, t : ItemOK(q, [what |-> "event", turn |-> t]) /\ ItemOK(q, [what |-> "close", turn |-> t])
    BY DEF ItemOK
  <1>3. CASE Down!Receive
    <2>1. emitq' = Append(emitq, Down!Item("event", 0)) /\ UNCHANGED <<gen, outq, turn, task, emit, told>>
      BY <1>3 DEF Down!Receive
    <2> PICK x : x = Down!Item("event", 0)  OBVIOUS
    <2>2. x \in Down!Items /\ x.what = "event"  BY <1>0, <1>1 DEF Down!Item, Down!Items
    <2>3. /\ emitq' \in Seq(Down!Items)
          /\ \A k \in 1..Len(emitq') : emitq'[k] = x \/ (k \in 1..Len(emitq) /\ emitq'[k] = emitq[k])
      BY <1>0, <2>1, <2>2, AppendItem
    <2>4. DownTypes'  BY <2>1, <2>3 DEF DownInv, DownTypes
    <2>5. QueuesOK'  BY <2>1, <2>2, <2>3 DEF DownInv, QueuesOK, ItemOK
    <2>6. TurnsOK' /\ EmitOK'  BY <2>1 DEF DownInv, TurnsOK, EmitOK
    <2> QED  BY <2>4, <2>5, <2>6 DEF DownInv
  <1>4. CASE Down!Transcribe
    <2>1. Down!Put(gen, Down!Item("event", 0)) /\ UNCHANGED <<emitq, gen, turn, emit, told, task>>
      BY <1>4 DEF Down!Transcribe
    <2>2. /\ outq' \in [Down!Queues -> Seq(Down!Items)]
          /\ \A r \in Down!Queues : \A k \in 1..Len(outq'[r]) : ItemOK(r, outq'[r][k])
      BY <1>0, <1>1, <1>2, <2>1, PutOK
    <2> QED  BY <2>1, <2>2, TaskStep
  <1>5. ASSUME NEW t \in Down!Turns, Down!Says(t) PROVE DownInv'
    <2>1. /\ task[t].at # "none" /\ Down!Put(task[t].q, Down!Item("speech", t))
          /\ UNCHANGED <<emitq, gen, turn, emit, told, task>>
      BY <1>5 DEF Down!Says, Down!Runs, Down!QueueOf
    <2>2. ItemOK(task[t].q, [what |-> "speech", turn |-> t])  BY <1>1, <2>1 DEF ItemOK
    <2>3. /\ outq' \in [Down!Queues -> Seq(Down!Items)]
          /\ \A r \in Down!Queues : \A k \in 1..Len(outq'[r]) : ItemOK(r, outq'[r][k])
      BY <1>0, <1>1, <2>1, <2>2, PutOK
    <2> QED  BY <2>1, <2>3, TaskStep
  <1>6. ASSUME NEW t \in Down!Turns, Down!Generates(t) PROVE DownInv'
    <2>1. Down!Put(gen, Down!Item("event", t)) /\ UNCHANGED <<emitq, gen, turn, emit, told, task>>
      BY <1>6 DEF Down!Generates
    <2>2. /\ outq' \in [Down!Queues -> Seq(Down!Items)]
          /\ \A r \in Down!Queues : \A k \in 1..Len(outq'[r]) : ItemOK(r, outq'[r][k])
      BY <1>0, <1>1, <1>2, <2>1, PutOK
    <2> QED  BY <2>1, <2>2, TaskStep
  <1>7. ASSUME NEW t \in Down!Turns, Down!Finishes(t) PROVE DownInv'
    <2>1. /\ task[t].at # "none" /\ Down!Put(gen, Down!Item("event", t))
          /\ \E at \in {"cut", "finished", "over"} : task' = [task EXCEPT ![t].at = at]
          /\ UNCHANGED <<emitq, gen, turn, emit, told>>
      BY <1>7 DEF Down!Finishes, Down!Runs
    <2>2. /\ outq' \in [Down!Queues -> Seq(Down!Items)]
          /\ \A r \in Down!Queues : \A k \in 1..Len(outq'[r]) : ItemOK(r, outq'[r][k])
      BY <1>0, <1>1, <1>2, <2>1, PutOK
    <2> QED  BY <2>1, <2>2, TaskStep
  <1>8. ASSUME NEW t \in Down!Turns, Down!Goodbye(t) PROVE DownInv'
    <2>1. /\ task[t].at # "none" /\ (Down!Put(gen, Down!Item("close", t)) \/ outq' = outq)
          /\ task' = [task EXCEPT ![t].at = "over"] /\ UNCHANGED <<emitq, gen, turn, emit, told>>
      BY <1>8 DEF Down!Goodbye
    <2>2. /\ outq' \in [Down!Queues -> Seq(Down!Items)]
          /\ \A r \in Down!Queues : \A k \in 1..Len(outq'[r]) : ItemOK(r, outq'[r][k])
      BY <1>0, <1>1, <1>2, <2>1, PutOK
    <2> QED  BY <2>1, <2>2, TaskStep
  <1>9. ASSUME NEW t \in Down!Turns, Down!Cancelled(t) PROVE DownInv'
    <2>1. /\ task[t].at # "none" /\ task' = [task EXCEPT ![t].at = "over"]
          /\ UNCHANGED <<outq, emitq, gen, turn, emit, told>>
      BY <1>9 DEF Down!Cancelled
    <2>2. /\ outq' \in [Down!Queues -> Seq(Down!Items)]
          /\ \A r \in Down!Queues : \A k \in 1..Len(outq'[r]) : ItemOK(r, outq'[r][k])
      BY <1>0, <2>1
    <2> QED  BY <2>1, <2>2, TaskStep
  \* A turn begins with the present queue.
  <1>10. CASE Down!StartTurn
    <2>1. /\ turn < MaxTurns /\ turn' = turn + 1
          /\ task' = [task EXCEPT ![turn + 1] = [at |-> "speaking", q |-> gen]]
          /\ UNCHANGED <<gen, outq, emitq, emit, told>>
      BY <1>10 DEF Down!StartTurn
    <2>2. turn + 1 \in Down!Turns /\ gen \in Down!Queues /\ turn + 1 \in 0..MaxTurns /\ gen \in 0..(turn + 1)
      <3>1. turn < MaxTurns /\ turn \in Nat /\ gen \in Nat /\ gen <= turn /\ gen \in Down!Queues
        BY <2>1, TurnIndex
      <3> QED  BY <3>1, MaxTurnsNat DEF Down!Turns
    <2>3. /\ task' \in [Down!Turns -> [at : {"none", "speaking", "cut", "finished", "over"}, q : Down!Queues]]
          /\ \A u \in Down!Turns : task'[u] = IF u = turn + 1 THEN [at |-> "speaking", q |-> gen] ELSE task[u]
      BY <2>1, <2>2 DEF DownInv, DownTypes
    <2>4. \A u \in 1..turn : task'[u] = task[u] /\ u \in 1..turn' /\ u \in Down!Turns
      BY <2>1, <2>3, TurnIndex
    <2>5. DownTypes'  BY <2>1, <2>2, <2>3 DEF DownInv, DownTypes
    <2>6. TurnsOK'
      <3>1. task'[turn + 1].q = gen /\ gen <= gen /\ gen < turn + 1
            /\ ~(turn + 1 <= turn) /\ turn + 1 <= turn + 1
        BY <2>2, <2>3, TurnIndex
      <3>2. \A u \in Down!Turns : u # turn + 1 => (u <= turn + 1 <=> u <= turn)
        BY TurnIndex
      <3>3. \A u \in Down!Turns :
              IF u <= turn + 1 THEN task'[u].q <= gen ELSE task'[u].at = "none"
        <4> TAKE u \in Down!Turns
        <4>1. CASE u = turn + 1  BY <3>1, <4>1
        <4>2. CASE u # turn + 1  BY <2>3, <3>2, <4>2 DEF DownInv, TurnsOK
        <4> QED  BY <4>1, <4>2
      <3>4. turn' = turn + 1 /\ gen' = gen  BY <2>1
      <3> QED  BY <3>1, <3>3, <3>4 DEF TurnsOK
    <2>7. \A q, x : ItemOK(q, x) =>
            /\ x.what = "speech" => x.turn \in 1..turn' /\ task'[x.turn].q = q
            /\ x.what = "interrupted" => x.turn \in 1..turn' /\ task'[x.turn].q < q
      BY <2>4 DEF ItemOK
    <2>8. QueuesOK'
      <3>1. \A q \in Down!Queues : \A k \in 1..Len(outq[q]) : ItemOK(q, outq[q][k])'
        <4> SUFFICES ASSUME NEW q \in Down!Queues, NEW k \in 1..Len(outq[q])
                     PROVE  ItemOK(q, outq[q][k])'
          OBVIOUS
        <4>1. ItemOK(q, outq[q][k])  BY DEF DownInv, QueuesOK
        <4>2. outq' = outq  BY <2>1
        <4> QED  BY <2>7, <4>1, <4>2 DEF ItemOK
      <3>2. outq' = outq /\ emitq' = emitq  BY <2>1
      <3> QED  BY <3>1, <3>2 DEF DownInv, QueuesOK
    <2>9. EmitOK'  BY <2>1, <2>4 DEF DownInv, EmitOK
    <2> QED  BY <2>5, <2>6, <2>8, <2>9 DEF DownInv
  \* The news of an interruption begins a new queue.
  <1>11. CASE Down!Interrupt
    <2> PICK x : x = Down!Item("interrupted", turn)  OBVIOUS
    <2>1. /\ turn > 0 /\ task[turn].at = "speaking" /\ gen' = gen + 1
          /\ outq' = [q \in Down!Queues |->
                        IF q = gen + 1 THEN <<x>>
                        ELSE IF emit.at = "waiting" /\ emit.q = q THEN outq[q] ELSE <<>>]
          /\ task' = [task EXCEPT ![turn].at = "cut"] /\ UNCHANGED <<turn, emitq, emit, told>>
      BY <1>11 DEF Down!Interrupt
    <2>2. /\ turn \in 1..turn /\ turn \in Down!Turns /\ task[turn].q = gen /\ gen < turn
          /\ gen + 1 \in 0..turn /\ gen < gen + 1
      <3>1. task[turn].q = gen /\ gen < turn  BY <2>1 DEF DownInv, TurnsOK
      <3> QED  BY <2>1, <3>1, TurnIndex
    <2>3. x \in Down!Items /\ x.what = "interrupted" /\ x.turn = turn
      BY <1>1, <2>2 DEF Down!Item, Down!Items, Down!Kinds
    <2>4. /\ task' \in [Down!Turns -> [at : {"none", "speaking", "cut", "finished", "over"}, q : Down!Queues]]
          /\ \A u \in Down!Turns : task'[u].q = task[u].q /\ (u # turn => task'[u].at = task[u].at)
          /\ task'[turn].at = "cut"
      <3>1. task \in [Down!Turns -> [at : {"none", "speaking", "cut", "finished", "over"}, q : Down!Queues]]
        BY DEF DownInv, DownTypes
      <3>2. PICK t \in Down!Turns : t = turn  BY <2>2
      <3>3. task' = [task EXCEPT ![t].at = "cut"]  BY <2>1, <3>2
      <3>4. /\ task' \in [Down!Turns -> [at : {"none", "speaking", "cut", "finished", "over"}, q : Down!Queues]]
            /\ \A u \in Down!Turns : task'[u].q = task[u].q /\ task'[u].at = IF u = t THEN "cut" ELSE task[u].at
        BY <3>1, <3>3, TaskAt
      <3> QED  BY <3>2, <3>4
    <2>5. DownTypes'
      <3>1. <<x>> \in Seq(Down!Items) /\ <<>> \in Seq(Down!Items)  BY <2>3
      <3>2. outq' \in [Down!Queues -> Seq(Down!Items)]  BY <1>0, <2>1, <3>1
      <3> QED  BY <2>1, <2>2, <2>4, <3>2 DEF DownInv, DownTypes
    <2>6. TurnsOK'
      <3>1. \A u \in Down!Turns : u <= turn => task[u].q \in Nat /\ task[u].q <= gen
        BY TurnIndex DEF DownInv, DownTypes, TurnsOK
      <3>2. gen \in Nat  BY TurnIndex
      <3>3. \A u \in Down!Turns : u <= turn => task'[u].q <= gen + 1
        BY <2>4, <3>1, <3>2
      <3>4. \A u \in Down!Turns : ~(u <= turn) => task'[u].at = "none"
        <4>1. turn <= turn  BY TurnIndex
        <4> QED  BY <2>4, <4>1 DEF DownInv, TurnsOK
      <3> QED  BY <2>1, <2>4, <3>3, <3>4 DEF TurnsOK
    <2>7. QueuesOK'
      <3>1. ASSUME NEW r \in Down!Queues, NEW k \in 1..Len(outq'[r]) PROVE ItemOK(r, outq'[r][k])
        <4>1. CASE r = gen + 1
          <5>1. outq'[r] = <<x>>  BY <2>1, <4>1
          <5>2. outq'[r][k] = x  BY <5>1
          <5> QED  BY <2>2, <2>3, <4>1, <5>2 DEF ItemOK
        <4>2. CASE r # gen + 1 /\ outq'[r] = outq[r]  BY <1>0, <4>2
        <4>3. r = gen + 1 \/ outq'[r] = outq[r]
          <5>1. r = gen + 1 \/ outq'[r] = outq[r] \/ outq'[r] = <<>>  BY <2>1
          <5>2. outq'[r] # <<>>  OBVIOUS
          <5> QED  BY <5>1, <5>2
        <4> QED  BY <4>1, <4>2, <4>3
      <3>2. \A q, y : ItemOK(q, y) =>
              /\ y.what = "speech" => y.turn \in 1..turn' /\ task'[y.turn].q = q
              /\ y.what = "interrupted" => y.turn \in 1..turn' /\ task'[y.turn].q < q
        <4>1. 1..turn \subseteq Down!Turns /\ turn' = turn  BY <2>1, TurnIndex
        <4> QED  BY <2>4, <4>1 DEF ItemOK
      <3>3. emitq' = emitq  BY <2>1
      <3> QED  BY <3>1, <3>2, <3>3 DEF DownInv, QueuesOK, ItemOK
    <2>8. EmitOK'
      <3>1. gen \in Nat /\ 1..turn \subseteq Down!Turns /\ \A t \in 1..turn : task[t].q \in Nat
        BY TurnIndex DEF DownInv, DownTypes
      <3>2. emit.q \in Nat  BY TurnIndex DEF DownInv, DownTypes
      <3>3. emit.at = "waiting" => emit.q <= gen + 1  BY <3>1, <3>2 DEF DownInv, EmitOK
      <3>4. \A t \in 1..turn : task[t].q < gen => task'[t].q < gen + 1  BY <2>4, <3>1
      <3> QED  BY <2>1, <2>4, <3>1, <3>3, <3>4 DEF DownInv, EmitOK
    <2> QED  BY <2>5, <2>6, <2>7, <2>8 DEF DownInv
  <1>12. CASE Down!EmitLoop \/ Down!CutOff  BY <1>12, EmitLoopStep
  <1>13. CASE Down!Leaves \/ Down!Notices \/ UNCHANGED Down!vars
    <2>1. UNCHANGED <<gen, outq, turn, task, emitq, emit, told>>
      BY <1>13 DEF Down!Leaves, Down!Notices, Down!vars
    <2> QED
      BY <2>1 DEF DownInv, DownTypes, TurnsOK, QueuesOK, EmitOK, ItemOK
  <1> QED
    BY <1>3, <1>4, <1>5, <1>6, <1>7, <1>8, <1>9, <1>10, <1>11, <1>12, <1>13 DEF Down!Next

\* Once the page was told that a turn is interrupted it gets no audio and no word of it
\* any more: the turn goes on putting into the queue it began with, and emit_loop() never
\* returns to a queue that it has gone past.
THEOREM NoSpeechAfterTheNews == Down!Spec => []InterruptedIsLast
  <1>1. DownInv /\ [Down!Next]_Down!vars => DownInv'  BY DownStep
  <1>2. DownInv => InterruptedIsLast
    BY DEF DownInv, EmitOK, InterruptedIsLast, Down!InterruptedIsLast
  <1> QED  BY <1>1, <1>2, DownInit, PTL DEF Down!Spec
===============================================================================
