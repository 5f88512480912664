------------------------------- MODULE Playback -------------------------------
(***************************************************************************)
(* The buffer from which the page plays the bot:                           *)
(* frontend/public/audio-output-processor.js, the same file as in          *)
(* frontend-custom/public.                                                 *)
(*                                                                         *)
(* onmessage gets a decoded frame, process() fills one output block; both  *)
(* run in the audio thread, one after the other.  What the frames contain  *)
(* does not matter, so they are the number of samples that are left of     *)
(* them.  The constants are the code's buffer lengths, in any unit.        *)
(***************************************************************************)
EXTENDS Integers, FiniteSetsExt

CONSTANTS
    FrameSizes,         \* the lengths of decoded frames
    Block,              \* the length of an output block
    InitialBuffer,      \* initialBufferSamples: 80 ms
    PartialBuffer,      \* partialBufferSamples at first: 10 ms
    PartialIncrement,   \* partialBufferIncrement: 5 ms
    MaxPartial,         \* maxPartialWithIncrements: 80 ms
    DefaultMaxBuffer,   \* DEFAULT_MAX_BUFFER_MS: 30 s
    MaxIncrement,       \* maxBufferSamplesIncrement: 5 ms
    MaxMaxBuffer        \* maxMaxBufferWithIncrements: 80 ms

ASSUME PlaybackAssumption ==
    /\ FrameSizes \subseteq Nat \ {0}
    /\ Block \in Nat \ {0} /\ InitialBuffer \in Nat \ {0} /\ PartialBuffer \in Nat
    /\ PartialIncrement \in Nat /\ MaxPartial \in Nat /\ PartialBuffer <= MaxPartial
    /\ DefaultMaxBuffer \in Nat \ {0} /\ MaxIncrement \in Nat \ {0} /\ MaxMaxBuffer \in Nat \ {0}

VARIABLES
    samples,    \* currentSamples()
    started,    \* playing, or about to
    remaining,  \* remainingPartialBufferSamples, 0 for whatever is less
    partial,    \* partialBufferSamples
    maxBuffer,  \* maxBufferSamples
    moves       \* something was played by the last step

vars == <<samples, started, remaining, partial, maxBuffer, moves>>

\* initState
Init ==
    /\ samples = 0 /\ started = FALSE /\ remaining = 0 /\ moves = FALSE
    /\ partial = PartialBuffer /\ maxBuffer = DefaultMaxBuffer

-----------------------------------------------------------------------------
(* onmessage *)

Target == InitialBuffer + partial

\* totalMaxBufferSamples
TotalMax == maxBuffer + Target

\* Mutant of Starts: every frame starts it again.
StartsAgain(n) == n >= InitialBuffer
Starts(n) == n >= InitialBuffer /\ ~started

\* Mutant of Drops: off by one.
DropsLate(n) == n > TotalMax
Drops(n) == n >= TotalMax

\* The oldest samples are dropped, and the room of the buffer is set anew: at the first
\* drop from its default down to MaxMaxBuffer.
GetFrame ==
    \E frame \in FrameSizes :
        LET n == samples + frame IN
        /\ samples' = IF Drops(n) THEN Target ELSE n
        /\ maxBuffer' = IF Drops(n) THEN Min({MaxMaxBuffer, maxBuffer + MaxIncrement}) ELSE maxBuffer
        /\ started' = (started \/ Starts(n))
        /\ remaining' = IF Starts(n) THEN partial ELSE remaining
        /\ moves' = FALSE
        /\ UNCHANGED partial

-----------------------------------------------------------------------------
(* process *)

CanPlay == started /\ samples > 0 /\ remaining = 0

\* Silence, for a block.
Silence ==
    /\ ~CanPlay
    /\ remaining' = Max({0, remaining - Block}) /\ moves' = FALSE
    /\ UNCHANGED <<samples, started, partial, maxBuffer>>

Play ==
    /\ CanPlay /\ samples >= Block
    /\ samples' = samples - Block /\ moves' = TRUE
    /\ UNCHANGED <<started, remaining, partial, maxBuffer>>

\* The frames run out in the block.  The code means to tell padding of zeros from lost
\* audio, but its test of the samples returns nothing: the end of a turn counts as well.
Underrun ==
    /\ CanPlay /\ samples < Block
    /\ samples' = 0 /\ moves' = TRUE /\ started' = FALSE
    /\ partial' = Min({MaxPartial, partial + PartialIncrement})
    /\ UNCHANGED <<remaining, maxBuffer>>

-----------------------------------------------------------------------------
Process == Silence \/ Play \/ Underrun
Next == GetFrame \/ Process
Spec == Init /\ [][Next]_vars

\* The audio thread calls process() for every block.
FairSpec == Spec /\ WF_vars(Process)

-----------------------------------------------------------------------------
(* Properties *)

TypeOK ==
    /\ samples \in Nat /\ started \in BOOLEAN /\ remaining \in Nat /\ partial \in Nat
    /\ maxBuffer \in Nat /\ moves \in BOOLEAN

\* What lies in the buffer and is not being played is less than the buffer to start with:
\* neither an underrun nor a drop leaves more of a turn behind, to be played with the next.
NothingLeftBehind == ~started => samples < InitialBuffer

\* However fast the server sends, and whatever has been dropped before, the page lags
\* behind by less than the room of the buffer and the silence that is still to come.
LagIsBounded ==
    /\ samples < TotalMax
    /\ remaining <= partial /\ partial <= MaxPartial

\* Enough to start with is played, however often frames come in between.
PlaysOn == samples >= InitialBuffer ~> moves
=============================================================================
