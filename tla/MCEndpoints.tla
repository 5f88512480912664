----------------------------- MODULE MCEndpoints -----------------------------
(* The endpoints besides the websocket, for TLC: those of unmute/ for the users'
   voices (Voices) and those of the custom backend that transcribe and synthesize
   (OneShot).  They have no state in common, so a behaviour is one of either. *)
EXTENDS Voices, FiniteSetsExt

CONSTANTS r1, r2, Requests, Length, Delay, MaxBatches, Capacity

VARIABLES
    part,       \* "audio" or "voices"
    kind, said, req

Audio == INSTANCE OneShot

ASSUME BoundsAssumption == Audio!OneShotAssumption

audioVars == <<kind, said, req>>
MCvars == <<part, vars, audioVars>>

\* Of the part that a behaviour is not about, any one initial state will do, and of two
\* requests it does not matter which is which.
MCInit ==
    /\ part \in {"audio", "voices"}
    /\ Init /\ (part = "audio" => redis)
    /\ Audio!Init /\ (kind[r1] = "synthesize" => kind[r2] = "synthesize")
    /\ (kind[r1] = kind[r2] => SumSet(said[r1]) <= SumSet(said[r2]))
    /\ (part = "voices" => \A r \in Requests : kind[r] = "transcribe" /\ said[r] = {})

MCAudio == part = "audio" /\ Audio!Next /\ UNCHANGED <<part, vars>>
MCVoices == part = "voices" /\ Next /\ UNCHANGED <<part, audioVars>>

MCNext == MCAudio \/ MCVoices

\* The fairness of OneShot!FairSpec.
MCSpec ==
    /\ MCInit /\ [][MCNext]_MCvars
    /\ \A r \in Requests :
        /\ WF_audioVars(part = "audio" /\ Audio!Server(r))
        /\ WF_audioVars(part = "audio" /\ Audio!Collector(r))
        /\ WF_audioVars(part = "audio" /\ Audio!Route(r))

\* OneShot: a successful answer is whole.
WholeAnswer == Audio!WholeAnswer

\* OneShot: whoever asked is answered.
AudioAnswerComes == part = "audio" => Audio!AnswerComes
=============================================================================
