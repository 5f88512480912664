------------------------------ MODULE MCFrontend ------------------------------
(* What the page and the backend share of a connection, for TLC: the user's voice
   on its way up (Uplink), the bot's on its way down (Downlink), and the buffer it
   is played from (Playback).  The three have no state in common, so a behaviour
   is one of one of them. *)
EXTENDS Playback, Sequences

CONSTANTS Setups, Pages, MaxTurns, MaxQueued, MaxRequests

VARIABLES
    part,       \* which of the three
    health, want, setup, made, ref, ready, queue, wire, first, fed,
    conn, requests, emitq, gen, outq, turn, task, emit, told

Up == INSTANCE Uplink
Down == INSTANCE Downlink

ASSUME BoundsAssumption == Up!UplinkAssumption /\ Down!DownlinkAssumption

upVars == <<health, want, setup, made, ref, ready, queue, wire, first, fed>>
downVars == <<conn, requests, emitq, gen, outq, turn, task, emit, told>>
MCvars == <<part, vars, upVars, downVars>>

MCInit == part \in {"up", "down", "play"} /\ Init /\ Up!Init /\ Down!Init

MCPlay == part = "play" /\ Next /\ UNCHANGED <<part, upVars, downVars>>
MCUp == part = "up" /\ Up!Next /\ UNCHANGED <<part, vars, downVars>>
MCDown == part = "down" /\ Down!Next /\ UNCHANGED <<part, vars, upVars>>

MCNext == MCPlay \/ MCUp \/ MCDown

\* The fairness of Playback!FairSpec and Downlink!FairSpec.
MCSpec ==
    /\ MCInit /\ [][MCNext]_MCvars
    /\ WF_vars(part = "play" /\ Process)
    /\ WF_downVars(part = "down" /\ Down!EmitLoop)

\* Uplink: no page of a recording is decoded without its first page.
HeaderFirst == Up!HeaderFirst

\* Downlink: after the news of an interruption nothing of the turn is sent.
InterruptedIsLast == Down!InterruptedIsLast

\* Downlink: the news of an interruption reaches a page that stays.
InterruptionArrives == part = "down" => Down!InterruptionArrives
=============================================================================
