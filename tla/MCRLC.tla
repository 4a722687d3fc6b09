------------------------------- MODULE MCRLC --------------------------------
(* The two engines of GPRS/RLCEngine share no state: a behaviour is of one of them. *)
EXTENDS RLCDown

CONSTANTS UpBlocks, UpFinals, UpPerAck, N3101Max, N3103Max, Lag

ASSUME UpAssumption ==
    /\ UpBlocks \in Nat \ {0} /\ UpFinals \subseteq 1..UpBlocks
    /\ UpPerAck \in Nat \ {0} /\ N3101Max \in Nat /\ N3103Max \in Nat /\ Lag \in Nat

VARIABLES
    dir,                     \* the direction of the TBF
    up, tbf, air, phone      \* of RLCUp

Up == INSTANCE RLCUp WITH Blocks <- UpBlocks, Finals <- UpFinals, PerAck <- UpPerAck,
                          Extended <- TRUE

upVars == <<up, tbf, air, phone>>

mcvars == <<vars, dir, upVars>>

MCInit == dir \in {"down", "up"} /\ Init /\ Up!Init

MCNext ==
    \/ dir = "down" /\ Next /\ UNCHANGED <<dir, upVars>>
    \/ dir = "up" /\ Up!Next /\ UNCHANGED <<dir, vars>>

MCFairness ==
    /\ WF_mcvars(dir = "down" /\ Service(TRUE, TRUE) /\ UNCHANGED <<dir, upVars>>)
    /\ WF_mcvars(dir = "down" /\ PollPasses /\ UNCHANGED <<dir, upVars>>)

MCSpec == MCInit /\ [][MCNext]_mcvars /\ MCFairness

\* Both engines, their TBFs and both ends of the radio are of their types, the windows of both engines agree with the handset's, and blocks are delivered in
\* order, in either direction (engineRecvAckNack, engineUpAdvanceWindow).
BothAligned == TypeOK /\ Up!TypeOK /\ Aligned /\ Up!Aligned

\* engineUpAckNack reports exactly what has been heard.
BitmapIsExact == Up!BitmapIsExact

\* A downlink transfer ends, and only an uplink TBF may be held open.
DownEnds == dir = "down" => TransferEnds
=============================================================================
