------------------------------- MODULE MCTxFlow -------------------------------
(***************************************************************************)
(* Transmit flow control of both generations.  The initial state chooses   *)
(* the one: TxFlowControl is the X300's, FlowControlMonitor the USRP2's;   *)
(* the other stays in its initial state.                                   *)
(***************************************************************************)
EXTENDS TxFlowControl

CONSTANTS
    Usrp2Window, Usrp2SeqMod, PacketsPerUp, CyclesPerUp, MaxAhead, MaxUps,
    Usrp2MaxLost, Usrp2MaxOut, MaxStreams

VARIABLE generation  \* "x300" or "usrp2"

VARIABLES
    usrp2Pc, usrp2Made, usrp2Out, usrp2Ack, usrp2Held, usrp2Down, usrp2Seqnum,
    usrp2Ahead, usrp2Count, usrp2Ups, usrp2Lost, usrp2Misled

usrp2Vars == <<
    usrp2Pc, usrp2Made, usrp2Out, usrp2Ack, usrp2Held, usrp2Down, usrp2Seqnum,
    usrp2Ahead, usrp2Count, usrp2Ups, usrp2Lost, usrp2Misled>>

Usrp2 == INSTANCE FlowControlMonitor WITH
    Window <- Usrp2Window, SeqMod <- Usrp2SeqMod, PacketsPerUp <- PacketsPerUp,
    CyclesPerUp <- CyclesPerUp, MaxAhead <- MaxAhead, MaxUps <- MaxUps,
    MaxLost <- Usrp2MaxLost, MaxOut <- Usrp2MaxOut, MaxStreams <- MaxStreams,
    pc <- usrp2Pc, made <- usrp2Made, out <- usrp2Out, ack <- usrp2Ack, held <- usrp2Held,
    down <- usrp2Down, seqnum <- usrp2Seqnum, ahead <- usrp2Ahead, count <- usrp2Count,
    ups <- usrp2Ups, lost <- usrp2Lost, misled <- usrp2Misled

ASSUME Usrp2ConstantsAssumption == Usrp2!ConstantsAssumption

FlowInit == generation \in {"x300", "usrp2"} /\ Init /\ Usrp2!Init

FlowNext ==
    /\ UNCHANGED generation
    /\ \/ generation = "x300" /\ Next /\ UNCHANGED usrp2Vars
       \/ generation = "usrp2" /\ Usrp2!Next /\ UNCHANGED vars

\* The fairness of FlowControlMonitor; the USRP2's clock runs only where there is one.
Usrp2Fairness ==
    /\ WF_usrp2Vars(Usrp2!Commit) /\ WF_usrp2Vars(Usrp2!ClearRadio)
    /\ WF_usrp2Vars(Usrp2!Deliver) /\ WF_usrp2Vars(Usrp2!Deframe)
    /\ WF_usrp2Vars(Usrp2!Consume)
    /\ WF_usrp2Vars(generation = "usrp2" /\ Usrp2!CycleUpdate)

FlowSpec == FlowInit /\ [][FlowNext]_<<generation, vars, usrp2Vars>> /\ Fairness /\ Usrp2Fairness

-----------------------------------------------------------------------------
(* The properties of TxFlowControl have their own names.                   *)

\* See WindowKept of FlowControlMonitor: the radio's buffer takes what is let go, over
\* a change of streamers.
WindowKept == Usrp2!WindowKept

\* See NoStall of FlowControlMonitor: a closed window opens again, over a change of
\* streamers.
MonitorNoStall == Usrp2!NoStall
=============================================================================
