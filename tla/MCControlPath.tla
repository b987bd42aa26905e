---------------------------- MODULE MCControlPath ----------------------------
(***************************************************************************)
(* Small instances of the control paths for TLC: the ways in which a host  *)
(* gives orders to a device.  The initial state chooses a device, and with *)
(* it one of the specifications; the others stay in their initial state.   *)
(***************************************************************************)
EXTENDS RadioCtrlCore

\* The constants of FifoCtrl
CONSTANTS
    MaxSeqsOut, FifoSeqMod, FifoLen, Slaves, NoSlave, FifoMaxEarly, FifoMaxLost,
    MaxSent, MaxSilent

\* Those of FirmwareControl, for either protocol
CONSTANTS
    Threads, NoThread, X300Retries, Usrp2Retries, Values, FwMaxEarly, FwMaxLost, MaxCalls

\* Those of SoftTimeCtrl
CONSTANTS
    QueueLen, SizeMod, Sizes, Packets, MaxLeft, MaxIssued, Outstanding, Prompt

\* Those of DeviceClaim
CONSTANTS
    Processes, NoProcess, Second, ClaimTimeout, Slack, MaxTime, MaxOpens

VARIABLE path  \* the specification that was chosen

VARIABLES
    fifoPlan, fifoWaiting, fifoSent, fifoSeqAck, fifoCache, fifoWire, fifoCommands,
    fifoChosen, fifoResults, fifoAnswers, fifoCtrlFifo, fifoEarly, fifoLost,
    fifoDropped, fifoMisled, fifoStrayed

fifoVars == <<
    fifoPlan, fifoWaiting, fifoSent, fifoSeqAck, fifoCache, fifoWire, fifoCommands,
    fifoChosen, fifoResults, fifoAnswers, fifoCtrlFifo, fifoEarly, fifoLost,
    fifoDropped, fifoMisled, fifoStrayed>>

VARIABLES
    fwPc, fwPoke, fwId, fwTries, fwMutex, fwSeq, fwDown, fwUp, fwSocket, fwReg, fwEarly,
    fwLost, fwCalls, fwDuring, fwDone, fwMisread

fwVars == <<
    fwPc, fwPoke, fwId, fwTries, fwMutex, fwSeq, fwDown, fwUp, fwSocket, fwReg, fwEarly,
    fwLost, fwCalls, fwDuring, fwDone, fwMisread>>

VARIABLES
    softMode, softRemaining, softOn, softLeft, softQueue, softInline, softMutex,
    softTask, softCur, softRecv, softNsamps, softIssued, softOpen, softAsked, softGiven,
    softOver

softVars == <<
    softMode, softRemaining, softOn, softLeft, softQueue, softInline, softMutex,
    softTask, softCur, softRecv, softNsamps, softIssued, softOpen, softAsked, softGiven,
    softOver>>

VARIABLES
    claimNow, claimClaimTime, claimClaimSrc, claimClaimed, claimLastTime, claimTimeout,
    claimClaimer, claimWake, claimCheck, claimFree, claimOpens, claimQuiet, claimIdle

claimVars == <<
    claimNow, claimClaimTime, claimClaimSrc, claimClaimed, claimLastTime, claimTimeout,
    claimClaimer, claimWake, claimCheck, claimFree, claimOpens, claimQuiet, claimIdle>>

Fifo == INSTANCE FifoCtrl WITH
    SeqMod <- FifoSeqMod, None <- NoSlave, MaxEarly <- FifoMaxEarly,
    MaxLost <- FifoMaxLost, plan <- fifoPlan,
    waiting <- fifoWaiting, sent <- fifoSent, seqAck <- fifoSeqAck, cache <- fifoCache,
    wire <- fifoWire, commands <- fifoCommands, chosen <- fifoChosen,
    results <- fifoResults, answers <- fifoAnswers, ctrlFifo <- fifoCtrlFifo,
    early <- fifoEarly, lost <- fifoLost, dropped <- fifoDropped, misled <- fifoMisled,
    strayed <- fifoStrayed

X300Fw == INSTANCE FirmwareControl WITH
    Nobody <- NoThread, Usrp2 <- FALSE, NumRetries <- X300Retries,
    MaxEarly <- FwMaxEarly, MaxLost <- FwMaxLost, pc <- fwPc, poke <- fwPoke, id <- fwId,
    tries <- fwTries, mutex <- fwMutex, seq <- fwSeq, down <- fwDown, up <- fwUp,
    socket <- fwSocket, reg <- fwReg, early <- fwEarly, lost <- fwLost,
    calls <- fwCalls, during <- fwDuring, done <- fwDone, misread <- fwMisread

Usrp2Fw == INSTANCE FirmwareControl WITH
    Nobody <- NoThread, Usrp2 <- TRUE, NumRetries <- Usrp2Retries,
    MaxEarly <- FwMaxEarly, MaxLost <- FwMaxLost, pc <- fwPc, poke <- fwPoke, id <- fwId,
    tries <- fwTries, mutex <- fwMutex, seq <- fwSeq, down <- fwDown, up <- fwUp,
    socket <- fwSocket, reg <- fwReg, early <- fwEarly, lost <- fwLost,
    calls <- fwCalls, during <- fwDuring, done <- fwDone, misread <- fwMisread

Soft == INSTANCE SoftTimeCtrl WITH
    mode <- softMode,
    remaining <- softRemaining, on <- softOn, left <- softLeft, queue <- softQueue,
    inline <- softInline, mutex <- softMutex, task <- softTask, cur <- softCur,
    recv <- softRecv, nsamps <- softNsamps, issued <- softIssued, open <- softOpen,
    asked <- softAsked, given <- softGiven, over <- softOver

Claim == INSTANCE DeviceClaim WITH
    Nobody <- NoProcess, Timeout <- ClaimTimeout, now <- claimNow, claimTime <- claimClaimTime,
    claimSrc <- claimClaimSrc, claimed <- claimClaimed, lastTime <- claimLastTime,
    timeout <- claimTimeout, claimer <- claimClaimer, wake <- claimWake,
    check <- claimCheck, free <- claimFree, opens <- claimOpens, quiet <- claimQuiet,
    idle <- claimIdle

ASSUME PathConstantsAssumption ==
    /\ Fifo!ConstantsAssumption
    /\ X300Fw!ConstantsAssumption /\ Usrp2Fw!ConstantsAssumption
    /\ Soft!ConstantsAssumption
    /\ Claim!ConstantsAssumption

otherVars == <<path, fifoVars, fwVars, softVars, claimVars>>

PathInit ==
    /\ path \in {"core", "fifo", "x300", "usrp2", "soft", "claim"}
    /\ Init /\ Fifo!Init /\ X300Fw!Init /\ Soft!Init /\ Claim!Init

PathNext ==
    /\ UNCHANGED path
    /\ \/ /\ path = "core" /\ Next
          /\ UNCHANGED <<fifoVars, fwVars, softVars, claimVars>>
       \/ /\ path = "fifo" /\ Fifo!Next
          /\ UNCHANGED <<vars, fwVars, softVars, claimVars>>
       \/ /\ path = "x300" /\ X300Fw!Next
          /\ UNCHANGED <<vars, fifoVars, softVars, claimVars>>
       \/ /\ path = "usrp2" /\ Usrp2Fw!Next
          /\ UNCHANGED <<vars, fifoVars, softVars, claimVars>>
       \/ /\ path = "soft" /\ Soft!Next
          /\ UNCHANGED <<vars, fifoVars, fwVars, claimVars>>
       \/ /\ path = "claim" /\ Claim!Next
          /\ UNCHANGED <<vars, fifoVars, fwVars, softVars>>

PathSpec == PathInit /\ [][PathNext]_<<vars, otherVars>> /\ Fairness

-----------------------------------------------------------------------------
(* The properties of RadioCtrlCore have their own names.                   *)

\* On every path a peek returns the value that was read for it: see PeekTrue of
\* FifoCtrl and FirmwareControl.
PeeksTrue == Fifo!PeekTrue /\ X300Fw!PeekTrue

\* See RoomForAnswers of FifoCtrl: the window of unanswered commands.
RoomForAnswers == Fifo!RoomForAnswers

\* See OnlyCurrent of FirmwareControl, on either protocol, whose variables are the
\* same: a call that has returned writes no more.
OnlyCurrent == X300Fw!OnlyCurrent

\* See Counted of SoftTimeCtrl: what is left of a burst.
Counted == Soft!Counted

\* See ClaimHeld of DeviceClaim: a claim that is renewed does not time out.
ClaimHeld == Claim!ClaimHeld

\* See Expires of DeviceClaim: an abandoned device becomes free.
Expires == Claim!Expires
=============================================================================
