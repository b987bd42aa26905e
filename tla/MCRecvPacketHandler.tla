------------------------ MODULE MCRecvPacketHandler ------------------------
(***************************************************************************)
(* Small instances of RecvPacketHandler for TLC.                           *)
(***************************************************************************)
EXTENDS RecvPacketHandler

\* The network loses fewer packets in a row than there are sequence numbers: a
\* loss of exactly 4096 packets (16 on VRT links) cannot be told from no loss.
ASSUME LossIsVisible == MaxLost + 1 < SeqMod

\* Buffers smaller than, and larger than, a packet of two samples.
FragmentingWants == {1, 3}
PacketWants == {2, 3}

\* A radio that restarts skips one packet, or half a packet.
AlignedGaps == {2}
AnyGaps == {1, 2}

-----------------------------------------------------------------------------
(* Endless streams.  The radios of a run that looks for what never ends    *)
(* must not run dry, so instants and numbers are moved back as the streams *)
(* go on: only their distance from those still to come matters.  Horizon   *)
(* is then out of reach.                                                   *)

EarlierBy(t, d) == IF t <= d THEN 0 ELSE t - d

\* Instants to come are kept above Base, so that the time can be set back, and a
\* stamp of the past, cut off at 0, is less than any stamp to come.
Base == SetBack + 1

\* All radios have gone d instants beyond Base, and beyond the instant at which the
\* time was last set back.
Ahead(d) ==
    /\ d > clock.back
    /\ \E c \in Chan : net[c].at = Base + d
    /\ \A c \in Chan : net[c].at >= Base + d /\ net[c].at >= clock.at

\* The same state in earlier instants, whose stamps are the instants again, and with
\* numbers that begin anew.  What only histories know is forgotten: the instants of
\* packets that were taken, the times and samples the application was handed.
MoveBack(d) ==
    LET stamp(t) == EarlierBy(t, d - clock.back)
        dateless(md) == [md EXCEPT !.time_spec = 0]
    IN /\ net' = [c \in Chan |-> [net[c] EXCEPT !.seq = 0, !.at = @ - d,
                                                !.from = EarlierBy(@, d)]]
       /\ clock' = [at |-> 0, back |-> 0]
       /\ expected' = [c \in Chan |-> (expected[c] - net[c].seq) % SeqMod]
       /\ slots' = [i \in Slots |->
                      [slots[i] EXCEPT !.atime = stamp(@), !.md = dateless(@),
                         !.per = [c \in Chan |-> [@[c] EXCEPT !.time = stamp(@), !.at = 0]]]]
       /\ queue' = {dateless(md) : md \in queue}
       /\ call' = [call EXCEPT !.md = dateless(@), !.from = NoCall.from]
       /\ ret' = [ret EXCEPT !.md = dateless(@), !.from = NoReturn.from]
       /\ app' = [next |-> [c \in Chan |-> 0], told |-> TRUE]
       /\ UNCHANGED <<idx, iters, pc>>

MovableBy == {d \in 1 .. Horizon : Ahead(d)}

\* The application's part, which Spec leaves free.
ApplicationCalls == RecvQueuedError \/ \E want \in Wants, one \in BOOLEAN : RecvCall(want, one)

\* The steps of Next, of which calls wait for instants that can be moved back.
EndlessNext ==
    \/ \E d \in MovableBy : MoveBack(d)
    \/ MovableBy = {} /\ (RecvStep \/ ApplicationCalls)
    \/ SetDeviceTime

EndlessSpec ==
    /\ Init /\ [][EndlessNext]_vars
    /\ WF_vars(RecvStep) /\ WF_vars(ApplicationCalls)

\* What may keep samples from an application that goes on receiving: a packet that is
\* late or lost, a message, another device time.
Disturbance ==
    \/ SetDeviceTime
    \/ \E c \in Chan : \/ Timeout(c)
                       \/ InlineMessage(c)
                       \/ /\ AlignData(c) \/ SequenceError(c)
                          /\ net'[c].at > net[c].at + Len

\* Whatever has happened, and wherever the radios stand to each other, once nothing
\* disturbs the streams any more the application gets samples again and again: an
\* alignment that cannot succeed is given up, and the handler that is then called
\* starts the radios together (get_aligned_buffs, handle_overflow).
SamplesGoOn == <>[][~Disturbance]_vars => []<>(ret.n > 0)
============================================================================
