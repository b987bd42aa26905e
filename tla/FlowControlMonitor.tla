-------------------------- MODULE FlowControlMonitor --------------------------
(***************************************************************************)
(* Transmit flow control of the USRP2 and N200, one channel: the class     *)
(* flow_control_monitor, get_send_buff(), recv_pirate_loop() and           *)
(* get_tx_stream() of host/lib/usrp/usrp2/io_impl.cpp, and the radio's end *)
(* in fpga/usrp2/vrt: vita_tx_deframer.v, trigger_context_pkt.v and        *)
(* gen_context_pkt.v.                                                      *)
(*                                                                         *)
(* Every frame carries a number of 32 bits.  The radio reports the number  *)
(* of the last frame it has begun to read, after every so many packets and *)
(* after every so many cycles; the pirate thread hands reports to the      *)
(* monitor.  A new streamer counts from zero again: get_tx_stream() clears *)
(* the monitor, then the radio, and neither waits for reports under way,   *)
(* so that a report about the streamer before may be the last one heard.   *)
(*                                                                         *)
(* Operators named Bug* are faults that the properties are there to catch; *)
(* no behaviour of Spec uses them.                                         *)
(***************************************************************************)
EXTENDS Integers, Sequences

CONSTANTS
    Window,        \* _max_seqs_out: buffer of the radio, in frames
    SeqMod,        \* 2^32
    PacketsPerUp,  \* REG_TX_CTRL_PACKETS_PER_UP
    CyclesPerUp,   \* whether REG_TX_CTRL_CYCLES_PER_UP is enabled
    MaxAhead,      \* bound: packets read and not yet consumed (a queue of samples)
    MaxUps,        \* bound: reports under way
    MaxLost,       \* bound: packets and reports lost in all
    MaxOut,        \* bound: frames of a streamer
    MaxStreams     \* bound: streamers

\* A buffer has hundreds of frames: all reports that can be under way would not let go
\* as many as there are numbers.
ConstantsAssumption ==
    /\ {Window, SeqMod, PacketsPerUp, MaxAhead, MaxUps, MaxStreams} \subseteq Nat \ {0}
    /\ {MaxLost, MaxOut} \subseteq Nat
    /\ CyclesPerUp \in BOOLEAN
    /\ Window * (MaxUps + 2) + 1 < SeqMod

VARIABLES
    pc,      \* "open", or "setup" after the monitor is cleared and before the radio is
    made,    \* streamers made
    out,     \* _last_seq_out, whole
    ack,     \* _last_seq_ack
    held,    \* the numbers in the frame that the streamer holds: {} or {number}
    down,    \* the numbers of the frames on their way to the radio or in its buffer
    seqnum,  \* seqnum_reg: the number of the last frame read
    ahead,   \* packets read and not yet consumed
    count,   \* packet_count
    ups,     \* reports on their way, each with the streamer it is about
    lost,    \* packets and reports lost so far
    misled   \* history: reports about another streamer that the present one heard,
             \* those before its set-up ended taken as one

vars == <<pc, made, out, ack, held, down, seqnum, ahead, count, ups, lost, misled>>

Init ==
    /\ pc = "open" /\ made = 1
    /\ out = 0 /\ ack = 0
    /\ held = {}
    /\ down = <<>> /\ seqnum = SeqMod - 1 /\ ahead = 0 /\ count = 0
    /\ ups = <<>>
    /\ lost = 0 /\ misled = 0

radio == <<seqnum, ahead, count>>

-----------------------------------------------------------------------------
(* The host.                                                               *)

\* The comparison lets a frame go when the window is full.
BugReady == (out - ack) % SeqMod <= Window

\* ready()
Ready == (out - ack) % SeqMod < Window

\* get_send_buff(): a time-out of either wait returns no frame, changes nothing.
GetSendBuff ==
    /\ pc = "open" /\ held = {} /\ out < MaxOut
    /\ Ready
    /\ held' = {out % SeqMod}
    /\ out' = out + 1
    /\ UNCHANGED <<pc, made, ack, down, radio, ups, lost, misled>>

\* The send handler commits the frame, or its destructor does.
Commit ==
    /\ \E n \in held : down' = Append(down, n)
    /\ held' = {}
    /\ UNCHANGED <<pc, made, out, ack, radio, ups, lost, misled>>

\* get_tx_stream() up to setup(): clear().  A report that the pirate thread hands
\* over meanwhile comes before it or after it.  The application has dropped the
\* streamer before, whose destructor has committed the frame that it held.
ClearMonitor ==
    /\ pc = "open" /\ made < MaxStreams
    /\ held = {}
    /\ pc' = "setup" /\ made' = made + 1
    /\ out' = 0 /\ ack' = 0
    /\ misled' = 0
    /\ UNCHANGED <<held, down, radio, ups, lost>>

\* The radio goes on with the number it has.
BugClearedNumber == seqnum

ClearedNumber == SeqMod - 1

\* setup(): the radio discards what it has and what arrives for 10 milliseconds.
ClearRadio ==
    /\ pc = "setup"
    /\ pc' = "open"
    /\ down' = <<>> /\ seqnum' = ClearedNumber /\ ahead' = 0 /\ count' = 0
    /\ UNCHANGED <<made, out, ack, held, ups, lost, misled>>

\* recv_pirate_loop() and update_fc_condition().
Deliver ==
    /\ ups # <<>>
    /\ ack' = Head(ups).seq
    /\ ups' = Tail(ups)
    /\ misled' = CASE Head(ups).about = made -> misled
                   [] Head(ups).about # made /\ pc = "setup" -> 1
                   [] OTHER -> misled + 1
    /\ UNCHANGED <<pc, made, out, held, down, radio, lost>>

-----------------------------------------------------------------------------
(* The radio and the network.                                              *)

\* The deframer reads the number of the next frame.
Deframe ==
    /\ down # <<>> /\ ahead < MaxAhead
    /\ seqnum' = Head(down)
    /\ down' = Tail(down)
    /\ ahead' = ahead + 1
    /\ UNCHANGED <<pc, made, out, ack, held, count, ups, lost, misled>>

\* A trigger while the generator still waits to send is lost.
Reported ==
    IF Len(ups) < MaxUps
    THEN Append(ups, [seq |-> seqnum, about |-> IF pc = "setup" THEN made - 1 ELSE made])
    ELSE ups

Consume ==
    /\ ahead > 0
    /\ ahead' = ahead - 1
    /\ count' = IF count + 1 > PacketsPerUp THEN 0 ELSE count + 1
    /\ ups' = IF count + 1 > PacketsPerUp THEN Reported ELSE ups
    /\ UNCHANGED <<pc, made, out, ack, held, down, seqnum, lost, misled>>

\* Either trigger starts both counts anew.
CycleUpdate ==
    /\ CyclesPerUp /\ Len(ups) < MaxUps
    /\ ups' = Reported
    /\ count' = 0
    /\ UNCHANGED <<pc, made, out, ack, held, down, seqnum, ahead, lost, misled>>

LosePacket ==
    /\ lost < MaxLost
    /\ \E i \in DOMAIN down :
           down' = SubSeq(down, 1, i - 1) \o SubSeq(down, i + 1, Len(down))
    /\ lost' = lost + 1
    /\ UNCHANGED <<pc, made, out, ack, held, radio, ups, misled>>

LoseReport ==
    /\ lost < MaxLost /\ ups # <<>>
    /\ ups' = Tail(ups)
    /\ lost' = lost + 1
    /\ UNCHANGED <<pc, made, out, ack, held, down, radio, misled>>

Next ==
    \/ GetSendBuff \/ Commit
    \/ ClearMonitor \/ ClearRadio \/ Deliver
    \/ Deframe \/ Consume \/ CycleUpdate
    \/ LosePacket \/ LoseReport

Spec == Init /\ [][Next]_vars

\* The send handler commits what it holds, setup() goes on, the pirate thread polls,
\* the radio reads and plays, its clock runs.
Fairness ==
    /\ WF_vars(Commit) /\ WF_vars(ClearRadio) /\ WF_vars(Deliver)
    /\ WF_vars(Deframe) /\ WF_vars(Consume) /\ WF_vars(CycleUpdate)

FairSpec == Spec /\ Fairness

-----------------------------------------------------------------------------
(* Properties.                                                             *)

InFlight == Len(down) + (IF held = {} THEN 0 ELSE 1)

\* The radio's buffer takes what the monitor lets go, whatever is lost.  Each report
\* about the streamer before that the present one hears may open the window once
\* more, since a number says nothing of its streamer.
WindowKept == pc = "open" => InFlight <= Window * (1 + misled)

\* A sender whose window is closed does not wait for ever, although the last report
\* it heard may be about the streamer before, and far ahead of what it has sent, so
\* that it cannot send the packet that would make the radio report again: the radio
\* repeats its number, which the set-up has put back.
NoStall == (pc = "open" /\ ~Ready) ~> (pc = "open" /\ Ready)
=============================================================================
