---------------------------- MODULE TxFlowControl -----------------------------
(***************************************************************************)
(* Transmit flow control of the X300, one channel of a streamer:           *)
(* get_tx_buff_with_flowctrl(), which the send handler calls for a frame,  *)
(* handle_tx_async_msgs(), which runs in a task of its own (both in        *)
(* host/lib/usrp/x300/x300_io_impl.cpp), and the radio's end,              *)
(* tx_responder.v with trigger_context_pkt.v and new_tx_control.v in       *)
(* fpga/usrp3/lib/vita.                                                    *)
(*                                                                         *)
(* The radio has a buffer of `Window' packets.  After every AckEvery       *)
(* packets consumed, and at the end of a burst, it answers with the number *)
(* of the last one; the host lets the next packet go when it is not more   *)
(* than a window ahead of the last answer it has heard.  Packets and       *)
(* answers may be lost.                                                    *)
(*                                                                         *)
(* Numbers are kept whole here; wherever the code sees 12 bits of them the *)
(* model takes them modulo SeqMod.  Operators named Bug* are faults that   *)
(* the properties are there to catch; no behaviour of Spec uses them.      *)
(***************************************************************************)
EXTENDS Integers, Sequences, FiniteSets

CONSTANTS
    Window,         \* fc_pkt_window: send buffer of the radio, in frames
    ResponseFreq,   \* X300_TX_FC_RESPONSE_FREQ
    SeqMod,         \* 4096: sequence numbers have 12 bits
    AckDepth,       \* 32: depth of ack_queue
    MaxLost,        \* bound: packets and answers lost in all
    MaxOut          \* bound: frames handed out in all

ASSUME ConstantsAssumption ==
    /\ Window \in Nat \ {0}
    /\ ResponseFreq \in Nat \ {0}
    /\ SeqMod \in Nat
    /\ Window + 1 < SeqMod
    /\ AckDepth \in Nat \ {0}
    /\ MaxLost \in Nat
    /\ MaxOut \in Nat

\* fc_handle_window.
AckEvery == IF Window >= ResponseFreq THEN Window \div ResponseFreq ELSE 1

VARIABLES
    out,     \* last_seq_out
    ack,     \* last_seq_ack
    queue,   \* seq_queue, a bounded buffer of one number: {} or {number}
    held,    \* whether the send handler holds a frame that it has not committed
    down,    \* numbers of the packets on their way to the radio or in its buffer
    count,   \* packet_count
    acks,    \* the answers in ack_queue and on their way to the host
    lost,    \* packets and answers lost so far
    heard    \* history: the number that `ack' is the residue of, -1 at the start

vars == <<out, ack, queue, held, down, count, acks, lost, heard>>

\* What the radio tells: flow control responses, burst acknowledgements, errors.
Answer == [kind : {"flow_ctrl", "burst_ack", "error"}, seq : Nat]

TypeOK ==
    /\ out \in Nat
    /\ ack \in 0 .. SeqMod - 1
    /\ queue \in SUBSET Nat
    /\ held \in BOOLEAN
    /\ down \in SUBSET Nat
    /\ count \in 0 .. AckEvery - 1
    /\ acks \in Seq(Answer)
    /\ lost \in Nat
    /\ heard \in Int

Init ==
    /\ out = 0
    /\ ack = 0
    /\ queue = {}
    /\ held = FALSE
    /\ down = {}
    /\ count = 0
    /\ acks = <<>>
    /\ lost = 0
    /\ heard = -1

-----------------------------------------------------------------------------
(* get_tx_buff_with_flowctrl().  A time-out of either wait returns no      *)
(* frame and changes nothing.                                              *)

\* The difference is not masked: it goes below zero when `out' wraps first.
BugInWindowUnmasked == (out % SeqMod) - ack <= Window

InWindow == ((out % SeqMod) - ack) % SeqMod <= Window

\* "update seq, this will actually be a send".
Grant ==
    /\ ~held /\ InWindow /\ out < MaxOut
    /\ out' = out + 1
    /\ held' = TRUE
    /\ UNCHANGED <<ack, queue, down, count, acks, lost, heard>>

\* The wait for an answer, whose number is at most 12 bits wide.
PopAck ==
    /\ ~held /\ ~InWindow
    /\ \E seq \in queue : ack' = seq % SeqMod /\ heard' = seq
    /\ queue' = {}
    /\ UNCHANGED <<out, held, down, count, acks, lost>>

\* The send handler commits the frame: it has the packet number out - 1.
Commit ==
    /\ held
    /\ held' = FALSE
    /\ down' = down \cup {out - 1}
    /\ UNCHANGED <<out, ack, queue, count, acks, lost, heard>>

-----------------------------------------------------------------------------
(* The radio.  It consumes packets in order; one may be in error (late, or *)
(* after a lost one), or end a burst.                                      *)

Oldest(s) == s \in down /\ \A t \in down : s <= t

\* The trigger comes a cycle after the packet.  (The code does not count a packet
\* that is consumed in that very cycle; only packets of one or two samples can
\* follow each other so closely, and they are left out.)
Trigger == count + 1 >= AckEvery

\* What a packet makes the responder say.  An end of burst is acknowledged in
\* the cycle of a trigger that it causes, and stands for both.
Says(s, outcome) ==
    CASE outcome = "eob" -> <<[kind |-> "burst_ack", seq |-> s]>>
      [] outcome = "plain" /\ Trigger -> <<[kind |-> "flow_ctrl", seq |-> s]>>
      [] outcome = "error" /\ Trigger -> <<[kind |-> "error", seq |-> s],
                                           [kind |-> "flow_ctrl", seq |-> s]>>
      [] outcome = "error" /\ ~Trigger -> <<[kind |-> "error", seq |-> s]>>
      [] OTHER -> <<>>

\* Nobody looks whether ack_queue is full (i_tready): what does not fit is lost.
Queued(said) ==
    LET all == acks \o said
    IN  SubSeq(all, 1, IF Len(all) <= AckDepth THEN Len(all) ELSE AckDepth)

Counted == IF Trigger THEN 0 ELSE count + 1

Consume ==
    \E s \in down, outcome \in {"plain", "eob", "error"} :
        /\ Oldest(s)
        /\ down' = down \ {s}
        /\ acks' = Queued(Says(s, outcome))
        /\ count' = Counted
        /\ UNCHANGED <<out, ack, queue, held, lost, heard>>

-----------------------------------------------------------------------------
(* handle_tx_async_msgs(), and the network.                                *)

TellsConsumed(m) == m.kind \in {"flow_ctrl", "burst_ack"}

\* The bounded buffer keeps what it has.
BugPushed(seq) == IF queue = {} THEN {seq} ELSE queue

\* push_with_pop_on_full().
Pushed(seq) == {seq}

HandleAsync ==
    /\ acks # <<>>
    /\ acks' = Tail(acks)
    /\ queue' = IF TellsConsumed(Head(acks)) THEN Pushed(Head(acks).seq) ELSE queue
    /\ UNCHANGED <<out, ack, held, down, count, lost, heard>>

LosePacket ==
    /\ lost < MaxLost
    /\ \E s \in down : down' = down \ {s}
    /\ lost' = lost + 1
    /\ UNCHANGED <<out, ack, queue, held, count, acks, heard>>

LoseAnswer ==
    /\ lost < MaxLost /\ acks # <<>>
    /\ acks' = Tail(acks)
    /\ lost' = lost + 1
    /\ UNCHANGED <<out, ack, queue, held, down, count, heard>>

Next ==
    \/ Grant \/ PopAck \/ Commit
    \/ Consume \/ HandleAsync
    \/ LosePacket \/ LoseAnswer

Spec == Init /\ [][Next]_vars

\* The send handler commits what it holds and asks again, the radio plays what it
\* has, the task polls for answers.
Fairness == WF_vars(Commit) /\ WF_vars(PopAck) /\ WF_vars(Consume) /\ WF_vars(HandleAsync)

FairSpec == Spec /\ Fairness

-----------------------------------------------------------------------------
(* Properties.                                                             *)

InFlight == Cardinality(down) + (IF held THEN 1 ELSE 0)

\* The host never has more packets under way than the radio has room for, with
\* numbers that wrap and answers that are lost: except for one packet before the
\* first answer, when last_seq_ack = 0 stands for "nothing consumed" although it
\* reads "packet 0 consumed".
WindowRespected == InFlight <= Window + (IF heard = -1 THEN 1 ELSE 0)

Credit == INSTANCE CreditWindow WITH
    Room <- Window + 1, sent <- out, gone <- out - InFlight

\* The window, its masked numbers and the answers that overtake nothing implement
\* a window of credit, of one packet more than the radio's buffer.
ImplementsCreditWindow == Credit!Spec

\* A send that waits for the window does not wait for ever: as long as fewer
\* answers are lost than the radio gives for a window of packets, one is heard,
\* whichever of them the queue of one and the full ack_queue have dropped.
NoStall == ~InWindow ~> InWindow
=============================================================================
