---------------------------- MODULE RxFlowControl -----------------------------
(***************************************************************************)
(* Receive flow control of the X300, one channel of a streamer:            *)
(* handle_rx_flowctrl() in host/lib/usrp/x300/x300_io_impl.cpp, called     *)
(* from get_and_process_single_packet() in super_recv_packet_handler.hpp,  *)
(* and source_flow_control.v in fpga/usrp3/lib/packet_proc, the gate in    *)
(* the radio.                                                              *)
(*                                                                         *)
(* The host has a buffer of `Window' packets.  It answers every packet     *)
(* whose number is a multiple of Update with that number; the radio lets a *)
(* packet go while it is less than a window after the last answer.  Data   *)
(* packets carry the framer's 12-bit number.  An inline message (overflow, *)
(* late command) passes the same gate, where it counts as one more packet, *)
(* but carries the number of the next data packet.                         *)
(*                                                                         *)
(* Numbers are kept whole here; wherever the code sees 12 bits of them the *)
(* model takes them modulo SeqMod.  Operators named Bug* are faults that   *)
(* the properties are there to catch; no behaviour of Spec uses them.      *)
(***************************************************************************)
EXTENDS Integers, Sequences, FiniteSets

CONSTANTS
    Window,       \* fc_window: receive buffer of the host, in frames
    RequestFreq,  \* X300_RX_FC_REQUEST_FREQ
    SeqMod,       \* 4096: sequence numbers have 12 bits
    MaxMessages,  \* bound: inline messages the radio sends
    MaxLost,      \* bound: packets and answers lost, answers not sent, in all
    MaxSent       \* bound: packets sent in all

\* A window of one packet does not stream: the answer to packet 0 is the one that
\* was given in advance.
ASSUME ConstantsAssumption ==
    /\ Window \in Nat \ {0, 1}
    /\ RequestFreq \in Nat \ {0}
    /\ SeqMod \in Nat \ {0}
    /\ MaxMessages \in Nat
    /\ MaxLost \in Nat
    /\ MaxSent \in Nat

\* An answer per packet of the window only, not per part of it.
BugUpdate == Window

\* fc_handle_window, and the limit that keeps it within 12 bits.
Update ==
    LET part == IF Window >= RequestFreq THEN Window \div RequestFreq ELSE 1
    IN  IF part < SeqMod - 1 \/ SeqMod = 1 THEN part ELSE SeqMod - 1

VARIABLES
    current,  \* current_seqnum: packets the gate has let go
    data,     \* the framer's seqnum: the number of the next data packet
    last,     \* last_seqnum_consumed; 0xFFFFFFFF is -1
    go,       \* the gate is open for a packet
    wire,     \* packets on their way or in the host's buffer
    seq32,    \* seq32_state
    acks,     \* answers on their way to the radio
    lost      \* packets and answers lost so far, and answers not sent

vars == <<current, data, last, go, wire, seq32, acks, lost>>

\* A packet, at its place among all that the gate let go.
Packet == [pos : Nat, seq : Nat]

TypeOK ==
    /\ current \in Nat
    /\ data \in Nat
    /\ last \in Nat \cup {-1}
    /\ go \in BOOLEAN
    /\ wire \in SUBSET Packet
    /\ seq32 \in Nat
    /\ acks \in Seq(Nat)
    /\ lost \in Nat

\* configure_flow_control() has reset the gate, which was open while flow control
\* was disabled, and the host answers packet 0 once in advance (do_init).
Init ==
    /\ current = 0
    /\ data = 0
    /\ last = -1
    /\ go = TRUE
    /\ wire = {}
    /\ seq32 = 0
    /\ acks = <<0>>
    /\ lost = 0

-----------------------------------------------------------------------------
(* The gate.                                                               *)

\* configure_flow_control() writes the window itself.
BugGoUntil == last + Window + 1

\* The register holds the window less one.
GoUntil == last + (Window - 1) + 1

\* "This test assumes the host is well behaved in sending good numbers for
\* packets consumed": it only looks whether the two are equal.
Open ==
    /\ ~go /\ current < MaxSent
    /\ GoUntil - current # 0
    /\ go' = TRUE
    /\ UNCHANGED <<current, data, last, wire, seq32, acks, lost>>

\* The end of a packet passes, and closes the gate.
Pass ==
    /\ go
    /\ go' = FALSE
    /\ current' = current + 1
    /\ wire' = wire \cup {[pos |-> current, seq |-> data]}
    /\ UNCHANGED <<last, seq32, acks, lost>>

PassData == Pass /\ data' = data + 1

PassMessage == Pass /\ current - data < MaxMessages /\ UNCHANGED data

HearAnswer ==
    /\ acks # <<>>
    /\ last' = Head(acks)
    /\ acks' = Tail(acks)
    /\ UNCHANGED <<current, data, go, wire, seq32, lost>>

-----------------------------------------------------------------------------
(* The host.  It looks at the number of every packet, of whatever kind.    *)

Answered(p) == (p.seq % SeqMod) % Update = 0

\* The turn is not counted.
BugRecovered(p) == (seq32 - (seq32 % SeqMod)) + (p.seq % SeqMod)

\* "recover seq32"
Recovered(p) ==
    LET seq12 == p.seq % SeqMod
        base == IF seq12 < seq32 % SeqMod THEN seq32 + SeqMod ELSE seq32
    IN  (base - (base % SeqMod)) + seq12

Oldest(p) == \A q \in wire : p.pos <= q.pos

\* The network delivers a packet that is answered in its turn, and loses less
\* than a turn of them on end: else the numbers are not recovered.
InTurn(p) == Oldest(p) /\ p.seq < seq32 + SeqMod

ReceiveUnanswered ==
    \E p \in wire :
        /\ ~Answered(p)
        /\ wire' = wire \ {p}
        /\ UNCHANGED <<current, data, last, go, seq32, acks, lost>>

ReceiveAnswered ==
    \E p \in wire :
        /\ Answered(p) /\ InTurn(p)
        /\ wire' = wire \ {p}
        /\ seq32' = Recovered(p)
        /\ acks' = Append(acks, Recovered(p))
        /\ UNCHANGED <<current, data, last, go, lost>>

\* "handle_rx_flowctrl timed out getting a send buffer": it throws, the packet is
\* reported as bad, and the number is left for the next answer.
ReceiveNoBuffer ==
    \E p \in wire :
        /\ Answered(p) /\ InTurn(p)
        /\ lost < MaxLost
        /\ wire' = wire \ {p}
        /\ lost' = lost + 1
        /\ UNCHANGED <<current, data, last, go, seq32, acks>>

-----------------------------------------------------------------------------
LosePacket ==
    /\ lost < MaxLost
    /\ \E p \in wire : wire' = wire \ {p}
    /\ lost' = lost + 1
    /\ UNCHANGED <<current, data, last, go, seq32, acks>>

LoseAnswer ==
    /\ lost < MaxLost /\ acks # <<>>
    /\ acks' = Tail(acks)
    /\ lost' = lost + 1
    /\ UNCHANGED <<current, data, last, go, wire, seq32>>

Next ==
    \/ Open \/ PassData \/ PassMessage \/ HearAnswer
    \/ ReceiveUnanswered \/ ReceiveAnswered \/ ReceiveNoBuffer
    \/ LosePacket \/ LoseAnswer

Spec == Init /\ [][Next]_vars

\* The application goes on receiving, the radio streams.
Fairness ==
    /\ WF_vars(Open) /\ WF_vars(PassData \/ PassMessage) /\ WF_vars(HearAnswer)
    /\ WF_vars(ReceiveUnanswered \/ ReceiveAnswered)

FairSpec == Spec /\ Fairness

-----------------------------------------------------------------------------
(* Properties.                                                             *)

Numbers(s) == {s[i] : i \in DOMAIN s}

\* The host is "well behaved in sending good numbers for packets consumed", which
\* the test for equality in the gate relies on: with numbers that wrap, packets
\* lost and messages numbered like the data after them, the answers never go
\* back, and no packet up to an answered number is still under way (except for
\* the answer in advance).
GoodNumbers ==
    /\ \A a \in Numbers(acks) : last <= a /\ a <= seq32
    /\ \A i, j \in DOMAIN acks : i <= j => acks[i] <= acks[j]
    /\ last <= seq32 /\ seq32 <= data
    /\ seq32 > 0 => \A p \in wire : p.pos > seq32

\* The radio never has more packets under way than the host has room for.
WindowRespected == Cardinality(wire) <= Window

Credit == INSTANCE CreditWindow WITH
    Room <- Window, sent <- current, gone <- current - Cardinality(wire)

\* The gate, its answers and their recovered numbers implement a window of credit
\* (source_flow_control.v, handle_rx_flowctrl).
ImplementsCreditWindow == Credit!Spec

Blocked == ~go /\ GoUntil = current

\* A gate that is closed for want of credit opens again.  Every message uses up a
\* packet of the window for good, so this needs a window larger than the messages
\* sent since the streamer was made, and the answers lost on end.
NoStall == Blocked ~> ~Blocked
===============================================================================
