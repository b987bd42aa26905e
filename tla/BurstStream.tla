---------------------------- MODULE BurstStream -----------------------------
(***************************************************************************)
(* What tx_streamer::send() promises of the packets on each channel        *)
(* (host/include/uhd/stream.hpp and uhd/types/metadata.hpp): they are      *)
(* numbered one by one, carry the application's samples in order without a *)
(* gap or a repetition, the first of a burst and no other is marked as its *)
(* start, and a packet with a time carries the time of its first sample.   *)
(***************************************************************************)
EXTENDS Integers

CONSTANTS
    Lead,      \* sample k is meant for the instant k + Lead
    MaxSamps   \* samples that a packet holds at most

VARIABLE wire   \* the last packet committed

Packet == [seq : Int, from : Nat, next : Nat,
           has_tsf : BOOLEAN, tsf : Nat, sob : BOOLEAN, eob : BOOLEAN]

\* Before the first packet no burst is open.
NoPacket == [seq |-> -1, from |-> 0, next |-> 0,
             has_tsf |-> FALSE, tsf |-> 0, sob |-> FALSE, eob |-> TRUE]

TypeOK == wire \in Packet

Init == wire = NoPacket

Put(n, timed, last) ==
    wire' = [seq |-> wire.seq + 1, from |-> wire.next, next |-> wire.next + n,
             has_tsf |-> timed, tsf |-> IF timed THEN wire.next + Lead ELSE 0,
             sob |-> wire.eob, eob |-> last]

\* A packet of samples.
PutSamples == \E n \in 1 .. MaxSamps, timed, last \in BOOLEAN : Put(n, timed, last)

\* A packet that only ends the burst, its one sample is padding.
PutEnd == ~wire.eob /\ Put(0, FALSE, TRUE)

Next == PutSamples \/ PutEnd

Spec == Init /\ [][Next]_wire
=============================================================================
