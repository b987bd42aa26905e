-------------------------- MODULE MCPacketDemuxer --------------------------
(***************************************************************************)
(* Small instances of PacketDemuxer for TLC: two streams, read by one      *)
(* thread or by two.                                                       *)
(***************************************************************************)
EXTENDS PacketDemuxer

OneReader == <<1, 1>>
TwoReaders == <<1, 2>>
OneOrTwo == {OneReader, TwoReaders}

\* A packet of the stream that is wanted always finds a frame.  Clearing a queue
\* leaves the reader as many packets apart as its streams were.
ASSUME RoomForSkew == MaxSkew * (1 + MaxMade) < NumFrames
============================================================================
