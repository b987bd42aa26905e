--------------------------- MODULE PacketDemuxer ---------------------------
(***************************************************************************)
(* The receive path of the B200 below its streamers: the ring of frames    *)
(* libusb_zero_copy_single in host/lib/transport/libusb1_zero_copy.cpp,    *)
(* and recv_packet_demuxer_3000 in                                         *)
(* host/lib/usrp/common/recv_packet_demuxer_3000.hpp, which sorts the      *)
(* packets of several streams that come over one transport.  A packet that *)
(* the reader of another stream comes across is parked, frame and all, in  *)
(* the queue of its stream.                                                *)
(*                                                                         *)
(* A reader is a thread in recv() of a streamer: it gets a packet for each *)
(* of the streamer's channels in turn, then releases their frames.  A step *)
(* is what a thread does while it holds a mutex.  A packet is its stream   *)
(* id and its number in the stream.                                        *)
(*                                                                         *)
(* Operators named Bug* are faults that the properties are there to catch; *)
(* no behaviour of Spec uses them.                                         *)
(***************************************************************************)
EXTENDS Integers, Sequences, FiniteSets

CONSTANTS
    NumFrames,  \* num_recv_frames, 16 by default
    NumStreams, \* stream ids for which a streamer has called realloc_sid()
    Readings,   \* the ways in which threads may share the streams, see `reads'
    MaxSkew,    \* bound: packets the device may send of one stream before the
                \* next one of another
    MaxWire,    \* packets that the FIFOs of the device hold
    MaxSent,    \* bound: packets of each stream
    MaxStray,   \* bound: packets with another stream id
    MaxMade     \* bound: streamers that are made anew

Frame == 1 .. NumFrames
Stream == 1 .. NumStreams
Reader == Stream

NoFrame == 0
NoReader == 0
Stray == 0      \* any other stream id

ASSUME ConstantsAssumption ==
    /\ NumFrames \in Nat \ {0}
    /\ NumStreams \in Nat \ {0}
    /\ Readings \subseteq [Stream -> Reader] /\ Readings # {}
    /\ MaxSkew \in Nat /\ MaxWire \in Nat \ {0}
    /\ MaxSent \in Nat /\ MaxStray \in Nat /\ MaxMade \in Nat

Packet == [sid : Stream \cup {Stray}, n : Nat]

VARIABLES
    reads,      \* per stream: the thread that reads it
    wire,       \* packets on their way from the device
    sent,       \* per stream: packets the device has sent
    strays,     \* stray packets it has sent
    enqueued,   \* _enqueued: the frames submitted to libusb
    ready,      \* how many of them, from the front, are complete
    content,    \* per frame: the packet last received in it
    recvMutex,  \* who holds _recv_mutex, or NoReader
    queues,     \* _queues: per stream, the frames parked
    pc,         \* per reader: where it is
    buff,       \* per reader: the frame it has got from the transport
    held,       \* per stream: the frame its reader has been given
    made,       \* streamers made anew
    handed,     \* history: per stream, packets handed out, or cleared
    outOfTurn   \* history: streams of which a packet was handed out out of turn

radio == <<wire, sent, strays>>
ring == <<enqueued, ready, content>>
history == <<handed, outOfTurn>>
vars == <<reads, radio, ring, recvMutex, queues, pc, buff, held, made, history>>

TypeOK ==
    /\ reads \in [Stream -> Reader]
    /\ wire \in Seq(Packet) /\ sent \in [Stream -> Nat] /\ strays \in Nat
    /\ enqueued \in Seq(Frame) /\ ready \in Nat /\ ready <= Len(enqueued)
    /\ content \in [Frame -> Packet]
    /\ recvMutex \in Reader \cup {NoReader}
    /\ queues \in [Stream -> Seq(Frame)]
    /\ pc \in [Reader -> {"check", "lock", "xport", "sort", "release"}]
    /\ buff \in [Reader -> Frame \cup {NoFrame}]
    /\ held \in [Stream -> Frame \cup {NoFrame}]
    /\ made \in Nat
    /\ handed \in [Stream -> Nat] /\ outOfTurn \in SUBSET Stream

Init ==
    /\ reads \in Readings
    /\ wire = <<>> /\ sent = [s \in Stream |-> 0] /\ strays = 0
    /\ enqueued = [i \in 1 .. NumFrames |-> i] /\ ready = 0
    /\ content = [f \in Frame |-> [sid |-> Stray, n |-> 0]]
    /\ recvMutex = NoReader
    /\ queues = [s \in Stream |-> <<>>]
    /\ pc = [r \in Reader |-> "check"]
    /\ buff = [r \in Reader |-> NoFrame]
    /\ held = [s \in Stream |-> NoFrame]
    /\ made = 0
    /\ handed = [s \in Stream |-> 0] /\ outOfTurn = {}

Goto(r, from, to) == pc[r] = from /\ pc' = [pc EXCEPT ![r] = to]

-----------------------------------------------------------------------------
(* The device, and libusb_async_cb().                                      *)

Send(s) ==
    /\ sent[s] < MaxSent /\ Len(wire) < MaxWire
    /\ \A u \in Stream : sent[s] - sent[u] < MaxSkew
    /\ wire' = Append(wire, [sid |-> s, n |-> sent[s]])
    /\ sent' = [sent EXCEPT ![s] = @ + 1]
    /\ UNCHANGED <<reads, strays, ring, recvMutex, queues, pc, buff, held, made,
                   history>>

SendStray ==
    /\ strays < MaxStray /\ Len(wire) < MaxWire
    /\ strays' = strays + 1
    /\ wire' = Append(wire, [sid |-> Stray, n |-> 0])
    /\ UNCHANGED <<reads, sent, ring, recvMutex, queues, pc, buff, held, made, history>>

\* Transfers are completed in the order in which they were submitted.
Complete ==
    /\ wire # <<>> /\ ready < Len(enqueued)
    /\ content' = [content EXCEPT ![enqueued[ready + 1]] = Head(wire)]
    /\ wire' = Tail(wire)
    /\ ready' = ready + 1
    /\ UNCHANGED <<reads, sent, strays, enqueued, recvMutex, queues, pc, buff, held,
                   made, history>>

\* enqueue_buffer() and submit_what_we_can(): there is always room to submit a
\* frame that is released, so _released is empty whenever _mutex is free.
Submit(frames) == enqueued' = enqueued \o frames /\ UNCHANGED <<ready, content>>

-----------------------------------------------------------------------------
(* recv_packet_demuxer_3000::get_recv_buff().                              *)

StreamsOf(r) == {s \in Stream : reads[s] = r}

\* The channel for which the reader needs a packet, the first of those left.
Wants(r, s) ==
    /\ s \in StreamsOf(r) /\ held[s] = NoFrame
    /\ \A u \in StreamsOf(r) : held[u] = NoFrame => s <= u

\* The reader gets frame f for stream s; it goes on with its next channel, or
\* has a packet of each and, the samples copied, releases them.
Give(r, s, f) ==
    /\ held' = [held EXCEPT ![s] = f]
    /\ pc' = [pc EXCEPT ![r] = IF \E u \in StreamsOf(r) \ {s} : held[u] = NoFrame
                               THEN "check" ELSE "release"]
    /\ handed' = [handed EXCEPT ![s] = @ + 1]
    /\ outOfTurn' = IF content[f].n = handed[s] THEN outOfTurn ELSE outOfTurn \cup {s}

\* queue.pop() is forgotten.
BugRest(queue) == queue

\* What is left of a queue when its front has been taken.
Rest(queue) == Tail(queue)

\* "Check the queue to see if we already have a buffer"
TakeParked(r) ==
    /\ pc[r] = "check"
    /\ \E s \in Stream :
         /\ Wants(r, s) /\ queues[s] # <<>>
         /\ Give(r, s, Head(queues[s]))
         /\ queues' = [queues EXCEPT ![s] = Rest(@)]
    /\ UNCHANGED <<reads, radio, ring, recvMutex, buff, made>>

\* The queue is not looked at first.
BugCheckInVain(r) ==
    /\ Goto(r, "check", "lock")
    /\ UNCHANGED <<reads, radio, ring, recvMutex, queues, buff, held, made, history>>

CheckInVain(r) ==
    /\ Goto(r, "check", "lock")
    /\ \E s \in Stream : Wants(r, s) /\ queues[s] = <<>>
    /\ UNCHANGED <<reads, radio, ring, recvMutex, queues, buff, held, made, history>>

\* libusb_zero_copy_impl::get_recv_buff()
LockTransport(r) ==
    /\ Goto(r, "lock", "xport")
    /\ recvMutex = NoReader
    /\ recvMutex' = r
    /\ UNCHANGED <<reads, radio, ring, queues, buff, held, made, history>>

\* libusb_zero_copy_single::get_buff(), when the first transfer completes.
TakeFrame(r) ==
    /\ Goto(r, "xport", "sort") /\ ready > 0
    /\ buff' = [buff EXCEPT ![r] = Head(enqueued)]
    /\ enqueued' = Tail(enqueued)
    /\ ready' = ready - 1
    /\ recvMutex' = NoReader
    /\ UNCHANGED <<reads, radio, content, queues, held, made, history>>

\* The same, when no frame is enqueued or the first one is not completed in time;
\* get_recv_buff() or the streamer, called again, starts anew.
TimeOut(r) ==
    /\ Goto(r, "xport", "check") /\ ready = 0
    /\ recvMutex' = NoReader
    /\ UNCHANGED <<reads, radio, ring, queues, buff, held, made, history>>

\* The packet is of the stream that the reader wants.
SortOwn(r) ==
    /\ pc[r] = "sort"
    /\ \E s \in Stream :
         /\ Wants(r, s) /\ content[buff[r]].sid = s
         /\ Give(r, s, buff[r])
    /\ buff' = [buff EXCEPT ![r] = NoFrame]
    /\ UNCHANGED <<reads, radio, ring, recvMutex, queues, made>>

\* It is of another stream.
SortOther(r) ==
    /\ Goto(r, "sort", "check")
    /\ \E s \in Stream :
         /\ ~Wants(r, s) /\ content[buff[r]].sid = s
         /\ queues' = [queues EXCEPT ![s] = Append(@, buff[r])]
    /\ buff' = [buff EXCEPT ![r] = NoFrame]
    /\ UNCHANGED <<reads, radio, ring, recvMutex, held, made, history>>

\* The frame goes to a queue that nobody reads.
BugSortStray(r) ==
    /\ Goto(r, "sort", "check")
    /\ content[buff[r]].sid \notin Stream
    /\ buff' = [buff EXCEPT ![r] = NoFrame]
    /\ UNCHANGED <<reads, radio, ring, recvMutex, queues, held, made, history>>

\* "unexpected sid": the frame is released.
SortStray(r) ==
    /\ Goto(r, "sort", "check")
    /\ content[buff[r]].sid \notin Stream
    /\ Submit(<<buff[r]>>)
    /\ buff' = [buff EXCEPT ![r] = NoFrame]
    /\ UNCHANGED <<reads, radio, recvMutex, queues, held, made, history>>

\* The reader is done with the samples, and releases frame after frame.
Release(r) ==
    /\ pc[r] = "release"
    /\ \E s \in StreamsOf(r) :
         /\ held[s] # NoFrame /\ \A u \in StreamsOf(r) : held[u] # NoFrame => s <= u
         /\ Submit(<<held[s]>>)
         /\ held' = [held EXCEPT ![s] = NoFrame]
         /\ pc' = [pc EXCEPT ![r] = IF \E u \in StreamsOf(r) \ {s} : held[u] # NoFrame
                                    THEN "release" ELSE "check"]
    /\ UNCHANGED <<reads, radio, recvMutex, queues, buff, made, history>>

\* realloc_sid(): a streamer is made anew, and what is parked is thrown away.
Realloc(s) ==
    /\ made < MaxMade
    /\ pc[reads[s]] = "check"
    /\ \A u \in StreamsOf(reads[s]) : held[u] = NoFrame
    /\ Submit(queues[s])
    /\ queues' = [queues EXCEPT ![s] = <<>>]
    /\ handed' = [handed EXCEPT ![s] = @ + Len(queues[s])]
    /\ made' = made + 1
    /\ UNCHANGED <<reads, radio, recvMutex, pc, buff, held, outOfTurn>>

-----------------------------------------------------------------------------
\* What a reader does by itself; nobody waits in the transport for ever.
ReaderStep(r) ==
    \/ TakeParked(r) \/ CheckInVain(r)
    \/ LockTransport(r) \/ TakeFrame(r) \/ TimeOut(r)
    \/ SortOwn(r) \/ SortOther(r) \/ SortStray(r)
    \/ Release(r)

Next ==
    \/ \E s \in Stream : Send(s) \/ Realloc(s)
    \/ SendStray \/ Complete
    \/ \E r \in Reader : ReaderStep(r)

Spec == Init /\ [][Next]_vars

\* The radios stream, libusb completes transfers, every streamer is read.  Whoever
\* leaves _recv_mutex has a packet or a queue to look at before it comes back, so
\* nobody is kept out of it.
Fairness ==
    /\ \A s \in Stream : WF_vars(Send(s))
    /\ WF_vars(Complete)
    /\ \A r \in Reader : WF_vars(ReaderStep(r)) /\ SF_vars(LockTransport(r))

FairSpec == Spec /\ Fairness

-----------------------------------------------------------------------------
(* Properties.                                                             *)

\* A sequence of frames, as a set.
Frames(q) == {q[i] : i \in 1 .. Len(q)}

Distinct(q) == \A i, j \in 1 .. Len(q) : q[i] = q[j] => i = j

\* Where a frame can be: submitted, parked for a stream, given to its reader, or
\* in the hands of a reader that sorts it.
Place == {<<"ring", 0>>} \cup ({"parked", "held"} \X Stream) \cup ({"buff"} \X Reader)

At(f, place) ==
    \/ place[1] = "ring" /\ f \in Frames(enqueued)
    \/ place[1] = "parked" /\ f \in Frames(queues[place[2]])
    \/ place[1] = "held" /\ held[place[2]] = f
    \/ place[1] = "buff" /\ buff[place[2]] = f

\* Every frame is in one place, and there once.  None is lost to the transport,
\* none is filled again while somebody reads it (enqueue_buffer,
\* _internal_get_recv_buff, realloc_sid).
FramesKept ==
    /\ Distinct(enqueued) /\ \A s \in Stream : Distinct(queues[s])
    /\ \A f \in Frame : \E p \in Place : \A q \in Place : At(f, q) <=> q = p

\* One thread reads all streams.
Serialised == \A s, u \in Stream : reads[s] = reads[u]

\* To a single thread every stream is handed out packet by packet, in the order of
\* the device, however the streams are mixed on the wire, and what it holds is what
\* it was given ("The onus is on the caller ... to serialise access").
InOrder ==
    Serialised =>
      /\ outOfTurn = {}
      /\ \A s \in Stream :
           held[s] # NoFrame => content[held[s]] = [sid |-> s, n |-> handed[s] - 1]

\* All packets are handed out: parked packets of one stream never take all the
\* frames while another's next packet waits behind them, as long as the device is
\* not ahead with one by as many packets as there are frames (get_recv_buff).
AllHandedOut == <>(\A s \in Stream : handed[s] = MaxSent)
=============================================================================
