------------------------- MODULE RecvPacketHandler -------------------------
(***************************************************************************)
(* The receive side of the host library: recv_packet_handler, in           *)
(* host/lib/transport/super_recv_packet_handler.hpp.  One thread of the    *)
(* application calls recv(); every call loops over recv_one_packet(),      *)
(* which aligns one packet per transport channel by time stamp             *)
(* (get_aligned_buffs) and copies samples out of the aligned packets.      *)
(*                                                                         *)
(* The radios and the transports are the environment.  `net' holds, for    *)
(* each channel, what its radio sends next; the packets that a channel's   *)
(* get_buff may return are Arrivals(c).  Time is counted in samples.  A    *)
(* packet's payload is abstracted to the instant at which its first sample *)
(* was taken (`at'); its time stamp is Stamp(at), which differs from the   *)
(* instant once the application has set the device time back.              *)
(*                                                                         *)
(* Operators named Bug* are faults of the kind the properties are there to *)
(* catch, each put before the operator it would replace; no behaviour of   *)
(* Spec uses them.                                                         *)
(***************************************************************************)
EXTENDS Integers, FiniteSets

CONSTANTS
    NumChan,     \* transport channels of the streamer
    NumOutputs,  \* samples interleaved in one item, _num_outputs
    Len,         \* samples per output in a data packet
    SeqMod,      \* sequence numbers: 16 or 4096 in the code (seq_mask + 1)
    Threshold,   \* _alignment_faulure_threshold
    Recovery,    \* which overflow handler the device installs, see Recoveries
    Wants,       \* sample counts the application asks for
    Messages,    \* kinds of inline messages the radios send
    MaxLost,     \* bound: packets lost by the network between two arrivals
    MaxLate,     \* bound: how far back a repeated or reordered packet is; at
                 \* most one comes between two new packets of its channel
    MaxDrain,    \* bound: packets in flight when a handler stops the radios
    Gaps,        \* samples a radio skips when it restarts
    StartAt,     \* instants at which the radios may start, 0 if synchronised
    SetBack,     \* how far set_time_now() sets the device time back; 0: never
    Faulty,      \* whether processing a packet may throw
    Horizon      \* bound: the radios produce nothing from this instant on

Chan == 0 .. NumChan - 1
Slots == 0 .. 3

ASSUME ConstantsAssumption ==
    /\ NumChan \in Nat \ {0}
    /\ NumOutputs \in Nat \ {0}
    /\ Len \in Nat \ {0}
    /\ SeqMod \in Nat \ {0}
    /\ Threshold \in Nat
    /\ Recovery \in {"restart", "drain", "flush"}
    /\ Wants \subseteq Nat \ {0}
    /\ Messages \subseteq {"overflow", "late_command"}
    /\ MaxLost \in Nat /\ MaxLate \in Nat /\ MaxDrain \in Nat
    /\ Gaps \subseteq Nat
    /\ StartAt \subseteq Nat
    /\ SetBack \in Nat
    /\ Faulty \in BOOLEAN
    /\ Horizon \in Nat

Codes == {"NONE", "TIMEOUT", "LATE_COMMAND", "OVERFLOW", "ALIGNMENT", "BAD_PACKET"}

\* rx_metadata_t, without the burst flags.
Metadata == [code : Codes, has_time_spec : BOOLEAN, time_spec : Nat,
             out_of_sequence : BOOLEAN, more_fragments : BOOLEAN,
             fragment_offset : Nat]

CleanMetadata ==
    [code |-> "NONE", has_time_spec |-> FALSE, time_spec |-> 0,
     out_of_sequence |-> FALSE, more_fragments |-> FALSE, fragment_offset |-> 0]

\* per_buffer_info_type: `buff' says whether the frame is held, `at' stands for
\* copy_buff (the instant of the next sample to convert), `len' is the payload
\* length in ifpi, in items; reset() leaves ifpi alone.
PerBuffer == [buff : BOOLEAN, time : Nat, at : Nat, len : Nat]

\* buffers_info_type.
Slot == [todo : SUBSET Chan, valid : BOOLEAN, atime : Nat, left : Nat,
         frag : Nat, md : Metadata, per : [Chan -> PerBuffer]]

Blank(lens) ==
    [todo |-> Chan, valid |-> FALSE, atime |-> 0, left |-> 0, frag |-> 0,
     md |-> CleanMetadata,
     per |-> [c \in Chan |-> [buff |-> FALSE, time |-> 0, at |-> 0, len |-> lens[c]]]]

Reset(s) == Blank([c \in Chan |-> s.per[c].len])

VARIABLES
    net,       \* per channel: [seq, at, up] of what its radio sends next, `from'
               \* when it last started, whether a `late' packet was the last to come
    clock,     \* [at, back]: stamps of instants >= at are set back by `back'
    expected,  \* _props[c].packet_count
    slots,     \* _buffers_infos
    idx,       \* _buffers_infos_index
    iters,     \* iterations of the loop in get_aligned_buffs
    queue,     \* {} or {_queue_metadata}: _queue_error_for_next_call
    pc,        \* where recv() is
    call,      \* the arguments and locals of the call in progress
    ret,       \* what the last call returned
    app        \* history: what the application has been handed and told

rxvars == <<expected, slots, idx, iters, queue, pc, call, ret, app>>
vars == <<net, clock, expected, slots, idx, iters, queue, pc, call, ret, app>>

Radio == [seq : 0 .. SeqMod - 1, at : Nat, from : Nat, up : BOOLEAN, late : BOOLEAN]
Call == [want : Nat, one : BOOLEAN, first : BOOLEAN, accum : Nat,
         md : Metadata, from : [Chan -> Nat]]
Return == [n : Nat, md : Metadata, from : [Chan -> Nat]]
NoCall == [want |-> 0, one |-> FALSE, first |-> TRUE, accum |-> 0,
           md |-> CleanMetadata, from |-> [c \in Chan |-> 0]]
NoReturn == [n |-> 0, md |-> CleanMetadata, from |-> [c \in Chan |-> 0]]

TypeOK ==
    /\ net \in [Chan -> Radio]
    /\ clock \in [at : Nat, back : Nat]
    /\ expected \in [Chan -> 0 .. SeqMod - 1]
    /\ slots \in [Slots -> Slot]
    /\ idx \in Slots
    /\ iters \in Nat
    /\ queue \in SUBSET Metadata
    /\ pc \in {"idle", "fetch", "align", "copy"}
    /\ call \in Call
    /\ ret \in Return
    /\ app \in [next : [Chan -> Nat], told : BOOLEAN]

Init ==
    /\ \E start \in [Chan -> StartAt] :
         net = [c \in Chan |-> [seq |-> 0, at |-> start[c], from |-> start[c],
                                up |-> TRUE, late |-> FALSE]]
    /\ clock = [at |-> 0, back |-> 0]
    /\ expected = [c \in Chan |-> 0]
    /\ slots = [i \in Slots |-> Blank([c \in Chan |-> 0])]
    /\ idx = 0
    /\ iters = 0
    /\ queue = {}
    /\ pc = "idle"
    /\ call = NoCall
    /\ ret = NoReturn
    /\ app = [next |-> [c \in Chan |-> 0], told |-> TRUE]

-----------------------------------------------------------------------------
(* The ring of four slots.                                                 *)
Prev(i) == (i + 3) % 4
Next4(i) == (i + 1) % 4
Curr == slots[idx]

\* "save progress from curr -> next"
Swap(S, i) == [S EXCEPT ![i] = S[Next4(i)], ![Next4(i)] = S[i]]

-----------------------------------------------------------------------------
(* The environment: radios and transports.                                 *)

\* The time stamp of the sample taken at an instant.
Stamp(at) == IF at >= clock.at THEN at - clock.back ELSE at

\* Data packets hold Len samples of each output; a message holds one word.
Items(kind) == IF kind = "data" THEN Len * NumOutputs ELSE 1

Arrival(kind, seq, at, after) ==
    [kind |-> kind, seq |-> seq, at |-> at, after |-> after]

\* The next data packet after the network has lost some.
DataArrivals(c) ==
    {Arrival("data", (net[c].seq + k) % SeqMod, net[c].at + k * Len,
             [net[c] EXCEPT !.seq = (net[c].seq + k + 1) % SeqMod,
                            !.at = net[c].at + (k + 1) * Len, !.late = FALSE]) :
        k \in {j \in 0 .. MaxLost : net[c].up /\ net[c].at + j * Len < Horizon}}

\* An earlier data packet that was delayed, or delivered twice.
LateArrivals(c) ==
    {Arrival("data", (net[c].seq - k) % SeqMod, net[c].at - k * Len,
             [net[c] EXCEPT !.late = TRUE]) :
        k \in {j \in 1 .. MaxLate : ~net[c].late /\ net[c].at - j * Len >= net[c].from}}

\* An overflow message, after which the radio has stopped; or another message.
MessageArrivals(c) ==
    {Arrival(kind, 0, net[c].at, [net[c] EXCEPT !.up = kind # "overflow"]) :
        kind \in {k \in Messages : net[c].up /\ net[c].at < Horizon}}

Arrivals(c) == DataArrivals(c) \cup LateArrivals(c) \cup MessageArrivals(c)

\* The application sets the device time back while streaming: samples not yet
\* seen by any channel get earlier stamps.
SetDeviceTime ==
    /\ SetBack > 0 /\ clock.back = 0
    /\ \E c \in Chan :
         /\ \A d \in Chan : net[d].at <= net[c].at
         /\ net[c].at >= SetBack
         /\ clock' = [at |-> net[c].at, back |-> SetBack]
    /\ UNCHANGED <<net, rxvars>>

\* What an overflow handler called for channel c does to the radios n and the
\* packet counts e, in continuous mode:
\*   "restart": the channel's own radio is told to stream again, which one
\*              that is streaming goes on doing without a gap;
\*   "drain":   all radios are stopped, what is in flight is thrown away below
\*              the handler, and they restart at a common time;
\*   "flush":   the same, but what is in flight passes through the handler's
\*              _flush_all(), which counts packets and resets slots.
RestartRadio(c, n, e) ==
    /\ \/ n[c].up /\ net' = n
       \/ /\ ~n[c].up
          /\ \E g \in Gaps :
               net' = [n EXCEPT ![c] = [@ EXCEPT !.at = n[c].at + g, !.from = n[c].at + g,
                                                 !.up = TRUE]]
    /\ expected' = e

\* Of the radios n, with inFlight[c] packets under way when they stop: the
\* packets drained, and the instant and sequence number after them.
Drained(n, inFlight, c) == IF n[c].up THEN inFlight[c] ELSE 0
StopAt(n, inFlight, c) == n[c].at + Drained(n, inFlight, c) * Len
StopSeq(n, inFlight, c) == (n[c].seq + Drained(n, inFlight, c)) % SeqMod

RestartAll(n, e) ==
    \E inFlight \in [Chan -> 0 .. MaxDrain], g \in Gaps, last \in Chan :
      /\ \A c \in Chan : StopAt(n, inFlight, c) <= StopAt(n, inFlight, last)
      /\ net' = [c \in Chan |-> [seq |-> StopSeq(n, inFlight, c),
                                 at |-> StopAt(n, inFlight, last) + g,
                                 from |-> StopAt(n, inFlight, last) + g,
                                 up |-> TRUE, late |-> FALSE]]
      /\ expected' = [c \in Chan |->
                        IF Recovery = "flush" /\ Drained(n, inFlight, c) > 0
                        THEN StopSeq(n, inFlight, c) ELSE e[c]]

HandleOverflow(c, n, e) ==
    \/ Recovery = "restart" /\ RestartRadio(c, n, e)
    \/ Recovery # "restart" /\ RestartAll(n, e)

\* What the handler does to the slots: _flush_all() resets the three around idx.
AfterOverflow(S) ==
    IF Recovery = "flush"
    THEN [i \in Slots |-> IF i \in {Prev(idx), idx, Next4(idx)} THEN Reset(S[i]) ELSE S[i]]
    ELSE S

-----------------------------------------------------------------------------
(* get_and_process_single_packet().                                        *)

\* The packet p unpacked into per-buffer info b.
Unpacked(p, b) == [buff |-> TRUE, time |-> Stamp(p.at), at |-> p.at, len |-> Items(p.kind)]

\* SRPH_DONT_CHECK_SEQUENCE is defined.
BugPacketTypeUnchecked(c, p) == IF p.kind # "data" THEN "INLINE_MESSAGE" ELSE "IF_DATA"

\* The return conditions; "the order of these checks is HOLY".
PacketType(c, p) ==
    CASE p.kind # "data" -> "INLINE_MESSAGE"
      [] p.kind = "data" /\ p.seq # expected[c] -> "SEQUENCE_ERROR"
      [] p.kind = "data" /\ p.seq = expected[c]
           /\ slots[Prev(idx)].per[c].time > Stamp(p.at) -> "TIMESTAMP_ERROR"
      [] OTHER -> "IF_DATA"

\* packet_count after the packet: messages are not counted.
Counted(c, p) ==
    IF p.kind = "data" THEN [expected EXCEPT ![c] = (p.seq + 1) % SeqMod] ELSE expected

-----------------------------------------------------------------------------
(* get_aligned_buffs(): the loop.                                          *)

\* indexes_todo.set() is forgotten when a newer packet takes over.
BugAlignmentCheckKeepsTodo(c, s) ==
    IF ~s.valid \/ s.per[c].time > s.atime
    THEN [s EXCEPT !.valid = TRUE, !.atime = s.per[c].time, !.todo = @ \ {c},
                   !.left = s.per[c].len]
    ELSE IF s.per[c].time = s.atime THEN [s EXCEPT !.todo = @ \ {c}] ELSE s

\* An older packet takes over instead of a newer one.
BugAlignmentCheckToOlder(c, s) ==
    IF ~s.valid \/ s.per[c].time < s.atime
    THEN [s EXCEPT !.valid = TRUE, !.atime = s.per[c].time, !.todo = Chan \ {c},
                   !.left = s.per[c].len]
    ELSE IF s.per[c].time = s.atime THEN [s EXCEPT !.todo = @ \ {c}] ELSE s

\* alignment_check(): a newer packet becomes the one to align with, a packet
\* of the same time is aligned, an older one leaves its channel to be tried
\* again.
AlignmentCheck(c, s) ==
    IF ~s.valid \/ s.per[c].time > s.atime
    THEN [s EXCEPT !.valid = TRUE, !.atime = s.per[c].time, !.todo = Chan \ {c},
                   !.left = s.per[c].len]
    ELSE IF s.per[c].time = s.atime
    THEN [s EXCEPT !.todo = @ \ {c}]
    ELSE s

\* indexes_todo.find_first()
NextTodo(c) == c \in Curr.todo /\ \A d \in Curr.todo : c <= d

WithPacket(c, p) == [Curr EXCEPT !.per[c] = Unpacked(p, Curr.per[c])]

\* The progress is copied to the next slot, not swapped with it.
BugGiveUpCopies(s, md) == [slots EXCEPT ![Next4(idx)] = s, ![idx] = [s EXCEPT !.md = md]]

\* The progress is not saved.
BugGiveUpForgets(s, md) == [slots EXCEPT ![idx] = [Reset(s) EXCEPT !.md = md]]

\* The slots after an early return from the loop: the progress made in s waits
\* in the next slot, which takes its place and gets the metadata of the error.
GiveUp(s, md) == [Swap([slots EXCEPT ![idx] = s], idx) EXCEPT ![idx].md = md]
Error(code) == [slots[Next4(idx)].md EXCEPT !.code = code]

\* IF_DATA, and TIMESTAMP_ERROR, which restarts the alignment first.
Checked(c, p) ==
    LET s == WithPacket(c, p)
    IN AlignmentCheck(c, IF PacketType(c, p) = "TIMESTAMP_ERROR" /\ s.atime # s.per[c].time
                         THEN [s EXCEPT !.valid = FALSE] ELSE s)

\* The iterations are not limited.
BugAlignDataForEver(c) ==
    /\ pc = "align" /\ NextTodo(c)
    /\ \E p \in Arrivals(c) :
         /\ PacketType(c, p) \in {"IF_DATA", "TIMESTAMP_ERROR"}
         /\ net' = [net EXCEPT ![c] = p.after]
         /\ expected' = Counted(c, p)
         /\ slots' = [slots EXCEPT ![idx] = Checked(c, p)]
    /\ iters' = IF iters > Threshold THEN iters ELSE iters + 1
    /\ UNCHANGED <<clock, idx, queue, pc, call, ret, app>>

AlignData(c) ==
    /\ pc = "align" /\ NextTodo(c)
    /\ \E p \in Arrivals(c) :
         /\ PacketType(c, p) \in {"IF_DATA", "TIMESTAMP_ERROR"}
         /\ iters <= Threshold
         /\ net' = [net EXCEPT ![c] = p.after]
         /\ expected' = Counted(c, p)
         /\ slots' = [slots EXCEPT ![idx] = Checked(c, p)]
    /\ iters' = iters + 1
    /\ UNCHANGED <<clock, idx, queue, pc, call, ret, app>>

\* The failure is reported, but the overflow handler is not called.
BugAlignmentFailureLeft(c) ==
    /\ pc = "align" /\ NextTodo(c)
    /\ \E p \in Arrivals(c) :
         /\ PacketType(c, p) \in {"IF_DATA", "TIMESTAMP_ERROR"}
         /\ iters > Threshold
         /\ net' = [net EXCEPT ![c] = p.after]
         /\ expected' = Counted(c, p)
         /\ slots' = GiveUp(Checked(c, p), Error("ALIGNMENT"))
    /\ iters' = iters + 1
    /\ pc' = "copy"
    /\ UNCHANGED <<clock, idx, queue, call, ret, app>>

\* "too many iterations: detect alignment failure"
AlignmentFailure(c) ==
    /\ pc = "align" /\ NextTodo(c)
    /\ \E p \in Arrivals(c) :
         /\ PacketType(c, p) \in {"IF_DATA", "TIMESTAMP_ERROR"}
         /\ iters > Threshold
         /\ HandleOverflow(c, [net EXCEPT ![c] = p.after], Counted(c, p))
         /\ slots' = AfterOverflow(GiveUp(Checked(c, p), Error("ALIGNMENT")))
    /\ iters' = iters + 1
    /\ pc' = "copy"
    /\ UNCHANGED <<clock, idx, queue, call, ret, app>>

MessageMetadata(c, p) ==
    [Error(IF p.kind = "overflow" THEN "OVERFLOW" ELSE "LATE_COMMAND")
       EXCEPT !.has_time_spec = TRUE, !.time_spec = Stamp(p.at)]

InlineMessage(c) ==
    /\ pc = "align" /\ NextTodo(c)
    /\ \E p \in Arrivals(c) :
         LET n == [net EXCEPT ![c] = p.after]
             md == MessageMetadata(c, p)
             S == GiveUp(WithPacket(c, p), md)
         IN /\ PacketType(c, p) = "INLINE_MESSAGE"
            /\ \/ /\ md.code = "OVERFLOW"
                  /\ HandleOverflow(c, n, expected)
                  /\ slots' = [AfterOverflow(S) EXCEPT ![idx].md = md]
               \/ /\ md.code # "OVERFLOW"
                  /\ net' = n
                  /\ slots' = S
                  /\ UNCHANGED expected
    /\ pc' = "copy"
    /\ UNCHANGED <<clock, idx, iters, queue, call, ret, app>>

\* The end of the data of the previous slot is where data is missing.
SequenceMetadata(c) ==
    LET prev == slots[Prev(idx)]
    IN [Error("OVERFLOW") EXCEPT !.has_time_spec = prev.md.has_time_spec,
                                 !.time_spec = prev.md.time_spec + prev.per[c].len,
                                 !.out_of_sequence = TRUE]

SequenceError(c) ==
    /\ pc = "align" /\ NextTodo(c)
    /\ \E p \in Arrivals(c) :
         /\ PacketType(c, p) = "SEQUENCE_ERROR"
         /\ net' = [net EXCEPT ![c] = p.after]
         /\ expected' = Counted(c, p)
         /\ slots' = GiveUp(AlignmentCheck(c, WithPacket(c, p)), SequenceMetadata(c))
    /\ pc' = "copy"
    /\ UNCHANGED <<clock, idx, iters, queue, call, ret, app>>

\* get_buff() returned no buffer.
Timeout(c) ==
    /\ pc = "align" /\ NextTodo(c)
    /\ slots' = GiveUp([Curr EXCEPT !.per[c].buff = FALSE], Error("TIMEOUT"))
    /\ pc' = "copy"
    /\ UNCHANGED <<net, clock, expected, idx, iters, queue, call, ret, app>>

\* Processing the packet threw: it was too short to hold a header, or the flow
\* control callback found no buffer to send its message in.  The packet is not
\* counted, and an overflow message goes unhandled.
BadPacket(c) ==
    /\ Faulty
    /\ pc = "align" /\ NextTodo(c)
    /\ \E p \in Arrivals(c), parsed \in BOOLEAN :
         /\ net' = [net EXCEPT ![c] = p.after]
         /\ slots' = GiveUp(IF parsed THEN WithPacket(c, p)
                            ELSE [Curr EXCEPT !.per[c].buff = TRUE], Error("BAD_PACKET"))
    /\ pc' = "copy"
    /\ UNCHANGED <<clock, expected, idx, iters, queue, call, ret, app>>

\* The loop ends: the metadata is that of channel 0.
Aligned ==
    /\ pc = "align" /\ Curr.todo = {}
    /\ slots' = [slots EXCEPT ![idx].md =
                   [Curr.md EXCEPT !.code = "NONE",
                                   !.has_time_spec = TRUE,
                                   !.time_spec = Curr.per[0].time,
                                   !.more_fragments = FALSE,
                                   !.fragment_offset = 0]]
    /\ pc' = "copy"
    /\ UNCHANGED <<net, clock, expected, idx, iters, queue, call, ret, app>>

-----------------------------------------------------------------------------
(* recv() and recv_one_packet().                                           *)

LossCodes == {"OVERFLOW", "ALIGNMENT", "BAD_PACKET"}

\* recv() returns n samples and metadata md; h is the application's history.
ReturnFromRecv(n, md, from, h) ==
    /\ pc' = "idle"
    /\ ret' = [n |-> n, md |-> md, from |-> from]
    /\ call' = NoCall
    /\ app' = [h EXCEPT !.told = @ \/ md.code \in LossCodes]

\* The application calls recv(), and an error waits from the previous call.
RecvQueuedError ==
    /\ pc = "idle"
    /\ \E md \in queue :
         /\ md.code # "TIMEOUT"
         /\ ReturnFromRecv(0, md, NoReturn.from, app)
    /\ queue' = {}
    /\ UNCHANGED <<net, clock, expected, slots, idx, iters>>

\* The application calls recv(): a queued timeout is forgotten.
RecvCall(want, one) ==
    /\ pc = "idle"
    /\ \A md \in queue : md.code = "TIMEOUT"
    /\ queue' = {}
    /\ pc' = "fetch"
    /\ call' = [NoCall EXCEPT !.want = want, !.one = one]
    /\ ret' = NoReturn
    /\ UNCHANGED <<net, clock, expected, slots, idx, iters, app>>

\* recv_one_packet() finds samples left from the packets it aligned before.
UseFragment ==
    /\ pc = "fetch" /\ Curr.left # 0
    /\ pc' = "copy"
    /\ UNCHANGED <<net, clock, expected, slots, idx, iters, queue, call, ret, app>>

\* recv_one_packet() enters get_aligned_buffs().
NextBuffers ==
    /\ pc = "fetch" /\ Curr.left = 0
    /\ slots' = [slots EXCEPT ![Prev(idx)] = Reset(@)]
    /\ idx' = Next4(idx)
    /\ iters' = 0
    /\ pc' = "align"
    /\ UNCHANGED <<net, clock, expected, queue, call, ret, app>>

\* What recv_one_packet() copies: items of the packet, samples of each output.
ItemsToCopy ==
    LET wanted == (call.want - call.accum) * NumOutputs
    IN IF wanted <= Curr.left THEN wanted ELSE Curr.left
SamplesToCopy == ItemsToCopy \div NumOutputs

\* The metadata handed out, with the time interpolated for a fragment.
FragmentMetadata ==
    [Curr.md EXCEPT !.time_spec = @ + Curr.frag,
                    !.more_fragments = Curr.left # ItemsToCopy,
                    !.fragment_offset = Curr.frag]

\* fragment_offset_in_samps is not advanced.
BugAfterCopySameOffset(s, items, samples) ==
    [s EXCEPT !.left = @ - items,
              !.per = [c \in Chan |-> [s.per[c] EXCEPT
                         !.at = @ + samples, !.buff = @ /\ s.left # items]]]

\* The conversion of all channels, and the update of the slot.
AfterCopy(s, items, samples) ==
    [s EXCEPT !.left = @ - items,
              !.frag = @ + items,
              !.per = [c \in Chan |-> [s.per[c] EXCEPT
                         !.at = @ + samples,
                         !.buff = IF s.left = items THEN FALSE ELSE @]]]

\* The tail of recv_one_packet(), and what recv() makes of its result.
Copy ==
    LET md == FragmentMetadata
        accum == call.accum + SamplesToCopy
        h == IF SamplesToCopy > 0
             THEN [next |-> [c \in Chan |-> Curr.per[c].at + SamplesToCopy], told |-> FALSE]
             ELSE app
        from == IF call.accum = 0 THEN [c \in Chan |-> Curr.per[c].at] ELSE call.from
        now == [call EXCEPT !.accum = accum, !.from = from, !.first = FALSE,
                            !.md = IF call.first THEN md ELSE call.md]
    IN /\ pc = "copy"
       /\ slots' = [slots EXCEPT ![idx] = AfterCopy(@, ItemsToCopy, SamplesToCopy)]
       /\ \/ /\ call.first
             /\ call.one \/ md.code # "NONE"
             /\ ReturnFromRecv(accum, md, from, h)
             /\ UNCHANGED queue
          \/ /\ ~call.first /\ md.code # "NONE"
             /\ queue' = {md}
             /\ ReturnFromRecv(accum, call.md, call.from, h)
          \/ /\ ~(call.first /\ call.one) /\ md.code = "NONE"
             /\ accum >= call.want
             /\ ReturnFromRecv(accum, now.md, from, h)
             /\ UNCHANGED queue
          \/ /\ ~(call.first /\ call.one) /\ md.code = "NONE"
             /\ accum < call.want
             /\ call' = now
             /\ app' = h
             /\ pc' = "fetch"
             /\ UNCHANGED <<queue, ret>>
       /\ UNCHANGED <<net, clock, expected, idx, iters>>

-----------------------------------------------------------------------------
AlignStep(c) ==
    \/ AlignData(c)
    \/ AlignmentFailure(c)
    \/ InlineMessage(c)
    \/ SequenceError(c)
    \/ Timeout(c)
    \/ BadPacket(c)

\* What the thread inside recv() does by itself.
RecvStep ==
    \/ \E c \in Chan : AlignStep(c)
    \/ Aligned
    \/ UseFragment
    \/ NextBuffers
    \/ Copy

Next ==
    \/ RecvStep
    \/ RecvQueuedError
    \/ \E want \in Wants, one \in BOOLEAN : RecvCall(want, one)
    \/ SetDeviceTime

\* get_buff() returns within its timeout, so a call in progress goes on.
Spec == Init /\ [][Next]_vars /\ WF_vars(RecvStep)

-----------------------------------------------------------------------------
(* Properties.                                                             *)

\* While samples of a packet are still to be copied, every channel is aligned:
\* all its packets carry the time stamp given as metadata, and all their frames
\* are still held, whatever errors interrupted the alignment (get_aligned_buffs,
\* alignment_check, the release in converter_thread_task).
BuffersAligned ==
    pc # "align" /\ Curr.left > 0 =>
      /\ Curr.todo = {}
      /\ \A c \in Chan : /\ Curr.per[c].buff
                         /\ Curr.per[c].time = Curr.md.time_spec

\* A channel's frame is held in at most one of the four slots, so swapping and
\* rotating the slots never hoards frames of the transport (get_aligned_buffs).
OneBufferHeld ==
    \A c \in Chan, i, j \in Slots :
      slots[i].per[c].buff /\ slots[j].per[c].buff => i = j

\* The application is never handed samples that do not follow those it was
\* handed before, within a call or across calls, unless a call has returned an
\* error code for lost data in between (recv, get_aligned_buffs).
NoSilentGap ==
    pc = "copy" /\ Curr.left > 0 =>
      app.told \/ \A c \in Chan : Curr.per[c].at = app.next[c]

\* The time of the metadata is that of the first sample of the buffer, on every
\* channel: "Time of the first sample." (recv, recv_one_packet).
TimeSpecTrue ==
    ret.n > 0 => /\ ret.md.code = "NONE" /\ ret.md.has_time_spec
                 /\ \A c \in Chan : Stamp(ret.from[c]) = ret.md.time_spec

\* The alignment throws a packet away only for one that was taken later on
\* another channel (alignment_check and the restart on TIMESTAMP_ERROR).
DiscardsOnlyOlder ==
    [][\A c \in Chan :
         NextTodo(c) /\ pc' = "align" /\ iters' > iters /\ c \in Curr'.todo
           => \E d \in Chan \ Curr'.todo : Curr'.per[c].at < Curr'.per[d].at]_vars

\* Channel c's packet comes before the one it was handed out of last, as the device
\* time was set back between the two.
ComesBeforeLast(c, packet) ==
    /\ packet.at >= clock.at /\ clock.at >= app.next[c]
    /\ app.next[c] >= Len /\ packet.time < app.next[c] - Len

\* When the device time is set back, a packet that comes before its channel's previous
\* one is not thrown away for others from before the time was set: "we reset the info
\* to restart from scratch" (get_aligned_buffs).  It fails after an error was returned
\* in between: the slot compared with is the error's (see README.md).
OldTimeAbandoned ==
    [][\A c \in Chan :
         NextTodo(c) /\ pc' = "align" /\ iters' > iters /\ ComesBeforeLast(c, Curr'.per[c])
           => \/ c \notin Curr'.todo
              \/ \E d \in Chan \ Curr'.todo : Curr'.per[d].at >= clock.at]_vars

\* A call to recv() returns, even if packets never stop coming and must all be thrown
\* out: see EndlessSpec of MCRecvPacketHandler (the count of iterations in
\* get_aligned_buffs, the loop of recv).
RecvReturns == pc # "idle" ~> pc = "idle"

=============================================================================
