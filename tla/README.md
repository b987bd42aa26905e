# UHD in TLA+

Specifications of the parts of UHD (the USRP hardware driver) whose
correctness depends on order, concurrency, loss and failure: the packet
handlers of the streaming path, the threads and queues they are built on, flow
control, and the control path to the radios. The modules are read beside the
sources under `src/`; every definition that models code names its lines in
`PROJECT.json` ("map").

## 1. Inventory

UHD is a library (`src/host`) that an application links to stream samples to
and from radios, with firmware (`src/firmware`) and FPGA code (`src/fpga`) at
the other end of a network, USB or PCIe link.

| Component | State it keeps | Operations | Hard behaviour | What makes it correct |
|---|---|---|---|---|
| Receive packet handler, `super_recv_packet_handler.hpp` | per channel: expected sequence number; a ring of four slots with one frame per channel; an error queued for the next call | `recv`: get packets, align channels by time, copy fragments, report errors | lost, late, repeated packets on any channel; inline messages; errors in the middle of an alignment; overflow handlers that call back into the handler; device time set back | no silent gap; channels aligned; true time stamps; frames neither leaked nor hoarded; `recv` returns |
| Converter threads, `reusable_barrier` (`atomic.hpp`), `task` (`tasks.cpp`) | two counters, a flag, a mutex | `wait`, `wait_others`, `interrupt`; task loop, destructor | every thread waits for every other twice per packet; reuse of the barrier; shutdown in any state | each channel converts each job once; no lapping; no deadlock; shutdown ends |
| Send packet handler, `super_send_packet_handler.hpp` | next sequence number; a frame per channel; a cached start of burst | `send`: fragment, number, get frames, commit | a channel times out after others have their frame; burst flags over several calls | the same packet on all channels; contiguous numbers; burst flags once |
| Transmit flow control of the X300, `x300_io_impl.cpp`, `tx_responder.v` | sequence out, sequence acknowledged, a queue of acknowledgements | get a frame or wait; receive an acknowledgement | acknowledgements lost, dropped from a full queue, wrapped numbers | no more packets in flight than the window; no stall |
| Transmit flow control of the USRP2, `usrp2/io_impl.cpp`, `vita_tx_deframer.v`, `trigger_context_pkt.v` | two 32-bit numbers under a mutex; the radio's number and counts | check or wait; update; clear for a new streamer | reports about the streamer before; loss of packets and reports | as above, over the change of streamers |
| Receive flow control, `x300_io_impl.cpp`, `source_flow_control.v` | 32-bit sequence recovered from 12 bits; window in the FPGA | acknowledge every n-th packet; hold back or let go | loss of the packet or of the acknowledgement; reordering | no overrun of the host's buffer; no stall |
| Bounded buffer, `bounded_buffer.ipp` | a ring, two condition variables | push and pop with haste, wait, timed wait, pop on full | notify outside the lock; a wait after a failed attempt | a FIFO; no lost wake-up |
| Radio control core, `radio_ctrl_core_3000.cpp` | outstanding sequence numbers; response queue | peek, poke, wait for acknowledgement | a timeout leaves its response to be read later; responses dropped or stranded in the dump queue | a peek returns the value it asked for; a failed request does not poison later ones |
| Control FIFOs, `fifo_ctrl_excelsior.cpp`, `usrp2_fifo_ctrl.cpp`, `settings_fifo_ctrl.v` | two 16-bit numbers, a cached SPI control word, a queue of answers; two queues in the radio | peek, poke, SPI transaction | late answers, wrapped numbers, a time-out in the middle of a transaction | room for all answers on both sides; true peeks; the right slave |
| Receive demultiplexers, `recv_packet_demuxer*.{cpp,hpp}` | a queue per stream | get a frame for one stream | frames parked for other streams | order per stream; frames returned |
| Zero-copy transports, `udp_zero_copy.cpp`, `libusb1_zero_copy.cpp`, ... | rings of frames, claimers | get and release frames | callbacks of libusb, frames claimed by two threads | a frame has one owner; order kept |
| Firmware control, `x300_fw_ctrl.cpp`, `usrp2_iface.cpp`, their firmware | a sequence number under a mutex | peek, poke, retry | late replies, retries of what was done, several threads | a reply belongs to its request; calls end |
| Device claims, `x300_impl.cpp`, `x300_main.c` | claim time and owner in the firmware | test, claim, renew, give up, time out | two processes, crashes between two pokes | a claim in use is held, an abandoned one ends |
| Property tree, gain groups, `multi_usrp` | values with coercers, subscribers | set, get, update | callbacks that set other properties | published value is the coerced one |
| `soft_time_ctrl.cpp` (USRP1) | stream mode, samples left, a queue of two commands, a mutex | stream commands at a time, counting a burst's samples, late commands | a task that sleeps, waits for space under a mutex, packets after the stop | bursts have their length and end; `recv` returns |
| FPGA engines `new_tx_control.v`, `new_rx_control.v`, framers | state machines | bursts, late commands, errors | error in the middle of a burst | one error per burst, then recovery |
| NI-RIO, converters, types, daughterboards, other firmware | - | - | vendor driver; arithmetic; chip set-up | not modelled, see section 7 |

How they interact: the application calls `recv`/`send` of a streamer (one
thread per streamer). The handler calls down, synchronously, into `get_buff`
of a transport, flow control callbacks and, on receive, the device's overflow
handler, which may stop and restart the radios and flush the handler itself.
Converter threads share the handler's slots under the barrier. Asynchronous
messages and acknowledgements arrive in task threads that hand them on through
bounded buffers. Radios, network and the application are the environment.

## 2. Modules

| Module | Models | Implements | Proofs |
|---|---|---|---|
| `RecvPacketHandler` | `recv_packet_handler` with the radios, the network and the overflow handlers as its environment | | `RecvPacketHandler_proofs` |
| `ConverterTasks` | `converter_thread_task`, `reusable_barrier`, `task_impl` | `ForkJoin` | `ConverterTasks_proofs` |
| `SendPacketHandler` | `send_packet_handler` with the application as its environment | `BurstStream` | `SendPacketHandler_proofs` |
| `TxFlowControl` | transmit flow control of the X300, host and radio | `CreditWindow` | `TxFlowControl_proofs` |
| `RxFlowControl` | receive flow control of the X300, host and radio | `CreditWindow` | `RxFlowControl_proofs` |
| `FlowControlMonitor` | transmit flow control of the USRP2, host and radio | | `TxFlowControl_proofs` |
| `RadioCtrlCore` | `radio_ctrl_core_3000`, the task of the B200 that feeds it, `msg_task` | | `ControlPath_proofs` |
| `BoundedBuffer` | `bounded_buffer` | `BoundedFifo` | `BoundedBuffer_proofs` |
| `PacketDemuxer` | `recv_packet_demuxer_3000` over the receive ring of libusb | | `PacketDemuxer_proofs` |
| `FifoCtrl` | `fifo_ctrl_excelsior` and `settings_fifo_ctrl.v` | | `ControlPath_proofs` |
| `SoftTimeCtrl` | `soft_time_ctrl` and `recv` of the USRP1 | | `ControlPath_proofs` |
| `FirmwareControl` | register access through the firmware of X300 and USRP2 | | `ControlPath_proofs` |
| `DeviceClaim` | claims of an X300 by processes, and the firmware's clock | | `ControlPath_proofs` |

`ForkJoin`, `BurstStream`, `CreditWindow` and `BoundedFifo` are the abstract
specifications; each detailed module instantiates its own WITH a mapping.
The modules called `MC...` hold the definitions that a configuration needs beyond
plain values.

Two of them put several specifications into one run. `MCTxFlow` has transmit flow
control of both generations, `MCControlPath` the ways to give orders to a device:
`RadioCtrlCore`, `FifoCtrl`, `FirmwareControl` (of the X300 and of the USRP2),
`SoftTimeCtrl` and `DeviceClaim`. The initial state chooses one of them
(`generation`, `path`), whose steps are then the run's; the others stay in their
initial state, where their properties hold. Their constants are declared there and
valued in the cfg, so what is proved of a run's specification is proved for all of
their values. Nothing is composed: no two of these
ways are used for the same register of a device.

### RecvPacketHandler

State. `slots` and `idx` are `_buffers_infos` and its index; a slot holds the
channels still to align (`todo`), the alignment time and its validity, what is
left to copy, the offset of the fragment, the metadata and, per channel, what
was last unpacked. `expected[c]` is the packet count of a channel, `queue` the
error kept for the next call, `iters` the local of the alignment loop. `pc` and
`call` stand for the control point and the locals of `recv`: `fetch` is the
start of `recv_one_packet`, `align` the loop of `get_aligned_buffs`, `copy` the
rest of `recv_one_packet` and the loop in `recv`. `ret` is what the last call
returned. `app` is a history variable: the instant of the next sample each
channel should be handed, and whether a call has reported a loss since the last
samples.

Environment. `net[c]` is what the radio of channel `c` sends next. `Arrivals(c)`
are the packets `get_buff` may return: data after the loss of up to `MaxLost`
packets, an earlier packet up to `MaxLate` back, an inline message. `Timeout`
may always happen, `BadPacket` stands for an exception while a packet is
processed. A packet's payload is the instant of its first sample (`at`), its
stamp is `Stamp(at)`: the two differ after `SetDeviceTime`. `Recovery` selects
the overflow handler of the device: `restart` (USRP2, B100, E100: only the
channel's radio, which goes on without a gap if it is running, as when the handler is
called after an alignment failure), `drain` (B200), `flush` (X300, through `_flush_all`).

Abstraction. The handler is single-threaded between barriers, so one iteration
of the alignment loop is one action: it includes the call to
`get_and_process_single_packet`, the switch, the overflow handler and the
threshold test. Time is in samples and rates are 1; burst flags, the flow
control call (its exception is kept) and the conversion itself are left out. A
data packet has `Len` samples per output, a message one word.

### ConverterTasks and ForkJoin

One action per access to a variable that threads share: increments and
compare-and-swaps of the two counters, the mutex, the test under it, the sleep,
the spin, the test of `wait_others`, the interruption and the join of each task
in turn. The conversion lasts as long as its thread is at `convert`, so
`CallerAlone` is freedom from data races on the shared arguments. An interrupted
worker throws at once or goes on until the barrier is marked done (`MayThrow`):
both kinds of build of boost's interruption points are covered. The refinement
is the identity on `job` and `work`.

### SendPacketHandler and BurstStream

State. `seq` is `_next_packet_seq`, `buff` the channels whose `_props[].buff`
holds a frame, `cache` the cached metadata (empty or one), `call` the arguments
and locals of the `send` in progress, at fragment `i` of its buffer. `wire` is
the last packet committed; all channels commit the same one, since a packet is
committed only when every channel has a frame. `got` counts the frames each
channel's `get_buff` has handed out, which is what flow control counts.

Environment. The application (`app`) streams samples 0, 1, 2, ..., sample `k`
meant for the instant `k + Lead`. It sends buffers of any size in `Wants`, with
or without a time, starts and ends bursts with samples or with empty sends
(`Starts`, `Ends`), and goes on where the value returned says. `Careful` and
`MayTimeOut` are assumptions on it that the promise needs, because the code does
not keep it otherwise: after an empty start it sends at most one packet, without
end of burst, and waits for it; an empty send, whose return value is 0 in any
case, does not time out. Section 4 says what happens without them.

`BurstStream` knows only the last packet: numbers go up by one, samples are
contiguous, the first packet of a burst and no other is marked as its start, and
a packet with a time carries that of its first sample. The refinement is the
identity on `wire`.

Abstraction. Conversion and packing are not modelled; a padded empty packet
carries no samples. The converter threads of the send handler are those of
`ConverterTasks`.

### TxFlowControl

State. `out`, `ack`, `queue` are `last_seq_out`, `last_seq_ack` and `seq_queue`;
`held` is the frame between `get_buff` and its commit. `down` holds the numbers
of the packets between the host's commit and the radio's consumption, `count` is
`packet_count` of the trigger, `acks` is `ack_queue` with the network behind it.
Numbers are whole in the model and reduced modulo `SeqMod` where the code has 12
bits; `heard` is a history variable, the whole number behind `ack`.

Actions. `Grant` and `PopAck` are the two ends of the loop in
`get_tx_buff_with_flowctrl` (a time-out changes nothing), `HandleAsync` is the
task. In the radio a packet is consumed plainly, in error, or as the end of a
burst; what the responder says of it goes to `ack_queue`, or is lost when that is
full. The packet number in an answer is the number of the frame because
`SendPacketHandler` hands out and commits frames one for one (`CountsAgree`).

The refinement of `CreditWindow` maps `sent` to the packets handed out and
`gone` to those no longer in flight. Its room is one packet more than the
radio's buffer, see section 4. It is proved, and in no run: `WindowRespected` is what
the run checks of it.

### RxFlowControl

State. `current` and `last` are the two numbers of the gate in
`source_flow_control.v`, `go` whether it is open for a packet, `data` the number
of the framer. `wire` holds packets between the gate and the host's callback,
`seq32` is `seq32_state`, `acks` the answers on their way back. An inline message
passes the gate as a packet (`PassMessage`), but bears the number of the next
data packet; `handle_rx_flowctrl` is called for both.

Actions. `Open` is the test for equality, `PassData` and `PassMessage` the end of
a packet, `HearAnswer` a write of the consumed number. The host's callback
returns at once (`ReceiveUnanswered`), answers (`ReceiveAnswered`), or finds no
send buffer and throws (`ReceiveNoBuffer`). Packets and answers may be lost.
`InTurn` is an assumption on the network: a packet that is answered is delivered
in its turn, and less than 4096 packets are lost on end.

### FlowControlMonitor

State. `out` and `ack` are the two numbers of the monitor, `held` the number
written into the frame that the streamer holds. `down` are the numbers on their
way to the deframer, in order; `seqnum`, `ahead` and `count` are the radio's:
the number of the last frame read, the packets read and not consumed, the count
of the trigger. `ups` are the reports on their way, with the streamer each is
about as a history. `pc` and `made` are the place in `get_tx_stream()` and the
number of streamers so far.

Actions. `GetSendBuff` is the check and the number that follows it (one thread
per channel does both); a time-out changes nothing. `Deliver` is the pirate
loop. `ClearMonitor` and `ClearRadio` are the two steps of a new streamer; the
flush of the radio, 10 ms long, is one step, since nothing passes during it.
`Deframe`, `Consume` and `CycleUpdate` are the radio's; a trigger that finds the
generator busy is lost (`Reported`). The network between USRP2 and host keeps
the order, as both are on one segment.

### RadioCtrlCore

State. `seqOut` and `outstanding` are `_seq_out` and `_outstanding_seqs`, `op`
and `toAck` the call in `wait_for_ack` and the number it waits for. `direct`
tells the two ways of the answers: a transport of the core's own (X300), or the
task (B200) that pushes them to `respQueue`, or, when the weak pointer to the
core has expired, to `dumpQueue`. `task` is the message the task has in hand, and
whether it has the core locked: if so, it may be the last to let go of it, and
the destructor runs in the task (`inTask`).

Actions. `Poke` and `Peek` send and do the first turn of the loop; `Ack`,
`Mismatch` and `Timeout` are the ends of one wait. A time-out happens when
nothing can come any more, or, at most `MaxLate` times, earlier. `Release` and
`DestructorPeek` are the shutdown. A payload is the number of the command that it
answers, so that `PeekTrue` is about values.

### BoundedBuffer and BoundedFifo

One action per stretch of code under the mutex, and one for each notification
outside it. A thread is asleep, woken (it must have the mutex back, and looks
again), or late (its time has run out; it looks a last time). Wake-ups without a
notification may happen at any moment. The mapping is the identity on the queue;
a thread's phase is "called" until its transfer or refusal.

### PacketDemuxer

State. `enqueued`, `ready` and `content` are the ring of libusb: the frames
submitted, how many of them are complete, and what is in each. `queues` are the
demultiplexer's, `buff` the frame a reader has from the transport and has not
sorted, `held` the frame it has been given for a stream. `recvMutex` is the
mutex of the transport, which `recv_packet_demuxer_3000` does not hold while it
looks at its queues.

Actions. The steps of `_internal_get_recv_buff` (`TakeParked`, `CheckInVain`,
`LockTransport`, `TakeFrame` or `TimeOut`, `SortOwn`, `SortOther`, `SortStray`),
`Release` of a streamer's frames, `realloc_sid` for a streamer made anew, and the
device and libusb. The initial states choose whether one thread reads both
streams or one each.

### FifoCtrl

State. `plan` is what the call in progress has still to send, with the command it
waits for at its head; `sent` and `seqAck` are `_seq_out` (whole) and `_seq_ack`,
`cache` the slave in `_ctrl_word_cache`, `ctrlFifo` the queue the task fills. In
the radio, `commands` and `results` are the two short FIFOs and `chosen` the slave
of the SPI core. A command, and its answer, is known by its whole number, so that
`misled` can tell a peek that returned another answer.

Actions. `SendPkt` and the two ends of `wait_for_ack` (`Answered`, when the answer
has come before, and `PopAnswer`), `TimeOut`, which throws and drops the rest of
the plan, `HandleMsg` of the task, and the three state machines of the radio. A call
times out when no answer can come any more, and at most `MaxEarly` times before
(`early`).

### SoftTimeCtrl

State. `mode` and `remaining` are `_stream_mode` and `_nsamps_remaining` (of
`SizeMod` values), `queue` and `inline` the two queues. `task` and `recv` are the
places of the two threads; `mutex` says who waits with `_update_mutex` held, as all
other stretches under it are one step. `left` are packets that come after the
stream has been switched off. `asked`, `given` and `over` are the history of the
burst; `open` counts the commands whose end the application waits for.

Actions. `TaskHandle`, `TaskLate`, `TaskSleep` and `TaskWake` are
`recv_cmd_handle_cmd`, `RecvMessage`, `RecvSamples` and `RecvTimeout` the first part
of `recv`, the `Post` actions `recv_post`. Whether a timed command is late is a
choice. `Outstanding` and `Prompt` are assumptions on application and scheduler;
`control_path` makes neither.

### FirmwareControl

One register, threads that peek and poke it, a cable that keeps the order of
datagrams and may lose or delay them. `Attempt` is one try up to its wait; it ends
by `Return`, `WrongReply` (X300: the assertions fail) or `NoReply`; `Skip` is the
USRP2's way with a wrong reply. `NoReply` is a time-out, as in `FifoCtrl`. `Holder` is the mutex between attempts: given up by
the X300's code, kept by the USRP2's. `during` are the values of the register since
a call began, `done` the calls that have returned.

### DeviceClaim

The three words of the firmware (`claimTime`, `claimSrc`, `claimed`), its count, and
per process a claimer thread and a test of the claim, each poke and peek a step.
`Tick` is the millisecond in which the firmware looks at the claim; a claimer is at
most `Slack` ticks late. All clocks agree. `quiet` and `idle` are histories: ticks
without another process's write, and ticks without a claimer. A process holds its claim
from `Settled` ticks on, two periods of its claimer: its first write may fall into the
second of another process's last, and is then no news to the firmware, whose count may
run out before the next write. For the next ones to be in time, a second and two delays
must not exceed the time-out (`ConstantsAssumption`; they are 1 s and 2 s).

## 3. Runs

| Run | Question | Bounds |
|---|---|---|
| `rx_restart` | two channels, reordering and repetition, radios restart apart, also off the packet grid | 6 samples, threshold 2 so alignment failures occur |
| `rx_flush` | two channels, X300 recovery, fragments of one and three samples, exceptions while a packet is processed | 8 samples, threshold 20 (no alignment failure) |
| `rx_returns` | `recv` returns though packets never stop coming, and samples go on after disturbances; radios start together or half a packet apart, B200 recovery, device time set back any number of times | endless streams, threshold 2, 1 loss in a row, numbers modulo 3 |
| `tasks_four` | barrier and tasks, all interleavings, with the destructor | 4 threads, 3 calls |
| `tx_bursts` | the promised stream, frames counted, the application's view of its burst | 2 channels, buffers of 1, 2 and 5 samples, packets of 2, 6 packets |
| `tx_flow` | window and progress of transmit flow control, of either generation | X300: window 6, answers every 2, numbers modulo 8, `ack_queue` of 8, 12 packets, 1 loss; USRP2: window 3, numbers modulo 14, 2 streamers of 15 frames, 2 reports under way, 1 loss |
| `rx_flow` | recovered numbers, window and progress of receive flow control | window 9, answers every 3, numbers modulo 8, 2 inline messages, 14 packets, 1 loss |
| `control_path` | true peeks, reported losses, no late writes, room for answers, the count of a burst, claims held and abandoned, shutdown | core: 7 commands, 3 unanswered, numbers modulo 4, 2 losses, 2 late answers; control FIFO: 9 commands, 1 unanswered, numbers modulo 8, 2 slaves, 1 loss, 1 early time-out; firmware: 2 threads, 2 calls, 2 or 3 attempts, 1 loss, 2 early time-outs; USRP1: 3 commands, bursts of 3 in packets of 2; claims: 2 processes, seconds of 2 ticks, time-out after 4, 8 ticks, 2 openings |
| `bounded_buffer` | FIFO, wake-ups, progress | 3 threads with all seven operations between them, capacity 2, 2 elements |
| `demux` | frames, order, progress | 3 frames, 2 streams of 3 packets, skew 1, 1 stray packet, 1 streamer made anew |
| `rx_flush_erases_alignment_error` | a disagreement, section 4 | 12 samples, threshold 2 |
| `soft_time_stuck` | a disagreement | 4 commands, 2 bursts outstanding |

On receive, sequence numbers run modulo 4, so they wrap within a run; the runs
assume that fewer packets are lost in a row than there are numbers
(`LossIsVisible`), as neither the code nor any receiver could tell otherwise.
Packets of two samples against buffers of one, two and three samples give
fragments, whole packets, and calls that span packets. Two channels are enough
for the alignment to restart, to be interrupted between channels, and to resume
in another slot; the proofs are for any number. The bounds `Horizon`, `MaxLost`,
`MaxLate`, `MaxDrain` only limit the environment. Four threads include a caller,
the last to arrive, and two workers of which one can lap the other.

`rx_returns` asks what never ends, so its radios must not run dry: if they did, every
loop would end in a time-out. `EndlessSpec` of `MCRecvPacketHandler` takes the steps of
`Spec`, and as soon as all radios have gone on it moves instants and stamps back, and
begins the numbers anew (`MoveBack`); the code looks only at differences between them.
What is cut off at 0 is older than every stamp to come. `Horizon` is not reached: the
channels stay within a few packets of each other, as their instants after moving back
stay below 20. `RecvReturns` then depends on the count of iterations, since radios half
a packet apart never align, and `SamplesGoOn` on the handler that is called when an
alignment fails, which starts them together. `SamplesGoOn` is about a device whose
handler restarts all radios; one that restarts single radios leaves them apart, and
`recv` reports ERROR_CODE_ALIGNMENT again and again. The run has losses, time-outs and
times set back; with `Messages = {"overflow"}` it has 830,000 states, takes three
minutes and passes too.

Buffers of 1, 2 and 5 samples against packets of 2 are the send handler's cases
of a short packet, a full one and several with a short last one; two channels
let one time out when the other has its frame; six packets are several bursts.

In the runs of flow control the numbers wrap within the run, at different
moments on the two sides, and the window is not a multiple of what wraps.
`NoStall` of `TxFlowControl` needs the answers of a window to outnumber the
losses: with one loss the run has three answers to a window, the X300 eight. It
also needs `ack_queue` to take the errors between two answers; the hazard at
`tx_responder.v:41` says when the real one does not. `NoStall` of `RxFlowControl`
needs a window larger than the inline messages and the answers lost: each message
uses up a packet of it for good. In the USRP2's part of `tx_flow` the second streamer hears
reports about the first: those that come between the two steps of its set-up, of which
the last counts, and two more that are under way after it. One that is near enough
opens its window, and `WindowKept` allows a window more per report. Numbers are assumed to tell that many
frames apart (`Window * (MaxUps + 2) + 1 < SeqMod`, of 2^32 in the code).

The core of `control_path` has more commands than numbers and than may be unanswered, a lost or
late answer in the middle, and a destructor that may run in the task. Three
threads on a buffer of two are enough for one to be woken for what another takes
first. With three frames and a skew of one, both streams can be parked at once;
the run would stall with fewer frames (`RoomForSkew` in `MCPacketDemuxer`, which
the default of 16 frames meets).

Of the other parts of `control_path`: the radio's queues are one longer than the
window of `FifoCtrl`, as 16 is than 15, so that one command too many would be seen;
`MaxSilent` keeps the commands since the last answer below half of the numbers, which
in the code are 32768. A burst of three in packets of two ends in the middle of a
packet, and packets that come after its stop make the count run below zero. Two
attempts of the X300's calls are enough for a wrong reply to fail one attempt and the
call (the code makes three, as the USRP2's part does), and two early time-outs for a
reply to come in the attempt after the next. Eight ticks are a claim, its time-out and
another process's claim after it; the count of the firmware may have begun at any of
its renewals.

`CHECK_DEADLOCK FALSE` is set where a bound on packets, commands or ticks ends the run
(`tx_bursts`, `tx_flow`, `rx_flow`, `control_path`, in which also a core that is closed
does nothing any more), and where the threads really block each other
(`soft_time_stuck`); in the other runs something can always happen.

## 4. Disagreements between the code and its documentation

With a run each:
- `rx_flush_erases_alignment_error`. The X300 overflow handler resets the slot that
  holds ERROR_CODE_ALIGNMENT; the error is never reported and the next samples carry
  no time (`super_recv_packet_handler.hpp:593`).
- `soft_time_stuck`. `recv` waits for space in the command queue with the mutex held
  that the task needs to make space (`soft_time_ctrl.cpp:112`).

Seen while modelling, without a run of their own; where an instance of a module
shows it, the instance is named.

Receive packet handler (`super_recv_packet_handler.hpp`):
- With two outputs per transport channel, fragment times and offsets are counted
  in items (line 657 against `metadata.hpp:54`). `TimeSpecTrue` fails for
  `NumChan = 1`, `NumOutputs = 2`, `Wants = {1}`.
- Two channels lose the same packet: the second error is dated at the next
  successful receive (line 575 against `metadata.hpp:107`).
- `more_fragments` is false for a buffer that spans packets and ends inside one
  (line 249 against `metadata.hpp:59`).
- A device time that is set back is noticed by comparing a packet with its channel's
  packet in the previous slot (line 429). When an error has been returned in between,
  that slot is the blank one of the error. One channel's packet from before is then
  kept as what to align with, and the other's packets are thrown away until the device
  time catches up with it, or the alignment fails; the comment at line 543 says that
  the alignment starts from scratch. `OldTimeAbandoned` fails for `NumChan = 2`,
  `Recovery = "drain"`, `Messages = {"overflow"}`, `Threshold = 4`, `MaxLost = 0`,
  `SetBack = 8`, `Horizon = 24`. Where the restart at line 547 does notice, channels
  that share a clock come to the same times without it, so no checked property depends
  on it.

Send packet handler (`super_send_packet_handler.hpp`):
- The metadata cached from an empty start overwrites the next send's end of burst:
  a burst of one packet, or an empty end right after an empty start, never ends
  (lines 202 and 210 against `metadata.hpp:155`). `EndsAgree` fails for
  `Careful = FALSE`, `Starts = {"empty"}`, `Ends = {"samples"}`.
- The cached start is dropped before the packet has a frame: after a time-out the
  retry has neither start nor time (line 211 against the comment at 198).
  `ImplementsBurstStream` fails for `Careful = FALSE`, `Starts = Ends = {"empty"}`.
- After an empty start with a time, the second and later fragments of the next
  send are dated from zero (line 263 against `metadata.hpp:149`).
- An empty send returns 0 whether its packet went out or timed out (line 232).

Flow control:
- Before the first answer a window plus one packets are let go
  (`x300_io_impl.cpp:321`, see `WindowRespected` of `TxFlowControl`).
- A transmit window of 4096 packets or more (frames of less than 145 bytes, or a
  large `send_buff_size`) is no window at all (line 250 of the same file).
- The receive gate counts inline messages, the comment at
  `source_flow_control.v:91` says only data packets; and with a window of one
  packet it never opens again, as the answer to packet 0 is given in advance.
- USRP2 with `ups_per_sec=0`: a streamer whose last report heard is about the
  streamer before waits for ever. `NoStall` of `FlowControlMonitor` fails for
  `CyclesPerUp = FALSE`. The same happens when the old streamer is dropped after
  the new one is made while it holds a frame (one channel timed out, another had
  its frame): the destructor sends the frame, and the radio repeats its old
  number.

USRP1 and control:
- The stop of a complete burst waits behind a timed command of the application, and
  `recv` goes on handing out samples (`soft_time_ctrl.cpp:111`, against
  `stream_cmd.hpp:37`). `Exact` fails for `Outstanding = 2`, also with `Prompt`.
- A time-out between SPI control word and data word leaves the cache as it was, and
  the next transaction goes to the slave of the one that failed
  (`fifo_ctrl_excelsior.cpp:184`, `usrp2_fifo_ctrl.cpp:129`). `RightSlave` fails for
  `MaxEarly = 1`.
- The lock at `x300_impl.cpp:1496`, and that of `is_claimed`, declares a variable of
  the mutex's name and locks nothing: claims and checks are not serialized, as the
  header says (`x300_impl.hpp:155`).

Others:
- Two threads that receive from two streamers of a B200 may get packets of one
  stream out of order, since the queues are looked at before the transport is
  locked (`recv_packet_demuxer_3000.hpp:80`, against `docs/general.dox:159`, which
  allows a thread per streamer). `InOrder` fails without `Serialised`.
- Two processes can both find an X300 unclaimed and both open it: nothing ties the test
  to the claim (`x300_impl.cpp:99` and 499).
- A control FIFO that has taken no answer for 32768 commands returns 0 to a peek at once
  (`fifo_ctrl_excelsior.cpp:257`).
- The SPI and I2C transactions of the USRP2 are done twice when their reply is lost
  (`usrp2_iface.cpp:267`).

## 5. Fairness

`RecvPacketHandler`: weak fairness of what the thread does inside `recv`;
`get_buff` returns within its timeout, so a call in progress always has a next
step. The application need not call, except in `EndlessSpec`, for `SamplesGoOn`: an
application that goes on receiving gets samples if, from some time on, nothing is lost
or late and the time is left alone, which is a hypothesis of the property and not a
fairness of the network. `ConverterTasks`: weak fairness of each
thread, and strong fairness of taking the mutex: a thread that polls holds it
for a few instructions and then sleeps a millisecond, so it is free again and
again and no thread is kept out for ever. `SendPacketHandler`: none, its
properties are safety. `TxFlowControl`: weak fairness of committing a frame, of
the wait for an answer, of the task that polls, and of the radio, which plays or
discards what it has; the network may drop what its bound allows.
`RxFlowControl`: weak fairness of the gate, of the radio that streams, of answers
under way and of an application that goes on receiving. `FlowControlMonitor`:
weak fairness of committing, of the set-up, of the pirate thread, of the radio
and its clock. `RadioCtrlCore`: weak fairness of the call in progress, which has
a time-out, of the destructor, of the task and of the radio. `BoundedBuffer`:
weak fairness of every thread inside a call, and strong fairness of running out
of time, since a timed wait has an absolute deadline: being woken in vain does
not start it anew. `PacketDemuxer`: weak fairness of the device, of libusb and of
every reader, and strong fairness of taking the transport's mutex, which whoever
leaves it does not ask for again before it has sorted a packet. `SoftTimeCtrl`, in `soft_time_stuck` only: strong fairness of everything that takes `_update_mutex`, and of the
application's calls of `recv`, which get samples now and then. `FifoCtrl`,
`FirmwareControl` and `DeviceClaim`: none, their properties are safety; that a claim
expires is stated in ticks.

The fairness of `FlowControlMonitor` is written out in `MCTxFlow`, over its own
variables, as that of `TxFlowControl` is over its: only the specification that the
initial state chose has steps enabled to be fair about, but for the USRP2's clock,
which is always enabled and so is asked to run in its own generation only.

## 6. Proofs

Every safety property that a run checks is a theorem, for every value of the
constants; `PROJECT.json` lists them. A theorem assumes the `ConstantsAssumption`s of
its modules and what is said below, and holds for all values of the bounds.

### Receive packet handler

`RecvPacketHandler_proofs` proves, for every number of channels, threshold,
packet length, set of requests and overflow handler, `TypeOK`, `BuffersAligned`
and `OneBufferHeld`, from `ConstantsAssumption` only, and `NoSilentGap`,
`TimeSpecTrue` and `DiscardsOnlyOlder` under the conditions below.

`BuffersAligned` is not inductive: it says nothing of a slot while it is being
aligned or saved. The invariant `IInv` says of every slot that each channel no
longer in `todo` holds its frame and is stamped with the alignment time
(`SlotOK`), and where in the ring frames may be held: while aligning only in the
current slot (`AligningOK`), otherwise in the current slot and in the next one,
never for both in the same channel (`HoldingOK`). It is preserved by the swap
because the slot swapped in is blank, and by the rotation because the slot left
behind has been copied to the end. There is one lemma per operation on slots
(reset, unpack, alignment check, giving up, copying, what an overflow handler
leaves) and one step per action.

The other three are about instants. `SlotsInv` says that each slot is fresh, being
formed (the channels aligned carry packets of one instant) or whole (offsets, instants
and what is left agree). `GapInv` ties together, as long as no loss is told, what the
application was handed, what the slots hold, the number each channel expects and where
its radio goes on (`Kept`, `Follows`, `Awaits`): if a channel's number matches, its
instant does, since a packet with the right number is the right one, or one that
is a whole turn of the numbers away (`LossVisible`). `TimeInv` is about the metadata of
the call and of the current slot. Their hypotheses, none of which can be dropped:

- `SetBack = 0`: set back, the clock gives old stamps to new samples.
- `LossVisible` (`NoSilentGap`): a late packet and the losses before the next one
  together reach less far than the numbers.
- `[]AlignmentLasts` (`NoSilentGap`): no alignment fails, unless the device restarts
  single radios and no exception occurs. With the B200's handler (`drain`) an alignment
  may fail on the very packet that completes it: the error is returned, the set is
  handed out by the next call, and the gap of the restart after it is silent if nothing
  was in flight (`NumChan = 2`, `Threshold = 2`, radios at 0 and 4). With the X300's the
  slot that says so is flushed (section 4). With single radios an exception may swallow
  the overflow message, and a later failure of an alignment restart the stopped radio
  without another word.
- `[]ErrorsLast` (`TimeSpecTrue`): no alignment fails on a device that flushes its
  slots (section 4).
- `NumOutputs = 1` (`TimeSpecTrue`): interleaved, the offset counts items (section 4).

### Converter threads

`ConverterTasks_proofs` proves types, `CallerAlone`, `NoLapping` and the refinement of
`ForkJoin` for any number of threads. In every state the threads are in one of a few
constellations: while the barrier gathers (`Gathering`), all workers are with the
application's thread at its last job (`AllCaught`), all before the next one
(`AllBehind`), or each of them is done with it or about to convert (`AllBusy`); while
it lets them out (`Exiting`), every thread is in it or past it with the same job.
The counters count them: `exit` those that are not yet out, `entry` those inside and,
after the destructor's interruption, perhaps those that were thrown out.

### Send packet handler

`SendPacketHandler_proofs` proves `TypeOK` and `CountsAgree` for any application,
and, for a `Disciplined` one (`Careful`, and no time-out of empty sends; the
assumptions of `tx_bursts`), `ImplementsBurstStream` and `EndsAgree`, for every
number of channels, packet size, set of buffers and times. A packet is right only
if the locals of the call are: `StreamInv` says that between calls wire and
application agree (`IdleInv`) and the cache holds the declared start of burst
with the time of the next sample (`CacheInv`), and during a call that the
fragments sent cover `i` full packets (`PositionInv`), that the packet info is
that of the next sample (`InfoInv`), and that a padded packet ends a burst and
one after an empty start is alone (`PadInv`). `FragmentsFit` is the arithmetic of
the last fragment.

### Flow control

`TxFlowControl_proofs` proves, of the X300, `TypeOK`, `WindowRespected` and the refinement of
`CreditWindow` for every window below the number space (`Window + 1 < SeqMod`)
and any losses. The invariant orders all numbers under way: heard, queued in the
host, said by the radio, in flight, sent. From it the distance to the last answer
heard never exceeds the window by more than one (`HostInv`), so its residue is the
distance itself (`MaskedDifference`) and the packets in flight fit between the two
(`InvImpliesWindow`).

Of the USRP2 it proves `WindowKept`, over any number of streamers, losses and reports
about the streamer before. The invariant measures every number by its age, the frames
from it to the next one to be sent (`Since`), since a stale number may be anything:
the frames in flight and the reports under way get younger along the line, and there is
a span that covers them all, whose length and what the monitor would still let go
(`Leeway`) are within a window for each report that could have misled it, and one
(`OpenInv`). `ReportsInv` bounds those reports: they precede all others.

`RxFlowControl_proofs` proves `TypeOK`, `GoodNumbers`, `WindowRespected` and the
refinement of `CreditWindow`, for every window of two packets or more, any number
space, rate of answers, losses and messages; `InTurn` is part of the
specification. The invariant says where the numbers of packets lie between the
answers and the framer (`WireInv`: packets later on the wire have no smaller
numbers, and every packet's place is at least its number), that the gate
has let go of no more than a window after the last number it heard (`GateInv`),
and that answers grow (`AnswersInv`). `Recovered` is then the number itself.

### Control path

`ControlPath_proofs` is about `MCControlPath` and its parts.

The radio control core: type correctness, `ResponsesFit` and `NoFalseError` for any size
of the windows and any losses; `QueueHoldsWindow` (the answers of a window fit into the
queue) is assumed, and true of 3 and 128. For the first, numbers that wait to be
acknowledged grow (`Numbers`), so that each call that throws gives up another one, and
`Fits` counts answers to come against numbers unacknowledged and given up. For the
second, `Orderly` says that as long as nothing is lost or late, the answers in the
queue, in the hand of the task, in the dump queue, on their way and still to be made
are, in this order, those awaited. `PeekTrue` and `LostPokeReported` hold as long as
numbers tell answers apart (`NumbersTell`: no more unanswered commands than numbers, and
fewer late answers; 3 and 4096 in the code). `PeekInv` says that the numbers in the line
of answers and commands grow, and lie no further behind the awaited one than there were
late answers (`LineInv`), so that an answer that matches is the one awaited
(`OwnAnswer`); that answers are to executed commands (`AnswersExecuted`); and that every
command before the awaited one is executed or reported (`Settled`).

The control FIFO: `RoomForAnswers` and `PeeksTrue`, for every window, length of the FIFOs
and number space. The invariant `FifoInv` is about one line of numbers, from the host's
queue over the radio's two to the wire: they grow, with enough room between any and the
last one sent for those behind it (`LineShape`), the last answer taken is at most
`MaxSilent` commands old, so that its comparison in 16 bits is true (`AckInv`), and until
a call gives up early the whole line is within a window (`WindowInv`), which fits into
the queues.

Firmware control: `OnlyCurrent`, and `PeeksTrue` of both protocols. Requests under way
have growing numbers and belong to calls that have not returned, and a reply to the
last attempt has a value the register has had since (`RequestsInv`, `RepliesInv`).

Soft time control: `Counted`, for commands whose samples the counter can hold
(`[]CommandsFit`: the samples asked for while the stream is on are fewer than
`SizeMod`, of 2^64 or 2^32).

Claims: `ClaimHeld` and `Expires`, for any number of processes and openings. `HeldInv`
says of a claimer that has not been disturbed that its time is not yet written
(`Unwritten`), or written (`Written`) and either new to the firmware, which has begun its
count (`FreshTime`), or the same second as before (`Inherited`), which can only be within
its first period. `IdleInv` says that the firmware's count goes on while nobody claims.
The attempt to prove `ClaimHeld` showed that it fails for claimers as late as the
assumption on `Timeout` now excludes.

### Buffers and demultiplexer

`BoundedBuffer_proofs` proves type correctness, `NoLostWakeup` and
`ImplementsFifo` for any finite set of threads and any capacity. `Enough` is
`NoLostWakeup` of one condition; a transfer keeps it because the thread that
makes it goes on to notify.

`PacketDemuxer_proofs` proves type correctness and `FramesKept` for any number of
frames, streams and readers. `OnePlace` gives each frame one place, `NoneTwice`
makes the queues duplicate-free; each step moves one frame, or a queue, from one
place to another (`MovesOnePlace`). It also proves `InOrder`. `OrderInv` says that, to a
single reader, the packets parked for a stream are the next ones to be handed out
(`ParkedInTurn`), the packet in hand follows them (`SortedInTurn`), and those complete in
the ring and on the wire are the rest up to the last one sent, in turn (`ComingInTurn`);
and that while the reader is at the transport nothing is parked for the stream it wants
(`NoneParked`). A frame that libusb fills is in none of the other places, by `OnePlace`.

### Model-checked only

Progress is outside the prover, which knows neither fairness nor ENABLED: `NoStall` of
both generations and of receive flow control, `DestructorEnds`, `AllHandedOut`, that
`recv` returns (`RecvReturns`) and samples go on (`SamplesGoOn`), that buffers and tasks
do not hang, and the fairness that the abstract specifications state. So are the two
runs that show a disagreement: their properties are false, `TimeSpecTrue` without its
hypothesis. The type invariants of the modules are proved, and are in no run, as is the
refinement of `CreditWindow` on transmit.

## 7. Not modelled

- `usrp2_fifo_ctrl` is `FifoCtrl` without the task and its queue. Of `soft_time_ctrl`
  the clock, the transmit side and `stop()` are left out; of the firmware's protocols
  SPI, I2C and UART, which use the same requests; of the X300 the set-up, which is
  sequential.
- The demultiplexer of the E100, the send ring of libusb, the rings over sockets
  and kernel mappings: what they do beyond `PacketDemuxer` is pure I/O or a mutex
  around the whole call.
- The property tree has state, but no use of it from two threads.
- The FPGA's burst engines beyond what flow control sees are clocked logic, for a
  hardware model checker.
- Arithmetic without state (converters, time and range types, tuning, register
  maps), chip set-up (daughterboards, clocks, codecs, firmware of FX2, FX3 and
  OctoClock), vendored code (lwIP in the firmware), the vendor driver below
  NI-RIO, examples and utilities: nothing in them depends on order or concurrency
  in a way a model checker would decide.

Three things the models assume away, as the code does not handle them: that the packets
of all channels at one time have the same length (the bytes to copy are the first
channel's, `super_recv_packet_handler.hpp:479`); that no converter and no commit throws
in a worker (its task would end, and the next call wait for it in the barrier,
`tasks.cpp:59`); and that the packets which receive flow control answers come in their
turn (a late one is taken for the next turn of the numbers, `x300_io_impl.cpp:191`).

What would come next: `SendPacketHandler` composed with `TxFlowControl` per channel, and
`RecvPacketHandler` with `PacketDemuxer`, so that the order one promises is what the other
assumes of its network; of `FifoCtrl`, when an SPI transaction goes to its slave
(`RightSlave`) proved for callers that do not go on after a time-out.
