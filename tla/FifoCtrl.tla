------------------------------- MODULE FifoCtrl -------------------------------
(***************************************************************************)
(* Control of the second generation of devices: numbered register commands *)
(* with a window of unanswered ones, and SPI transactions over them, in    *)
(* host/lib/usrp/common/fifo_ctrl_excelsior.cpp, and the radio's end,      *)
(* fpga/usrp2/control_lib/settings_fifo_ctrl.v, with its two queues.       *)
(*                                                                         *)
(* A call sends its commands one by one.  After a poke it waits for the    *)
(* answer to the command MAX_SEQS_OUT before it, after a peek for its own. *)
(* A task moves answers from the transport to a queue, and drops them when *)
(* it is full.  Command times only make the radio slow, and the addresses  *)
(* told apart are the SPI control word, the SPI data word and the rest.    *)
(*                                                                         *)
(* Operators named Bug* are faults that the properties are there to catch; *)
(* no behaviour of Spec uses them.                                         *)
(***************************************************************************)
EXTENDS Integers, Sequences

CONSTANTS
    MaxSeqsOut,  \* MAX_SEQS_OUT
    SeqMod,      \* 2^16
    FifoLen,     \* lines of a shortfifo
    Slaves,      \* SPI slaves; each has one control word
    None,        \* no slave
    MaxEarly,    \* bound: time-outs before an answer that is still to come
    MaxLost,     \* bound: commands and answers lost
    MaxSent,     \* bound: commands sent
    MaxSilent    \* bound: commands sent since the last answer that a call has taken

\* FifoLen is 16 and MAX_SEQS_OUT 15.
ConstantsAssumption ==
    /\ {MaxSeqsOut, SeqMod, FifoLen, MaxSilent} \subseteq Nat \ {0}
    /\ {MaxEarly, MaxLost, MaxSent} \subseteq Nat
    /\ MaxSilent < SeqMod \div 2
    /\ MaxSeqsOut < FifoLen
    /\ None \notin Slaves

\* The commands of a call; slave is whom an SPI word is meant for.
Poke == [op |-> "poke", slave |-> None]
Peek == [op |-> "peek", slave |-> None]
Ctrl(s) == [op |-> "ctrl", slave |-> s]
Data(s) == [op |-> "data", slave |-> s]

VARIABLES
    plan,       \* commands that the call has still to send, and the one it waits for
    waiting,    \* whether it waits for an answer
    sent,       \* commands sent, whole; _seq_out is its remainder
    seqAck,     \* _seq_ack
    cache,      \* the slave whose control word is in _ctrl_word_cache
    wire,       \* commands on their way
    commands,   \* command_fifo
    chosen,     \* the slave of the SPI core's control word
    results,    \* result_fifo
    answers,    \* answers on their way
    ctrlFifo,   \* _ctrl_fifo
    early,      \* time-outs before an answer that was still to come
    lost,       \* commands and answers lost
    dropped,    \* history: whether an answer found ctrlFifo full
    misled,     \* history: whether a peek returned what is not its answer
    strayed     \* history: whether a data word has gone to another slave

call == <<plan, waiting>>
radio == <<commands, chosen, results>>
history == <<dropped, misled, strayed>>
vars == <<call, sent, seqAck, cache, wire, radio, answers, ctrlFifo, early, lost, history>>

\* The constructor ends with init_spi(), a poke.
Init ==
    /\ plan = <<Poke>> /\ waiting = FALSE
    /\ sent = 0 /\ seqAck = 0
    /\ cache = None
    /\ wire = <<>> /\ commands = <<>> /\ chosen = None /\ results = <<>>
    /\ answers = <<>> /\ ctrlFifo = <<>>
    /\ early = 0 /\ lost = 0
    /\ dropped = FALSE /\ misled = FALSE /\ strayed = FALSE

-----------------------------------------------------------------------------
(* The host.                                                               *)

\* transact_spi(), with or without a readback
Spi(s, readback) ==
    (IF cache # s THEN <<Ctrl(s)>> ELSE <<>>)
        \o <<Data(s)>> \o (IF readback THEN <<Peek>> ELSE <<>>)

\* peek32(), poke32() and transact_spi() take the mutex.
Call ==
    /\ plan = <<>>
    /\ \/ plan' = <<Poke>>
       \/ plan' = <<Peek>>
       \/ \E s \in Slaves, readback \in BOOLEAN : plan' = Spi(s, readback)
    /\ sent + Len(plan') <= MaxSent
    /\ ((sent - seqAck) % SeqMod) + Len(plan') <= MaxSilent
    /\ UNCHANGED <<waiting, sent, seqAck, cache, wire, radio, answers, ctrlFifo, early, lost, history>>

\* send_pkt()
SendPkt ==
    /\ plan # <<>> /\ ~waiting
    /\ sent' = sent + 1
    /\ wire' = Append(wire, [cmd |-> Head(plan), id |-> sent + 1])
    /\ waiting' = TRUE
    /\ UNCHANGED <<plan, seqAck, cache, radio, answers, ctrlFifo, early, lost, history>>

\* One more command may be unanswered.
BugTarget ==
    IF Head(plan).op = "peek" THEN sent % SeqMod ELSE (sent - MaxSeqsOut - 1) % SeqMod

\* The answer that is waited for, as a number of 16 bits
Target ==
    IF Head(plan).op = "peek" THEN sent % SeqMod ELSE (sent - MaxSeqsOut) % SeqMod

\* The numbers are compared as they are.
BugBefore(i, j) == i < j

\* wraparound_lt16()
Before(i, j) == (j - i) % SeqMod \in 1..((SeqMod \div 2) - 1)

\* The next command of the call, or its return.  The cache is set after the wait.
Go ==
    /\ plan' = Tail(plan)
    /\ waiting' = FALSE
    /\ cache' = IF Head(plan).op = "ctrl" THEN Head(plan).slave ELSE cache

\* wait_for_ack() finds that the answer has come already; the value is then zero.
Answered ==
    /\ waiting /\ ~Before(seqAck, Target)
    /\ Go
    /\ misled' = (misled \/ Head(plan).op = "peek")
    /\ UNCHANGED <<sent, seqAck, wire, radio, answers, ctrlFifo, early, lost, dropped, strayed>>

\* wait_for_ack() takes an answer.
PopAnswer ==
    /\ waiting /\ Before(seqAck, Target)
    /\ ctrlFifo # <<>>
    /\ ctrlFifo' = Tail(ctrlFifo)
    /\ seqAck' = Head(ctrlFifo) % SeqMod
    /\ IF seqAck' = Target
       THEN /\ Go
            /\ misled' = (misled \/ (Head(plan).op = "peek" /\ Head(ctrlFifo) # sent))
       ELSE UNCHANGED <<plan, waiting, cache, misled>>
    /\ UNCHANGED <<sent, wire, radio, answers, early, lost, dropped, strayed>>

ToCome == <<wire, commands, results, answers>> # <<<<>>, <<>>, <<>>, <<>>>>

\* The call throws; what it had still to send is not sent.
TimeOut ==
    /\ waiting /\ Before(seqAck, Target)
    /\ ctrlFifo = <<>>
    /\ ToCome => early < MaxEarly
    /\ early' = IF ToCome THEN early + 1 ELSE early
    /\ plan' = <<>> /\ waiting' = FALSE
    /\ UNCHANGED <<sent, seqAck, cache, wire, radio, answers, ctrlFifo, lost, history>>

CtrlFifoLen == MaxSeqsOut + 1

\* handle_msg1()
HandleMsg ==
    /\ answers # <<>>
    /\ answers' = Tail(answers)
    /\ IF Len(ctrlFifo) < CtrlFifoLen
       THEN ctrlFifo' = Append(ctrlFifo, Head(answers)) /\ dropped' = dropped
       ELSE ctrlFifo' = ctrlFifo /\ dropped' = TRUE
    /\ UNCHANGED <<call, sent, seqAck, cache, wire, radio, early, lost, misled, strayed>>

-----------------------------------------------------------------------------
(* The radio and the network.                                              *)

\* The input state machine holds a command until there is room.
StoreCommand ==
    /\ wire # <<>> /\ Len(commands) < FifoLen
    /\ commands' = Append(commands, Head(wire))
    /\ wire' = Tail(wire)
    /\ UNCHANGED <<call, sent, seqAck, cache, chosen, results, answers, ctrlFifo, early, lost, history>>

\* The command state machine, when peripherals and time are ready
Act ==
    /\ commands # <<>> /\ Len(results) < FifoLen
    /\ LET c == Head(commands).cmd
       IN  /\ chosen' = IF c.op = "ctrl" THEN c.slave ELSE chosen
           /\ strayed' = (strayed \/ (c.op = "data" /\ c.slave # chosen))
    /\ results' = Append(results, Head(commands).id)
    /\ commands' = Tail(commands)
    /\ UNCHANGED <<call, sent, seqAck, cache, wire, answers, ctrlFifo, early, lost,
                   dropped, misled>>

\* The output state machine
SendAnswer ==
    /\ results # <<>>
    /\ answers' = Append(answers, Head(results))
    /\ results' = Tail(results)
    /\ UNCHANGED <<call, sent, seqAck, cache, wire, commands, chosen, ctrlFifo, early, lost, history>>

Lose ==
    /\ lost < MaxLost
    /\ \/ wire # <<>> /\ wire' = Tail(wire) /\ UNCHANGED answers
       \/ answers # <<>> /\ answers' = Tail(answers) /\ UNCHANGED wire
    /\ lost' = lost + 1
    /\ UNCHANGED <<call, sent, seqAck, cache, radio, ctrlFifo, early, history>>

Next ==
    \/ Call \/ SendPkt \/ Answered \/ PopAnswer \/ TimeOut \/ HandleMsg
    \/ StoreCommand \/ Act \/ SendAnswer \/ Lose

Spec == Init /\ [][Next]_vars

-----------------------------------------------------------------------------
(* Properties.                                                             *)

\* The window of the host keeps room for all answers.  The radio never waits with a
\* command until its result has room ("should always be true", says its source), and
\* the queue of the host takes all answers, however slowly calls take them out.
RoomForAnswers ==
    early = 0 => ~dropped /\ (commands # <<>> => Len(results) < FifoLen)

\* A peek returns the value that the radio read for it, although answers of calls
\* that timed out come late, some are lost and the numbers wrap around.
PeekTrue == ~misled

\* The data word of an SPI transaction goes to the slave that it is for, as
\* transact_spi() promises.  It does not when a time-out comes early: the control word
\* has been sent then, and the cache does not say so.
RightSlave == lost = 0 => ~strayed
=============================================================================
