---------------------------- MODULE RadioCtrlCore -----------------------------
(***************************************************************************)
(* Register access of the third generation: radio_ctrl_core_3000 in        *)
(* host/lib/usrp/cores/radio_ctrl_core_3000.cpp.  A poke or peek sends a   *)
(* numbered command; the radio executes commands in order and answers each *)
(* one.  Several pokes may be unanswered; a peek takes all answers up to   *)
(* its own.  The mutex makes one call at a time of the callers' threads.   *)
(*                                                                         *)
(* On the X300 the core reads the answers from a transport of its own      *)
(* (`direct').  On the B200 a task reads them (handle_async_task() in      *)
(* usrp/b200/b200_io_impl.cpp) and pushes them to the core, which it knows *)
(* by a weak pointer; once that has expired, in the destructor, they go to *)
(* the dump queue of the task (msg_task in host/lib/utils/tasks.cpp).      *)
(*                                                                         *)
(* A payload is abstracted to the number of the command that it answers.   *)
(* Numbers are kept whole; an answer bears 12 bits of them.  Operators     *)
(* named Bug* are faults that the properties are there to catch; no        *)
(* behaviour of Spec uses them.                                            *)
(***************************************************************************)
EXTENDS Integers, Sequences, FiniteSets

CONSTANTS
    RespWindow,  \* _resp_queue_size: 3, or the receive frames of the transport
    RespDepth,   \* 128: depth of _resp_queue
    SeqMod,      \* 4096: an answer bears 12 bits of the number
    MaxOut,      \* bound: commands sent in all
    MaxLost,     \* bound: commands and answers lost by the network
    MaxLate      \* bound: time-outs before an answer that is still to come

ASSUME ConstantsAssumption ==
    /\ RespWindow \in Nat \ {0}
    /\ RespDepth \in Nat \ {0}
    /\ SeqMod \in Nat \ {0}
    /\ MaxOut \in Nat /\ MaxLost \in Nat /\ MaxLate \in Nat

\* 3 and 128, where the queue is used.
ASSUME QueueHoldsWindow == RespWindow <= RespDepth

VARIABLES
    direct,       \* whether there is a resp_xport
    life,         \* of the core: see Lives
    inTask,       \* whether the destructor runs in the thread of the task
    seqOut,       \* _seq_out
    outstanding,  \* _outstanding_seqs
    op,           \* the call in progress
    toAck,        \* seq_to_ack
    cmds,         \* commands on their way to the radio
    resps,        \* answers on their way to the host
    respQueue,    \* _resp_queue
    dumpQueue,    \* _dump_queue
    task,         \* what the task holds: {} or an answer, with the core locked or not
    lost,         \* commands and answers lost so far
    late,         \* time-outs so far before an answer that was still to come
    executed,     \* history: the commands the radio has executed
    reported,     \* history: the commands whose wait has thrown
    answer        \* history: the last peek that returned, and the answer it returned

corevars == <<seqOut, outstanding, op, toAck>>
vars == <<direct, life, inTask, corevars, cmds, resps, respQueue, dumpQueue, task,
          lost, late, executed, reported, answer>>

\* "released": its last owner has let go of the core while the task has it locked.
Lives == {"alive", "released", "closing", "closed"}

TypeOK ==
    /\ direct \in BOOLEAN /\ inTask \in BOOLEAN
    /\ life \in Lives
    /\ seqOut \in Nat
    /\ outstanding \in Seq(Nat)
    /\ op \in {"none", "poke", "peek"}
    /\ toAck \in Nat
    /\ cmds \in Seq(Nat) /\ resps \in Seq(Nat)
    /\ respQueue \in Seq(Nat) /\ dumpQueue \in Seq(Nat)
    /\ task \in SUBSET [seq : Nat, locked : BOOLEAN, pushed : BOOLEAN]
    /\ lost \in Nat /\ late \in Nat
    /\ executed \in SUBSET Nat /\ reported \in SUBSET Nat
    /\ answer \in [asked : Int, got : Int]

Init ==
    /\ direct \in BOOLEAN
    /\ life = "alive" /\ inTask = FALSE
    /\ seqOut = 0 /\ outstanding = <<>> /\ op = "none" /\ toAck = 0
    /\ cmds = <<>> /\ resps = <<>> /\ respQueue = <<>> /\ dumpQueue = <<>>
    /\ task = {}
    /\ lost = 0 /\ late = 0
    /\ executed = {} /\ reported = {}
    /\ answer = [asked |-> -1, got |-> -1]

-----------------------------------------------------------------------------
(* poke32(), peek32(), peek64() and wait_for_ack().                        *)

\* One unanswered command too many.
BugMustWait(call, out) == call = "peek" \/ Len(out) > RespWindow

\* The loop condition.
MustWait(call, out) == call = "peek" \/ Len(out) >= RespWindow

\* A call with unanswered commands `out' waits for the oldest one or returns.
Loop(call, out) ==
    IF MustWait(call, out)
    THEN outstanding' = Tail(out) /\ toAck' = Head(out) /\ op' = call
    ELSE outstanding' = out /\ op' = "none" /\ UNCHANGED toAck

\* send_pkt(), and the first turn of the loop.
Send(call) ==
    /\ op = "none" /\ seqOut < MaxOut
    /\ cmds' = Append(cmds, seqOut)
    /\ seqOut' = seqOut + 1
    /\ Loop(call, Append(outstanding, seqOut))
    /\ UNCHANGED <<direct, inTask, resps, respQueue, dumpQueue, task, lost, late,
                   executed, reported, answer>>

Poke == life = "alive" /\ Send("poke") /\ UNCHANGED life

Peek == life = "alive" /\ Send("peek") /\ UNCHANGED life

\* The dump queue is not looked at.
BugComing == IF direct THEN resps ELSE respQueue

\* What the wait looks at: the transport, or the queue of the core and, when that
\* is empty, the one of the task.
Coming ==
    IF direct THEN resps ELSE IF respQueue # <<>> THEN respQueue ELSE dumpQueue

TakeAnswer ==
    /\ Coming # <<>>
    /\ resps' = IF direct THEN Tail(resps) ELSE resps
    /\ respQueue' = IF ~direct /\ respQueue # <<>> THEN Tail(respQueue) ELSE respQueue
    /\ dumpQueue' = IF ~direct /\ respQueue = <<>> THEN Tail(dumpQueue) ELSE dumpQueue

\* The number is not looked at.
BugMatches(seq) == TRUE

Matches(seq) == seq % SeqMod = toAck % SeqMod

\* Only the last answer of a peek counts; the others are not waited for.
BugAfterAck == IF op = "peek" THEN <<>> ELSE outstanding

\* The commands that remain to be waited for.
AfterAck == outstanding

\* The destructor has done its peek, with or without success.
LifeAfterCall == IF life = "closing" THEN "closed" ELSE life

Ack ==
    /\ op # "none"
    /\ TakeAnswer
    /\ Matches(Head(Coming))
    /\ \/ /\ op = "peek" /\ AfterAck = <<>>
          /\ op' = "none" /\ outstanding' = <<>> /\ UNCHANGED toAck
          /\ answer' = [asked |-> seqOut - 1, got |-> Head(Coming)]
          /\ life' = LifeAfterCall
       \/ /\ ~(op = "peek" /\ AfterAck = <<>>)
          /\ Loop(op, AfterAck)
          /\ UNCHANGED <<answer, life>>
    /\ UNCHANGED <<direct, inTask, seqOut, cmds, task, lost, late, executed, reported>>

\* The call throws; what it has popped stays popped.
Throw ==
    /\ op' = "none"
    /\ reported' = reported \cup {toAck}
    /\ life' = LifeAfterCall
    /\ UNCHANGED <<direct, inTask, seqOut, outstanding, toAck, cmds, task, lost,
                   executed, answer>>

\* "packet parse error"
Mismatch ==
    /\ op # "none"
    /\ TakeAnswer
    /\ ~Matches(Head(Coming))
    /\ Throw
    /\ UNCHANGED late

\* The wait goes on as long as something is on its way, whoever could deliver it.
BugNothingComes == Coming = <<>> /\ cmds = <<>> /\ resps = <<>> /\ task = {}

\* Nothing that is on its way can reach the wait any more.
NothingComes ==
    /\ Coming = <<>>
    /\ inTask \/ (cmds = <<>> /\ resps = <<>> /\ task = {})

\* "no response packet", or an accumulated time-out: the answer was lost, or it is
\* later than ACK_TIMEOUT or MASSIVE_TIMEOUT.
Timeout ==
    /\ op # "none" /\ Coming = <<>>
    /\ \/ NothingComes /\ UNCHANGED late
       \/ ~NothingComes /\ late < MaxLate /\ late' = late + 1
    /\ Throw
    /\ UNCHANGED <<resps, respQueue, dumpQueue>>

-----------------------------------------------------------------------------
(* The destructor: a dummy peek "with the purpose of ack'ing all packets". *)

\* The last owner lets go of the core: its destructor runs at once, unless the
\* task has it locked.
Release ==
    /\ life = "alive" /\ op = "none"
    /\ life' = IF \E t \in task : t.locked THEN "released" ELSE "closing"
    /\ UNCHANGED <<direct, inTask, corevars, cmds, resps, respQueue, dumpQueue, task,
                   lost, late, executed, reported, answer>>

\* The dummy peek; the bound on commands leaves room for it.
DestructorPeek ==
    /\ life = "closing" /\ op = "none"
    /\ cmds' = Append(cmds, seqOut)
    /\ seqOut' = seqOut + 1
    /\ Loop("peek", Append(outstanding, seqOut))
    /\ UNCHANGED <<direct, life, inTask, resps, respQueue, dumpQueue, task, lost, late,
                   executed, reported, answer>>

-----------------------------------------------------------------------------
(* The task.                                                               *)

\* It takes a message from the transport and locks the weak pointer.
TaskTake ==
    /\ ~direct /\ ~inTask /\ task = {} /\ resps # <<>>
    /\ task' = {[seq |-> Head(resps), locked |-> life = "alive", pushed |-> FALSE]}
    /\ resps' = Tail(resps)
    /\ UNCHANGED <<direct, life, inTask, corevars, cmds, respQueue, dumpQueue, lost,
                   late, executed, reported, answer>>

\* push_response(), which drops the answer when the queue is full.
TaskPush ==
    /\ \E t \in task :
         /\ t.locked /\ ~t.pushed
         /\ respQueue' = IF Len(respQueue) < RespDepth THEN Append(respQueue, t.seq)
                         ELSE respQueue
         /\ task' = {[t EXCEPT !.pushed = TRUE]}
    /\ UNCHANGED <<direct, life, inTask, corevars, cmds, resps, dumpQueue, lost, late,
                   executed, reported, answer>>

\* It lets go of the core, which may be the last to do so: then the destructor
\* runs here, and nobody reads the transport.
TaskUnlock ==
    /\ \E t \in task : t.locked /\ t.pushed
    /\ task' = {}
    /\ inTask' = (life = "released")
    /\ life' = IF life = "released" THEN "closing" ELSE life
    /\ UNCHANGED <<direct, corevars, cmds, resps, respQueue, dumpQueue, lost, late,
                   executed, reported, answer>>

\* A message for a core that is gone.
TaskDump ==
    /\ \E t \in task : ~t.locked /\ dumpQueue' = Append(dumpQueue, t.seq)
    /\ task' = {}
    /\ UNCHANGED <<direct, life, inTask, corevars, cmds, resps, respQueue, lost, late,
                   executed, reported, answer>>

-----------------------------------------------------------------------------
(* The radio and, on the X300, the network.                                *)

Execute ==
    /\ cmds # <<>>
    /\ cmds' = Tail(cmds)
    /\ executed' = executed \cup {Head(cmds)}
    /\ resps' = Append(resps, Head(cmds))
    /\ UNCHANGED <<direct, life, inTask, corevars, respQueue, dumpQueue, task, lost,
                   late, reported, answer>>

LoseCommand ==
    /\ direct /\ lost < MaxLost /\ cmds # <<>>
    /\ cmds' = Tail(cmds)
    /\ lost' = lost + 1
    /\ UNCHANGED <<direct, life, inTask, corevars, resps, respQueue, dumpQueue, task,
                   late, executed, reported, answer>>

LoseAnswer ==
    /\ direct /\ lost < MaxLost /\ resps # <<>>
    /\ resps' = Tail(resps)
    /\ lost' = lost + 1
    /\ UNCHANGED <<direct, life, inTask, corevars, cmds, respQueue, dumpQueue, task,
                   late, executed, reported, answer>>

TaskStep == TaskTake \/ TaskPush \/ TaskUnlock \/ TaskDump

Next ==
    \/ Poke \/ Peek \/ Ack \/ Mismatch \/ Timeout
    \/ Release \/ DestructorPeek
    \/ TaskStep
    \/ Execute \/ LoseCommand \/ LoseAnswer

Spec == Init /\ [][Next]_vars

\* The threads run, the radio executes what it gets.
Fairness ==
    /\ WF_vars(Ack \/ Mismatch \/ Timeout)
    /\ WF_vars(DestructorPeek)
    /\ WF_vars(TaskStep) /\ WF_vars(Execute)

FairSpec == Spec /\ Fairness

-----------------------------------------------------------------------------
(* Properties.                                                             *)

\* A peek that returns has the answer to its own command, whatever was lost, came
\* late, or was stranded in the dump queue (wait_for_ack).
PeekTrue == answer.asked = answer.got

\* When a peek has returned, every command before it has been executed, but for
\* those whose failure a call has reported: "die in timeout" or a parse error.  A
\* lost poke does not go unnoticed (wait_for_ack).
LostPokeReported ==
    op = "none" /\ answer.asked = seqOut - 1 =>
      \A s \in 0 .. seqOut - 1 : s \in executed \/ s \in reported

\* Answers that are to come, or have come and are not yet taken.
ToCome ==
    Len(cmds) + Len(resps) + Len(respQueue) + Len(dumpQueue)
      + Cardinality({t \in task : ~t.pushed})

\* There are never more answers to come than the host has room for, and one more
\* for each call that has thrown (the >= in wait_for_ack).
ResponsesFit == ToCome <= RespWindow + Cardinality(reported)

\* As long as nothing is lost and no answer is later than the time-out, no call
\* throws, the peek of the destructor included, whose answers come by way of the
\* dump queue ("This actually happens during shutdown"); except when the task
\* holds the last reference, and runs the destructor itself.
NoFalseError == lost = 0 /\ late = 0 /\ ~inTask => reported = {}

\* The destructor ends, wherever it runs.
DestructorEnds == life \in {"released", "closing"} ~> life = "closed"
===============================================================================
