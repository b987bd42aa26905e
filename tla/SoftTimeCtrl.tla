----------------------------- MODULE SoftTimeCtrl -----------------------------
(***************************************************************************)
(* Stream commands of the USRP1, whose hardware knows neither time nor     *)
(* bursts: class soft_time_ctrl_impl of                                    *)
(* host/lib/usrp/usrp1/soft_time_ctrl.cpp and the receive streamer of      *)
(* host/lib/usrp/usrp1/io_impl.cpp that calls it.                          *)
(*                                                                         *)
(* Commands wait in a queue of two.  A task takes them out, sleeps until   *)
(* their time and switches the stream on and off.  recv() counts the       *)
(* samples of a burst and queues a stop when it is complete.  Both hold    *)
(* _update_mutex meanwhile, except in the sleep, and both wait with it     *)
(* held when the queue is full.                                            *)
(*                                                                         *)
(* Whether a timed command is late is a choice, as clock and set_time()    *)
(* are not modelled.  What is under the mutex is one step, up to a wait.   *)
(*                                                                         *)
(* Operators named Bug* are faults that the properties are there to catch; *)
(* no behaviour of Spec uses them.                                         *)
(***************************************************************************)
EXTENDS Integers, Sequences

CONSTANTS
    QueueLen,     \* capacity of _cmd_queue
    SizeMod,      \* values of a size_t
    Sizes,        \* num_samps of commands
    Packets,      \* samples that one call of the packet handler's recv() may return
    MaxLeft,      \* bound: packets in the host's buffers when the stream is switched off
    MaxIssued,    \* bound: commands issued by the application
    Outstanding,  \* the application issues no more bursts than this before the end of the first
    Prompt        \* whether the task gets the processor before the next recv()

ConstantsAssumption ==
    /\ QueueLen \in Nat \ {0} /\ SizeMod \in Nat \ {0}
    /\ Sizes \subseteq 1..(SizeMod - 1) /\ Packets \subseteq 1..(SizeMod - 1)
    /\ {MaxLeft, MaxIssued, Outstanding} \subseteq Nat
    /\ Prompt \in BOOLEAN

Bursts == {"done", "more"}
Stop == [mode |-> "stop", num |-> 0, timed |-> FALSE]
Commands ==
    [mode : Bursts, num : Sizes, timed : BOOLEAN] \cup
    [mode : {"start"}, num : {0}, timed : BOOLEAN]

VARIABLES
    mode,       \* _stream_mode
    remaining,  \* _nsamps_remaining
    on,         \* whether the device streams
    left,       \* packets in the host's buffers of a stream that is off
    queue,      \* _cmd_queue
    inline,     \* _inline_msg_queue
    mutex,      \* who waits with _update_mutex held: "free", "recv" or "task"
    task,       \* the task: "pop", "lock", "sleep" or "push"
    cur,        \* the command that the task has taken
    recv,       \* recv(): "idle", "post" or "push"
    nsamps,     \* what the packet handler has returned to it
    issued,     \* commands issued
    open,       \* commands whose end the application has not seen
    asked,      \* history: samples commanded since the stream was switched on,
    given,      \* history: and those handed out in bursts,
    over        \* history: and whether an end of burst has been handed out

stream == <<mode, remaining, on, left>>
taskVars == <<task, cur>>
recvVars == <<recv, nsamps>>
history == <<asked, given, over>>
vars == <<stream, queue, inline, mutex, taskVars, recvVars, issued, open, history>>

Init ==
    /\ mode = "stop" /\ remaining = 0 /\ on = FALSE /\ left = 0
    /\ queue = <<>> /\ inline = <<>>
    /\ mutex = "free"
    /\ task = "pop" /\ cur = Stop
    /\ recv = "idle" /\ nsamps = 0
    /\ issued = 0 /\ open = 0
    /\ asked = 0 /\ given = 0 /\ over = FALSE

Space == Len(queue) < QueueLen

-----------------------------------------------------------------------------
(* The application's commands.                                             *)

\* issue_stream_cmd() of the streamer, called without the mutex; waits for space.
Issue ==
    /\ issued < MaxIssued /\ Space
    /\ \/ \E cmd \in Commands :
              /\ open < Outstanding
              /\ queue' = Append(queue, cmd)
              /\ open' = open + 1
       \/ /\ mode = "start" /\ open > 0
          /\ queue' = Append(queue, Stop)
          /\ open' = open - 1
    /\ issued' = issued + 1
    /\ UNCHANGED <<stream, inline, mutex, taskVars, recvVars, history>>

-----------------------------------------------------------------------------
(* recv_cmd_task() and recv_cmd_handle_cmd().                              *)

TaskPop ==
    /\ task = "pop" /\ queue # <<>>
    /\ task' = "lock" /\ cur' = Head(queue)
    /\ queue' = Tail(queue)
    /\ UNCHANGED <<stream, inline, mutex, recvVars, issued, open, history>>

\* The count of the last burst is kept when the stream is switched on again.
BugCleared(r) == r

\* stream_on_off()
Cleared(r) == 0

Apply ==
    LET stops  == cur.mode = "stop" /\ mode # "stop"
        starts == cur.mode # "stop" /\ mode = "stop"
        base   == IF stops \/ starts THEN Cleared(remaining) ELSE remaining
    IN  /\ on' = IF stops THEN FALSE ELSE IF starts THEN TRUE ELSE on
        /\ left' = IF stops THEN MaxLeft ELSE left
        /\ remaining' = (base + cur.num) % SizeMod
        /\ mode' = cur.mode
        /\ asked' = IF starts THEN cur.num ELSE asked + cur.num
        /\ given' = IF starts THEN 0 ELSE given
        /\ over' = IF starts THEN FALSE ELSE over

TaskHandle ==
    /\ task = "lock" /\ mutex = "free"
    /\ ~cur.timed
    /\ Apply
    /\ task' = "pop"
    /\ UNCHANGED <<cur, queue, inline, mutex, recvVars, issued, open>>

\* A late command.  The task is the only one that makes space in the queue: when
\* there is none it waits for ever, with the mutex.
TaskLate ==
    /\ task = "lock" /\ mutex = "free"
    /\ cur.timed
    /\ inline' = Append(inline, "late_command")
    /\ IF Space
       THEN queue' = Append(queue, Stop) /\ task' = "pop" /\ mutex' = "free"
       ELSE queue' = queue /\ task' = "push" /\ mutex' = "task"
    /\ UNCHANGED <<stream, cur, recvVars, issued, open, history>>

\* sleep_until_time() gives the mutex back until the time has come.
TaskSleep ==
    /\ task = "lock" /\ mutex = "free"
    /\ cur.timed
    /\ task' = "sleep"
    /\ UNCHANGED <<stream, cur, queue, inline, mutex, recvVars, issued, open, history>>

TaskWake ==
    /\ task = "sleep" /\ mutex = "free"
    /\ Apply
    /\ task' = "pop"
    /\ UNCHANGED <<cur, queue, inline, mutex, recvVars, issued, open>>

-----------------------------------------------------------------------------
(* recv() of the streamer and recv_post().                                 *)

TaskBusy == task = "lock" \/ (task = "pop" /\ queue # <<>>)

MayRecv == recv = "idle" /\ (Prompt => ~TaskBusy)

\* The application takes a late command for over.
Heard(msg) == IF msg = "late_command" /\ open > 0 THEN open - 1 ELSE open

\* pop_with_haste()
Popped == Tail(inline)

RecvMessage ==
    /\ MayRecv /\ inline # <<>>
    /\ inline' = Popped
    /\ open' = Heard(Head(inline))
    /\ UNCHANGED <<stream, queue, mutex, taskVars, recvVars, issued, history>>

RecvSamples ==
    /\ MayRecv /\ inline = <<>>
    /\ on \/ left > 0
    /\ nsamps' \in Packets
    /\ left' = IF on THEN left ELSE left - 1
    /\ recv' = "post"
    /\ UNCHANGED <<mode, remaining, on, queue, inline, mutex, taskVars, issued, open, history>>

RecvTimeout ==
    /\ MayRecv /\ inline = <<>>
    /\ nsamps' = 0
    /\ recv' = "post"
    /\ UNCHANGED <<stream, queue, inline, mutex, taskVars, issued, open, history>>

\* A time-out looks for a message once more.
PostMessage ==
    /\ recv = "post" /\ mutex = "free"
    /\ nsamps = 0 /\ inline # <<>>
    /\ inline' = Popped
    /\ open' = Heard(Head(inline))
    /\ recv' = "idle"
    /\ UNCHANGED <<stream, queue, mutex, taskVars, nsamps, issued, history>>

Samples == recv = "post" /\ mutex = "free" /\ (nsamps > 0 \/ inline = <<>>)

Complete == mode \in Bursts /\ remaining <= nsamps

Clipped == remaining

PostEnd ==
    /\ Samples /\ Complete
    /\ inline' = IF mode = "more" THEN Append(inline, "broken_chain") ELSE inline
    /\ IF Space
       THEN queue' = Append(queue, Stop) /\ mutex' = "free" /\ recv' = "idle"
       ELSE queue' = queue /\ mutex' = "recv" /\ recv' = "push"
    /\ given' = given + Clipped
    /\ over' = TRUE
    /\ open' = IF open > 0 THEN open - 1 ELSE 0
    /\ UNCHANGED <<stream, taskVars, nsamps, issued, asked>>

PostPush ==
    /\ recv = "push" /\ Space
    /\ queue' = Append(queue, Stop)
    /\ mutex' = "free" /\ recv' = "idle"
    /\ UNCHANGED <<stream, inline, taskVars, nsamps, issued, open, history>>

\* After the stop the count runs below zero.
PostCount ==
    /\ Samples /\ ~Complete
    /\ remaining' = IF mode = "start" THEN remaining ELSE (remaining - nsamps) % SizeMod
    /\ given' = IF mode \in Bursts THEN given + nsamps ELSE given
    /\ recv' = "idle"
    /\ UNCHANGED <<mode, on, left, queue, inline, mutex, taskVars, nsamps, issued, open,
                   asked, over>>

Next ==
    \/ Issue
    \/ TaskPop \/ TaskHandle \/ TaskLate \/ TaskSleep \/ TaskWake
    \/ RecvMessage \/ RecvSamples \/ RecvTimeout
    \/ PostMessage \/ PostEnd \/ PostPush \/ PostCount

Spec == Init /\ [][Next]_vars

\* The threads run, sleeps end, the mutex is granted in the end to one that goes on
\* asking, and the application goes on calling recv(), which gets samples now and then.
Fairness ==
    /\ WF_vars(TaskPop) /\ SF_vars(TaskHandle)
    /\ SF_vars(TaskLate \/ TaskSleep) /\ SF_vars(TaskWake)
    /\ SF_vars(RecvMessage) /\ SF_vars(RecvSamples)
    /\ SF_vars(PostMessage) /\ SF_vars(PostEnd) /\ SF_vars(PostCount) /\ WF_vars(PostPush)

FairSpec == Spec /\ Fairness

-----------------------------------------------------------------------------
(* Properties.                                                             *)

\* _nsamps_remaining is what is left of the burst, also when packets that came after
\* the burst before have made it run below zero, and when commands are chained.
Counted == mode \in Bursts /\ ~over => remaining = asked - given

\* "Num samps and done": recv() hands out no more samples of a burst than commanded.
\* It does when the stop of the burst waits behind a command that is timed.
Exact == mode \in Bursts => given <= asked

\* recv() returns, as it has a time-out.  It does not when it waits with the mutex for
\* space that the task would make, and the task waits for the mutex.
RecvReturns == recv # "idle" ~> recv = "idle"
=============================================================================
