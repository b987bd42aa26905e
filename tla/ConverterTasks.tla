--------------------------- MODULE ConverterTasks ---------------------------
(***************************************************************************)
(* The threads of a packet handler: converter_thread_task() of             *)
(* host/lib/transport/super_recv_packet_handler.hpp (that of               *)
(* super_send_packet_handler.hpp synchronises in the same way), the        *)
(* reusable_barrier of host/include/uhd/utils/atomic.hpp that keeps them   *)
(* in step, and the task of host/lib/utils/tasks.cpp that each worker runs *)
(* in.                                                                     *)
(*                                                                         *)
(* Thread 0 is the application's: it is in recv(), or outside, or in the   *)
(* destructor of the handler.  The others convert the samples of one       *)
(* channel each.  A step is one access to a variable that threads share.   *)
(* The job stands for what a call publishes before the barrier:            *)
(* _convert_nsamps, _convert_buffs, the current slot.                      *)
(*                                                                         *)
(* Operators named Bug* are faults the properties are there to catch; no   *)
(* behaviour of Spec uses them.                                            *)
(***************************************************************************)
EXTENDS Integers

CONSTANTS
    N,        \* _size: channels, so threads
    MaxJobs   \* bound: calls of the application

ASSUME ConstantsAssumption ==
    /\ N \in Nat \ {0}
    /\ MaxJobs \in Nat

Thread == 0 .. N - 1
Worker == 1 .. N - 1
NoThread == N

VARIABLES
    entry,        \* _entry_counter
    exit,         \* _exit_counter
    done,         \* _done # 0: interrupt() was called
    mutex,        \* who holds _mutex, or NoThread
    running,      \* per worker: _running of its task
    interrupted,  \* per worker: interrupt_all() was called
    pc,           \* where each thread is
    victim,       \* the worker whose task is being destroyed
    job,          \* jobs published
    work          \* per thread: jobs converted

barrier == <<entry, exit, done, mutex>>
tasks == <<running, interrupted, victim>>
vars == <<entry, exit, done, mutex, running, interrupted, pc, victim, job, work>>

InBarrier == {"enter", "cas", "lock", "test", "sleep", "leave", "xcas", "spin"}
CallerPc == InBarrier \cup {"idle", "convert", "others", "destroy", "join", "gone"}
WorkerPc == InBarrier \cup {"loop", "convert", "ended"}

TypeOK ==
    /\ entry \in 0 .. N /\ exit \in 0 .. N
    /\ done \in BOOLEAN
    /\ mutex \in Thread \cup {NoThread}
    /\ running \in [Worker -> BOOLEAN] /\ interrupted \in [Worker -> BOOLEAN]
    /\ pc \in [Thread -> CallerPc \cup WorkerPc]
    /\ pc[0] \in CallerPc /\ \A w \in Worker : pc[w] \in WorkerPc
    /\ victim \in 1 .. N
    /\ job \in Nat /\ work \in [Thread -> Nat]

\* The handler has been made: task_impl waits for its thread to be in the loop.
Init ==
    /\ entry = 0 /\ exit = 0 /\ done = FALSE /\ mutex = NoThread
    /\ running = [w \in Worker |-> TRUE]
    /\ interrupted = [w \in Worker |-> FALSE]
    /\ pc = [t \in Thread |-> IF t = 0 THEN "idle" ELSE "loop"]
    /\ victim = 1
    /\ job = 0 /\ work = [t \in Thread |-> 0]

Goto(t, from, to) == pc[t] = from /\ pc' = [pc EXCEPT ![t] = to]

\* check_interrupt() may throw thread_interrupted in worker w.  It does once the
\* barrier is interrupted; boost's own interruption point may or may not ("The
\* threads were not getting the interruption_point on windows.").
MayThrow(w) == done \/ interrupted[w]

-----------------------------------------------------------------------------
(* reusable_barrier::wait()                                                *)

\* "if (_size == 1) return;", else _entry_counter.inc()
Enter(t) ==
    /\ IF N = 1 THEN Goto(t, "enter", "convert") /\ UNCHANGED entry
       ELSE Goto(t, "enter", "cas") /\ entry' = entry + 1
    /\ UNCHANGED <<exit, done, mutex, tasks, job, work>>

\* _entry_counter.cas(0, _size)
ResetEntry(t) ==
    /\ Goto(t, "cas", "lock")
    /\ entry' = IF entry = N THEN 0 ELSE entry
    /\ UNCHANGED <<exit, done, mutex, tasks, job, work>>

\* scoped_lock lock(_mutex), or the end of timed_wait(), by a notification or
\* after the millisecond.
Lock(t) ==
    /\ mutex = NoThread
    /\ Goto(t, "lock", "test") \/ Goto(t, "sleep", "test")
    /\ mutex' = t
    /\ UNCHANGED <<entry, exit, done, tasks, job, work>>

\* There is no exit barrier.
BugOpenStraight(t) ==
    /\ Goto(t, "test", "convert") /\ entry = 0
    /\ mutex' = NoThread
    /\ UNCHANGED <<entry, exit, done, tasks, job, work>>

\* The loop ends: lock.unlock()
Open(t) ==
    /\ Goto(t, "test", "leave") /\ entry = 0
    /\ mutex' = NoThread
    /\ UNCHANGED <<entry, exit, done, tasks, job, work>>

\* The loop goes on: timed_wait()
Sleep(t) ==
    /\ Goto(t, "test", "sleep") /\ entry # 0 /\ ~done
    /\ mutex' = NoThread
    /\ UNCHANGED <<entry, exit, done, tasks, job, work>>

\* _exit_counter.inc()
Leave(t) ==
    /\ Goto(t, "leave", "xcas")
    /\ exit' = exit + 1
    /\ UNCHANGED <<entry, done, mutex, tasks, job, work>>

\* The reset is left to the application's thread.
BugResetExitByCaller(t) ==
    /\ Goto(t, "xcas", "spin")
    /\ exit' = IF exit = N /\ t = 0 THEN 0 ELSE exit
    /\ UNCHANGED <<entry, done, mutex, tasks, job, work>>

\* _exit_counter.cas(0, _size)
ResetExit(t) ==
    /\ Goto(t, "xcas", "spin")
    /\ exit' = IF exit = N THEN 0 ELSE exit
    /\ UNCHANGED <<entry, done, mutex, tasks, job, work>>

\* while (_exit_counter.read() != 0)
Spun(t) ==
    /\ Goto(t, "spin", "convert") /\ exit = 0
    /\ UNCHANGED <<barrier, tasks, job, work>>

\* A worker is thrown out of wait(), by check_interrupt() in one of its loops
\* or by the interruption point in timed_wait(), and its task ends.
ThrownOut(w) ==
    /\ \/ Goto(w, "test", "ended") /\ entry # 0 /\ MayThrow(w) /\ mutex' = NoThread
       \/ /\ Goto(w, "sleep", "ended") /\ interrupted[w]
          /\ mutex = NoThread /\ UNCHANGED mutex
       \/ Goto(w, "spin", "ended") /\ exit # 0 /\ MayThrow(w) /\ UNCHANGED mutex
    /\ UNCHANGED <<entry, exit, done, tasks, job, work>>

Wait(t) ==
    \/ Enter(t) \/ ResetEntry(t) \/ Lock(t) \/ Open(t) \/ Sleep(t)
    \/ Leave(t) \/ ResetExit(t) \/ Spun(t)

-----------------------------------------------------------------------------
(* converter_thread_task() and the threads that run it.                    *)

\* The conversion of one channel, from the shared job; it lasts as long as the
\* thread is at "convert".
Convert(t) ==
    /\ Goto(t, "convert", IF t = 0 THEN "others" ELSE "loop")
    /\ work' = [work EXCEPT ![t] = @ + 1]
    /\ UNCHANGED <<barrier, tasks, job>>

\* The application's thread leaves without waiting.
BugWaitOthersNot ==
    /\ Goto(0, "others", "idle")
    /\ UNCHANGED <<barrier, tasks, job, work>>

\* wait_others(): the others are done with the job when they are back in wait().
WaitOthers ==
    /\ Goto(0, "others", "idle") /\ entry = N - 1
    /\ UNCHANGED <<barrier, tasks, job, work>>

\* task_loop(): while (_running)
TaskLoop(w) ==
    /\ Goto(w, "loop", IF running[w] THEN "enter" ELSE "ended")
    /\ UNCHANGED <<barrier, tasks, job, work>>

\* recv_one_packet(), up to the conversion.
Publish ==
    /\ job < MaxJobs
    /\ Goto(0, "idle", "enter")
    /\ job' = job + 1
    /\ UNCHANGED <<barrier, tasks, work>>

\* The barrier is not interrupted.
BugDestroyQuietly ==
    /\ Goto(0, "idle", "destroy")
    /\ UNCHANGED <<barrier, tasks, job, work>>

\* ~recv_packet_handler(): interrupt()
Destroy ==
    /\ Goto(0, "idle", "destroy")
    /\ done' = TRUE
    /\ UNCHANGED <<entry, exit, mutex, tasks, job, work>>

\* ~task_impl(), of one worker after the other: stop it ...
Interrupt ==
    /\ IF victim \in Worker
       THEN /\ Goto(0, "destroy", "join")
            /\ running' = [running EXCEPT ![victim] = FALSE]
            /\ interrupted' = [interrupted EXCEPT ![victim] = TRUE]
       ELSE Goto(0, "destroy", "gone") /\ UNCHANGED <<running, interrupted>>
    /\ UNCHANGED <<barrier, victim, job, work>>

\* ... and join_all()
Join ==
    /\ Goto(0, "join", "destroy") /\ pc[victim] = "ended"
    /\ victim' = victim + 1
    /\ UNCHANGED <<barrier, running, interrupted, job, work>>

-----------------------------------------------------------------------------
WorkerStep(w) == Wait(w) \/ Convert(w) \/ TaskLoop(w) \/ ThrownOut(w)
CallerStep == Wait(0) \/ Convert(0) \/ WaitOthers \/ Interrupt \/ Join

\* The handler is gone, and its threads with it.
Gone == pc[0] = "gone" /\ UNCHANGED vars

Next ==
    \/ CallerStep \/ Publish \/ Destroy \/ Gone
    \/ \E w \in Worker : WorkerStep(w)

\* Threads are scheduled.  _mutex is held for a few instructions and then left
\* alone for a millisecond by each thread that polls, so none is kept out of it.
Fairness ==
    /\ WF_vars(CallerStep) /\ SF_vars(Lock(0))
    /\ \A w \in Worker : WF_vars(WorkerStep(w)) /\ SF_vars(Lock(w))

Spec == Init /\ [][Next]_vars /\ Fairness

-----------------------------------------------------------------------------
(* Properties.                                                             *)

\* While the application's thread is outside the conversion, so free to change
\* what it shares with the others, every channel has converted every job and
\* none is past the entry of the barrier (wait_others, reusable_barrier).
CallerAlone ==
    pc[0] \in {"idle", "destroy", "join", "gone"} =>
      \A w \in Worker : /\ work[w] = job
                        /\ pc[w] \notin {"leave", "xcas", "spin", "convert"}

\* Once a thread has left the barrier, every thread has been in it and none is
\* still at its entry: a fast thread that comes around again cannot be counted
\* for a slow one (the exit counter of reusable_barrier).
NoLapping ==
    \A t, u \in Thread : pc[t] = "convert" /\ work[t] = work[u] =>
                           pc[u] \in {"xcas", "spin", "convert"}

\* The threads do what ForkJoin says: every job is converted once by every
\* channel, before the next is published.
Abstract == INSTANCE ForkJoin WITH Thread <- Thread, job <- job, work <- work
ImplementsForkJoin == Abstract!Spec

\* A call gets through the barriers (reusable_barrier).
CallsReturn == pc[0] = "enter" ~> pc[0] = "idle"

\* The destructor ends: no worker is left waiting in a barrier nobody else will
\* come to (~recv_packet_handler, ~task_impl).
ShutdownEnds == pc[0] = "destroy" ~> pc[0] = "gone"
=============================================================================
