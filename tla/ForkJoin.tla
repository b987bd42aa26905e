------------------------------ MODULE ForkJoin ------------------------------
(***************************************************************************)
(* What the converter threads of a packet handler promise to the thread in *)
(* recv() or send() (host/lib/transport/super_recv_packet_handler.hpp and  *)
(* super_send_packet_handler.hpp): it hands out one job after another, a   *)
(* job is only handed out when every channel is done with the one before,  *)
(* and every channel converts every job once.                              *)
(***************************************************************************)
EXTENDS Integers

CONSTANT Thread   \* one per channel

VARIABLES
    job,     \* jobs handed out
    work     \* per thread: jobs converted

vars == <<job, work>>

TypeOK == job \in Nat /\ work \in [Thread -> Nat]

Init == job = 0 /\ work = [t \in Thread |-> 0]

HandOut ==
    /\ \A t \in Thread : work[t] = job
    /\ job' = job + 1
    /\ UNCHANGED work

Convert(t) ==
    /\ work[t] < job
    /\ work' = [work EXCEPT ![t] = @ + 1]
    /\ UNCHANGED job

Next == HandOut \/ \E t \in Thread : Convert(t)

Spec == Init /\ [][Next]_vars /\ \A t \in Thread : WF_vars(Convert(t))

\* No thread is ahead of the jobs, or more than one behind.
InStep == \A t \in Thread : work[t] = job \/ work[t] + 1 = job
=============================================================================
