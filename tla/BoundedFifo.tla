---------------------------- MODULE BoundedFifo ----------------------------
(***************************************************************************)
(* What bounded_buffer promises to the threads that share one              *)
(* (host/include/uhd/transport/bounded_buffer.hpp): a queue of at most     *)
(* Capacity elements, on which each call takes effect at one instant       *)
(* between its beginning and its end.                                      *)
(***************************************************************************)
EXTENDS Integers, Sequences

CONSTANTS
    Thread,    \* the threads that share the queue
    Elem,      \* what is queued
    NoElem,    \* the argument of a pop
    Capacity   \* elements the queue holds

Pushes == {"push_with_haste", "push_with_pop_on_full", "push_with_wait",
           "push_with_timed_wait"}
Pops == {"pop_with_haste", "pop_with_wait", "pop_with_timed_wait"}
Calls == [op : Pushes, elem : Elem] \cup [op : Pops, elem : {NoElem}]
NoCall == [op |-> "none", elem |-> NoElem]

\* The calls that may end without success.
Refusable == {"push_with_haste", "push_with_timed_wait", "pop_with_haste",
              "pop_with_timed_wait"}

VARIABLES
    queue,   \* the oldest element first
    phase,   \* per thread: "idle", in a call, or "finished" with its effect
    call,    \* per thread: the call it is in
    got,     \* per thread: the element the call has popped
    result   \* per thread: whether it has succeeded

vars == <<queue, phase, call, got, result>>

Init ==
    /\ queue = <<>>
    /\ phase = [t \in Thread |-> "idle"]
    /\ call = [t \in Thread |-> NoCall]
    /\ got = [t \in Thread |-> NoElem]
    /\ result = [t \in Thread |-> FALSE]

Begin(t) ==
    /\ phase[t] = "idle"
    /\ phase' = [phase EXCEPT ![t] = "called"]
    /\ \E c \in Calls : call' = [call EXCEPT ![t] = c]
    /\ UNCHANGED <<queue, got, result>>

\* The effect of a call; a boolean is returned by all but the calls that wait.
Finish(t, success) ==
    /\ phase[t] = "called"
    /\ phase' = [phase EXCEPT ![t] = "finished"]
    /\ result' = [result EXCEPT ![t] = success]
    /\ UNCHANGED call

Push(t) ==
    /\ call[t].op \in Pushes /\ Len(queue) < Capacity
    /\ Finish(t, TRUE)
    /\ queue' = Append(queue, call[t].elem)
    /\ UNCHANGED got

\* The oldest element makes room.
Displace(t) ==
    /\ call[t].op = "push_with_pop_on_full" /\ Len(queue) = Capacity
    /\ Finish(t, FALSE)
    /\ queue' = Append(Tail(queue), call[t].elem)
    /\ UNCHANGED got

Pop(t) ==
    /\ call[t].op \in Pops /\ queue # <<>>
    /\ Finish(t, TRUE)
    /\ queue' = Tail(queue)
    /\ got' = [got EXCEPT ![t] = Head(queue)]

Refuse(t) ==
    /\ call[t].op \in Refusable
    /\ IF call[t].op \in Pushes THEN Len(queue) = Capacity ELSE queue = <<>>
    /\ Finish(t, FALSE)
    /\ UNCHANGED <<queue, got>>

Return(t) ==
    /\ phase[t] = "finished"
    /\ phase' = [phase EXCEPT ![t] = "idle"]
    /\ call' = [call EXCEPT ![t] = NoCall]
    /\ got' = [got EXCEPT ![t] = NoElem]
    /\ result' = [result EXCEPT ![t] = FALSE]
    /\ UNCHANGED queue

Effect(t) == Push(t) \/ Displace(t) \/ Pop(t) \/ Refuse(t)

Next == \E t \in Thread : Begin(t) \/ Effect(t) \/ Return(t)

Spec == Init /\ [][Next]_vars

\* No call is passed over for ever while it could have its effect.
Fairness == \A t \in Thread : WF_vars(Effect(t)) /\ WF_vars(Return(t))
=============================================================================
