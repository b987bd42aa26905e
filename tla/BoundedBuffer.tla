--------------------------- MODULE BoundedBuffer ---------------------------
(***************************************************************************)
(* The bounded_buffer of host/include/uhd/transport/bounded_buffer.ipp,    *)
(* through which the threads of the library hand each other frames,        *)
(* answers, messages and commands: a circular_buffer, a mutex and two      *)
(* conditions, which are notified after the mutex is released.             *)
(*                                                                         *)
(* A step is what a thread does while it holds the mutex, or the           *)
(* notification of a condition, or what the clock does to a thread that    *)
(* waits for a time.  The front of the circular_buffer, where elements go  *)
(* in, is the end of the sequence.                                         *)
(*                                                                         *)
(* Operators named Bug* are faults that the properties are there to catch; *)
(* no behaviour of Spec uses them.                                         *)
(***************************************************************************)
EXTENDS Integers, Sequences, FiniteSets

CONSTANTS
    Thread,    \* the threads that share the buffer
    Elem,      \* what is queued
    NoElem,    \* elem_type()
    Capacity,  \* _buffer.capacity()
    May        \* per thread: the operations its code calls

ASSUME ConstantsAssumption ==
    /\ IsFiniteSet(Thread)
    /\ NoElem \notin Elem
    /\ Capacity \in Nat \ {0}
    /\ DOMAIN May = Thread

Pushes == {"push_with_haste", "push_with_pop_on_full", "push_with_wait",
           "push_with_timed_wait"}
Pops == {"pop_with_haste", "pop_with_wait", "pop_with_timed_wait"}
Hasty == {"push_with_haste", "pop_with_haste"}
Timed == {"push_with_timed_wait", "pop_with_timed_wait"}
Calls == [op : Pushes, elem : Elem] \cup [op : Pops, elem : {NoElem}]
NoCall == [op |-> "none", elem |-> NoElem]

VARIABLES
    buffer,   \* _buffer
    pc,       \* per thread: where it is
    call,     \* per thread: the call it is in
    got,      \* per thread: the element the call has popped
    result    \* per thread: what the call returns; true for those that wait

vars == <<buffer, pc, call, got, result>>

\* "sleep": waiting for the condition; "woken": for the mutex after it; "late":
\* the same, but the time has run out; "return": nobody is to be notified.
Places == {"idle", "haste", "wait", "sleep", "woken", "late", "notify", "return"}

TypeOK ==
    /\ buffer \in Seq(Elem) /\ Len(buffer) <= Capacity
    /\ pc \in [Thread -> Places]
    /\ call \in [Thread -> Calls \cup {NoCall}]
    /\ got \in [Thread -> Elem \cup {NoElem}]
    /\ result \in [Thread -> BOOLEAN]

Init ==
    /\ buffer = <<>>
    /\ pc = [t \in Thread |-> "idle"]
    /\ call = [t \in Thread |-> NoCall]
    /\ got = [t \in Thread |-> NoElem]
    /\ result = [t \in Thread |-> FALSE]

Goto(t, from, to) == pc[t] = from /\ pc' = [pc EXCEPT ![t] = to]

Begin(t) ==
    /\ Goto(t, "idle", "haste")
    /\ \E c \in Calls : c.op \in May[t] /\ call' = [call EXCEPT ![t] = c]
    /\ UNCHANGED <<buffer, got, result>>

\* What the call leaves to its caller.
End(t) ==
    /\ call' = [call EXCEPT ![t] = NoCall]
    /\ got' = [got EXCEPT ![t] = NoElem]
    /\ result' = [result EXCEPT ![t] = FALSE]
    /\ UNCHANGED buffer

-----------------------------------------------------------------------------
Pushing(t) == call[t].op \in Pushes

\* not_full(), not_empty()
Ready(t) == IF Pushing(t) THEN Len(buffer) < Capacity ELSE buffer # <<>>

\* push_front(), or the three parts of pop_back(); then lock.unlock()
Transfer(t, from) ==
    /\ Ready(t)
    /\ Goto(t, from, "notify")
    /\ IF Pushing(t)
       THEN buffer' = Append(buffer, call[t].elem) /\ UNCHANGED got
       ELSE buffer' = Tail(buffer) /\ got' = [got EXCEPT ![t] = Head(buffer)]
    /\ result' = [result EXCEPT ![t] = TRUE]
    /\ UNCHANGED call

\* push_with_haste() and pop_with_haste(), with which the calls that wait begin.
Haste(t) ==
    \/ Transfer(t, "haste")
    \/ /\ ~Ready(t) /\ call[t].op # "push_with_pop_on_full"
       /\ Goto(t, "haste", IF call[t].op \in Hasty THEN "return" ELSE "wait")
       /\ UNCHANGED <<buffer, call, got, result>>

\* push_with_pop_on_full(), when the buffer is full.
PopOnFull(t) ==
    /\ ~Ready(t) /\ call[t].op = "push_with_pop_on_full"
    /\ Goto(t, "haste", "notify")
    /\ buffer' = Append(Tail(buffer), call[t].elem)
    /\ UNCHANGED <<call, got, result>>

\* The condition is waited for with the mutex released in between.
BugWaitBlindly(t) ==
    \/ Transfer(t, "wait") \/ Transfer(t, "woken")
    \/ /\ Goto(t, "wait", "sleep") \/ Goto(t, "woken", "sleep")
       /\ UNCHANGED <<buffer, call, got, result>>

\* wait() and timed_wait() with a predicate: it is tested first, and after each
\* return of the wait.
Wait(t) ==
    \/ Transfer(t, "wait") \/ Transfer(t, "woken")
    \/ /\ ~Ready(t)
       /\ Goto(t, "wait", "sleep") \/ Goto(t, "woken", "sleep")
       /\ UNCHANGED <<buffer, call, got, result>>

\* timed_wait() runs out of time.
Expire(t) ==
    /\ call[t].op \in Timed
    /\ Goto(t, "sleep", "late")
    /\ UNCHANGED <<buffer, call, got, result>>

\* The thread that runs out of time does not look again.
BugLate(t) ==
    /\ Goto(t, "late", "return")
    /\ UNCHANGED <<buffer, call, got, result>>

\* It tests the predicate a last time.
Late(t) ==
    \/ Transfer(t, "late")
    \/ /\ ~Ready(t)
       /\ Goto(t, "late", "return")
       /\ UNCHANGED <<buffer, call, got, result>>

\* wait() may return although nobody has notified.
WakeUp(t) ==
    /\ Goto(t, "sleep", "woken")
    /\ UNCHANGED <<buffer, call, got, result>>

\* The threads that wait for the condition that t notifies: _empty_cond after a
\* push, _full_cond after a pop.
Sleepers(t) == {u \in Thread : pc[u] = "sleep" /\ Pushing(u) # Pushing(t)}

\* A push only notifies when the buffer was empty.
BugNotify(t) ==
    /\ pc[t] = "notify"
    /\ IF Sleepers(t) = {} \/ (Pushing(t) /\ Len(buffer) > 1)
       THEN pc' = [pc EXCEPT ![t] = "idle"]
       ELSE \E u \in Sleepers(t) : pc' = [pc EXCEPT ![t] = "idle", ![u] = "woken"]
    /\ End(t)

\* notify_one(), and the end of the call.
Notify(t) ==
    /\ pc[t] = "notify"
    /\ IF Sleepers(t) = {}
       THEN pc' = [pc EXCEPT ![t] = "idle"]
       ELSE \E u \in Sleepers(t) : pc' = [pc EXCEPT ![t] = "idle", ![u] = "woken"]
    /\ End(t)

\* return false
Return(t) ==
    /\ Goto(t, "return", "idle")
    /\ End(t)

-----------------------------------------------------------------------------
\* What a thread in a call does as soon as it has the mutex or the processor.
Step(t) ==
    \/ Haste(t) \/ PopOnFull(t) \/ Wait(t) \/ Late(t) \/ Notify(t) \/ Return(t)

Next == \E t \in Thread : Begin(t) \/ Step(t) \/ Expire(t) \/ WakeUp(t)

Spec == Init /\ [][Next]_vars

\* Threads are scheduled.  The time of a timed_wait() is an absolute one: a thread
\* that is woken and must wait again does not start anew.
Fairness == \A t \in Thread : WF_vars(Step(t)) /\ SF_vars(Expire(t))

FairSpec == Spec /\ Fairness

-----------------------------------------------------------------------------
(* Properties.                                                             *)

\* Threads that are about to notify, or have been notified and will look.
Waking(pushing) ==
    {t \in Thread : \/ pc[t] = "notify" /\ Pushing(t) # pushing
                    \/ pc[t] \in {"woken", "late"} /\ Pushing(t) = pushing}

\* While a thread waits to pop, there are no more elements than threads on their
\* way to them, and while one waits to push no more room than threads on their
\* way to it: no wake-up is lost, though conditions are notified outside the
\* mutex, one thread at a time, and other threads may be faster (notify_one).
NoLostWakeup ==
    \A t \in Thread : pc[t] = "sleep" =>
      Cardinality(Waking(Pushing(t))) >=
        IF Pushing(t) THEN Capacity - Len(buffer) ELSE Len(buffer)

\* The phase of a call as its caller sees it.
Phase ==
    [t \in Thread |-> IF pc[t] = "idle" THEN "idle"
                      ELSE IF pc[t] \in {"notify", "return"} THEN "finished"
                      ELSE "called"]

Fifo == INSTANCE BoundedFifo WITH queue <- buffer, phase <- Phase

\* Each call is one atomic operation of a bounded queue: elements come out once,
\* in the order they went in, unless they are displaced, and a call fails only
\* when at one instant it could do nothing else.
ImplementsFifo == Fifo!Spec

\* A call that could go on is not passed over for ever, whoever else pushes and
\* pops; a call with a time always ends.
CallsEnd == Fifo!Fairness
=============================================================================
