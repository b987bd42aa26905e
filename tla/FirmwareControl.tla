---------------------------- MODULE FirmwareControl ----------------------------
(***************************************************************************)
(* Register access through the firmware of the device: request, reply and  *)
(* retries over UDP.  x300_ctrl_iface_enet of                              *)
(* host/lib/usrp/x300/x300_fw_ctrl.cpp with handle_udp_fw_comms() of       *)
(* firmware/x300/x300/x300_main.c, and ctrl_send_and_recv() of             *)
(* host/lib/usrp/usrp2/usrp2_iface.cpp with handle_udp_ctrl_packet() of    *)
(* firmware/zpu/apps/txrx_uhd.c.                                           *)
(*                                                                         *)
(* Every attempt has a number of its own, which its reply repeats.  The    *)
(* X300's code empties the socket before an attempt, fails it on a reply   *)
(* with another number, and gives up the mutex between attempts; the       *)
(* USRP2's code skips such replies and keeps the mutex.                    *)
(*                                                                         *)
(* All calls access one register.  Datagrams may be lost or late, and keep *)
(* their order, on the one cable between host and device.                  *)
(*                                                                         *)
(* Operators named Bug* are faults that the properties are there to catch; *)
(* no behaviour of Spec uses them.                                         *)
(***************************************************************************)
EXTENDS Integers, Sequences

CONSTANTS
    Threads,     \* threads that access the register
    Nobody,      \* holder of a mutex that is free
    Usrp2,       \* which of the two protocols
    NumRetries,  \* num_retries, CTRL_RECV_RETRIES
    Values,      \* what is poked; the register is 0 at first
    MaxEarly,    \* bound: time-outs before a reply that is still to come
    MaxLost,     \* bound: datagrams lost
    MaxCalls     \* bound: calls

ConstantsAssumption ==
    /\ Nobody \notin Threads
    /\ Usrp2 \in BOOLEAN
    /\ NumRetries \in Nat \ {0} /\ Values \subseteq Nat \ {0}
    /\ {MaxEarly, MaxLost, MaxCalls} \subseteq Nat

VARIABLES
    pc,        \* of each thread: "idle", "ready" for an attempt, or "wait"
    poke,      \* what its call pokes, or 0 for a peek
    id,        \* history: the number of its call
    tries,     \* attempts that have failed
    mutex,     \* reg_access, _ctrl_mutex: who holds it
    seq,       \* seq, _ctrl_seq_num: the number of the last attempt
    down,      \* requests on their way
    up,        \* replies on their way
    socket,    \* replies that have arrived
    reg,       \* the register
    early,     \* time-outs before a reply that was still to come
    lost,      \* datagrams lost
    calls,     \* calls made
    during,    \* history: the values of the register since the thread's call began
    done,      \* history: the calls that have returned, not thrown
    misread    \* history: whether a peek returned a value of another time

threads == <<pc, poke, id, tries>>
history == <<done, misread>>
vars == <<threads, mutex, seq, down, up, socket, reg, early, lost, calls, during, history>>

Init ==
    /\ pc = [t \in Threads |-> "idle"]
    /\ poke = [t \in Threads |-> 0] /\ id = [t \in Threads |-> 0]
    /\ tries = [t \in Threads |-> 0]
    /\ mutex = Nobody
    /\ seq = 0
    /\ down = <<>> /\ up = <<>> /\ socket = <<>>
    /\ reg = 0
    /\ early = 0 /\ lost = 0 /\ calls = 0
    /\ during = [t \in Threads |-> {}]
    /\ done = {} /\ misread = FALSE

-----------------------------------------------------------------------------
(* The host.                                                               *)

\* peek32() and poke32()
Call(t) ==
    /\ pc[t] = "idle" /\ calls < MaxCalls
    /\ pc' = [pc EXCEPT ![t] = "ready"]
    /\ \E v \in Values \cup {0} : poke' = [poke EXCEPT ![t] = v]
    /\ calls' = calls + 1
    /\ id' = [id EXCEPT ![t] = calls + 1]
    /\ tries' = [tries EXCEPT ![t] = 0]
    /\ during' = [during EXCEPT ![t] = {reg}]
    /\ UNCHANGED <<mutex, seq, down, up, socket, reg, early, lost, history>>

\* __peek32(), __poke32() and ctrl_send_and_recv_internal() up to the wait
Attempt(t) ==
    /\ pc[t] = "ready" /\ mutex \in {Nobody, t}
    /\ mutex' = t
    /\ seq' = seq + 1
    /\ socket' = IF Usrp2 THEN socket ELSE <<>>
    /\ down' = Append(down, [seq |-> seq + 1, poke |-> poke[t], call |-> id[t]])
    /\ pc' = [pc EXCEPT ![t] = "wait"]
    /\ UNCHANGED <<poke, id, tries, up, reg, early, lost, calls, during, history>>

\* Any reply will do.
BugMatches(reply) == TRUE

Matches(reply) == reply.seq = seq

Return(t) ==
    /\ pc[t] = "wait" /\ socket # <<>>
    /\ LET reply == Head(socket)
       IN  /\ Matches(reply)
           /\ misread' = (misread \/ (poke[t] = 0 /\ reply.data \notin during[t]))
    /\ socket' = Tail(socket)
    /\ mutex' = Nobody
    /\ pc' = [pc EXCEPT ![t] = "idle"]
    /\ done' = done \cup {id[t]}
    /\ UNCHANGED <<poke, id, tries, seq, down, up, reg, early, lost, calls, during>>

\* The USRP2's code goes on looking.
Skip(t) ==
    /\ Usrp2
    /\ pc[t] = "wait" /\ socket # <<>> /\ ~Matches(Head(socket))
    /\ socket' = Tail(socket)
    /\ UNCHANGED <<threads, mutex, seq, down, up, reg, early, lost, calls, during, history>>

Last(n) == n + 1 = NumRetries

\* Who has the mutex after an attempt of t that failed
Holder(t) == IF Usrp2 /\ ~Last(tries[t]) THEN t ELSE Nobody

\* The attempt of t has failed.
Fail(t) ==
    /\ tries' = [tries EXCEPT ![t] = @ + 1]
    /\ pc' = [pc EXCEPT ![t] = IF Last(tries[t]) THEN "idle" ELSE "ready"]
    /\ mutex' = Holder(t)
    /\ UNCHANGED <<poke, id, seq, down, up, reg, lost, calls, during, history>>

\* The assertions of the X300's code
WrongReply(t) ==
    /\ ~Usrp2
    /\ pc[t] = "wait" /\ socket # <<>> /\ ~Matches(Head(socket))
    /\ socket' = Tail(socket)
    /\ UNCHANGED early
    /\ Fail(t)

NoReply(t) ==
    /\ pc[t] = "wait" /\ socket = <<>>
    /\ LET toCome == <<down, up>> # <<<<>>, <<>>>>
       IN  /\ toCome => early < MaxEarly
           /\ early' = IF toCome THEN early + 1 ELSE early
    /\ UNCHANGED socket
    /\ Fail(t)

-----------------------------------------------------------------------------
(* The device and the network.                                             *)

\* handle_udp_fw_comms(), handle_udp_ctrl_packet()
Serve ==
    /\ down # <<>>
    /\ LET request == Head(down)
           value   == IF request.poke # 0 THEN request.poke ELSE reg
       IN  /\ reg' = value
           /\ up' = Append(up, [seq |-> request.seq, data |-> value])
           /\ during' = [t \in Threads |->
                            IF pc[t] = "idle" THEN during[t] ELSE during[t] \cup {value}]
    /\ down' = Tail(down)
    /\ UNCHANGED <<threads, mutex, seq, socket, early, lost, calls, history>>

Deliver ==
    /\ up # <<>>
    /\ socket' = Append(socket, Head(up))
    /\ up' = Tail(up)
    /\ UNCHANGED <<threads, mutex, seq, down, reg, early, lost, calls, during, history>>

Lose ==
    /\ lost < MaxLost
    /\ \/ down # <<>> /\ down' = Tail(down) /\ UNCHANGED up
       \/ up # <<>> /\ up' = Tail(up) /\ UNCHANGED down
    /\ lost' = lost + 1
    /\ UNCHANGED <<threads, mutex, seq, socket, reg, early, calls, during, history>>

Next ==
    \/ \E t \in Threads :
           \/ Call(t) \/ Attempt(t) \/ Return(t)
           \/ Skip(t) \/ WrongReply(t) \/ NoReply(t)
    \/ Serve \/ Deliver \/ Lose

Spec == Init /\ [][Next]_vars

-----------------------------------------------------------------------------
(* Properties.                                                             *)

\* A peek returns a value that the register has had since the call began, whatever
\* replies of earlier attempts and calls come late.
PeekTrue == ~misread

\* A call that has returned has nothing left under way that writes the register: the
\* attempts that it gave up are lost or done.
OnlyCurrent ==
    [][reg' # reg => Head(down).call \notin done]_vars
=============================================================================
