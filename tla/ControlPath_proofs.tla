------------------------- MODULE ControlPath_proofs -------------------------
(***************************************************************************)
(* Proofs about the control paths, for every window, numbering, size and   *)
(* network: RadioCtrlCore first, then the other specifications that        *)
(* MCControlPath chooses from, FifoCtrl, FirmwareControl, SoftTimeCtrl and *)
(* DeviceClaim, as steps of PathSpec.                                      *)
(*                                                                         *)
(* RadioCtrlCore: there are never more answers to come than the host has   *)
(* room for, a network that loses and delays nothing makes no call throw,  *)
(* a peek gets its own answer and a lost poke is reported.                 *)
(***************************************************************************)
EXTENDS MCControlPath, FiniteSetTheorems, SequenceTheorems, TLAPS

-----------------------------------------------------------------------------
(* Types.                                                                  *)

LEMMA AppendNat ==
  \A q \in Seq(Nat) : \A x \in Nat :
    /\ Append(q, x) \in Seq(Nat) /\ Append(q, x) # <<>>
    /\ Len(Append(q, x)) = Len(q) + 1
    /\ Append(q, x) = q \o <<x>>
<1>. TAKE q \in Seq(Nat), x \in Nat
<1>1. /\ Append(q, x) \in Seq(Nat) /\ Append(q, x) # <<>>
      /\ Len(Append(q, x)) = Len(q) + 1
  BY AppendProperties, Zenon
<1>2. Append(q, x) = q \o <<x>>
  OBVIOUS
<1>. QED
  BY <1>1, <1>2

\* The task holds one message at most, and pushes it to a core that it has locked.
TaskHoldsOne ==
    /\ task = {} \/ \E t : task = {t}
    /\ \A t \in task : t.pushed => t.locked

IInv == TypeOK /\ TaskHoldsOne

LEMMA InitIInv == Init => IInv
<1>. SUFFICES ASSUME Init PROVE IInv
  OBVIOUS
<1>1. <<>> \in Seq(Nat)
  OBVIOUS
<1>2. answer \in [asked : Int, got : Int]
  BY DEF Init
<1>3. task \in SUBSET [seq : Nat, locked : BOOLEAN, pushed : BOOLEAN]
  BY DEF Init
<1>4. TaskHoldsOne
  BY DEF Init, TaskHoldsOne
<1>5. /\ direct \in BOOLEAN /\ inTask \in BOOLEAN /\ life \in Lives
      /\ op \in {"none", "poke", "peek"}
  BY DEF Init, Lives
<1>6. /\ outstanding \in Seq(Nat) /\ cmds \in Seq(Nat) /\ resps \in Seq(Nat)
      /\ respQueue \in Seq(Nat) /\ dumpQueue \in Seq(Nat)
  BY <1>1 DEF Init
<1>. QED
  BY <1>2, <1>3, <1>4, <1>5, <1>6 DEF Init, IInv, TypeOK

\* What a call leaves in outstanding', toAck' and op'.
LEMMA LoopTypes ==
  ASSUME TypeOK, NEW call \in {"poke", "peek"}, NEW out \in Seq(Nat),
         out # <<>> \/ ~MustWait(call, out), Loop(call, out)
  PROVE  outstanding' \in Seq(Nat) /\ toAck' \in Nat /\ op' \in {"none", "poke", "peek"}
<1>1. CASE MustWait(call, out)
  BY <1>1 DEF Loop
<1>2. CASE ~MustWait(call, out)
  BY <1>2 DEF Loop, TypeOK
<1>. QED
  BY <1>1, <1>2

\* The task's set of what it has to push is empty or holds its message.
LEMMA TakeAnswerTypes ==
  ASSUME TypeOK, TakeAnswer
  PROVE  /\ resps' \in Seq(Nat) /\ respQueue' \in Seq(Nat) /\ dumpQueue' \in Seq(Nat)
         /\ Head(Coming) \in Nat
         /\ Len(resps') + Len(respQueue') + Len(dumpQueue')
              = Len(resps) + Len(respQueue) + Len(dumpQueue) - 1
<1>. USE DEF TypeOK
<1>1. CASE direct
  <2>1. resps # <<>> /\ resps' = Tail(resps) /\ Head(Coming) = Head(resps)
        /\ respQueue' = respQueue /\ dumpQueue' = dumpQueue
    BY <1>1 DEF TakeAnswer, Coming
  <2>. QED
    BY <2>1
<1>2. CASE ~direct /\ respQueue # <<>>
  <2>1. respQueue' = Tail(respQueue) /\ Head(Coming) = Head(respQueue)
        /\ resps' = resps /\ dumpQueue' = dumpQueue
    BY <1>2 DEF TakeAnswer, Coming
  <2>. QED
    BY <1>2, <2>1
<1>3. CASE ~direct /\ respQueue = <<>>
  <2>1. dumpQueue # <<>> /\ dumpQueue' = Tail(dumpQueue) /\ Head(Coming) = Head(dumpQueue)
        /\ resps' = resps /\ respQueue' = respQueue
    BY <1>3 DEF TakeAnswer, Coming
  <2>. QED
    BY <2>1
<1>. QED
  BY <1>1, <1>2, <1>3

\* A peek waits even with nothing outstanding, but only when something is.
LEMMA AckLoops ==
  ASSUME TypeOK, Ack
  PROVE  /\ op \in {"poke", "peek"}
         /\ \/ /\ outstanding = <<>>
               /\ op' = "none" /\ outstanding' = <<>> /\ toAck' = toAck
            \/ /\ outstanding # <<>> \/ ~MustWait(op, outstanding)
               /\ Loop(op, outstanding)
<1>1. op \in {"poke", "peek"}
  BY DEF Ack, TypeOK
<1>2. CASE op = "peek" /\ outstanding = <<>>
  BY <1>1, <1>2 DEF Ack, AfterAck
<1>3. CASE ~(op = "peek" /\ outstanding = <<>>)
  <2>1. Loop(op, outstanding)
    BY <1>3 DEF Ack, AfterAck
  <2>2. outstanding = <<>> => op = "poke" /\ ~MustWait(op, outstanding)
    BY <1>1, <1>3, ConstantsAssumption DEF MustWait
  <2>. QED
    BY <1>1, <2>1, <2>2
<1>. QED
  BY <1>2, <1>3

LEMMA IInvNext == IInv /\ [Next]_vars => IInv'
<1>. SUFFICES ASSUME IInv, [Next]_vars PROVE IInv'
  OBVIOUS
<1>. USE DEF IInv, TypeOK, Lives
<1>1. CASE UNCHANGED vars
  BY <1>1 DEF vars, corevars, TaskHoldsOne
<1>2. ASSUME NEW call \in {"poke", "peek"}, Send(call), life' \in Lives PROVE IInv'
  <2>1. Append(outstanding, seqOut) \in Seq(Nat) /\ Append(outstanding, seqOut) # <<>>
    BY AppendNat
  <2>2. outstanding' \in Seq(Nat) /\ toAck' \in Nat /\ op' \in {"none", "poke", "peek"}
    BY <1>2, <2>1, LoopTypes DEF Send
  <2>3. cmds' \in Seq(Nat) /\ seqOut' \in Nat
    BY <1>2 DEF Send
  <2>. QED
    BY <1>2, <2>2, <2>3 DEF Send, TaskHoldsOne
<1>3. CASE Ack
  <2>1. /\ resps' \in Seq(Nat) /\ respQueue' \in Seq(Nat) /\ dumpQueue' \in Seq(Nat)
        /\ Head(Coming) \in Nat
    BY <1>3, TakeAnswerTypes DEF Ack
  <2>2. outstanding' \in Seq(Nat) /\ toAck' \in Nat /\ op' \in {"none", "poke", "peek"}
    <3>1. CASE op' = "none" /\ outstanding' = <<>> /\ toAck' = toAck
      BY <3>1
    <3>2. CASE (outstanding # <<>> \/ ~MustWait(op, outstanding)) /\ Loop(op, outstanding)
      BY <1>3, <3>2, AckLoops, LoopTypes
    <3>. QED
      BY <1>3, <3>1, <3>2, AckLoops
  <2>3. answer' \in [asked : Int, got : Int]
    BY <1>3, <2>1 DEF Ack
  <2>4. life' \in Lives
    BY <1>3 DEF Ack, LifeAfterCall
  <2>. QED
    BY <1>3, <2>1, <2>2, <2>3, <2>4 DEF Ack, TaskHoldsOne
<1>4. CASE Mismatch
  <2>1. resps' \in Seq(Nat) /\ respQueue' \in Seq(Nat) /\ dumpQueue' \in Seq(Nat)
    BY <1>4, TakeAnswerTypes DEF Mismatch
  <2>. QED
    BY <1>4, <2>1 DEF Mismatch, Throw, LifeAfterCall, TaskHoldsOne
<1>5. CASE Timeout
  <2>1. late' \in Nat
    BY <1>5 DEF Timeout
  <2>2. life' \in Lives
    BY <1>5 DEF Timeout, Throw, LifeAfterCall
  <2>. QED
    BY <1>5, <2>1, <2>2 DEF Timeout, Throw, TaskHoldsOne
<1>6. CASE Release
  BY <1>6 DEF Release, corevars, TaskHoldsOne
<1>7. CASE DestructorPeek
  <2>1. Append(outstanding, seqOut) \in Seq(Nat) /\ Append(outstanding, seqOut) # <<>>
    BY AppendNat
  <2>2. outstanding' \in Seq(Nat) /\ toAck' \in Nat /\ op' \in {"none", "poke", "peek"}
    BY <1>7, <2>1, LoopTypes DEF DestructorPeek
  <2>3. cmds' \in Seq(Nat) /\ seqOut' \in Nat
    BY <1>7 DEF DestructorPeek
  <2>. QED
    BY <1>7, <2>2, <2>3 DEF DestructorPeek, TaskHoldsOne
<1>8. CASE TaskTake
  <2>1. Head(resps) \in Nat /\ resps' \in Seq(Nat)
    BY <1>8 DEF TaskTake
  <2>2. task' \in SUBSET [seq : Nat, locked : BOOLEAN, pushed : BOOLEAN]
    BY <1>8, <2>1 DEF TaskTake
  <2>3. TaskHoldsOne'
    <3>. DEFINE m == [seq |-> Head(resps), locked |-> life = "alive", pushed |-> FALSE]
    <3>1. task' = {m} /\ m.pushed = FALSE
      BY <1>8 DEF TaskTake
    <3>. QED
      BY <3>1 DEF TaskHoldsOne
  <2>. QED
    BY <1>8, <2>1, <2>2, <2>3 DEF TaskTake, corevars
<1>9. CASE TaskPush
  <2>1. PICK t \in task :
          /\ t.locked
          /\ respQueue' = IF Len(respQueue) < RespDepth THEN Append(respQueue, t.seq)
                          ELSE respQueue
          /\ task' = {[t EXCEPT !.pushed = TRUE]}
    BY <1>9 DEF TaskPush
  <2>2. t \in [seq : Nat, locked : BOOLEAN, pushed : BOOLEAN]
    OBVIOUS
  <2>3. respQueue' \in Seq(Nat)
    BY <2>1, <2>2
  <2>4. task' \in SUBSET [seq : Nat, locked : BOOLEAN, pushed : BOOLEAN]
    BY <2>1, <2>2
  <2>5. TaskHoldsOne'
    BY <2>1, <2>2 DEF TaskHoldsOne
  <2>. QED
    BY <1>9, <2>3, <2>4, <2>5 DEF TaskPush, corevars
<1>10. CASE TaskUnlock
  <2>1. inTask' \in BOOLEAN
    BY <1>10 DEF TaskUnlock
  <2>. QED
    BY <1>10, <2>1 DEF TaskUnlock, corevars, TaskHoldsOne
<1>11. CASE TaskDump
  <2>1. PICK t \in task : dumpQueue' = Append(dumpQueue, t.seq)
    BY <1>11 DEF TaskDump
  <2>2. dumpQueue' \in Seq(Nat)
    BY <2>1
  <2>. QED
    BY <1>11, <2>2 DEF TaskDump, corevars, TaskHoldsOne
<1>12. CASE Execute
  <2>1. Head(cmds) \in Nat /\ cmds' \in Seq(Nat) /\ resps' \in Seq(Nat)
    BY <1>12 DEF Execute
  <2>. QED
    BY <1>12, <2>1 DEF Execute, corevars, TaskHoldsOne
<1>13. CASE LoseCommand
  <2>1. cmds' \in Seq(Nat) /\ lost' \in Nat
    BY <1>13 DEF LoseCommand
  <2>. QED
    BY <1>13, <2>1 DEF LoseCommand, corevars, TaskHoldsOne
<1>14. CASE LoseAnswer
  <2>1. resps' \in Seq(Nat) /\ lost' \in Nat
    BY <1>14 DEF LoseAnswer
  <2>. QED
    BY <1>14, <2>1 DEF LoseAnswer, corevars, TaskHoldsOne
<1>. QED
  BY <1>1, <1>2, <1>3, <1>4, <1>5, <1>6, <1>7, <1>8, <1>9, <1>10, <1>11, <1>12,
     <1>13, <1>14 DEF Next, TaskStep, Poke, Peek

\* Whatever is lost or late, the queues hold numbers of commands, and the task one
\* answer at most.
THEOREM CoreTypeCorrect == Spec => []IInv
BY InitIInv, IInvNext, PTL DEF Spec

-----------------------------------------------------------------------------
(* Numbers of commands.                                                    *)

Increasing(q) == \A i, j \in 1 .. Len(q) : i < j => q[i] < q[j]

Below(q, n) == \A i \in 1 .. Len(q) : q[i] < n

Above(q, n) == \A i \in 1 .. Len(q) : n < q[i]

\* Commands are taken from _outstanding_seqs in the order of their numbers, and
\* what a call has thrown for is behind all that is waited for.
Numbers ==
    /\ Increasing(outstanding) /\ Below(outstanding, seqOut)
    /\ op # "none" => toAck < seqOut /\ Above(outstanding, toAck)
    /\ \A x \in reported :
         x < seqOut /\ Above(outstanding, x) /\ (op # "none" => x < toAck)

LEMMA TailNumbers ==
  ASSUME NEW q \in Seq(Nat), q # <<>>, Increasing(q)
  PROVE  /\ Tail(q) \in Seq(Nat) /\ Head(q) \in Nat /\ Increasing(Tail(q))
         /\ Above(Tail(q), Head(q))
         /\ \A n \in Nat : Below(q, n) => Below(Tail(q), n) /\ Head(q) < n
         /\ \A n \in Nat : Above(q, n) => Above(Tail(q), n) /\ n < Head(q)
<1>1. /\ Tail(q) \in Seq(Nat) /\ Head(q) \in Nat /\ Head(q) = q[1]
      /\ Len(q) \in Nat \ {0} /\ Len(Tail(q)) = Len(q) - 1
      /\ \A i \in 1 .. Len(Tail(q)) : Tail(q)[i] = q[i + 1] /\ i + 1 \in 1 .. Len(q)
  OBVIOUS
<1>2. 1 \in 1 .. Len(q)
  BY <1>1
<1>3. Increasing(Tail(q))
  BY <1>1 DEF Increasing
<1>4. Above(Tail(q), Head(q))
  BY <1>1, <1>2 DEF Increasing, Above
<1>5. \A n \in Nat : Below(q, n) => Below(Tail(q), n) /\ Head(q) < n
  BY <1>1, <1>2 DEF Below
<1>6. \A n \in Nat : Above(q, n) => Above(Tail(q), n) /\ n < Head(q)
  BY <1>1, <1>2 DEF Above
<1>. QED
  BY <1>1, <1>3, <1>4, <1>5, <1>6

LEMMA AppendNumbers ==
  ASSUME NEW q \in Seq(Nat), NEW n \in Nat, Increasing(q), Below(q, n)
  PROVE  /\ Increasing(Append(q, n)) /\ Below(Append(q, n), n + 1)
         /\ \A x \in Nat : Above(q, x) /\ x < n => Above(Append(q, n), x)
<1>1. /\ Len(Append(q, n)) = Len(q) + 1 /\ Len(q) \in Nat
      /\ \A i \in 1 .. Len(q) : Append(q, n)[i] = q[i] /\ q[i] \in Nat
      /\ Append(q, n)[Len(q) + 1] = n
  OBVIOUS
<1>2. \A i \in 1 .. Len(q) + 1 : i \in 1 .. Len(q) \/ i = Len(q) + 1
  BY <1>1
<1>3. Increasing(Append(q, n))
  BY <1>1, <1>2 DEF Increasing, Below
<1>4. Below(Append(q, n), n + 1)
  BY <1>1, <1>2 DEF Below
<1>5. \A x \in Nat : Above(q, x) /\ x < n => Above(Append(q, n), x)
  BY <1>1, <1>2 DEF Above
<1>. QED
  BY <1>3, <1>4, <1>5

\* A call goes on with the oldest of the commands `out'.
LEMMA LoopNumbers ==
  ASSUME TypeOK, NEW call \in {"poke", "peek"}, NEW out \in Seq(Nat),
         out # <<>> \/ ~MustWait(call, out), Loop(call, out),
         Increasing(out), Below(out, seqOut'), seqOut' \in Nat, reported' = reported,
         \A x \in reported : x < seqOut' /\ Above(out, x)
  PROVE  Numbers'
<1>1. CASE MustWait(call, out)
  <2>1. outstanding' = Tail(out) /\ toAck' = Head(out) /\ out # <<>>
    BY <1>1 DEF Loop
  <2>2. /\ Increasing(Tail(out)) /\ Below(Tail(out), seqOut') /\ Head(out) < seqOut'
        /\ Above(Tail(out), Head(out))
    BY <2>1, TailNumbers
  <2>3. \A x \in reported : Above(Tail(out), x) /\ x < Head(out)
    BY <2>1, TailNumbers DEF TypeOK
  <2>4. Increasing(outstanding') /\ Below(outstanding', seqOut')
    BY <2>1, <2>2
  <2>5. toAck' < seqOut' /\ Above(outstanding', toAck')
    BY <2>1, <2>2
  <2>6. \A x \in reported' : x < seqOut' /\ Above(outstanding', x) /\ x < toAck'
    BY <2>1, <2>3
  <2>. QED
    BY <2>4, <2>5, <2>6 DEF Numbers, Increasing, Below, Above
<1>2. CASE ~MustWait(call, out)
  <2>1. outstanding' = out /\ op' = "none"
    BY <1>2 DEF Loop
  <2>. QED
    BY <2>1 DEF Numbers, Increasing, Below, Above
<1>. QED
  BY <1>1, <1>2

LEMMA SendNumbers ==
  ASSUME IInv, Numbers, NEW call \in {"poke", "peek"}, seqOut' = seqOut + 1,
         Loop(call, Append(outstanding, seqOut)), reported' = reported
  PROVE  Numbers'
<1>1. /\ outstanding \in Seq(Nat) /\ seqOut \in Nat /\ reported \subseteq Nat
      /\ Increasing(outstanding) /\ Below(outstanding, seqOut)
      /\ \A x \in reported : x < seqOut /\ Above(outstanding, x)
  BY DEF IInv, TypeOK, Numbers
<1>2. /\ Append(outstanding, seqOut) \in Seq(Nat) /\ Append(outstanding, seqOut) # <<>>
  BY <1>1, AppendNat
<1>3. /\ Increasing(Append(outstanding, seqOut))
      /\ Below(Append(outstanding, seqOut), seqOut + 1)
      /\ \A x \in reported : Above(Append(outstanding, seqOut), x)
  BY <1>1, AppendNumbers
<1>4. seqOut' \in Nat /\ \A x \in reported : x < seqOut'
  BY <1>1
<1>. QED
  BY <1>2, <1>3, <1>4, LoopNumbers DEF IInv

LEMMA ThrowNumbers ==
  ASSUME IInv, Numbers, op # "none", Throw
  PROVE  Numbers' /\ toAck \notin reported
<1>1. /\ op' = "none" /\ reported' = reported \cup {toAck}
      /\ outstanding' = outstanding /\ seqOut' = seqOut
  BY DEF Throw
<1>2. toAck \notin reported
  BY DEF Numbers, IInv, TypeOK
<1>3. \A x \in reported' : x < seqOut /\ Above(outstanding, x)
  BY <1>1 DEF Numbers
<1>. QED
  BY <1>1, <1>2, <1>3 DEF Numbers, Increasing, Below, Above

LEMMA AckNumbers ==
  ASSUME IInv, Numbers, Ack
  PROVE  Numbers'
<1>1. op # "none" /\ op \in {"poke", "peek"} /\ seqOut' = seqOut /\ reported' = reported
  BY DEF Ack, IInv, TypeOK
<1>2. CASE op' = "none" /\ outstanding' = <<>>
  <2>1. Len(outstanding') = 0
    BY <1>2
  <2>. QED
    BY <1>1, <1>2, <2>1 DEF Numbers, Increasing, Below, Above, IInv, TypeOK
<1>3. CASE (outstanding # <<>> \/ ~MustWait(op, outstanding)) /\ Loop(op, outstanding)
  <2>1. Increasing(outstanding) /\ Below(outstanding, seqOut')
    BY <1>1 DEF Numbers
  <2>2. \A x \in reported : x < seqOut' /\ Above(outstanding, x)
    BY <1>1 DEF Numbers
  <2>3. outstanding \in Seq(Nat) /\ seqOut' \in Nat
    BY <1>1 DEF IInv, TypeOK
  <2>. QED
    BY <1>1, <1>3, <2>1, <2>2, <2>3, LoopNumbers DEF IInv
<1>. QED
  BY <1>2, <1>3, AckLoops DEF IInv

LEMMA NumbersNext == IInv /\ Numbers /\ [Next]_vars => Numbers'
<1>. SUFFICES ASSUME IInv, Numbers, [Next]_vars PROVE Numbers'
  OBVIOUS
<1>1. CASE UNCHANGED <<seqOut, outstanding, op, toAck, reported>>
  BY <1>1 DEF Numbers, Increasing, Below, Above
<1>2. CASE Poke \/ Peek
  BY <1>2, SendNumbers DEF Poke, Peek, Send
<1>3. CASE DestructorPeek
  BY <1>3, SendNumbers DEF DestructorPeek
<1>4. CASE Mismatch \/ Timeout
  BY <1>4, ThrowNumbers DEF Mismatch, Timeout
<1>5. CASE Release \/ TaskStep \/ Execute \/ LoseCommand \/ LoseAnswer \/ UNCHANGED vars
  BY <1>1, <1>5 DEF Release, TaskStep, TaskTake, TaskPush, TaskUnlock, TaskDump,
     Execute, LoseCommand, LoseAnswer, vars, corevars
<1>. QED
  BY <1>2, <1>3, <1>4, <1>5, AckNumbers DEF Next

-----------------------------------------------------------------------------
(* Responses fit.                                                          *)

\* Commands whose answer is still to be waited for.
Unacked == Len(outstanding) + (IF op = "none" THEN 0 ELSE 1)

Fits ==
    /\ Len(outstanding) < RespWindow
    /\ IsFiniteSet(reported)
    /\ ToCome <= Unacked + Cardinality(reported)

\* Whether the task has an answer to push.
InHand == IF \E t \in task : ~t.pushed THEN 1 ELSE 0

CountedToCome ==
    /\ ToCome = Len(cmds) + Len(resps) + Len(respQueue) + Len(dumpQueue) + InHand
    /\ ToCome \in Nat

LEMMA ToComeCounted == IInv => CountedToCome
<1>. SUFFICES ASSUME IInv PROVE CountedToCome
  OBVIOUS
<1>1. Cardinality({t \in task : ~t.pushed}) = InHand
  <2>1. CASE {t \in task : ~t.pushed} = {}
    BY <2>1, FS_EmptySet DEF InHand
  <2>2. CASE {t \in task : ~t.pushed} # {}
    <3>1. PICK t : {u \in task : ~u.pushed} = {t}
      BY <2>2 DEF IInv, TaskHoldsOne
    <3>. QED
      BY <3>1, FS_Singleton DEF InHand
  <2>. QED
    BY <2>1, <2>2
<1>2. /\ Len(cmds) \in Nat /\ Len(resps) \in Nat /\ Len(respQueue) \in Nat
      /\ Len(dumpQueue) \in Nat /\ InHand \in 0 .. 1
  BY DEF IInv, TypeOK, InHand
<1>. QED
  BY <1>1, <1>2 DEF CountedToCome, ToCome

LEMMA ToComeCountedNext == IInv' => CountedToCome'
BY ToComeCounted, PTL

LEMMA LensNat ==
  ASSUME IInv
  PROVE  /\ Len(cmds) \in Nat /\ Len(resps) \in Nat /\ Len(respQueue) \in Nat
         /\ Len(dumpQueue) \in Nat /\ InHand \in 0 .. 1
         /\ (UNCHANGED task => InHand' = InHand)
BY DEF IInv, TypeOK, InHand

LEMMA LoopUnacked ==
  ASSUME TypeOK, NEW call \in {"poke", "peek"}, NEW out \in Seq(Nat),
         out # <<>> \/ ~MustWait(call, out), Loop(call, out), Len(out) <= RespWindow
  PROVE  Unacked' = Len(out) /\ Len(outstanding') < RespWindow
<1>1. CASE MustWait(call, out)
  <2>1. outstanding' = Tail(out) /\ op' = call /\ out # <<>>
    BY <1>1 DEF Loop
  <2>2. out # <<>> => Len(Tail(out)) = Len(out) - 1
    OBVIOUS
  <2>3. Len(outstanding') = Len(out) - 1 /\ op' # "none"
    BY <2>1, <2>2
  <2>4. Len(out) \in Nat /\ RespWindow \in Nat
    BY ConstantsAssumption
  <2>5. Unacked' = Len(outstanding') + 1
    BY <2>3 DEF Unacked
  <2>. QED
    BY <2>3, <2>4, <2>5
<1>2. CASE ~MustWait(call, out)
  <2>1. outstanding' = out /\ op' = "none"
    BY <1>2 DEF Loop
  <2>. QED
    BY <1>2, <2>1, ConstantsAssumption DEF Unacked, MustWait
<1>. QED
  BY <1>1, <1>2

LEMMA SendFits ==
  ASSUME IInv, IInv', Fits, op = "none", NEW call \in {"poke", "peek"},
         Loop(call, Append(outstanding, seqOut)), cmds' = Append(cmds, seqOut),
         UNCHANGED <<resps, respQueue, dumpQueue, task, reported>>
  PROVE  Fits'
<1>1. /\ outstanding \in Seq(Nat) /\ seqOut \in Nat /\ cmds \in Seq(Nat)
      /\ Len(outstanding) \in Nat /\ RespWindow \in Nat
  BY ConstantsAssumption DEF IInv, TypeOK
<1>2. /\ Append(outstanding, seqOut) \in Seq(Nat) /\ Append(outstanding, seqOut) # <<>>
      /\ Len(Append(outstanding, seqOut)) = Len(outstanding) + 1
      /\ Len(Append(cmds, seqOut)) = Len(cmds) + 1
  BY <1>1, AppendNat
<1>3. Unacked' = Unacked + 1 /\ Len(outstanding') < RespWindow /\ Unacked \in Nat
  <2>1. Len(outstanding) + 1 <= RespWindow
    BY <1>1 DEF Fits
  <2>2. Unacked' = Len(outstanding) + 1 /\ Len(outstanding') < RespWindow
    BY <1>2, <2>1, LoopUnacked DEF IInv
  <2>. QED
    BY <1>1, <2>2 DEF Unacked
<1>4. ToCome' = ToCome + 1 /\ ToCome \in Nat
  <2>1. Len(cmds') = Len(cmds) + 1
    BY <1>2
  <2>2. CountedToCome /\ CountedToCome' /\ InHand' = InHand
    BY ToComeCounted, ToComeCountedNext DEF InHand
  <2>3. /\ Len(cmds) \in Nat /\ Len(resps) \in Nat /\ Len(respQueue) \in Nat
        /\ Len(dumpQueue) \in Nat /\ InHand \in 0 .. 1
    BY DEF IInv, TypeOK, InHand
  <2>. QED
    BY <2>1, <2>2, <2>3 DEF CountedToCome
<1>5. Cardinality(reported) \in Nat
  BY FS_CardinalityType DEF Fits
<1>. QED
  BY <1>3, <1>4, <1>5 DEF Fits

\* An answer is taken.
LEMMA TakeFits ==
  ASSUME IInv, IInv', TakeAnswer, UNCHANGED <<cmds, task>>
  PROVE  ToCome' = ToCome - 1
<1>1. CountedToCome /\ CountedToCome' /\ InHand' = InHand /\ cmds' = cmds
  BY ToComeCounted, ToComeCountedNext DEF InHand
<1>2. /\ Len(resps') + Len(respQueue') + Len(dumpQueue')
           = Len(resps) + Len(respQueue) + Len(dumpQueue) - 1
      /\ Len(resps) \in Nat /\ Len(respQueue) \in Nat /\ Len(dumpQueue) \in Nat
      /\ Len(resps') \in Nat /\ Len(respQueue') \in Nat /\ Len(dumpQueue') \in Nat
      /\ Len(cmds) \in Nat /\ InHand \in 0 .. 1
  <2>1. TypeOK /\ TypeOK'
    BY DEF IInv
  <2>2. Len(resps') + Len(respQueue') + Len(dumpQueue')
          = Len(resps) + Len(respQueue) + Len(dumpQueue) - 1
    BY <2>1, TakeAnswerTypes
  <2>. QED
    <3>1. resps \in Seq(Nat) /\ respQueue \in Seq(Nat) /\ dumpQueue \in Seq(Nat)
      BY <2>1 DEF TypeOK
    <3>2. resps' \in Seq(Nat) /\ respQueue' \in Seq(Nat) /\ dumpQueue' \in Seq(Nat)
      BY <2>1 DEF TypeOK
    <3>3. cmds \in Seq(Nat) /\ InHand \in 0 .. 1
      BY <2>1 DEF TypeOK, InHand
    <3>. QED
      BY <2>2, <3>1, <3>2, <3>3
<1>. QED
  BY <1>1, <1>2 DEF CountedToCome

LEMMA AckFits ==
  ASSUME IInv, IInv', Fits, Ack
  PROVE  Fits'
<1>1. /\ outstanding \in Seq(Nat) /\ Len(outstanding) \in Nat
      /\ RespWindow \in Nat \ {0} /\ Len(outstanding) <= RespWindow
  <2>1. outstanding \in Seq(Nat)
    BY DEF IInv, TypeOK
  <2>2. RespWindow \in Nat \ {0} /\ Len(outstanding) <= RespWindow
    BY ConstantsAssumption DEF Fits
  <2>. QED
    BY <2>1, <2>2
<1>2. op \in {"poke", "peek"} /\ Unacked = Len(outstanding) + 1
  BY AckLoops DEF Unacked, IInv
<1>3. Unacked' = Len(outstanding) /\ Len(outstanding') < RespWindow
  <2>1. CASE outstanding = <<>> /\ op' = "none" /\ outstanding' = <<>>
    BY <1>1, <2>1 DEF Unacked
  <2>2. CASE (outstanding # <<>> \/ ~MustWait(op, outstanding)) /\ Loop(op, outstanding)
    BY <1>1, <1>2, <2>2, LoopUnacked DEF IInv
  <2>. QED
    BY <2>1, <2>2, AckLoops DEF IInv
<1>4. ToCome' = ToCome - 1 /\ reported' = reported
  BY TakeFits DEF Ack
<1>5. Cardinality(reported) \in Nat /\ ToCome \in Nat
  BY FS_CardinalityType, ToComeCounted DEF Fits, CountedToCome
<1>. QED
  BY <1>1, <1>2, <1>3, <1>4, <1>5 DEF Fits

\* A call throws, for a number that no other has thrown for.
LEMMA ThrowFits ==
  ASSUME IInv, Numbers, Fits, op # "none", Throw, ToCome' \in Nat, ToCome' <= ToCome
  PROVE  Fits'
<1>1. /\ op' = "none" /\ reported' = reported \cup {toAck} /\ outstanding' = outstanding
      /\ toAck \notin reported /\ Len(outstanding) \in Nat
  BY ThrowNumbers DEF Throw, IInv, TypeOK
<1>2. IsFiniteSet(reported') /\ Cardinality(reported') = Cardinality(reported) + 1
  BY <1>1, FS_AddElement DEF Fits
<1>3. Cardinality(reported) \in Nat /\ ToCome \in Nat
  BY FS_CardinalityType, ToComeCounted DEF Fits, CountedToCome
<1>. QED
  BY <1>1, <1>2, <1>3 DEF Fits, Unacked

\* Whatever else happens, answers to come do not become more.
LEMMA OthersFit ==
  ASSUME IInv, Fits, UNCHANGED <<outstanding, op, reported>>,
         ToCome' \in Nat, ToCome' <= ToCome
  PROVE  Fits'
<1>1. Unacked' = Unacked /\ Unacked \in Nat
  BY DEF Unacked, IInv, TypeOK
<1>2. Cardinality(reported) \in Nat /\ ToCome \in Nat
  BY FS_CardinalityType, ToComeCounted DEF Fits, CountedToCome
<1>. QED
  BY <1>1, <1>2 DEF Fits

\* What the task does.
LEMMA TaskToCome ==
  ASSUME IInv, IInv', TaskStep
  PROVE  ToCome' <= ToCome
<1>1. CountedToCome /\ CountedToCome'
  BY ToComeCounted, ToComeCountedNext
<1>2. /\ Len(cmds) \in Nat /\ Len(resps) \in Nat /\ Len(respQueue) \in Nat
      /\ Len(dumpQueue) \in Nat /\ InHand \in 0 .. 1 /\ InHand' \in 0 .. 1
  BY DEF IInv, TypeOK, InHand
<1>3. CASE TaskTake
  <2>1. /\ task = {} /\ resps # <<>> /\ resps' = Tail(resps)
        /\ UNCHANGED <<cmds, respQueue, dumpQueue>>
    BY <1>3 DEF TaskTake
  <2>2. Len(resps') = Len(resps) - 1
    BY <2>1 DEF IInv, TypeOK
  <2>. QED
    BY <1>1, <1>2, <2>1, <2>2 DEF CountedToCome
<1>4. CASE TaskPush
  <2>1. PICK t \in task :
          /\ ~t.pushed
          /\ respQueue' = IF Len(respQueue) < RespDepth THEN Append(respQueue, t.seq)
                          ELSE respQueue
          /\ task' = {[t EXCEPT !.pushed = TRUE]}
    BY <1>4 DEF TaskPush
  <2>2. UNCHANGED <<cmds, resps, dumpQueue>>
    BY <1>4 DEF TaskPush
  <2>3. t.seq \in Nat /\ [t EXCEPT !.pushed = TRUE].pushed = TRUE
    BY DEF IInv, TypeOK
  <2>4. InHand = 1 /\ InHand' = 0
    BY <2>1, <2>3 DEF InHand
  <2>5. Len(respQueue') <= Len(respQueue) + 1 /\ Len(respQueue') \in Nat
    <3>1. respQueue \in Seq(Nat) /\ Len(Append(respQueue, t.seq)) = Len(respQueue) + 1
      BY <2>3, AppendNat DEF IInv, TypeOK
    <3>. QED
      BY <2>1, <3>1
  <2>. QED
    BY <1>1, <1>2, <2>2, <2>4, <2>5 DEF CountedToCome
<1>5. CASE TaskUnlock
  <2>1. UNCHANGED <<cmds, resps, respQueue, dumpQueue>> /\ InHand' = 0
    BY <1>5 DEF TaskUnlock, InHand
  <2>. QED
    BY <1>1, <1>2, <2>1 DEF CountedToCome
<1>6. CASE TaskDump
  <2>1. PICK t \in task : ~t.locked /\ dumpQueue' = Append(dumpQueue, t.seq)
    BY <1>6 DEF TaskDump
  <2>2. UNCHANGED <<cmds, resps, respQueue>> /\ InHand' = 0 /\ InHand = 1
    BY <1>6 DEF TaskDump, InHand, IInv, TaskHoldsOne
  <2>3. t.seq \in Nat
    BY DEF IInv, TypeOK
  <2>4. Len(dumpQueue') = Len(dumpQueue) + 1
    BY <2>1, <2>3, AppendNat DEF IInv, TypeOK
  <2>. QED
    BY <1>1, <1>2, <2>2, <2>4 DEF CountedToCome
<1>. QED
  BY <1>3, <1>4, <1>5, <1>6 DEF TaskStep

LEMMA FitsNext == IInv /\ IInv' /\ Numbers /\ Fits /\ [Next]_vars => Fits'
<1>. SUFFICES ASSUME IInv, IInv', Numbers, Fits, [Next]_vars PROVE Fits'
  OBVIOUS
<1>1. CountedToCome /\ CountedToCome' /\ ToCome \in Nat /\ ToCome' \in Nat
  BY ToComeCounted, ToComeCountedNext DEF CountedToCome
<1>2. CASE Poke \/ Peek
  BY <1>2, SendFits DEF Poke, Peek, Send
<1>3. CASE DestructorPeek
  BY <1>3, SendFits DEF DestructorPeek
<1>4. CASE Mismatch
  <2>1. op # "none" /\ Throw /\ TakeAnswer /\ UNCHANGED <<cmds, task>>
    BY <1>4 DEF Mismatch, Throw
  <2>2. ToCome' <= ToCome
    BY <1>1, <2>1, TakeFits
  <2>. QED
    BY <1>1, <2>1, <2>2, ThrowFits
<1>5. CASE Timeout
  <2>1. /\ op # "none" /\ Throw
        /\ UNCHANGED <<cmds, resps, respQueue, dumpQueue, task>>
    BY <1>5 DEF Timeout, Throw
  <2>2. ToCome' <= ToCome
    BY <1>1, <2>1 DEF ToCome
  <2>. QED
    BY <1>1, <2>1, <2>2, ThrowFits
<1>6. CASE Release \/ UNCHANGED vars
  <2>1. UNCHANGED <<cmds, resps, respQueue, dumpQueue, task, outstanding, op, reported>>
    BY <1>6 DEF Release, vars, corevars
  <2>2. ToCome' <= ToCome
    BY <1>1, <2>1 DEF ToCome
  <2>. QED
    BY <1>1, <2>1, <2>2, OthersFit
<1>7. CASE TaskStep
  <2>1. UNCHANGED <<outstanding, op, reported>>
    BY <1>7 DEF TaskStep, TaskTake, TaskPush, TaskUnlock, TaskDump, corevars
  <2>. QED
    BY <1>1, <1>7, <2>1, TaskToCome, OthersFit
<1>8. CASE Execute
  <2>1. /\ cmds # <<>> /\ cmds' = Tail(cmds) /\ resps' = Append(resps, Head(cmds))
        /\ UNCHANGED <<respQueue, dumpQueue, task, outstanding, op, reported>>
    BY <1>8 DEF Execute, corevars
  <2>2. Len(cmds') = Len(cmds) - 1 /\ Len(resps') = Len(resps) + 1
    <3>1. cmds \in Seq(Nat) /\ resps \in Seq(Nat) /\ Head(cmds) \in Nat
      BY <2>1 DEF IInv, TypeOK
    <3>2. Len(Append(resps, Head(cmds))) = Len(resps) + 1
      BY <3>1, AppendNat
    <3>. QED
      BY <2>1, <3>1, <3>2
  <2>. QED
    BY <1>1, <2>1, <2>2, LensNat, OthersFit DEF CountedToCome
<1>9. CASE LoseCommand \/ LoseAnswer
  <2>1. /\ UNCHANGED <<respQueue, dumpQueue, task, outstanding, op, reported>>
        /\ \/ cmds # <<>> /\ cmds' = Tail(cmds) /\ resps' = resps
           \/ resps # <<>> /\ resps' = Tail(resps) /\ cmds' = cmds
    BY <1>9 DEF LoseCommand, LoseAnswer, corevars
  <2>2. Len(cmds') + Len(resps') = Len(cmds) + Len(resps) - 1
    <3>1. cmds # <<>> => Len(Tail(cmds)) = Len(cmds) - 1
      BY DEF IInv, TypeOK
    <3>2. resps # <<>> => Len(Tail(resps)) = Len(resps) - 1
      BY DEF IInv, TypeOK
    <3>. QED
      BY <2>1, <3>1, <3>2, LensNat
  <2>. QED
    BY <1>1, <2>1, <2>2, LensNat, OthersFit DEF CountedToCome
<1>. QED
  BY <1>2, <1>3, <1>4, <1>5, <1>6, <1>7, <1>8, <1>9, AckFits DEF Next

LEMMA InitFits == Init => Numbers /\ Fits
<1>. SUFFICES ASSUME Init PROVE Numbers /\ Fits
  OBVIOUS
<1>1. Len(outstanding) = 0
  BY DEF Init
<1>2. ToCome = 0
  <2>1. {t \in task : ~t.pushed} = {}
    BY DEF Init
  <2>. QED
    BY <2>1, FS_EmptySet DEF Init, ToCome
<1>3. Numbers
  BY <1>1 DEF Init, Numbers, Increasing, Below
<1>4. Fits
  BY <1>1, <1>2, FS_EmptySet, ConstantsAssumption DEF Init, Fits, Unacked
<1>. QED
  BY <1>3, <1>4

\* There are never more answers to come than RespWindow, and one for each call that
\* has thrown, so the transport never drops one (wait_for_ack).
THEOREM AnswersFit == Spec => []ResponsesFit
<1>1. IInv /\ Fits => ResponsesFit
  <2>. SUFFICES ASSUME IInv, Fits PROVE ResponsesFit
    OBVIOUS
  <2>1. Unacked <= RespWindow /\ Unacked \in Nat /\ RespWindow \in Nat
    BY ConstantsAssumption DEF IInv, TypeOK, Fits, Unacked
  <2>2. ToCome \in Nat /\ Cardinality(reported) \in Nat
    BY ToComeCounted, FS_CardinalityType DEF CountedToCome, Fits
  <2>. QED
    BY <2>1, <2>2 DEF Fits, ResponsesFit
<1>. QED
  BY <1>1, InitIInv, IInvNext, InitFits, NumbersNext, FitsNext, PTL DEF Spec

-----------------------------------------------------------------------------
(* No false errors.                                                        *)

LEMMA ConcatInSeq == \A p, q \in Seq(Nat) : p \o q \in Seq(Nat)
OBVIOUS

LEMMA ConcatNothing == \A q \in Seq(Nat) : <<>> \o q = q /\ q \o <<>> = q
BY ConcatEmptySeq, Zenon

LEMMA ConcatAssoc ==
  \A p, q, r \in Seq(Nat) : p \o (q \o r) = (p \o q) \o r
<1>1. \A s, t, u \in Seq(Nat) : (s \o t) \o u = s \o (t \o u)
  <2>. TAKE s, t, u \in Seq(Nat)
  <2>. QED
    BY ConcatAssociative
<1>. QED
  BY <1>1, Zenon

\* The same, for a leaf that must not compare concatenations to choose from.
Assoc(p, q, r) == p \o (q \o r) = (p \o q) \o r

LEMMA Associates == \A p, q, r \in Seq(Nat) : Assoc(p, q, r)
BY ConcatAssoc DEF Assoc

\* What is put at the end of the last of three queues comes after all of them.
LEMMA AppendedLast ==
  \A p, q, r, w \in Seq(Nat) : p \o (q \o (r \o w)) = (p \o (q \o r)) \o w
<1>. TAKE p \in Seq(Nat), q \in Seq(Nat), r \in Seq(Nat), w \in Seq(Nat)
<1>1. q \o (r \o w) = (q \o r) \o w
  BY ConcatAssoc, Zenon
<1>2. q \o r \in Seq(Nat)
  BY ConcatInSeq, Zenon
<1>3. PICK x \in Seq(Nat) : x = q \o r
  BY <1>2, Zenon
<1>4. p \o (x \o w) = (p \o x) \o w
  <2>1. Assoc(p, x, w)
    BY Associates, Zenon
  <2>. QED
    BY <2>1, Zenon DEF Assoc
<1>. QED
  BY <1>1, <1>3, <1>4, Zenon

\* A part moves from the front of one queue to the end of the queue before it.
LEMMA PassedOn ==
  \A p, q, r, w \in Seq(Nat) : (p \o q) \o (r \o w) = p \o ((q \o r) \o w)
<1>. TAKE p \in Seq(Nat), q \in Seq(Nat), r \in Seq(Nat), w \in Seq(Nat)
<1>1. r \o w \in Seq(Nat)
  BY ConcatInSeq, Zenon
<1>2. PICK x \in Seq(Nat) : x = r \o w
  BY <1>1, Zenon
<1>3. p \o (q \o x) = (p \o q) \o x
  BY ConcatAssoc, Zenon
<1>4. q \o (r \o w) = (q \o r) \o w
  BY ConcatAssoc, Zenon
<1>. QED
  BY <1>2, <1>3, <1>4, Zenon

LEMMA FirstAndRest ==
  /\ \A q \in Seq(Nat) : q # <<>> =>
       Head(q) \in Nat /\ Tail(q) \in Seq(Nat) /\ <<Head(q)>> \o Tail(q) = q
  /\ \A x \in Nat : \A q \in Seq(Nat) :
       /\ <<x>> \in Seq(Nat) /\ <<x>> \o q # <<>>
       /\ Head(<<x>> \o q) = x /\ Tail(<<x>> \o q) = q
<1>1. ASSUME NEW q \in Seq(Nat), q # <<>>
      PROVE  Head(q) \in Nat /\ Tail(q) \in Seq(Nat) /\ <<Head(q)>> \o Tail(q) = q
  <2>1. /\ Head(q) \in Nat /\ Tail(q) \in Seq(Nat) /\ <<Head(q)>> \in Seq(Nat)
        /\ Len(q) \in Nat \ {0} /\ Len(Tail(q)) = Len(q) - 1 /\ Head(q) = q[1]
        /\ \A i \in 1 .. Len(q) - 1 : Tail(q)[i] = q[i + 1]
    BY <1>1
  <2>. DEFINE w == <<Head(q)>> \o Tail(q)
  <2>2. w \in Seq(Nat) /\ Len(w) = Len(q)
    BY <2>1
  <2>3. \A i \in 1 .. Len(w) : w[i] = q[i]
    BY <2>1
  <2>4. w = q
    BY <2>2, <2>3, SeqEqual, Zenon
  <2>. QED
    BY <2>1, <2>4
<1>2. ASSUME NEW x \in Nat, NEW q \in Seq(Nat)
      PROVE  /\ <<x>> \in Seq(Nat) /\ <<x>> \o q # <<>>
             /\ Head(<<x>> \o q) = x /\ Tail(<<x>> \o q) = q
  <2>. DEFINE w == <<x>> \o q
  <2>1. /\ <<x>> \in Seq(Nat) /\ w \in Seq(Nat) /\ Len(w) = Len(q) + 1
        /\ Len(q) \in Nat /\ w[1] = x
        /\ \A i \in 1 .. Len(q) : w[i + 1] = q[i]
    OBVIOUS
  <2>2. w # <<>> /\ Head(w) = x
    BY <2>1
  <2>3. /\ Tail(w) \in Seq(Nat) /\ Len(Tail(w)) = Len(q)
        /\ \A i \in 1 .. Len(q) : Tail(w)[i] = w[i + 1]
    BY <2>1, <2>2
  <2>4. \A i \in 1 .. Len(Tail(w)) : Tail(w)[i] = q[i]
    BY <2>1, <2>3
  <2>5. Tail(w) = q
    BY <2>3, <2>4, SeqEqual, Zenon
  <2>. QED
    BY <2>1, <2>2, <2>5
<1>. QED
  BY <1>1, <1>2

\* Without loss or delay, and with the destructor in a thread of its own.
Clean == lost = 0 /\ late = 0 /\ ~inTask

\* What the task has to push, and what it has to dump.
Pushing ==
    IF \E t \in task : t.locked /\ ~t.pushed THEN <<(CHOOSE t \in task : TRUE).seq>>
    ELSE <<>>

Dumping ==
    IF \E t \in task : ~t.locked THEN <<(CHOOSE t \in task : TRUE).seq>> ELSE <<>>

\* The answers that are to come, in the order in which a wait finds them: those the
\* host has, and all.
Host == respQueue \o (Pushing \o (dumpQueue \o Dumping))

Line == Host \o (resps \o cmds)

\* The commands whose answers are waited for, in the order of the waits.
Awaited == IF op = "none" THEN outstanding ELSE <<toAck>> \o outstanding

\* The dump queue comes after the queue of the core.
DumpsLast ==
    /\ direct => respQueue = <<>> /\ dumpQueue = <<>> /\ task = {}
    /\ dumpQueue # <<>> \/ (\E t \in task : ~t.locked) => life # "alive"
    /\ (\E t \in task : t.locked) => dumpQueue = <<>>
    /\ inTask => task = {}

Orderly == DumpsLast /\ (Clean => reported = {} /\ Line = Awaited)

LEMMA DumpsLastNext == IInv /\ DumpsLast /\ [Next]_vars => DumpsLast'
<1>. SUFFICES ASSUME IInv, DumpsLast, [Next]_vars PROVE DumpsLast'
  OBVIOUS
<1>1. CASE UNCHANGED <<direct, inTask, respQueue, dumpQueue, task>>
           /\ (life # "alive" => life' # "alive")
  BY <1>1 DEF DumpsLast
<1>2. CASE Poke \/ Peek \/ DestructorPeek \/ Release \/ Execute \/ LoseCommand
           \/ LoseAnswer \/ UNCHANGED vars
  BY <1>1, <1>2 DEF Poke, Peek, DestructorPeek, Release, Execute, LoseCommand,
     LoseAnswer, Send, vars
<1>3. CASE Timeout
  BY <1>1, <1>3 DEF Timeout, Throw, LifeAfterCall
<1>4. ASSUME TakeAnswer, UNCHANGED <<direct, inTask, task>>, life # "alive" => life' # "alive"
      PROVE  DumpsLast'
  <2>1. direct => respQueue' = <<>> /\ dumpQueue' = <<>>
    BY <1>4 DEF TakeAnswer, DumpsLast
  <2>2. dumpQueue' # <<>> => dumpQueue # <<>>
    BY <1>4 DEF TakeAnswer, Coming, IInv, TypeOK
  <2>. QED
    BY <1>4, <2>1, <2>2 DEF DumpsLast
<1>5. CASE Ack
  BY <1>4, <1>5 DEF Ack, LifeAfterCall
<1>6. CASE Mismatch
  BY <1>4, <1>6 DEF Mismatch, Throw, LifeAfterCall
<1>7. CASE TaskTake
  <2>. DEFINE m == [seq |-> Head(resps), locked |-> life = "alive", pushed |-> FALSE]
  <2>1. task' = {m} /\ m.locked = (life = "alive")
    BY <1>7 DEF TaskTake
  <2>2. UNCHANGED <<direct, life, inTask, respQueue, dumpQueue>>
        /\ ~direct /\ ~inTask
    BY <1>7 DEF TaskTake
  <2>. QED
    BY <2>1, <2>2 DEF DumpsLast
<1>8. CASE TaskPush
  <2>1. PICK t \in task : t.locked /\ task' = {[t EXCEPT !.pushed = TRUE]}
    BY <1>8 DEF TaskPush
  <2>2. [t EXCEPT !.pushed = TRUE].locked
    BY <2>1 DEF IInv, TypeOK
  <2>3. UNCHANGED <<direct, life, inTask, dumpQueue>>
    BY <1>8 DEF TaskPush
  <2>. QED
    BY <2>1, <2>2, <2>3 DEF DumpsLast
<1>9. CASE TaskUnlock
  BY <1>9 DEF TaskUnlock, DumpsLast
<1>10. CASE TaskDump
  BY <1>10 DEF TaskDump, DumpsLast
<1>. QED
  BY <1>2, <1>3, <1>5, <1>6, <1>7, <1>8, <1>9, <1>10 DEF Next, TaskStep

LEMMA LineParts ==
  ASSUME IInv
  PROVE  /\ respQueue \in Seq(Nat) /\ Pushing \in Seq(Nat) /\ dumpQueue \in Seq(Nat)
         /\ Dumping \in Seq(Nat) /\ resps \in Seq(Nat) /\ cmds \in Seq(Nat)
         /\ Host \in Seq(Nat) /\ Line \in Seq(Nat)
<1>1. task # {} => (CHOOSE t \in task : TRUE) \in task
  OBVIOUS
<1>2. \A t \in task : <<t.seq>> \in Seq(Nat)
  BY DEF IInv, TypeOK
<1>3. <<>> \in Seq(Nat)
  OBVIOUS
<1>4. Pushing \in Seq(Nat) /\ Dumping \in Seq(Nat)
  BY <1>1, <1>2, <1>3 DEF Pushing, Dumping
<1>5. /\ respQueue \in Seq(Nat) /\ dumpQueue \in Seq(Nat)
      /\ resps \in Seq(Nat) /\ cmds \in Seq(Nat)
  BY DEF IInv, TypeOK
<1>6. dumpQueue \o Dumping \in Seq(Nat) /\ resps \o cmds \in Seq(Nat)
  BY <1>4, <1>5, ConcatInSeq, Zenon
<1>7. Pushing \o (dumpQueue \o Dumping) \in Seq(Nat)
  BY <1>4, <1>6, ConcatInSeq, Zenon
<1>8. Host \in Seq(Nat)
  BY <1>5, <1>7, ConcatInSeq, Zenon DEF Host
<1>9. Line \in Seq(Nat)
  BY <1>6, <1>8, ConcatInSeq, Zenon DEF Line
<1>. QED
  BY <1>4, <1>5, <1>8, <1>9

\* What the one message of the task contributes.
LEMMA OneMessage ==
  ASSUME NEW t, task = {t}
  PROVE  /\ Pushing = IF t.locked /\ ~t.pushed THEN <<t.seq>> ELSE <<>>
         /\ Dumping = IF t.locked THEN <<>> ELSE <<t.seq>>
<1>1. (CHOOSE u \in task : TRUE) = t
  OBVIOUS
<1>. QED
  BY <1>1 DEF Pushing, Dumping

LEMMA NoMessage == task = {} => Pushing = <<>> /\ Dumping = <<>>
BY DEF Pushing, Dumping

\* A call that loops goes on waiting for the same commands.
LEMMA LoopAwaits ==
  ASSUME NEW call \in {"poke", "peek"}, NEW out \in Seq(Nat),
         out # <<>> \/ ~MustWait(call, out), Loop(call, out)
  PROVE  Awaited' = out
<1>1. CASE MustWait(call, out)
  <2>1. outstanding' = Tail(out) /\ toAck' = Head(out) /\ op' = call /\ out # <<>>
    BY <1>1 DEF Loop
  <2>2. <<Head(out)>> \o Tail(out) = out
    BY <2>1, FirstAndRest
  <2>3. Awaited' = <<toAck'>> \o outstanding'
    BY <2>1 DEF Awaited
  <2>. QED
    BY <2>1, <2>2, <2>3, Zenon
<1>2. CASE ~MustWait(call, out)
  BY <1>2 DEF Loop, Awaited
<1>. QED
  BY <1>1, <1>2

\* A new command comes last.
LEMMA SentLast ==
  ASSUME IInv, cmds' = Append(cmds, seqOut), UNCHANGED <<resps, respQueue, dumpQueue, task>>
  PROVE  Line' = Line \o <<seqOut>>
<1>1. seqOut \in Nat /\ cmds \in Seq(Nat) /\ <<seqOut>> \in Seq(Nat)
  BY DEF IInv, TypeOK
<1>2. Pushing' = Pushing /\ Dumping' = Dumping
  BY DEF Pushing, Dumping
<1>3. cmds' = cmds \o <<seqOut>>
  BY <1>1, AppendNat
<1>4. Host' = Host
  BY <1>2 DEF Host
<1>5. Line' = Host \o (resps \o (cmds \o <<seqOut>>))
  BY <1>3, <1>4 DEF Line
<1>6. PICK h, r, c \in Seq(Nat) : h = Host /\ r = resps /\ c = cmds
  BY LineParts, Zenon
<1>7. \A x \in Seq(Nat) : h \o (r \o (c \o x)) = (h \o (r \o c)) \o x
  <2>1. \A q1, r1, w1 \in Seq(Nat) : h \o (q1 \o (r1 \o w1)) = (h \o (q1 \o r1)) \o w1
    BY AppendedLast, Zenon
  <2>2. \A r1, w1 \in Seq(Nat) : h \o (r \o (r1 \o w1)) = (h \o (r \o r1)) \o w1
    BY <2>1, Zenon
  <2>. QED
    BY <2>2, Zenon
<1>. QED
  BY <1>1, <1>5, <1>6, <1>7, Zenon DEF Line

LEMMA SendOrderly ==
  ASSUME IInv, Orderly, op = "none", NEW call \in {"poke", "peek"},
         Loop(call, Append(outstanding, seqOut)), cmds' = Append(cmds, seqOut),
         UNCHANGED <<resps, respQueue, dumpQueue, task, lost, late, inTask, reported>>
  PROVE  Clean' => reported' = {} /\ Line' = Awaited'
<1>1. /\ outstanding \in Seq(Nat) /\ seqOut \in Nat /\ cmds \in Seq(Nat)
      /\ <<seqOut>> \in Seq(Nat)
  BY DEF IInv, TypeOK
<1>2. Awaited' = outstanding \o <<seqOut>> /\ Awaited = outstanding
  <2>1. /\ Append(outstanding, seqOut) \in Seq(Nat)
        /\ Append(outstanding, seqOut) # <<>>
        /\ Append(outstanding, seqOut) = outstanding \o <<seqOut>>
    BY <1>1, AppendNat
  <2>2. Awaited' = Append(outstanding, seqOut)
    BY <2>1, LoopAwaits
  <2>. QED
    BY <2>1, <2>2 DEF Awaited
<1>3. Line' = Line \o <<seqOut>>
  BY SentLast
<1>. QED
  BY <1>2, <1>3 DEF Orderly, Clean

\* Of three queues in a row, the first answer is the head of the first.
HeadFirst(q, r, w) ==
    /\ Head((q \o r) \o w) = Head(q) /\ Tail((q \o r) \o w) = (Tail(q) \o r) \o w
    /\ (q \o r) \o w # <<>>

LEMMA FirstOfThree ==
  \A q, r, w \in Seq(Nat) : q # <<>> => HeadFirst(q, r, w)
<1>. SUFFICES ASSUME NEW q \in Seq(Nat), NEW r \in Seq(Nat), NEW w \in Seq(Nat), q # <<>>
              PROVE  HeadFirst(q, r, w)
  BY Zenon
<1>1. Head(q) \in Nat /\ Tail(q) \in Seq(Nat) /\ <<Head(q)>> \o Tail(q) = q
  BY FirstAndRest
<1>2. PICK x \in Nat, u \in Seq(Nat) : x = Head(q) /\ u = Tail(q)
  BY <1>1, Zenon
<1>3. <<x>> \in Seq(Nat) /\ q = <<x>> \o u
  BY <1>1, <1>2, FirstAndRest
<1>4. /\ u \o r \in Seq(Nat) /\ (u \o r) \o w \in Seq(Nat)
  BY ConcatInSeq
<1>5. q \o r = <<x>> \o (u \o r)
  BY <1>3, ConcatAssoc
<1>6. (q \o r) \o w = <<x>> \o ((u \o r) \o w)
  BY <1>3, <1>4, <1>5, ConcatAssoc
<1>7. PICK z \in Seq(Nat) : z = (u \o r) \o w
  BY <1>4, Zenon
<1>8. /\ Head(<<x>> \o z) = x /\ Tail(<<x>> \o z) = z /\ <<x>> \o z # <<>>
  BY FirstAndRest
<1>. QED
  BY <1>2, <1>6, <1>7, <1>8, Zenon DEF HeadFirst

\* A wait takes the first of the answers to come.
LEMMA TakesFirst ==
  ASSUME IInv, DumpsLast, TakeAnswer, UNCHANGED <<cmds, task>>
  PROVE  Line # <<>> /\ Head(Coming) = Head(Line) /\ Line' = Tail(Line)
<1>1. Pushing' = Pushing /\ Dumping' = Dumping /\ cmds' = cmds
  BY DEF Pushing, Dumping
<1>2. \A q \in Seq(Nat) : <<>> \o q = q /\ q \o <<>> = q
  BY ConcatNothing
<1>3. /\ respQueue \in Seq(Nat) /\ Pushing \in Seq(Nat) /\ dumpQueue \in Seq(Nat)
      /\ Dumping \in Seq(Nat) /\ resps \in Seq(Nat) /\ cmds \in Seq(Nat)
      /\ <<>> \in Seq(Nat)
  BY LineParts
<1>4. CASE direct
  <2>1. /\ respQueue = <<>> /\ dumpQueue = <<>> /\ Pushing = <<>> /\ Dumping = <<>>
        /\ respQueue' = <<>> /\ dumpQueue' = <<>>
    BY <1>4, NoMessage DEF DumpsLast, TakeAnswer
  <2>2. resps # <<>> /\ Head(Coming) = Head(resps) /\ resps' = Tail(resps)
    BY <1>4 DEF TakeAnswer, Coming
  <2>3. Host = <<>> /\ Host' = <<>>
    BY <1>1, <1>2, <1>3, <2>1, Zenon DEF Host
  <2>4. Tail(resps) \in Seq(Nat)
    BY <1>3, <2>2, FirstAndRest, Zenon
  <2>5. Tail(resps) \o cmds \in Seq(Nat) /\ resps \o cmds \in Seq(Nat)
    BY <1>3, <2>4, ConcatInSeq, Zenon
  <2>6. Line = resps \o cmds /\ Line' = Tail(resps) \o cmds
    BY <1>1, <1>2, <2>2, <2>3, <2>5, Zenon DEF Line
  <2>7. HeadFirst(resps, <<>>, cmds)
    <3>1. resps \in Seq(Nat) /\ cmds \in Seq(Nat) /\ <<>> \in Seq(Nat) /\ resps # <<>>
      BY <1>3, <2>2
    <3>. QED
      BY <3>1, FirstOfThree, Zenon
  <2>8. resps \o <<>> = resps /\ Tail(resps) \o <<>> = Tail(resps)
    BY <1>2, <1>3, <2>4, Zenon
  <2>. QED
    BY <2>2, <2>6, <2>7, <2>8, Zenon DEF HeadFirst
<1>5. CASE ~direct /\ respQueue # <<>>
  <2>1. /\ Head(Coming) = Head(respQueue) /\ respQueue' = Tail(respQueue)
        /\ resps' = resps /\ dumpQueue' = dumpQueue
    BY <1>5 DEF TakeAnswer, Coming
  <2>2. dumpQueue \o Dumping \in Seq(Nat) /\ resps \o cmds \in Seq(Nat)
    BY <1>3, ConcatInSeq, Zenon
  <2>3. Pushing \o (dumpQueue \o Dumping) \in Seq(Nat)
    BY <1>3, <2>2, ConcatInSeq, Zenon
  <2>4. PICK r, w \in Seq(Nat) : /\ r = Pushing \o (dumpQueue \o Dumping)
                                 /\ w = resps \o cmds
    BY <2>2, <2>3, Zenon
  <2>5. Line = (respQueue \o r) \o w /\ Line' = (Tail(respQueue) \o r) \o w
    BY <1>1, <2>1, <2>4, Zenon DEF Line, Host
  <2>6. HeadFirst(respQueue, r, w)
    <3>1. respQueue \in Seq(Nat) /\ respQueue # <<>>
      BY <1>3, <1>5
    <3>. QED
      BY <3>1, FirstOfThree, Zenon
  <2>. QED
    BY <2>1, <2>5, <2>6, Zenon DEF HeadFirst
<1>6. CASE ~direct /\ respQueue = <<>>
  <2>1. /\ dumpQueue # <<>> /\ Head(Coming) = Head(dumpQueue)
        /\ dumpQueue' = Tail(dumpQueue) /\ resps' = resps /\ respQueue' = <<>>
    BY <1>6 DEF TakeAnswer, Coming
  <2>2. Pushing = <<>>
    BY <2>1 DEF DumpsLast, Pushing
  <2>3. Tail(dumpQueue) \in Seq(Nat)
    BY <1>3, <2>1, FirstAndRest, Zenon
  <2>4. /\ resps \o cmds \in Seq(Nat) /\ dumpQueue \o Dumping \in Seq(Nat)
        /\ Tail(dumpQueue) \o Dumping \in Seq(Nat)
    BY <1>3, <2>3, ConcatInSeq, Zenon
  <2>5. Host = dumpQueue \o Dumping /\ Host' = Tail(dumpQueue) \o Dumping
    BY <1>1, <1>2, <1>6, <2>1, <2>2, <2>4, Zenon DEF Host
  <2>6. PICK w \in Seq(Nat) : w = resps \o cmds
    BY <2>4, Zenon
  <2>7. /\ Line = (dumpQueue \o Dumping) \o w
        /\ Line' = (Tail(dumpQueue) \o Dumping) \o w
    BY <1>1, <2>1, <2>5, <2>6, Zenon DEF Line
  <2>8. HeadFirst(dumpQueue, Dumping, w)
    <3>1. dumpQueue \in Seq(Nat) /\ Dumping \in Seq(Nat) /\ dumpQueue # <<>>
      BY <1>3, <2>1
    <3>. QED
      BY <3>1, FirstOfThree, Zenon
  <2>. QED
    BY <2>1, <2>7, <2>8, Zenon DEF HeadFirst
<1>. QED
  BY <1>4, <1>5, <1>6

\* What is on its way reaches the host, or is passed on within it, in order.
LEMMA HostGrows ==
  ASSUME IInv, resps # <<>>, resps' = Tail(resps), cmds' = cmds,
         Host' = Host \o <<Head(resps)>>
  PROVE  Line' = Line
<1>1. /\ Host \in Seq(Nat) /\ Tail(resps) \in Seq(Nat) /\ Head(resps) \in Nat
      /\ cmds \in Seq(Nat) /\ <<Head(resps)>> \o Tail(resps) = resps
  BY LineParts, FirstAndRest
<1>2. <<Head(resps)>> \in Seq(Nat)
  BY <1>1
<1>3. PICK x, r \in Seq(Nat) : x = <<Head(resps)>> /\ r = Tail(resps)
  BY <1>1, <1>2, Zenon
<1>4. PICK h, c \in Seq(Nat) : h = Host /\ c = cmds
  BY <1>1, Zenon
<1>5. (h \o x) \o (r \o c) = h \o ((x \o r) \o c)
  <2>1. \A b, w \in Seq(Nat) : (h \o x) \o (b \o w) = h \o ((x \o b) \o w)
    BY PassedOn, Zenon
  <2>. QED
    BY <2>1, Zenon
<1>. QED
  BY <1>1, <1>3, <1>4, <1>5, Zenon DEF Line

LEMMA TaskTakeLine ==
  ASSUME IInv, DumpsLast, TaskTake
  PROVE  Line' = Line
<1>. DEFINE m == [seq |-> Head(resps), locked |-> life = "alive", pushed |-> FALSE]
<1>1. /\ task = {} /\ resps # <<>> /\ resps' = Tail(resps) /\ task' = {m}
      /\ UNCHANGED <<life, cmds, respQueue, dumpQueue>>
  BY DEF TaskTake
<1>2. m.seq = Head(resps) /\ m.locked = (life = "alive") /\ m.pushed = FALSE
  OBVIOUS
<1>3. /\ Pushing' = (IF m.locked /\ ~m.pushed THEN <<m.seq>> ELSE <<>>)
      /\ Dumping' = (IF m.locked THEN <<>> ELSE <<m.seq>>)
  <2>. HIDE DEF m
  <2>1. (CHOOSE u \in task' : TRUE) = m
    BY <1>1
  <2>. QED
    BY <1>1, <2>1 DEF Pushing, Dumping
<1>4. Pushing = <<>> /\ Dumping = <<>>
  BY <1>1, NoMessage
<1>5. /\ respQueue \in Seq(Nat) /\ dumpQueue \in Seq(Nat) /\ <<Head(resps)>> \in Seq(Nat)
      /\ <<>> \in Seq(Nat)
  BY <1>1, LineParts, FirstAndRest
<1>6. Host' = Host \o <<Head(resps)>>
  <2>1. PICK x \in Seq(Nat) : x = <<Head(resps)>>
    BY <1>5, Zenon
  <2>2. \A q \in Seq(Nat) : <<>> \o q = q /\ q \o <<>> = q
    BY ConcatNothing
  <2>3. CASE life = "alive"
    <3>1. Pushing' = x /\ Dumping' = <<>> /\ dumpQueue = <<>>
      BY <1>2, <1>3, <2>1, <2>3 DEF DumpsLast
    <3>2. Host = respQueue /\ Host' = respQueue \o x
      BY <1>1, <1>4, <1>5, <2>2, <3>1, Zenon DEF Host
    <3>. QED
      BY <2>1, <3>2, Zenon
  <2>4. CASE life # "alive"
    <3>1. Pushing' = <<>> /\ Dumping' = x
      BY <1>2, <1>3, <2>1, <2>4
    <3>2. dumpQueue \o x \in Seq(Nat)
      BY <1>5, ConcatInSeq, Zenon
    <3>3. Host = respQueue \o dumpQueue /\ Host' = respQueue \o (dumpQueue \o x)
      BY <1>1, <1>4, <1>5, <2>2, <3>1, <3>2, Zenon DEF Host
    <3>4. respQueue \o (dumpQueue \o x) = (respQueue \o dumpQueue) \o x
      BY <1>5, ConcatAssoc, Zenon
    <3>. QED
      BY <2>1, <3>3, <3>4, Zenon
  <2>. QED
    BY <2>3, <2>4
<1>. QED
  BY <1>1, <1>6, HostGrows

\* While nothing is lost or late the queue has room for what the task pushes.
LEMMA RoomToPush ==
  ASSUME IInv, DumpsLast, Fits, Line = Awaited, TaskPush
  PROVE  Len(respQueue) < RespDepth
<1>1. PICK t \in task : t.locked /\ ~t.pushed
  BY DEF TaskPush
<1>2. task = {t} /\ t \in [seq : Nat, locked : BOOLEAN, pushed : BOOLEAN]
  BY DEF IInv, TypeOK, TaskHoldsOne
<1>3. Pushing = <<t.seq>> /\ Dumping = <<>> /\ dumpQueue = <<>>
  BY <1>1, <1>2, OneMessage DEF DumpsLast
<1>4. t.seq \in Nat /\ <<t.seq>> \in Seq(Nat) /\ respQueue \in Seq(Nat) /\ <<>> \in Seq(Nat)
  BY <1>2, LineParts
<1>5. Host = respQueue \o <<t.seq>>
  <2>1. \A q \in Seq(Nat) : q \o <<>> = q
    BY ConcatNothing
  <2>. QED
    BY <1>3, <1>4, <2>1, Zenon DEF Host
<1>6. Len(Line) = Len(Host) + Len(resps \o cmds)
  BY LineParts DEF Line
<1>7. Len(Host) = Len(respQueue) + 1
  BY <1>4, <1>5
<1>8. Len(Awaited) <= Len(outstanding) + 1
  <2>1. outstanding \in Seq(Nat) /\ <<toAck>> \in Seq(Nat) /\ Len(<<toAck>>) = 1
    BY DEF IInv, TypeOK
  <2>2. Len(<<toAck>> \o outstanding) = Len(outstanding) + 1
    BY <2>1
  <2>. QED
    BY <2>1, <2>2 DEF Awaited
<1>9. Len(outstanding) \in Nat /\ Len(respQueue) \in Nat /\ Len(resps \o cmds) \in Nat
  BY LineParts DEF IInv, TypeOK
<1>10. Len(outstanding) < RespWindow /\ RespWindow <= RespDepth
       /\ RespWindow \in Nat /\ RespDepth \in Nat
  BY ConstantsAssumption, QueueHoldsWindow DEF Fits
<1>. QED
  BY <1>6, <1>7, <1>8, <1>9, <1>10

LEMMA TaskPushLine ==
  ASSUME IInv, DumpsLast, Len(respQueue) < RespDepth, TaskPush
  PROVE  Line' = Line
<1>1. PICK t \in task :
        /\ t.locked /\ ~t.pushed
        /\ respQueue' = IF Len(respQueue) < RespDepth THEN Append(respQueue, t.seq)
                        ELSE respQueue
        /\ task' = {[t EXCEPT !.pushed = TRUE]}
  BY DEF TaskPush
<1>2. task = {t} /\ t \in [seq : Nat, locked : BOOLEAN, pushed : BOOLEAN]
  BY DEF IInv, TypeOK, TaskHoldsOne
<1>3. Pushing = <<t.seq>> /\ Dumping = <<>>
  BY <1>1, <1>2, OneMessage
<1>4. Pushing' = <<>> /\ Dumping' = <<>>
  <2>1. \A u \in task' : u.pushed = TRUE /\ u.locked
    BY <1>1, <1>2
  <2>. QED
    BY <2>1 DEF Pushing, Dumping
<1>5. dumpQueue = <<>> /\ UNCHANGED <<cmds, resps, dumpQueue>>
  BY <1>1 DEF DumpsLast, TaskPush
<1>6. t.seq \in Nat /\ <<t.seq>> \in Seq(Nat) /\ respQueue \in Seq(Nat) /\ <<>> \in Seq(Nat)
  BY <1>2, LineParts
<1>7. Host = respQueue \o <<t.seq>>
  <2>1. \A q \in Seq(Nat) : q \o <<>> = q
    BY ConcatNothing
  <2>. QED
    BY <1>3, <1>5, <1>6, <2>1, Zenon DEF Host
<1>8. respQueue' = respQueue \o <<t.seq>>
  BY <1>1, <1>6, AppendNat
<1>9. Host' = respQueue \o <<t.seq>>
  <2>1. respQueue \o <<t.seq>> \in Seq(Nat)
    BY <1>6, ConcatInSeq
  <2>2. PICK q \in Seq(Nat) : q = respQueue \o <<t.seq>>
    BY <2>1, Zenon
  <2>3. q \o <<>> = q /\ <<>> \o <<>> = <<>>
    BY <1>6, ConcatNothing
  <2>. QED
    BY <1>4, <1>5, <1>8, <2>2, <2>3, Zenon DEF Host
<1>. QED
  BY <1>5, <1>7, <1>9, Zenon DEF Line

LEMMA TaskUnlockLine ==
  ASSUME IInv, TaskUnlock
  PROVE  Line' = Line
<1>1. PICK t \in task : t.locked /\ t.pushed
  BY DEF TaskUnlock
<1>2. task = {t}
  BY DEF IInv, TaskHoldsOne
<1>3. Pushing = <<>> /\ Dumping = <<>>
  BY <1>1, <1>2, OneMessage
<1>4. Pushing' = <<>> /\ Dumping' = <<>> /\ UNCHANGED <<respQueue, dumpQueue, resps, cmds>>
  BY DEF TaskUnlock, Pushing, Dumping
<1>. QED
  BY <1>3, <1>4, Zenon DEF Line, Host

LEMMA TaskDumpLine ==
  ASSUME IInv, TaskDump
  PROVE  Line' = Line
<1>1. PICK t \in task : ~t.locked /\ dumpQueue' = Append(dumpQueue, t.seq)
  BY DEF TaskDump
<1>2. task = {t} /\ t.seq \in Nat
  BY DEF IInv, TypeOK, TaskHoldsOne
<1>3. Pushing = <<>> /\ Dumping = <<t.seq>>
  BY <1>1, <1>2, OneMessage
<1>4. Pushing' = <<>> /\ Dumping' = <<>> /\ UNCHANGED <<respQueue, resps, cmds>>
  BY DEF TaskDump, Pushing, Dumping
<1>5. dumpQueue \in Seq(Nat) /\ <<t.seq>> \in Seq(Nat)
  BY <1>2, LineParts
<1>6. dumpQueue' = dumpQueue \o <<t.seq>> /\ dumpQueue \o <<t.seq>> \in Seq(Nat)
  BY <1>1, <1>2, <1>5, AppendNat, ConcatInSeq
<1>7. dumpQueue' \o <<>> = dumpQueue'
  BY <1>6, ConcatNothing
<1>. QED
  BY <1>3, <1>4, <1>6, <1>7, Zenon DEF Line, Host

LEMMA ExecuteLine ==
  ASSUME IInv, Execute
  PROVE  Line' = Line
<1>1. /\ cmds # <<>> /\ cmds' = Tail(cmds) /\ resps' = Append(resps, Head(cmds))
      /\ UNCHANGED <<respQueue, dumpQueue, task>>
  BY DEF Execute
<1>2. /\ resps \in Seq(Nat) /\ Head(cmds) \in Nat /\ Tail(cmds) \in Seq(Nat)
      /\ <<Head(cmds)>> \o Tail(cmds) = cmds
  BY <1>1, LineParts, FirstAndRest
<1>3. resps' = resps \o <<Head(cmds)>> /\ <<Head(cmds)>> \in Seq(Nat)
  BY <1>1, <1>2, AppendNat
<1>4. PICK x, r \in Seq(Nat) : x = <<Head(cmds)>> /\ r = Tail(cmds)
  BY <1>2, <1>3, Zenon
<1>5. resps \o (x \o r) = (resps \o x) \o r
  BY <1>2, ConcatAssoc, Zenon
<1>6. Host' = Host
  BY <1>1 DEF Host, Pushing, Dumping
<1>. QED
  BY <1>1, <1>2, <1>3, <1>4, <1>5, <1>6, Zenon DEF Line

\* What is awaited by a call comes first.
LEMMA AwaitedFirst ==
  ASSUME IInv, op # "none"
  PROVE  Awaited # <<>> /\ Head(Awaited) = toAck /\ Tail(Awaited) = outstanding
<1>1. toAck \in Nat /\ outstanding \in Seq(Nat)
  BY DEF IInv, TypeOK
<1>. QED
  BY <1>1, FirstAndRest DEF Awaited

LEMMA AckAwaits ==
  ASSUME IInv, Ack
  PROVE  Awaited' = outstanding
<1>1. CASE outstanding = <<>> /\ op' = "none" /\ outstanding' = <<>>
  BY <1>1 DEF Awaited
<1>2. CASE (outstanding # <<>> \/ ~MustWait(op, outstanding)) /\ Loop(op, outstanding)
  <2>1. outstanding \in Seq(Nat) /\ op \in {"poke", "peek"}
    BY AckLoops DEF IInv, TypeOK
  <2>. QED
    BY <1>2, <2>1, LoopAwaits
<1>. QED
  BY <1>1, <1>2, AckLoops DEF IInv

LEMMA OrderlyNext == IInv /\ Fits /\ Orderly /\ [Next]_vars => Orderly'
<1>. SUFFICES ASSUME IInv, Fits, Orderly, [Next]_vars, Clean'
              PROVE  reported' = {} /\ Line' = Awaited'
  BY DumpsLastNext DEF Orderly
<1>1. DumpsLast
  BY DEF Orderly
<1>2. ASSUME UNCHANGED <<lost, late, inTask>> PROVE reported = {} /\ Line = Awaited
  BY <1>2 DEF Orderly, Clean
<1>3. ASSUME UNCHANGED <<lost, late, inTask, reported, outstanding, op, toAck>>, Line' = Line
      PROVE  reported' = {} /\ Line' = Awaited'
  BY <1>2, <1>3 DEF Awaited
<1>4. CASE Poke \/ Peek
  BY <1>4, SendOrderly DEF Poke, Peek, Send
<1>5. CASE DestructorPeek
  BY <1>5, SendOrderly DEF DestructorPeek
<1>6. CASE Ack
  <2>1. /\ op # "none" /\ TakeAnswer
        /\ UNCHANGED <<lost, late, inTask, reported, cmds, task>>
    BY <1>6 DEF Ack
  <2>2. Line' = Tail(Line)
    BY <1>1, <2>1, TakesFirst
  <2>. QED
    BY <1>2, <1>6, <2>1, <2>2, AwaitedFirst, AckAwaits
<1>7. CASE Mismatch
  <2>1. /\ op # "none" /\ TakeAnswer /\ ~Matches(Head(Coming))
        /\ UNCHANGED <<lost, late, inTask, cmds, task>>
    BY <1>7 DEF Mismatch, Throw
  <2>2. Head(Coming) = toAck
    BY <1>1, <1>2, <2>1, TakesFirst, AwaitedFirst
  <2>. QED
    BY <2>1, <2>2 DEF Matches
<1>8. CASE Timeout
  <2>1. op # "none" /\ Coming = <<>> /\ UNCHANGED <<lost, inTask>>
    BY <1>8 DEF Timeout, Throw
  <2>2. NothingComes /\ late' = late
    BY <1>8 DEF Timeout, Clean, IInv, TypeOK
  <2>3. cmds = <<>> /\ resps = <<>> /\ task = {}
    BY <2>1, <2>2 DEF NothingComes, Clean
  <2>4. respQueue = <<>> /\ dumpQueue = <<>>
    BY <1>1, <2>1 DEF Coming, DumpsLast
  <2>5. Pushing = <<>> /\ Dumping = <<>>
    BY <2>3, NoMessage
  <2>6. <<>> \o <<>> = <<>>
    BY ConcatNothing, EmptySeq
  <2>7. Line = <<>>
    BY <2>3, <2>4, <2>5, <2>6, Zenon DEF Line, Host
  <2>. QED
    BY <1>2, <2>1, <2>2, <2>7, AwaitedFirst
<1>9. CASE Release \/ UNCHANGED vars
  BY <1>3, <1>9 DEF Release, vars, corevars, Line, Host, Pushing, Dumping
<1>10. CASE TaskTake
  <2>1. UNCHANGED <<lost, late, inTask, reported, outstanding, op, toAck>>
    BY <1>10 DEF TaskTake, corevars
  <2>. QED
    BY <1>1, <1>3, <1>10, <2>1, TaskTakeLine
<1>11. CASE TaskPush
  <2>1. UNCHANGED <<lost, late, inTask, reported, outstanding, op, toAck>>
    BY <1>11 DEF TaskPush, corevars
  <2>. QED
    BY <1>1, <1>2, <1>3, <1>11, <2>1, RoomToPush, TaskPushLine
<1>12. CASE TaskUnlock
  <2>1. /\ UNCHANGED <<lost, late, reported, outstanding, op, toAck>>
        /\ inTask' = FALSE /\ inTask = FALSE
    BY <1>1, <1>12 DEF TaskUnlock, corevars, Clean, DumpsLast, IInv, TypeOK
  <2>2. Line' = Line
    BY <1>12, TaskUnlockLine
  <2>. QED
    BY <1>3, <2>1, <2>2
<1>13. CASE TaskDump
  <2>1. UNCHANGED <<lost, late, inTask, reported, outstanding, op, toAck>>
    BY <1>13 DEF TaskDump, corevars
  <2>. QED
    BY <1>3, <1>13, <2>1, TaskDumpLine
<1>14. CASE Execute
  <2>1. UNCHANGED <<lost, late, inTask, reported, outstanding, op, toAck>>
    BY <1>14 DEF Execute, corevars
  <2>. QED
    BY <1>3, <1>14, <2>1, ExecuteLine
<1>15. CASE LoseCommand \/ LoseAnswer
  BY <1>15 DEF LoseCommand, LoseAnswer, Clean, IInv, TypeOK
<1>. QED
  BY <1>4, <1>5, <1>6, <1>7, <1>8, <1>9, <1>10, <1>11, <1>12, <1>13, <1>14, <1>15
     DEF Next, TaskStep

LEMMA InitOrderly == Init => Orderly
<1>. SUFFICES ASSUME Init PROVE Orderly
  OBVIOUS
<1>1. DumpsLast
  BY DEF Init, DumpsLast
<1>2. Pushing = <<>> /\ Dumping = <<>>
  BY NoMessage DEF Init
<1>3. <<>> \o <<>> = <<>>
  BY ConcatNothing, EmptySeq
<1>4. Line = <<>>
  BY <1>2, <1>3, Zenon DEF Init, Line, Host
<1>5. Awaited = <<>> /\ reported = {}
  BY DEF Init, Awaited
<1>. QED
  BY <1>1, <1>4, <1>5 DEF Orderly

\* On a network that loses and delays nothing no call throws, the destructor's peek
\* included, unless the task runs it (wait_for_ack, check_dump_queue).
THEOREM NoCallThrowsInVain == Spec => []NoFalseError
<1>1. Orderly => NoFalseError
  BY DEF Orderly, Clean, NoFalseError
<1>. QED
  BY <1>1, InitIInv, IInvNext, InitFits, NumbersNext, FitsNext, InitOrderly,
     OrderlyNext, PTL DEF Spec

-----------------------------------------------------------------------------
(* A peek gets its own answer, and no lost command goes unnoticed.         *)

\* A multiple of m between -m and m is 0.
LEMMA SmallMultiple ==
  ASSUME NEW t \in Int, NEW m \in Nat \ {0}, 0 - m < t * m, t * m < m
  PROVE  t = 0
<1>1. CASE t >= 1
  <2>1. t * m = (t - 1) * m + m /\ (t - 1) * m >= 0
    BY <1>1
  <2>. QED
    BY <2>1
<1>2. CASE t <= -1
  <2>1. t * m = (t + 1) * m - m /\ (t + 1) * m <= 0
    BY <1>2
  <2>. QED
    BY <2>1
<1>. QED
  BY <1>1, <1>2

\* Numbers less than m apart that look the same are the same.
LEMMA SameNumber ==
  ASSUME NEW a \in Nat, NEW b \in Nat, NEW m \in Nat \ {0}, a % m = b % m,
         a - b < m, b - a < m
  PROVE  a = b
<1>. DEFINE qa == a \div m
            qb == b \div m
            t == qa - qb
<1>1. /\ a = qa * m + (a % m) /\ b = qb * m + (b % m)
      /\ qa \in Int /\ qb \in Int /\ a % m \in 0 .. m - 1
  OBVIOUS
<1>2. t \in Int /\ t * m = qa * m - qb * m
  BY <1>1
<1>3. qa * m \in Int /\ qb * m \in Int
  BY <1>1
<1>. HIDE DEF qa, qb, t
<1>4. t * m = a - b
  BY <1>1, <1>2, <1>3
<1>5. t = 0
  BY <1>2, <1>4, SmallMultiple
<1>6. 0 * m = 0
  OBVIOUS
<1>. QED
  BY <1>4, <1>5, <1>6

Among(q, S) == \A i \in 1 .. Len(q) : q[i] \in S

NotBefore(q, n) == \A i \in 1 .. Len(q) : q[i] >= n

LEMMA TailAmong ==
  ASSUME NEW q \in Seq(Nat), q # <<>>, NEW S, Among(q, S)
  PROVE  Head(q) \in S /\ Among(Tail(q), S)
<1>1. /\ Head(q) = q[1] /\ Len(q) \in Nat \ {0} /\ Len(Tail(q)) = Len(q) - 1
      /\ \A i \in 1 .. Len(Tail(q)) : Tail(q)[i] = q[i + 1] /\ i + 1 \in 1 .. Len(q)
  OBVIOUS
<1>2. 1 \in 1 .. Len(q)
  BY <1>1
<1>. QED
  BY <1>1, <1>2 DEF Among

LEMMA AppendAmong ==
  ASSUME NEW q \in Seq(Nat), NEW x \in Nat, NEW S, Among(q, S), x \in S
  PROVE  Among(Append(q, x), S)
<1>1. /\ Len(Append(q, x)) = Len(q) + 1 /\ Len(q) \in Nat
      /\ \A i \in 1 .. Len(q) : Append(q, x)[i] = q[i]
      /\ Append(q, x)[Len(q) + 1] = x
  OBVIOUS
<1>2. \A i \in 1 .. Len(q) + 1 : i \in 1 .. Len(q) \/ i = Len(q) + 1
  BY <1>1
<1>. QED
  BY <1>1, <1>2 DEF Among

LEMMA Concatenated ==
  \A a, b \in Seq(Nat) :
    \E u \in Seq(Nat) :
      /\ u = a \o b /\ Len(u) = Len(a) + Len(b)
      /\ \A i \in 1 .. Len(a) + Len(b) : u[i] = IF i <= Len(a) THEN a[i] ELSE b[i - Len(a)]
<1>. TAKE a \in Seq(Nat), b \in Seq(Nat)
<1>1. /\ a \o b \in Seq(Nat) /\ Len(a \o b) = Len(a) + Len(b)
      /\ \A i \in 1 .. Len(a) + Len(b) :
           (a \o b)[i] = IF i <= Len(a) THEN a[i] ELSE b[i - Len(a)]
  BY ConcatProperties, Zenon
<1>. QED
  BY <1>1, Zenon

\* An increasing queue stays one when an element goes.
LEMMA WithoutMiddle ==
  ASSUME NEW a \in Seq(Nat), NEW b \in Seq(Nat), NEW x \in Nat
  PROVE  /\ Increasing(a \o (<<x>> \o b)) => Increasing(a \o b)
         /\ \A n \in Nat : Below(a \o (<<x>> \o b), n) => Below(a \o b, n)
         /\ \A n \in Int : NotBefore(a \o (<<x>> \o b), n) => NotBefore(a \o b, n)
<1>1. PICK c \in Seq(Nat) : /\ c = <<x>> \o b /\ Len(c) = Len(b) + 1
                            /\ \A i \in 1 .. Len(b) : c[i + 1] = b[i]
  <2>1. /\ <<x>> \o b \in Seq(Nat) /\ Len(<<x>> \o b) = Len(b) + 1
        /\ \A i \in 1 .. Len(b) : (<<x>> \o b)[i + 1] = b[i]
    OBVIOUS
  <2>. QED
    BY <2>1
<1>2. Len(a) \in Nat /\ Len(b) \in Nat /\ Len(c) \in Nat
  OBVIOUS
<1>3. PICK u \in Seq(Nat) :
        /\ u = a \o c /\ Len(u) = Len(a) + Len(c)
        /\ \A i \in 1 .. Len(a) + Len(c) : u[i] = IF i <= Len(a) THEN a[i] ELSE c[i - Len(a)]
  BY Concatenated, Zenon
<1>4. PICK v \in Seq(Nat) :
        /\ v = a \o b /\ Len(v) = Len(a) + Len(b)
        /\ \A i \in 1 .. Len(a) + Len(b) : v[i] = IF i <= Len(a) THEN a[i] ELSE b[i - Len(a)]
  BY Concatenated, Zenon
<1>5. ASSUME NEW i \in 1 .. Len(v)
      PROVE  /\ i \in 1 .. Len(u) /\ i + 1 \in 1 .. Len(u)
             /\ v[i] = IF i <= Len(a) THEN u[i] ELSE u[i + 1]
  <2>1. i \in 1 .. Len(u) /\ i + 1 \in 1 .. Len(u)
    BY <1>1, <1>2, <1>3, <1>4
  <2>2. CASE i <= Len(a)
    BY <1>1, <1>2, <1>3, <1>4, <2>1, <2>2
  <2>3. CASE ~(i <= Len(a))
    <3>1. /\ i - Len(a) \in 1 .. Len(b) /\ (i + 1) - Len(a) = (i - Len(a)) + 1
          /\ ~(i + 1 <= Len(a))
      BY <1>2, <1>4, <2>3
    <3>2. v[i] = b[i - Len(a)] /\ u[i + 1] = c[(i - Len(a)) + 1]
      BY <1>3, <1>4, <2>1, <2>3, <3>1
    <3>. QED
      BY <1>1, <2>1, <2>3, <3>1, <3>2
  <2>. QED
    BY <2>2, <2>3
<1>6. Increasing(u) => Increasing(v)
  <2>. SUFFICES ASSUME Increasing(u), NEW i \in 1 .. Len(v), NEW j \in 1 .. Len(v), i < j
                PROVE  v[i] < v[j]
    BY DEF Increasing
  <2>1. /\ i \in 1 .. Len(u) /\ i + 1 \in 1 .. Len(u) /\ j \in 1 .. Len(u)
        /\ j + 1 \in 1 .. Len(u) /\ i < j + 1 /\ i + 1 < j + 1
    BY <1>5
  <2>2. u[i] < u[j] /\ u[i] < u[j + 1] /\ u[i + 1] < u[j + 1]
    BY <2>1 DEF Increasing
  <2>3. j <= Len(a) => i <= Len(a)
    BY <1>2
  <2>. QED
    BY <1>5, <2>2, <2>3
<1>7. \A n \in Nat : Below(u, n) => Below(v, n)
  BY <1>5 DEF Below
<1>8. \A n \in Int : NotBefore(u, n) => NotBefore(v, n)
  BY <1>5 DEF NotBefore
<1>. QED
  BY <1>1, <1>3, <1>4, <1>6, <1>7, <1>8

\* The command that is waited for next: waits come in the order of the commands, one
\* for each.
NextWait == seqOut - Unacked

WaitsInTurn ==
    /\ op # "none" => toAck = NextWait
    /\ \A i \in 1 .. Len(outstanding) : outstanding[i] = seqOut - Len(outstanding) + i - 1

\* Answers come in the order of the commands as well, and before the wait for them
\* by no more than the time-outs that were too early.
LineInv ==
    /\ Increasing(Line) /\ Below(Line, seqOut)
    /\ life # "closed" => NotBefore(Line, NextWait - late)

AnswersExecuted ==
    /\ Among(respQueue, executed) /\ Among(dumpQueue, executed) /\ Among(resps, executed)
    /\ \A t \in task : t.seq \in executed

Settled == \A s \in Nat : s < NextWait => s \in executed \/ s \in reported

LastPeek ==
    /\ answer.asked < seqOut /\ answer.got = answer.asked
    /\ answer.asked = seqOut - 1 => op = "none" /\ outstanding = <<>>

Destruction ==
    /\ inTask => life \in {"closing", "closed"}
    /\ life = "closed" => op = "none"
    /\ late <= MaxLate

PeekInv ==
    /\ WaitsInTurn /\ LineInv /\ AnswersExecuted
    /\ Settled /\ LastPeek /\ Destruction

LEMMA UnackedTyped ==
  ASSUME IInv, Fits
  PROVE  /\ Unacked \in Nat /\ NextWait \in Int /\ Unacked <= RespWindow
         /\ RespWindow \in Nat /\ Len(outstanding) \in Nat /\ seqOut \in Nat /\ late \in Nat
BY ConstantsAssumption DEF IInv, TypeOK, Fits, Unacked, NextWait

LEMMA LoopWaits ==
  ASSUME TypeOK, NEW call \in {"poke", "peek"}, NEW out \in Seq(Nat),
         out # <<>> \/ ~MustWait(call, out), Loop(call, out), Len(out) <= RespWindow,
         seqOut' \in Nat, \A i \in 1 .. Len(out) : out[i] = seqOut' - Len(out) + i - 1
  PROVE  WaitsInTurn'
<1>1. Unacked' = Len(out) /\ Len(out) \in Nat
  BY LoopUnacked
<1>2. CASE MustWait(call, out)
  <2>1. outstanding' = Tail(out) /\ toAck' = Head(out) /\ out # <<>>
    BY <1>2 DEF Loop
  <2>2. /\ Len(outstanding') = Len(out) - 1 /\ Head(out) = out[1] /\ 1 \in 1 .. Len(out)
        /\ \A i \in 1 .. Len(outstanding') : /\ i + 1 \in 1 .. Len(out)
                                             /\ outstanding'[i] = out[i + 1]
    BY <2>1
  <2>3. toAck' = seqOut' - Len(out)
    BY <1>1, <2>1, <2>2
  <2>4. \A i \in 1 .. Len(outstanding') :
          outstanding'[i] = seqOut' - Len(outstanding') + i - 1
    BY <1>1, <2>2
  <2>. QED
    BY <1>1, <2>3, <2>4 DEF WaitsInTurn, NextWait
<1>3. CASE ~MustWait(call, out)
  <2>1. outstanding' = out /\ op' = "none"
    BY <1>3 DEF Loop
  <2>. QED
    BY <2>1 DEF WaitsInTurn
<1>. QED
  BY <1>2, <1>3

\* A new command waits behind the others, and its answer comes after theirs.
LEMMA SendPeekInv ==
  ASSUME IInv, Fits, PeekInv, op = "none", NEW call \in {"poke", "peek"},
         Loop(call, Append(outstanding, seqOut)), cmds' = Append(cmds, seqOut),
         seqOut' = seqOut + 1, life' = life, life # "closed",
         UNCHANGED <<resps, respQueue, dumpQueue, task, late, inTask, reported, executed, answer>>
  PROVE  PeekInv'
<1>1. /\ outstanding \in Seq(Nat) /\ seqOut \in Nat /\ cmds \in Seq(Nat) /\ TypeOK
      /\ Len(outstanding) \in Nat /\ RespWindow \in Nat /\ Len(outstanding) < RespWindow
      /\ late \in Nat /\ answer \in [asked : Int, got : Int]
  BY ConstantsAssumption DEF IInv, TypeOK, Fits
<1>2. PICK out \in Seq(Nat) : out = Append(outstanding, seqOut)
  BY <1>1, AppendNat
<1>3. /\ out # <<>> /\ Len(out) = Len(outstanding) + 1
      /\ \A i \in 1 .. Len(outstanding) : out[i] = outstanding[i]
      /\ out[Len(outstanding) + 1] = seqOut
  BY <1>1, <1>2
<1>4. Len(out) <= RespWindow
  BY <1>1, <1>3
<1>5. /\ Unacked' = Unacked + 1 /\ Unacked = Len(outstanding)
      /\ NextWait' = NextWait /\ NextWait = seqOut - Len(outstanding)
  <2>1. Unacked' = Len(out)
    BY <1>1, <1>2, <1>3, <1>4, LoopUnacked
  <2>2. Unacked = Len(outstanding)
    BY <1>1 DEF Unacked
  <2>3. NextWait = seqOut - Unacked /\ NextWait' = (seqOut + 1) - Unacked'
    BY DEF NextWait
  <2>. QED
    BY <1>1, <1>3, <2>1, <2>2, <2>3
<1>6. WaitsInTurn'
  <2>1. \A i \in 1 .. Len(out) : i \in 1 .. Len(outstanding) \/ i = Len(outstanding) + 1
    BY <1>1, <1>3
  <2>2. \A i \in 1 .. Len(outstanding) : outstanding[i] = seqOut - Len(outstanding) + i - 1
    BY DEF PeekInv, WaitsInTurn
  <2>3. ASSUME NEW i \in 1 .. Len(out)
        PROVE  out[i] = seqOut' - Len(out) + i - 1
    <3>1. CASE i \in 1 .. Len(outstanding)
      BY <1>1, <1>3, <2>2, <3>1
    <3>2. CASE i = Len(outstanding) + 1
      BY <1>1, <1>3, <3>2
    <3>. QED
      BY <2>1, <3>1, <3>2
  <2>4. seqOut' \in Nat
    BY <1>1
  <2>. QED
    BY <1>1, <1>2, <1>3, <1>4, <2>3, <2>4, LoopWaits
<1>7. LineInv'
  <2>1. PICK line \in Seq(Nat) : line = Line
    BY LineParts, Zenon
  <2>2. Increasing(line) /\ Below(line, seqOut) /\ NotBefore(line, NextWait - late)
    BY <2>1 DEF PeekInv, LineInv
  <2>3. Line' = Append(line, seqOut)
    BY <1>1, <2>1, SentLast, AppendNat, Zenon
  <2>4. Increasing(Append(line, seqOut)) /\ Below(Append(line, seqOut), seqOut + 1)
    BY <1>1, <2>2, AppendNumbers
  <2>5. NotBefore(Append(line, seqOut), NextWait - late)
    <3>1. /\ Len(Append(line, seqOut)) = Len(line) + 1 /\ Len(line) \in Nat
          /\ \A i \in 1 .. Len(line) : Append(line, seqOut)[i] = line[i]
          /\ Append(line, seqOut)[Len(line) + 1] = seqOut
      BY <1>1
    <3>2. \A i \in 1 .. Len(line) + 1 : i \in 1 .. Len(line) \/ i = Len(line) + 1
      BY <3>1
    <3>3. seqOut >= NextWait - late
      BY <1>1, <1>5
    <3>. QED
      BY <2>2, <3>1, <3>2, <3>3 DEF NotBefore
  <2>. QED
    BY <1>5, <2>3, <2>4, <2>5 DEF LineInv
<1>8. AnswersExecuted' /\ Destruction'
  <2>1. life # "closed" /\ life' # "closed"
    OBVIOUS
  <2>. QED
    BY <2>1 DEF PeekInv, AnswersExecuted, Destruction
<1>9. Settled'
  BY <1>5 DEF PeekInv, Settled
<1>10. LastPeek'
  BY <1>1 DEF PeekInv, LastPeek
<1>. QED
  BY <1>6, <1>7, <1>8, <1>9, <1>10 DEF PeekInv

\* What a wait takes was the first of the answers, and the next wait is for the next
\* command.
LEMMA TakeLineInv ==
  ASSUME IInv, DumpsLast, PeekInv, op # "none", TakeAnswer,
         UNCHANGED <<cmds, task, seqOut, late>>, NextWait' = NextWait + 1
  PROVE  LineInv'
<1>1. PICK line \in Seq(Nat) : line = Line
  BY LineParts, Zenon
<1>2. line # <<>> /\ Line' = Tail(line)
  BY <1>1, TakesFirst
<1>3. /\ Increasing(line) /\ Below(line, seqOut) /\ NotBefore(line, NextWait - late)
      /\ seqOut \in Nat /\ late \in Nat /\ NextWait \in Int
  BY <1>1 DEF PeekInv, LineInv, Destruction, IInv, TypeOK, NextWait, Unacked
<1>4. Increasing(Tail(line)) /\ Below(Tail(line), seqOut) /\ Above(Tail(line), Head(line))
  BY <1>2, <1>3, TailNumbers
<1>5. Head(line) >= NextWait - late /\ Head(line) \in Nat
  BY <1>2, <1>3 DEF NotBefore
<1>6. Tail(line) \in Seq(Nat)
  BY <1>2
<1>7. NotBefore(Tail(line), NextWait' - late)
  <2>. SUFFICES ASSUME NEW i \in 1 .. Len(Tail(line))
                PROVE  Tail(line)[i] >= NextWait' - late
    BY DEF NotBefore
  <2>1. Head(line) < Tail(line)[i] /\ Tail(line)[i] \in Nat
    BY <1>4, <1>6 DEF Above
  <2>. QED
    BY <1>3, <1>5, <2>1
<1>. QED
  BY <1>2, <1>4, <1>7 DEF LineInv

\* One answer less is to come.
LEMMA LostLineInv ==
  ASSUME IInv, PeekInv, NEW a \in Seq(Nat), NEW b \in Seq(Nat), NEW x \in Nat,
         Line = a \o (<<x>> \o b), Line' = a \o b,
         UNCHANGED <<seqOut, outstanding, op, late, life>>
  PROVE  LineInv'
<1>1. NextWait' = NextWait
  BY DEF NextWait, Unacked
<1>2. PICK n \in Int : n = NextWait - late
  <2>1. Len(outstanding) \in Nat /\ seqOut \in Nat /\ late \in Nat
    BY DEF IInv, TypeOK
  <2>2. NextWait - late \in Int
    BY <2>1 DEF NextWait, Unacked
  <2>. QED
    BY <2>2
<1>3. seqOut \in Nat
  BY DEF IInv, TypeOK
<1>4. PICK u, v : u = a \o (<<x>> \o b) /\ v = a \o b
  OBVIOUS
<1>5. /\ Increasing(u) => Increasing(v)
      /\ Below(u, seqOut) => Below(v, seqOut)
      /\ NotBefore(u, n) => NotBefore(v, n)
  BY <1>3, <1>4, WithoutMiddle, Zenon
<1>6. Increasing(u) /\ Below(u, seqOut) /\ (life # "closed" => NotBefore(u, n))
  BY <1>2, <1>4 DEF PeekInv, LineInv
<1>7. Line' = v
  BY <1>4
<1>. QED
  BY <1>1, <1>2, <1>5, <1>6, <1>7 DEF LineInv

LEMMA SameLineInv ==
  ASSUME PeekInv, Line' = Line, life' = "closed" => life = "closed",
         life = "closed" => life' = "closed",
         UNCHANGED <<seqOut, outstanding, op, late>>
  PROVE  LineInv'
<1>1. NextWait' = NextWait
  BY DEF NextWait, Unacked
<1>. QED
  BY <1>1 DEF PeekInv, LineInv

LEMMA LoseCommandLineInv ==
  ASSUME IInv, PeekInv, LoseCommand
  PROVE  LineInv'
<1>1. /\ cmds # <<>> /\ cmds' = Tail(cmds) /\ Host' = Host
      /\ UNCHANGED <<resps, seqOut, outstanding, op, late, life>>
  BY DEF LoseCommand, corevars, Host, Pushing, Dumping
<1>2. PICK x \in Nat, c \in Seq(Nat) : x = Head(cmds) /\ c = Tail(cmds)
  BY <1>1, LineParts, FirstAndRest
<1>3. cmds = <<x>> \o c /\ <<x>> \in Seq(Nat) /\ <<x>> \o c \in Seq(Nat)
  BY <1>1, <1>2, LineParts, FirstAndRest, ConcatInSeq
<1>4. PICK h, r, q \in Seq(Nat) : h = Host /\ r = resps /\ q = cmds
  BY LineParts, Zenon
<1>5. h \o (r \o q) = (h \o r) \o q /\ h \o (r \o c) = (h \o r) \o c
  <2>1. Assoc(h, r, q)
    BY Associates, Zenon
  <2>2. Assoc(h, r, c)
    BY Associates, Zenon
  <2>. QED
    BY <2>1, <2>2, Zenon DEF Assoc
<1>6. PICK a \in Seq(Nat) : a = h \o r
  BY ConcatInSeq, Zenon
<1>7. Line = a \o (<<x>> \o c)
  BY <1>3, <1>4, <1>5, <1>6, Zenon DEF Line
<1>8. Line' = a \o c
  BY <1>1, <1>2, <1>4, <1>5, <1>6, Zenon DEF Line
<1>. QED
  BY <1>1, <1>7, <1>8, LostLineInv

LEMMA LoseAnswerLineInv ==
  ASSUME IInv, PeekInv, LoseAnswer
  PROVE  LineInv'
<1>1. /\ resps # <<>> /\ resps' = Tail(resps) /\ Host' = Host
      /\ UNCHANGED <<cmds, seqOut, outstanding, op, late, life>>
  BY DEF LoseAnswer, corevars, Host, Pushing, Dumping
<1>2. PICK x \in Nat, r \in Seq(Nat) : x = Head(resps) /\ r = Tail(resps)
  BY <1>1, LineParts, FirstAndRest
<1>3. resps = <<x>> \o r /\ <<x>> \in Seq(Nat)
  BY <1>1, <1>2, LineParts, FirstAndRest
<1>4. PICK h, c, f \in Seq(Nat) : h = Host /\ c = cmds /\ f = <<x>>
  BY <1>3, LineParts, Zenon
<1>5. f \o (r \o c) = (f \o r) \o c
  BY ConcatAssoc, Zenon
<1>6. PICK b \in Seq(Nat) : b = r \o c
  BY ConcatInSeq, Zenon
<1>7. Line = h \o (<<x>> \o b)
  BY <1>3, <1>4, <1>5, <1>6, Zenon DEF Line
<1>8. Line' = h \o b
  BY <1>1, <1>2, <1>4, <1>6, Zenon DEF Line
<1>. QED
  BY <1>1, <1>7, <1>8, LostLineInv

\* push_response() drops the answer when the queue is full.
LEMMA TaskPushLineInv ==
  ASSUME IInv, DumpsLast, PeekInv, TaskPush
  PROVE  LineInv'
<1>1. UNCHANGED <<cmds, resps, dumpQueue, seqOut, outstanding, op, late, life>>
  BY DEF TaskPush, corevars
<1>2. CASE Len(respQueue) < RespDepth
  BY <1>1, <1>2, TaskPushLine, SameLineInv
<1>3. CASE ~(Len(respQueue) < RespDepth)
  <2>1. PICK t \in task :
          t.locked /\ ~t.pushed /\ respQueue' = respQueue /\ task' = {[t EXCEPT !.pushed = TRUE]}
    BY <1>3 DEF TaskPush
  <2>2. task = {t} /\ t \in [seq : Nat, locked : BOOLEAN, pushed : BOOLEAN]
    BY DEF IInv, TypeOK, TaskHoldsOne
  <2>3. Pushing = <<t.seq>> /\ Dumping = <<>> /\ dumpQueue = <<>>
    BY <2>1, <2>2, OneMessage DEF DumpsLast
  <2>4. Pushing' = <<>> /\ Dumping' = <<>>
    <3>1. \A u \in task' : u.pushed = TRUE /\ u.locked
      BY <2>1, <2>2
    <3>. QED
      BY <3>1 DEF Pushing, Dumping
  <2>5. PICK x \in Nat, f, q, r, c \in Seq(Nat) :
          x = t.seq /\ f = <<x>> /\ q = respQueue /\ r = resps /\ c = cmds
    <3>1. t.seq \in Nat /\ <<t.seq>> \in Seq(Nat)
      BY <2>2
    <3>. QED
      BY <3>1, LineParts, Zenon
  <2>6. <<>> \in Seq(Nat) /\ \A s \in Seq(Nat) : <<>> \o s = s /\ s \o <<>> = s
    BY ConcatNothing
  <2>7. Host = q \o f /\ Host' = q
    BY <1>1, <2>1, <2>3, <2>4, <2>5, <2>6, Zenon DEF Host
  <2>8. PICK b \in Seq(Nat) : b = r \o c
    BY ConcatInSeq, Zenon
  <2>9. q \o (f \o b) = (q \o f) \o b
    <3>1. Assoc(q, f, b)
      BY Associates, Zenon
    <3>. QED
      BY <3>1, Zenon DEF Assoc
  <2>10. Line = q \o (<<x>> \o b)
    BY <2>5, <2>7, <2>8, <2>9, Zenon DEF Line
  <2>11. Line' = q \o b
    BY <1>1, <2>5, <2>7, <2>8, Zenon DEF Line
  <2>. QED
    BY <1>1, <2>10, <2>11, LostLineInv
<1>. QED
  BY <1>2, <1>3

\* A wait is over, with its answer or without.
LEMMA OneWaitLess ==
  ASSUME IInv, Fits, WaitsInTurn, Ack \/ (op # "none" /\ Throw)
  PROVE  /\ NextWait' = NextWait + 1 /\ WaitsInTurn'
         /\ toAck = NextWait /\ toAck \in Nat /\ Unacked = Len(outstanding) + 1
<1>1. /\ op # "none" /\ seqOut' = seqOut /\ TypeOK
      /\ outstanding \in Seq(Nat) /\ Len(outstanding) \in Nat /\ seqOut \in Nat
      /\ Len(outstanding) <= RespWindow /\ RespWindow \in Nat /\ toAck \in Nat
  BY ConstantsAssumption DEF Ack, Throw, IInv, TypeOK, Fits
<1>2. Unacked = Len(outstanding) + 1 /\ toAck = NextWait
  BY <1>1 DEF Unacked, WaitsInTurn
<1>3. Unacked' = Len(outstanding) /\ WaitsInTurn'
  <2>1. CASE op # "none" /\ Throw
    <3>1. op' = "none" /\ outstanding' = outstanding
      BY <2>1 DEF Throw
    <3>. QED
      BY <1>1, <3>1 DEF Unacked, WaitsInTurn
  <2>2. CASE Ack /\ outstanding = <<>> /\ op' = "none" /\ outstanding' = <<>>
    <3>1. Len(outstanding') = 0 /\ Len(outstanding) = 0
      BY <2>2
    <3>. QED
      BY <2>2, <3>1 DEF Unacked, WaitsInTurn
  <2>3. CASE Ack /\ (outstanding # <<>> \/ ~MustWait(op, outstanding))
                 /\ Loop(op, outstanding)
    <3>1. op \in {"poke", "peek"}
      BY <1>1 DEF TypeOK
    <3>2. /\ seqOut' \in Nat
          /\ \A i \in 1 .. Len(outstanding) :
               outstanding[i] = seqOut' - Len(outstanding) + i - 1
      BY <1>1 DEF WaitsInTurn
    <3>. QED
      BY <1>1, <2>3, <3>1, <3>2, LoopUnacked, LoopWaits
  <2>. QED
    BY <1>1, <2>1, <2>2, <2>3, AckLoops
<1>4. NextWait = seqOut - Unacked /\ NextWait' = seqOut - Unacked'
  BY <1>1 DEF NextWait
<1>. QED
  BY <1>1, <1>2, <1>3, <1>4

\* The 12 bits of an answer tell all the commands apart that it could answer.
NumbersTell == RespWindow <= SeqMod /\ MaxLate < SeqMod

\* The answer that ends a wait is the answer to its command.
LEMMA OwnAnswer ==
  ASSUME NumbersTell, IInv, Fits, DumpsLast, PeekInv, Ack
  PROVE  Head(Coming) = toAck /\ toAck \in executed
<1>1. op # "none" /\ TakeAnswer /\ UNCHANGED <<cmds, task>> /\ Matches(Head(Coming))
  BY DEF Ack
<1>2. PICK line \in Seq(Nat) : line = Line
  BY LineParts, Zenon
<1>3. line # <<>> /\ Head(Coming) = Head(line)
  BY <1>1, <1>2, TakesFirst
<1>4. /\ Below(line, seqOut) /\ NotBefore(line, NextWait - late) /\ late <= MaxLate
  BY <1>1, <1>2 DEF PeekInv, LineInv, Destruction
<1>5. /\ toAck = seqOut - Unacked /\ Unacked <= RespWindow /\ toAck \in Nat
      /\ Unacked \in Nat /\ RespWindow \in Nat /\ seqOut \in Nat /\ late \in Nat
      /\ toAck = NextWait
  BY UnackedTyped, OneWaitLess DEF PeekInv, NextWait
<1>6. SeqMod \in Nat \ {0} /\ MaxLate \in Nat
  BY ConstantsAssumption
<1>7. Head(line) \in Nat /\ Head(line) < seqOut /\ Head(line) >= toAck - late
  BY <1>3, <1>4, <1>5 DEF Below, NotBefore
<1>8. Head(line) - toAck < SeqMod /\ toAck - Head(line) < SeqMod
  BY <1>4, <1>5, <1>6, <1>7 DEF NumbersTell
<1>9. Head(line) = toAck
  BY <1>1, <1>3, <1>5, <1>6, <1>7, <1>8, SameNumber DEF Matches
<1>10. Head(Coming) \in executed
  <2>1. Coming # <<>> /\ Coming \in Seq(Nat)
    BY <1>1 DEF TakeAnswer, Coming, IInv, TypeOK
  <2>2. Among(Coming, executed)
    BY DEF PeekInv, AnswersExecuted, Coming
  <2>. QED
    BY <2>1, <2>2, TailAmong
<1>. QED
  BY <1>3, <1>9, <1>10

\* The radio has executed what it has answered, whoever holds the answer.
LEMMA TakeExecuted ==
  ASSUME IInv, AnswersExecuted, TakeAnswer, UNCHANGED <<task, executed>>
  PROVE  AnswersExecuted'
<1>1. /\ resps' = resps \/ (resps # <<>> /\ resps' = Tail(resps))
      /\ respQueue' = respQueue \/ (respQueue # <<>> /\ respQueue' = Tail(respQueue))
      /\ dumpQueue' = dumpQueue \/ (dumpQueue # <<>> /\ dumpQueue' = Tail(dumpQueue))
  BY DEF TakeAnswer, Coming
<1>2. resps \in Seq(Nat) /\ respQueue \in Seq(Nat) /\ dumpQueue \in Seq(Nat)
  BY DEF IInv, TypeOK
<1>3. Among(resps', executed)
  BY <1>1, <1>2, TailAmong DEF AnswersExecuted
<1>4. Among(respQueue', executed)
  BY <1>1, <1>2, TailAmong DEF AnswersExecuted
<1>5. Among(dumpQueue', executed)
  BY <1>1, <1>2, TailAmong DEF AnswersExecuted
<1>. QED
  BY <1>3, <1>4, <1>5 DEF AnswersExecuted

LEMMA TaskExecuted ==
  ASSUME IInv, AnswersExecuted, TaskStep
  PROVE  AnswersExecuted'
<1>1. /\ resps \in Seq(Nat) /\ respQueue \in Seq(Nat) /\ dumpQueue \in Seq(Nat)
      /\ task \in SUBSET [seq : Nat, locked : BOOLEAN, pushed : BOOLEAN]
      /\ executed' = executed
      /\ Among(respQueue, executed) /\ Among(dumpQueue, executed)
      /\ Among(resps, executed) /\ \A t \in task : t.seq \in executed
  BY DEF IInv, TypeOK, AnswersExecuted, TaskStep, TaskTake, TaskPush, TaskUnlock, TaskDump
<1>2. CASE TaskTake
  <2>. DEFINE m == [seq |-> Head(resps), locked |-> life = "alive", pushed |-> FALSE]
  <2>1. /\ resps # <<>> /\ resps' = Tail(resps) /\ task' = {m} /\ m.seq = Head(resps)
        /\ UNCHANGED <<respQueue, dumpQueue>>
    BY <1>2 DEF TaskTake
  <2>2. Head(resps) \in executed /\ Among(resps', executed)
    BY <1>1, <2>1, TailAmong
  <2>3. \A t \in task' : t.seq \in executed
    <3>. HIDE DEF m
    <3>. QED
      BY <2>1, <2>2
  <2>. QED
    BY <1>1, <2>1, <2>2, <2>3 DEF AnswersExecuted
<1>3. CASE TaskPush
  <2>1. PICK t \in task :
          /\ respQueue' = IF Len(respQueue) < RespDepth THEN Append(respQueue, t.seq)
                          ELSE respQueue
          /\ task' = {[t EXCEPT !.pushed = TRUE]}
    BY <1>3 DEF TaskPush
  <2>2. /\ UNCHANGED <<resps, dumpQueue>> /\ t.seq \in Nat /\ t.seq \in executed
        /\ \A u \in task' : u.seq = t.seq
    BY <1>1, <1>3, <2>1 DEF TaskPush
  <2>3. Among(respQueue', executed)
    BY <1>1, <2>1, <2>2, AppendAmong
  <2>. QED
    BY <1>1, <2>2, <2>3 DEF AnswersExecuted
<1>4. CASE TaskUnlock
  BY <1>1, <1>4 DEF TaskUnlock, AnswersExecuted
<1>5. CASE TaskDump
  <2>1. PICK t \in task : dumpQueue' = Append(dumpQueue, t.seq)
    BY <1>5 DEF TaskDump
  <2>2. UNCHANGED <<resps, respQueue>> /\ task' = {} /\ t.seq \in Nat /\ t.seq \in executed
    BY <1>1, <1>5 DEF TaskDump
  <2>3. Among(dumpQueue', executed)
    BY <1>1, <2>1, <2>2, AppendAmong
  <2>. QED
    BY <1>1, <2>2, <2>3 DEF AnswersExecuted
<1>. QED
  BY <1>2, <1>3, <1>4, <1>5 DEF TaskStep

LEMMA RadioExecuted ==
  ASSUME IInv, AnswersExecuted, Execute \/ LoseCommand \/ LoseAnswer
  PROVE  AnswersExecuted' /\ executed \subseteq executed'
<1>1. /\ resps \in Seq(Nat) /\ Among(respQueue, executed) /\ Among(dumpQueue, executed)
      /\ Among(resps, executed) /\ (\A t \in task : t.seq \in executed)
      /\ UNCHANGED <<respQueue, dumpQueue, task>>
  BY DEF IInv, TypeOK, AnswersExecuted, Execute, LoseCommand, LoseAnswer
<1>2. CASE Execute
  <2>1. /\ cmds # <<>> /\ executed' = executed \cup {Head(cmds)}
        /\ resps' = Append(resps, Head(cmds)) /\ Head(cmds) \in Nat
    BY <1>2 DEF Execute, IInv, TypeOK
  <2>2. /\ Among(resps, executed') /\ Among(respQueue, executed')
        /\ Among(dumpQueue, executed')
    BY <1>1, <2>1 DEF Among
  <2>3. Among(resps', executed')
    BY <1>1, <2>1, <2>2, AppendAmong
  <2>. QED
    BY <1>1, <2>1, <2>2, <2>3 DEF AnswersExecuted
<1>3. CASE LoseCommand
  BY <1>1, <1>3 DEF LoseCommand, AnswersExecuted
<1>4. CASE LoseAnswer
  <2>1. resps # <<>> /\ resps' = Tail(resps) /\ executed' = executed
    BY <1>4 DEF LoseAnswer
  <2>2. Among(resps', executed)
    BY <1>1, <2>1, TailAmong
  <2>. QED
    BY <1>1, <2>1, <2>2 DEF AnswersExecuted
<1>. QED
  BY <1>2, <1>3, <1>4

\* A wait that ends with its answer: its command is executed, and a peek has its own.
LEMMA AckPeekInv ==
  ASSUME NumbersTell, IInv, Fits, DumpsLast, PeekInv, Ack
  PROVE  PeekInv'
<1>1. /\ op # "none" /\ TakeAnswer
      /\ UNCHANGED <<inTask, cmds, task, seqOut, late, executed, reported>>
  BY DEF Ack
<1>2. /\ NextWait' = NextWait + 1 /\ WaitsInTurn' /\ toAck = NextWait /\ toAck \in Nat
      /\ Unacked = Len(outstanding) + 1
  BY OneWaitLess DEF PeekInv
<1>3. Head(Coming) = toAck /\ toAck \in executed
  BY OwnAnswer
<1>4. LineInv'
  BY <1>1, <1>2, TakeLineInv
<1>5. AnswersExecuted'
  BY <1>1, TakeExecuted DEF PeekInv
<1>6. Settled'
  <2>1. \A s \in Nat : s < NextWait + 1 => s < NextWait \/ s = toAck
    BY <1>2
  <2>. QED
    BY <1>1, <1>2, <1>3, <2>1 DEF PeekInv, Settled
<1>7. LastPeek'
  <2>1. CASE /\ op' = "none" /\ outstanding' = <<>> /\ outstanding = <<>>
             /\ answer' = [asked |-> seqOut - 1, got |-> Head(Coming)]
    <3>1. Len(outstanding) = 0 /\ seqOut \in Nat
      BY <2>1 DEF IInv, TypeOK
    <3>2. toAck = seqOut - 1
      BY <1>2, <3>1 DEF NextWait
    <3>3. answer'.asked = seqOut - 1 /\ answer'.got = toAck
      BY <1>3, <2>1
    <3>. QED
      BY <1>1, <2>1, <3>1, <3>2, <3>3 DEF LastPeek
  <2>2. CASE answer' = answer
    BY <1>1, <2>2 DEF PeekInv, LastPeek
  <2>. QED
    BY <2>1, <2>2 DEF Ack, AfterAck
<1>8. Destruction'
  BY <1>1 DEF PeekInv, Destruction, Ack, LifeAfterCall
<1>. QED
  BY <1>2, <1>4, <1>5, <1>6, <1>7, <1>8 DEF PeekInv

\* A wait that throws: the command is reported, whether its answer came or not.
LEMMA ThrowPeekInv ==
  ASSUME IInv, Fits, DumpsLast, PeekInv, Mismatch \/ Timeout
  PROVE  PeekInv'
<1>1. /\ op # "none" /\ op' = "none" /\ Throw /\ reported' = reported \cup {toAck}
      /\ life' = LifeAfterCall
      /\ UNCHANGED <<inTask, outstanding, cmds, task, seqOut, executed, answer>>
  BY DEF Mismatch, Timeout, Throw
<1>2. NextWait' = NextWait + 1 /\ WaitsInTurn' /\ toAck = NextWait /\ toAck \in Nat
  BY <1>1, OneWaitLess DEF PeekInv
<1>3. late' <= MaxLate
  BY ConstantsAssumption DEF Mismatch, Timeout, PeekInv, Destruction, IInv, TypeOK
<1>4. ASSUME Mismatch PROVE LineInv' /\ AnswersExecuted'
  <2>1. TakeAnswer /\ late' = late
    BY <1>4 DEF Mismatch
  <2>. QED
    BY <1>1, <1>2, <2>1, TakeLineInv, TakeExecuted DEF PeekInv
<1>5. ASSUME Timeout PROVE LineInv' /\ AnswersExecuted'
  <2>1. Coming = <<>> /\ UNCHANGED <<resps, respQueue, dumpQueue>>
    BY <1>5 DEF Timeout
  <2>2. Line' = Line
    BY <1>1, <2>1 DEF Line, Host, Pushing, Dumping
  <2>3. Increasing(Line') /\ Below(Line', seqOut')
    BY <1>1, <2>2 DEF PeekInv, LineInv
  <2>4. LineInv'
    <3>1. CASE inTask
      <4>1. life' = "closed"
        BY <1>1, <3>1 DEF PeekInv, Destruction, LifeAfterCall
      <4>. QED
        BY <2>3, <4>1 DEF LineInv
    <3>2. CASE ~inTask /\ NothingComes
      <4>1. /\ cmds = <<>> /\ resps = <<>> /\ task = {}
            /\ respQueue = <<>> /\ dumpQueue = <<>>
        BY <2>1, <3>2 DEF NothingComes, Coming, DumpsLast
      <4>2. Pushing = <<>> /\ Dumping = <<>> /\ <<>> \o <<>> = <<>>
        BY <4>1, NoMessage, ConcatNothing, EmptySeq
      <4>3. Line' = <<>>
        BY <2>2, <4>1, <4>2, Zenon DEF Line, Host
      <4>4. Len(Line') = 0
        BY <4>3
      <4>5. \A n : NotBefore(Line', n)
        BY <4>4 DEF NotBefore
      <4>. QED
        BY <2>3, <4>5 DEF LineInv
    <3>3. CASE ~NothingComes
      <4>1. late' = late + 1 /\ life # "closed"
        BY <1>1, <1>5, <3>3 DEF Timeout, PeekInv, Destruction
      <4>2. NextWait \in Int /\ late \in Nat
        BY <1>2 DEF IInv, TypeOK
      <4>3. NextWait' - late' = NextWait - late
        BY <1>2, <4>1, <4>2
      <4>4. NotBefore(Line, NextWait - late)
        BY <4>1 DEF PeekInv, LineInv
      <4>5. NotBefore(Line', NextWait' - late')
        BY <2>2, <4>3, <4>4
      <4>. QED
        BY <2>3, <4>5 DEF LineInv
    <3>. QED
      BY <3>1, <3>2, <3>3
  <2>5. AnswersExecuted'
    BY <1>1, <2>1 DEF PeekInv, AnswersExecuted
  <2>. QED
    BY <2>4, <2>5
<1>6. LineInv' /\ AnswersExecuted'
  BY <1>4, <1>5
<1>7. Settled'
  <2>1. \A s \in Nat : s < NextWait + 1 => s < NextWait \/ s = toAck
    <3>1. NextWait \in Int
      BY <1>2
    <3>. QED
      BY <1>2, <3>1
  <2>. QED
    BY <1>1, <1>2, <2>1 DEF PeekInv, Settled
<1>8. LastPeek'
  BY <1>1 DEF PeekInv, LastPeek
<1>9. Destruction'
  BY <1>1, <1>3 DEF PeekInv, Destruction, LifeAfterCall
<1>. QED
  BY <1>2, <1>6, <1>7, <1>8, <1>9 DEF PeekInv

LEMMA PeekInvNext ==
  NumbersTell /\ IInv /\ Fits /\ DumpsLast /\ PeekInv /\ [Next]_vars => PeekInv'
<1>. SUFFICES ASSUME NumbersTell, IInv, Fits, DumpsLast, PeekInv, [Next]_vars
              PROVE  PeekInv'
  OBVIOUS
<1>1. ASSUME UNCHANGED <<seqOut, outstanding, op, toAck, late, reported, answer>>,
             executed \subseteq executed', LineInv', AnswersExecuted', Destruction'
      PROVE  PeekInv'
  <2>1. NextWait' = NextWait
    BY <1>1 DEF NextWait, Unacked
  <2>2. WaitsInTurn'
    BY <1>1, <2>1 DEF PeekInv, WaitsInTurn
  <2>3. Settled'
    BY <1>1, <2>1 DEF PeekInv, Settled
  <2>4. LastPeek'
    BY <1>1 DEF PeekInv, LastPeek
  <2>. QED
    BY <1>1, <2>2, <2>3, <2>4 DEF PeekInv
<1>2. CASE Poke \/ Peek
  BY <1>2, SendPeekInv DEF Poke, Peek, Send
<1>3. CASE DestructorPeek
  BY <1>3, SendPeekInv DEF DestructorPeek
<1>4. CASE Release \/ UNCHANGED vars
  <2>1. /\ UNCHANGED <<seqOut, outstanding, op, toAck, late, reported, answer, executed>>
        /\ UNCHANGED <<cmds, resps, respQueue, dumpQueue, task, inTask>>
        /\ life' # "closed" \/ life' = life
        /\ life = "closed" => life' = life
        /\ inTask => life' = life
    BY <1>4 DEF Release, vars, corevars, PeekInv, Destruction
  <2>2. Line' = Line
    BY <2>1 DEF Line, Host, Pushing, Dumping
  <2>3. LineInv'
    BY <2>1, <2>2, SameLineInv
  <2>4. AnswersExecuted'
    BY <2>1 DEF PeekInv, AnswersExecuted
  <2>5. Destruction'
    BY <2>1 DEF PeekInv, Destruction
  <2>. QED
    BY <1>1, <2>1, <2>3, <2>4, <2>5
<1>5. CASE TaskStep
  <2>1. /\ UNCHANGED <<seqOut, outstanding, op, toAck, late, reported, answer, executed>>
        /\ life' # "closed" \/ life' = life
        /\ life = "closed" => life' = life
        /\ inTask' => life' \in {"closing", "closed"}
    <3>1. inTask => life \in {"closing", "closed"}
      BY DEF PeekInv, Destruction
    <3>2. CASE TaskTake \/ TaskPush \/ TaskDump
      BY <3>1, <3>2 DEF TaskTake, TaskPush, TaskDump, corevars
    <3>3. CASE TaskUnlock
      BY <3>1, <3>3 DEF TaskUnlock, corevars
    <3>. QED
      BY <1>5, <3>2, <3>3 DEF TaskStep
  <2>2. LineInv'
    BY <1>5, <2>1, SameLineInv, TaskTakeLine, TaskPushLineInv, TaskUnlockLine,
       TaskDumpLine DEF TaskStep
  <2>3. AnswersExecuted'
    BY <1>5, TaskExecuted DEF PeekInv
  <2>4. Destruction'
    BY <2>1 DEF PeekInv, Destruction
  <2>. QED
    BY <1>1, <2>1, <2>2, <2>3, <2>4
<1>6. CASE Execute \/ LoseCommand \/ LoseAnswer
  <2>1. UNCHANGED <<seqOut, outstanding, op, toAck, late, reported, answer, life, inTask>>
    BY <1>6 DEF Execute, LoseCommand, LoseAnswer, corevars
  <2>2. LineInv'
    BY <1>6, <2>1, SameLineInv, ExecuteLine, LoseCommandLineInv, LoseAnswerLineInv
  <2>3. AnswersExecuted' /\ executed \subseteq executed'
    BY <1>6, RadioExecuted DEF PeekInv
  <2>4. Destruction'
    BY <2>1 DEF PeekInv, Destruction
  <2>. QED
    BY <1>1, <2>1, <2>2, <2>3, <2>4
<1>. QED
  BY <1>2, <1>3, <1>4, <1>5, <1>6, AckPeekInv, ThrowPeekInv DEF Next

LEMMA InitPeekInv == Init => PeekInv
<1>. SUFFICES ASSUME Init PROVE PeekInv
  OBVIOUS
<1>1. /\ seqOut = 0 /\ outstanding = <<>> /\ op = "none" /\ Len(outstanding) = 0
      /\ life = "alive" /\ inTask = FALSE /\ late = 0 /\ task = {}
      /\ answer.asked = -1 /\ answer.got = -1
      /\ respQueue = <<>> /\ dumpQueue = <<>> /\ resps = <<>> /\ cmds = <<>>
  BY DEF Init
<1>2. Len(<<>>) = 0
  OBVIOUS
<1>3. NextWait = 0
  <2>1. Unacked = 0
    BY <1>1 DEF Unacked
  <2>. QED
    BY <1>1, <2>1 DEF NextWait
<1>4. WaitsInTurn
  BY <1>1 DEF WaitsInTurn
<1>5. LineInv
  <2>1. Pushing = <<>> /\ Dumping = <<>> /\ <<>> \o <<>> = <<>>
    BY <1>1, NoMessage, ConcatNothing, EmptySeq
  <2>2. Line = <<>>
    BY <1>1, <2>1, Zenon DEF Line, Host
  <2>. QED
    BY <1>2, <2>2 DEF LineInv, Increasing, Below, NotBefore
<1>6. AnswersExecuted
  BY <1>1, <1>2 DEF AnswersExecuted, Among
<1>7. Settled
  BY <1>3 DEF Settled
<1>8. LastPeek
  BY <1>1 DEF LastPeek
<1>9. Destruction
  BY <1>1, ConstantsAssumption DEF Destruction
<1>. QED
  BY <1>4, <1>5, <1>6, <1>7, <1>8, <1>9 DEF PeekInv

LEMMA PeekInvAlways ==
  ASSUME NumbersTell
  PROVE  Spec => [](IInv /\ Fits /\ PeekInv)
<1>1. Init => IInv /\ Numbers /\ Fits /\ DumpsLast /\ PeekInv
  BY InitIInv, InitFits, InitOrderly, InitPeekInv DEF Orderly
<1>2. IInv /\ Numbers /\ Fits /\ DumpsLast /\ PeekInv /\ [Next]_vars
        => (IInv /\ Numbers /\ Fits /\ DumpsLast /\ PeekInv)'
  BY IInvNext, NumbersNext, FitsNext, DumpsLastNext, PeekInvNext
<1>. QED
  BY <1>1, <1>2, PTL DEF Spec

\* Whatever is lost or late, and whichever thread runs the destructor, a peek that
\* returns has its own answer (wait_for_ack), as long as no more commands are unanswered
\* and no more answers late than 12 bits can tell apart.
THEOREM PeekGetsItsAnswer ==
  ASSUME NumbersTell
  PROVE  Spec => []PeekTrue
<1>1. PeekInv => PeekTrue
  BY DEF PeekInv, LastPeek, PeekTrue
<1>. QED
  BY <1>1, PeekInvAlways, PTL

\* When a peek has returned, every command before it has been executed or has made a
\* call throw (wait_for_ack), under the same condition.
THEOREM NoPokeLostUnnoticed ==
  ASSUME NumbersTell
  PROVE  Spec => []LostPokeReported
<1>1. IInv /\ PeekInv => LostPokeReported
  <2>. SUFFICES ASSUME IInv, PeekInv, op = "none", answer.asked = seqOut - 1,
                       NEW s \in 0 .. seqOut - 1
                PROVE  s \in executed \/ s \in reported
    BY DEF LostPokeReported
  <2>1. outstanding = <<>> /\ seqOut \in Nat
    BY DEF PeekInv, LastPeek, IInv, TypeOK
  <2>2. NextWait = seqOut
    BY <2>1 DEF NextWait, Unacked
  <2>3. s \in Nat /\ s < NextWait
    BY <2>1, <2>2
  <2>. QED
    BY <2>3 DEF PeekInv, Settled
<1>. QED
  BY <1>1, PeekInvAlways, PTL

-----------------------------------------------------------------------------
(* FifoCtrl: a window of numbers that wrap around.                         *)

\* The quotient and the remainder are the only ones.
LEMMA UniqueRemainder ==
    ASSUME NEW q \in Int, NEW m \in Nat \ {0}, NEW r \in 0 .. m - 1
    PROVE  (q * m + r) % m = r
<1> DEFINE a == q * m + r
           d == a \div m
           t == q - d
<1>1. a \in Int /\ a = d * m + (a % m) /\ d \in Int /\ a % m \in 0 .. m - 1
  OBVIOUS
<1>2. t \in Int /\ t * m = q * m - d * m
  BY <1>1
<1>3. q * m \in Int /\ d * m \in Int /\ a = q * m + r
  BY <1>1
<1> HIDE DEF a, d, t
<1>4. t * m = (a % m) - r
  BY <1>1, <1>2, <1>3
<1>5. t = 0
  BY <1>1, <1>2, <1>4, SmallMultiple
<1>6. 0 * m = 0
  OBVIOUS
<1> QED
  BY <1>1, <1>3, <1>4, <1>5, <1>6 DEF a

\* Remainders tell differences apart.
LEMMA RemainderOfDifference ==
    ASSUME NEW x \in Int, NEW y \in Int, NEW m \in Nat \ {0}, x - y \in 0 .. m - 1
    PROVE  ((x % m) - (y % m)) % m = x - y
<1> DEFINE a == x \div m
           b == y \div m
<1>1. /\ x = a * m + (x % m) /\ y = b * m + (y % m) /\ a \in Int /\ b \in Int
      /\ x % m \in Int /\ y % m \in Int /\ a * m \in Int /\ b * m \in Int
  OBVIOUS
<1>2. b - a \in Int /\ (b - a) * m = b * m - a * m
  BY <1>1
<1>3. (x % m) - (y % m) = (b - a) * m + (x - y)
  <2>0. (b - a) * m \in Int
    BY <1>2
  <2> HIDE DEF a, b
  <2>1. PICK am \in Int, bm \in Int, cm \in Int, r \in Int, s \in Int :
          /\ am = a * m /\ bm = b * m /\ cm = (b - a) * m
          /\ r = x % m /\ s = y % m
    BY <1>1, <2>0, Zenon
  <2>2. x = am + r /\ y = bm + s /\ cm = bm - am
    BY <1>1, <1>2, <2>1, Zenon
  <2>3. r - s = cm + (x - y)
    BY <2>2
  <2> QED
    BY <2>1, <2>3
<1>4. \A q \in Int, r \in 0 .. m - 1 : (q * m + r) % m = r
  BY UniqueRemainder, Zenon
<1>5. ((b - a) * m + (x - y)) % m = x - y
  BY <1>2, <1>4, Zenon
<1> QED
  BY <1>3, <1>5, Zenon

LEMMA FifoConstants ==
    /\ MaxSeqsOut \in Nat \ {0} /\ FifoSeqMod \in Nat \ {0} /\ FifoLen \in Nat \ {0}
    /\ FifoMaxEarly \in Nat /\ FifoMaxLost \in Nat /\ MaxSent \in Nat
    /\ MaxSilent \in Nat \ {0}
    /\ MaxSilent < FifoSeqMod \div 2 /\ MaxSeqsOut < FifoLen
<1>1. /\ {MaxSeqsOut, FifoSeqMod, FifoLen, MaxSilent} \subseteq Nat \ {0}
      /\ {FifoMaxEarly, FifoMaxLost, MaxSent} \subseteq Nat
      /\ MaxSilent < FifoSeqMod \div 2 /\ MaxSeqsOut < FifoLen
  BY PathConstantsAssumption DEF Fifo!ConstantsAssumption
<1> QED
  BY <1>1, Zenon

\* wraparound_lt16() is right as long as the host is not too silent: when the number
\* k before n is not ahead of a, a is one of the last k.
LEMMA NotBehind ==
    ASSUME NEW a \in Nat, NEW n \in Nat, NEW k \in Nat, a <= n, n - a <= MaxSilent,
           ~Fifo!Before(a % FifoSeqMod, (n - k) % FifoSeqMod)
    PROVE  n - a <= k
<1>1. /\ FifoSeqMod \in Nat \ {0} /\ MaxSilent \in Nat
      /\ MaxSilent <= (FifoSeqMod \div 2) - 1
      /\ FifoSeqMod \div 2 \in Nat /\ FifoSeqMod \div 2 <= FifoSeqMod
  <2>1. /\ FifoSeqMod \in Nat \ {0} /\ MaxSilent \in Nat /\ MaxSilent < FifoSeqMod \div 2
    BY FifoConstants
  <2>2. FifoSeqMod = 2 * (FifoSeqMod \div 2) + (FifoSeqMod % 2) /\ FifoSeqMod % 2 \in 0 .. 1
        /\ FifoSeqMod \div 2 \in Int
    BY <2>1
  <2> QED
    BY <2>1, <2>2
<1>2. SUFFICES ASSUME n - a > k PROVE FALSE
  OBVIOUS
<1>3. /\ n - k \in Int /\ (n - k) - a \in 1 .. (FifoSeqMod \div 2) - 1
      /\ (n - k) - a \in 0 .. FifoSeqMod - 1
  BY <1>1, <1>2
<1>4. (((n - k) % FifoSeqMod) - (a % FifoSeqMod)) % FifoSeqMod = (n - k) - a
  <2>1. \A x, y \in Int : x - y \in 0 .. FifoSeqMod - 1 =>
          ((x % FifoSeqMod) - (y % FifoSeqMod)) % FifoSeqMod = x - y
    BY <1>1, RemainderOfDifference, Zenon
  <2>2. a \in Int
    OBVIOUS
  <2> QED
    BY <1>3, <2>1, <2>2, Zenon
<1>5. Fifo!Before(a % FifoSeqMod, (n - k) % FifoSeqMod)
  BY <1>3, <1>4, Zenon DEF Fifo!Before
<1> QED
  BY <1>5, Zenon

\* There is room for the numbers of a queue up to n.
Roomy(q, n) == \A i \in 1 .. Len(q) : q[i] + (Len(q) - i) <= n

\* The numbers of a queue of commands
Ids(q) == [i \in 1 .. Len(q) |-> q[i].id]

FifoCommand == [op : {"poke", "peek", "ctrl", "data"}, slave : Slaves \cup {NoSlave}]
Sent == [cmd : FifoCommand, id : Nat]

LEMMA IdsOf ==
    ASSUME NEW q \in Seq(Sent)
    PROVE  /\ Ids(q) \in Seq(Nat) /\ Len(Ids(q)) = Len(q)
           /\ \A x \in Sent : Ids(Append(q, x)) = Append(Ids(q), x.id)
           /\ q # <<>> => /\ Ids(q) # <<>> /\ Head(q) \in Sent /\ Tail(q) \in Seq(Sent)
                          /\ Head(Ids(q)) = Head(q).id /\ Ids(Tail(q)) = Tail(Ids(q))
<1>1. \A i \in 1 .. Len(q) : q[i] \in Sent /\ q[i].id \in Nat
  <2>1. \A i \in 1 .. Len(q) : q[i] \in Sent
    OBVIOUS
  <2>2. \A x \in Sent : x.id \in Nat
    BY DEF Sent
  <2> QED
    BY <2>1, <2>2, Zenon
<1>2. Ids(q) \in Seq(Nat) /\ Len(Ids(q)) = Len(q) /\ Len(q) \in Nat
  BY <1>1 DEF Ids
<1>3. ASSUME NEW x \in Sent
      PROVE  Ids(Append(q, x)) = Append(Ids(q), x.id)
  <2>1. /\ Append(q, x) \in Seq(Sent) /\ Len(Append(q, x)) = Len(q) + 1
        /\ \A i \in 1 .. Len(q) : Append(q, x)[i] = q[i]
        /\ Append(q, x)[Len(q) + 1] = x /\ x.id \in Nat
    BY DEF Sent
  <2>2. /\ Append(Ids(q), x.id) \in Seq(Nat) /\ Len(Append(Ids(q), x.id)) = Len(q) + 1
        /\ \A i \in 1 .. Len(q) : Append(Ids(q), x.id)[i] = q[i].id
        /\ Append(Ids(q), x.id)[Len(q) + 1] = x.id
    BY <1>2, <2>1 DEF Ids
  <2>3. Ids(Append(q, x)) \in Seq(Nat) /\ Len(Ids(Append(q, x))) = Len(q) + 1
    BY <1>1, <2>1 DEF Ids
  <2>4. \A i \in 1 .. Len(q) + 1 : Ids(Append(q, x))[i] = Append(Ids(q), x.id)[i]
    <3>1. \A i \in 1 .. Len(q) + 1 : Ids(Append(q, x))[i] = Append(q, x)[i].id
      BY <2>1 DEF Ids
    <3>2. \A i \in 1 .. Len(q) + 1 : i \in 1 .. Len(q) \/ i = Len(q) + 1
      BY <1>2
    <3> QED
      BY <2>1, <2>2, <3>1, <3>2
  <2> QED
    BY <2>2, <2>3, <2>4, SeqEqual, Zenon
<1>4. ASSUME q # <<>>
      PROVE  /\ Ids(q) # <<>> /\ Head(q) \in Sent /\ Tail(q) \in Seq(Sent)
             /\ Head(Ids(q)) = Head(q).id /\ Ids(Tail(q)) = Tail(Ids(q))
  <2>1. /\ Len(q) \in Nat \ {0} /\ Head(q) = q[1] /\ Head(q) \in Sent
        /\ Tail(q) \in Seq(Sent) /\ Len(Tail(q)) = Len(q) - 1
        /\ \A i \in 1 .. Len(q) - 1 : Tail(q)[i] = q[i + 1]
    BY <1>4
  <2>2. Ids(q) # <<>> /\ Head(Ids(q)) = Head(q).id
    <3>1. Len(Ids(q)) # 0 /\ Ids(q)[1] = q[1].id
      BY <1>2, <2>1 DEF Ids
    <3> QED
      BY <1>2, <2>1, <3>1
  <2>3. /\ Tail(Ids(q)) \in Seq(Nat) /\ Len(Tail(Ids(q))) = Len(q) - 1
        /\ \A i \in 1 .. Len(q) - 1 : Tail(Ids(q))[i] = Ids(q)[i + 1]
    BY <1>2, <2>2
  <2>4. /\ Ids(Tail(q)) \in Seq(Nat) /\ Len(Ids(Tail(q))) = Len(q) - 1
        /\ \A i \in 1 .. Len(q) - 1 : Ids(Tail(q))[i] = q[i + 1].id
    BY <1>1, <2>1 DEF Ids
  <2>5. \A i \in 1 .. Len(q) - 1 : Ids(q)[i + 1] = q[i + 1].id
    BY <2>1 DEF Ids
  <2>6. Ids(Tail(q)) = Tail(Ids(q))
    BY <2>3, <2>4, <2>5, SeqEqual, Zenon
  <2> QED
    BY <2>1, <2>2, <2>6
<1> QED
  BY <1>2, <1>3, <1>4

LEMMA AssocLast ==
    \A r \in Seq(Nat) : \A p, q \in Seq(Nat) : p \o (q \o r) = (p \o q) \o r
<1> TAKE r \in Seq(Nat)
<1> TAKE p \in Seq(Nat), q \in Seq(Nat)
<1> QED
  BY ConcatAssoc, Zenon

\* A number goes from the front of one queue to the end of the one before.
LEMMA NumberPassedOn ==
    \A r \in Seq(Nat) : r # <<>> =>
      \A q, w \in Seq(Nat) : Append(q, Head(r)) \o (Tail(r) \o w) = q \o (r \o w)
<1> TAKE r \in Seq(Nat)
<1> HAVE r # <<>>
<1> TAKE q \in Seq(Nat), w \in Seq(Nat)
<1>1. /\ Head(r) \in Nat /\ Tail(r) \in Seq(Nat) /\ <<Head(r)>> \o Tail(r) = r
      /\ <<Head(r)>> \in Seq(Nat)
  BY FirstAndRest, Zenon
<1>2. Append(q, Head(r)) = q \o <<Head(r)>>
  BY <1>1, AppendNat, Zenon
<1>3. PICK f \in Seq(Nat), t \in Seq(Nat) : f = <<Head(r)>> /\ t = Tail(r)
  BY <1>1, Zenon
<1>4. (q \o f) \o (t \o w) = q \o ((f \o t) \o w)
  <2>1. \A p, s, u \in Seq(Nat) : (q \o p) \o (s \o u) = q \o ((p \o s) \o u)
    BY PassedOn, Zenon
  <2>2. \A s, u \in Seq(Nat) : (q \o f) \o (s \o u) = q \o ((f \o s) \o u)
    BY <2>1, Zenon
  <2> QED
    BY <2>2, Zenon
<1> QED
  BY <1>1, <1>2, <1>3, <1>4, Zenon

\* A number between two queues.
LEMMA NumberBetween ==
    \A r \in Seq(Nat) : r # <<>> =>
      \A q, w \in Seq(Nat) :
        /\ Head(r) \in Nat /\ Tail(r) \o w \in Seq(Nat)
        /\ q \o (r \o w) = q \o (<<Head(r)>> \o (Tail(r) \o w))
<1> TAKE r \in Seq(Nat)
<1> HAVE r # <<>>
<1> TAKE q \in Seq(Nat), w \in Seq(Nat)
<1>1. /\ Head(r) \in Nat /\ Tail(r) \in Seq(Nat) /\ <<Head(r)>> \o Tail(r) = r
      /\ <<Head(r)>> \in Seq(Nat)
  BY FirstAndRest, Zenon
<1>2. (<<Head(r)>> \o Tail(r)) \o w = <<Head(r)>> \o (Tail(r) \o w)
  BY <1>1, ConcatAssoc, Zenon
<1>3. Tail(r) \o w \in Seq(Nat)
  BY <1>1, ConcatInSeq, Zenon
<1> QED
  BY <1>1, <1>2, <1>3, Zenon

-----------------------------------------------------------------------------
(* The numbers between the radio and a call, as one line.                  *)

LEMMA ShapeTail ==
    ASSUME NEW q \in Seq(Nat), NEW n \in Nat, q # <<>>, Increasing(q), Roomy(q, n)
    PROVE  /\ Tail(q) \in Seq(Nat) /\ Increasing(Tail(q)) /\ Roomy(Tail(q), n)
           /\ Head(q) \in Nat /\ Head(q) <= n /\ Above(Tail(q), Head(q))
           /\ \A a \in Nat : Above(q, a) => Above(Tail(q), a) /\ a < Head(q)
<1>1. /\ Tail(q) \in Seq(Nat) /\ Increasing(Tail(q)) /\ Head(q) \in Nat
      /\ Above(Tail(q), Head(q))
      /\ \A a \in Nat : Above(q, a) => Above(Tail(q), a) /\ a < Head(q)
  BY TailNumbers, Zenon
<1>2. /\ Head(q) = q[1] /\ Len(q) \in Nat \ {0} /\ Len(Tail(q)) = Len(q) - 1
      /\ \A i \in 1 .. Len(q) : q[i] \in Nat
      /\ \A i \in 1 .. Len(q) - 1 : Tail(q)[i] = q[i + 1] /\ i + 1 \in 1 .. Len(q)
  OBVIOUS
<1>3. Roomy(Tail(q), n)
  BY <1>2 DEF Roomy
<1>4. Head(q) <= n
  BY <1>2 DEF Roomy
<1> QED
  BY <1>1, <1>3, <1>4, Zenon

LEMMA ShapeAppend ==
    ASSUME NEW q \in Seq(Nat), NEW n \in Nat, Increasing(q), Roomy(q, n)
    PROVE  /\ Append(q, n + 1) \in Seq(Nat) /\ Increasing(Append(q, n + 1))
           /\ Roomy(Append(q, n + 1), n + 1)
           /\ \A a \in Nat : Above(q, a) /\ a <= n => Above(Append(q, n + 1), a)
<1>1. /\ Len(Append(q, n + 1)) = Len(q) + 1 /\ Len(q) \in Nat
      /\ \A i \in 1 .. Len(q) : Append(q, n + 1)[i] = q[i] /\ q[i] \in Nat
      /\ Append(q, n + 1)[Len(q) + 1] = n + 1 /\ Append(q, n + 1) \in Seq(Nat)
  OBVIOUS
<1>2. Below(q, n + 1)
  BY <1>1 DEF Below, Roomy
<1>3. /\ Increasing(Append(q, n + 1))
      /\ \A a \in Nat : Above(q, a) /\ a < n + 1 => Above(Append(q, n + 1), a)
  <2>1. n + 1 \in Nat
    OBVIOUS
  <2> QED
    BY <1>2, <2>1, AppendNumbers, Zenon
<1>4. \A i \in 1 .. Len(q) + 1 : i \in 1 .. Len(q) \/ i = Len(q) + 1
  BY <1>1
<1>5. Roomy(Append(q, n + 1), n + 1)
  BY <1>1, <1>4 DEF Roomy
<1>6. \A a \in Nat : a <= n => a < n + 1
  OBVIOUS
<1> QED
  BY <1>1, <1>3, <1>5, <1>6, Zenon

LEMMA ShapeWithout ==
    ASSUME NEW a \in Seq(Nat), NEW b \in Seq(Nat), NEW x \in Nat, NEW n \in Nat,
           Increasing(a \o (<<x>> \o b)), Roomy(a \o (<<x>> \o b), n)
    PROVE  /\ Increasing(a \o b) /\ Roomy(a \o b, n)
           /\ \A y \in Nat : Above(a \o (<<x>> \o b), y) => Above(a \o b, y)
<1>1. PICK c \in Seq(Nat) : /\ c = <<x>> \o b /\ Len(c) = Len(b) + 1
                            /\ \A i \in 1 .. Len(b) : c[i + 1] = b[i]
  <2>1. /\ <<x>> \o b \in Seq(Nat) /\ Len(<<x>> \o b) = Len(b) + 1
        /\ \A i \in 1 .. Len(b) : (<<x>> \o b)[i + 1] = b[i]
    OBVIOUS
  <2> QED
    BY <2>1
<1>2. PICK u \in Seq(Nat) :
        /\ u = a \o c /\ Len(u) = Len(a) + Len(c)
        /\ \A i \in 1 .. Len(a) + Len(c) : u[i] = IF i <= Len(a) THEN a[i] ELSE c[i - Len(a)]
  BY Concatenated, Zenon
<1>3. PICK v \in Seq(Nat) :
        /\ v = a \o b /\ Len(v) = Len(a) + Len(b)
        /\ \A i \in 1 .. Len(a) + Len(b) : v[i] = IF i <= Len(a) THEN a[i] ELSE b[i - Len(a)]
  BY Concatenated, Zenon
<1>4. Len(a) \in Nat /\ Len(b) \in Nat /\ Len(c) = Len(b) + 1
  BY <1>1
<1>5. /\ \A i \in 1 .. Len(v) : i <= Len(a) => i \in 1 .. Len(u) /\ v[i] = u[i]
      /\ \A i \in 1 .. Len(v) : ~(i <= Len(a)) => i + 1 \in 1 .. Len(u) /\ v[i] = u[i + 1]
  <2>1. \A i \in 1 .. Len(v) : i <= Len(a) => i \in 1 .. Len(u) /\ v[i] = u[i]
    BY <1>2, <1>3, <1>4
  <2>2. ASSUME NEW i \in 1 .. Len(v), ~(i <= Len(a))
        PROVE  i + 1 \in 1 .. Len(u) /\ v[i] = u[i + 1]
    <3>1. /\ i \in 1 .. Len(a) + Len(b) /\ i + 1 \in 1 .. Len(a) + Len(c)
          /\ ~(i + 1 <= Len(a)) /\ i - Len(a) \in 1 .. Len(b)
          /\ (i + 1) - Len(a) = (i - Len(a)) + 1 /\ i + 1 \in 1 .. Len(u)
      BY <1>2, <1>3, <1>4, <2>2
    <3>2. v[i] = b[i - Len(a)] /\ u[i + 1] = c[(i + 1) - Len(a)]
      BY <1>2, <1>3, <2>2, <3>1, Zenon
    <3>3. c[(i - Len(a)) + 1] = b[i - Len(a)]
      BY <1>1, <3>1, Zenon
    <3> QED
      BY <3>1, <3>2, <3>3, Zenon
  <2> QED
    BY <2>1, <2>2
<1>6. /\ Len(u) = Len(v) + 1 /\ Len(v) \in Nat
      /\ \A i \in 1 .. Len(u) : u[i] \in Nat
      /\ \A i \in 1 .. Len(v) : v[i] \in Nat
  <2>1. /\ \A i \in 1 .. Len(u) : u[i] \in Nat
        /\ \A i \in 1 .. Len(v) : v[i] \in Nat
    OBVIOUS
  <2>2. Len(u) = Len(v) + 1 /\ Len(v) \in Nat
    BY <1>2, <1>3, <1>4
  <2> QED
    BY <2>1, <2>2, Zenon
<1>7. Increasing(u) /\ Roomy(u, n)
  BY <1>1, <1>2
<1>8. Roomy(v, n)
  <2>1. ASSUME NEW i \in 1 .. Len(v), i <= Len(a)
        PROVE  v[i] + (Len(v) - i) <= n
    <3>1. i \in 1 .. Len(u) /\ v[i] = u[i]
      BY <1>5, <2>1, Zenon
    <3>2. u[i] + (Len(u) - i) <= n
      BY <1>7, <3>1, Zenon DEF Roomy
    <3> QED
      <4>1. u[i] \in Nat /\ Len(v) \in Nat /\ Len(u) = Len(v) + 1
        BY <1>6, <3>1, Zenon
      <4> QED
        BY <3>1, <3>2, <4>1
  <2>2. ASSUME NEW i \in 1 .. Len(v), ~(i <= Len(a))
        PROVE  v[i] + (Len(v) - i) <= n
    <3>1. i + 1 \in 1 .. Len(u) /\ v[i] = u[i + 1]
      BY <1>5, <2>2, Zenon
    <3>2. u[i + 1] + (Len(u) - (i + 1)) <= n
      BY <1>7, <3>1, Zenon DEF Roomy
    <3> QED
      BY <1>6, <3>1, <3>2
  <2> QED
    BY <2>1, <2>2, Zenon DEF Roomy
<1>9. \A y \in Nat : Above(u, y) => Above(v, y)
  BY <1>5, <1>6 DEF Above
<1>10. Increasing(v)
  <2>1. Increasing(a \o b)
    BY WithoutMiddle, Zenon
  <2> QED
    BY <1>3, <2>1, Zenon
<1> QED
  BY <1>1, <1>2, <1>3, <1>8, <1>9, <1>10, Zenon

\* A line of numbers after b that leave room up to n is no longer than n - b.
LEMMA ShapeLength ==
    ASSUME NEW q \in Seq(Nat), NEW n \in Nat, NEW b \in Nat, b <= n, Roomy(q, n), Above(q, b)
    PROVE  Len(q) \in Nat /\ Len(q) <= n - b
<1>1. Len(q) \in Nat /\ \A i \in 1 .. Len(q) : q[i] \in Nat
  OBVIOUS
<1>2. CASE Len(q) = 0
  BY <1>1, <1>2
<1>3. CASE Len(q) # 0
  <2>1. 1 \in 1 .. Len(q)
    BY <1>1, <1>3
  <2>2. q[1] + (Len(q) - 1) <= n /\ b < q[1] /\ q[1] \in Nat
    BY <1>1, <2>1 DEF Roomy, Above
  <2> QED
    BY <1>1, <2>2
<1> QED
  BY <1>2, <1>3

\* The answers to the host and what has still to be answered.
LineOf(p, a, r, c, w) == p \o (a \o (r \o (c \o w)))

LEMMA LineOfNat ==
    \A p, a, r, c, w \in Seq(Nat) :
      /\ LineOf(p, a, r, c, w) \in Seq(Nat)
      /\ Len(LineOf(p, a, r, c, w)) = Len(p) + (Len(a) + (Len(r) + (Len(c) + Len(w))))
<1> TAKE p \in Seq(Nat), a \in Seq(Nat), r \in Seq(Nat), c \in Seq(Nat), w \in Seq(Nat)
<1>1. PICK x \in Seq(Nat) : x = c \o w /\ Len(x) = Len(c) + Len(w)
  BY Concatenated, Zenon
<1>2. PICK y \in Seq(Nat) : y = r \o x /\ Len(y) = Len(r) + Len(x)
  BY Concatenated, Zenon
<1>3. PICK z \in Seq(Nat) : z = a \o y /\ Len(z) = Len(a) + Len(y)
  BY Concatenated, Zenon
<1>4. PICK u \in Seq(Nat) : u = p \o z /\ Len(u) = Len(p) + Len(z)
  BY Concatenated, Zenon
<1> QED
  BY <1>1, <1>2, <1>3, <1>4, Zenon DEF LineOf

\* A command is sent.
LEMMA LineSent ==
    \A p, a, r, c, w \in Seq(Nat) : \A x \in Nat :
      LineOf(p, a, r, c, Append(w, x)) = Append(LineOf(p, a, r, c, w), x)
<1> TAKE p \in Seq(Nat), a \in Seq(Nat), r \in Seq(Nat), c \in Seq(Nat), w \in Seq(Nat)
<1> TAKE x \in Nat
<1>1. PICK s \in Seq(Nat) : s = <<x>> /\ Append(w, x) = w \o s
  <2>1. <<x>> \in Seq(Nat) /\ Append(w, x) = w \o <<x>>
    BY AppendNat, FirstAndRest, Zenon
  <2> QED
    BY <2>1, Zenon
<1>0. \A u, v \in Seq(Nat) : u \o (v \o s) = (u \o v) \o s
  BY AssocLast, Zenon
<1>2. PICK w1 \in Seq(Nat) : w1 = c \o w
  BY ConcatInSeq, Zenon
<1>3. PICK w2 \in Seq(Nat) : w2 = r \o w1
  BY ConcatInSeq, Zenon
<1>4. PICK w3 \in Seq(Nat) : w3 = a \o w2
  BY ConcatInSeq, Zenon
<1>5. PICK w4 \in Seq(Nat) : w4 = p \o w3
  BY ConcatInSeq, Zenon
<1>6. c \o (w \o s) = w1 \o s
  BY <1>0, <1>2, Zenon
<1>7. r \o (w1 \o s) = w2 \o s
  BY <1>0, <1>3, Zenon
<1>8. a \o (w2 \o s) = w3 \o s
  BY <1>0, <1>4, Zenon
<1>9. p \o (w3 \o s) = w4 \o s
  BY <1>0, <1>5, Zenon
<1>10. LineOf(p, a, r, c, w) = w4
  BY <1>2, <1>3, <1>4, <1>5, Zenon DEF LineOf
<1>11. LineOf(p, a, r, c, w \o s) = w4 \o s
  BY <1>6, <1>7, <1>8, <1>9, Zenon DEF LineOf
<1>12. Append(w4, x) = w4 \o <<x>>
  BY AppendNat, Zenon
<1> QED
  BY <1>1, <1>10, <1>11, <1>12, Zenon

\* A call takes an answer.
LEMMA LineTaken ==
    \A p \in Seq(Nat) : p # <<>> =>
      \A a, r, c, w \in Seq(Nat) :
        /\ LineOf(p, a, r, c, w) # <<>> /\ Head(LineOf(p, a, r, c, w)) = Head(p)
        /\ Tail(LineOf(p, a, r, c, w)) = LineOf(Tail(p), a, r, c, w)
<1> TAKE p \in Seq(Nat)
<1> HAVE p # <<>>
<1> TAKE a \in Seq(Nat), r \in Seq(Nat), c \in Seq(Nat), w \in Seq(Nat)
<1>1. PICK y \in Seq(Nat) : y = a \o (r \o (c \o w))
  BY ConcatInSeq, Zenon
<1>2. /\ Head(p) \in Nat /\ Tail(p) \in Seq(Nat) /\ <<Head(p)>> \o Tail(p) = p
      /\ <<Head(p)>> \in Seq(Nat)
  BY FirstAndRest, Zenon
<1>3. PICK f \in Seq(Nat), t \in Seq(Nat) : f = <<Head(p)>> /\ t = Tail(p)
  BY <1>2, Zenon
<1>0. \A u, v \in Seq(Nat) : f \o (u \o v) = (f \o u) \o v
  BY ConcatAssoc, Zenon
<1>4. PICK z \in Seq(Nat) : z = t \o y
  BY ConcatInSeq, Zenon
<1>5. (f \o t) \o y = f \o z
  BY <1>0, <1>4, Zenon
<1>6. p \o y = <<Head(p)>> \o z
  BY <1>2, <1>3, <1>5, Zenon
<1>7. /\ <<Head(p)>> \o z # <<>> /\ Head(<<Head(p)>> \o z) = Head(p)
      /\ Tail(<<Head(p)>> \o z) = z
  BY <1>2, FirstAndRest, Zenon
<1> QED
  BY <1>1, <1>3, <1>4, <1>6, <1>7, Zenon DEF LineOf

\* Numbers that go on stay where they are in the line.
LEMMA LinePassedOn ==
    \A p, a, r, c, w \in Seq(Nat) :
      /\ a # <<>> => LineOf(Append(p, Head(a)), Tail(a), r, c, w) = LineOf(p, a, r, c, w)
      /\ r # <<>> => LineOf(p, Append(a, Head(r)), Tail(r), c, w) = LineOf(p, a, r, c, w)
      /\ c # <<>> => LineOf(p, a, Append(r, Head(c)), Tail(c), w) = LineOf(p, a, r, c, w)
      /\ w # <<>> => LineOf(p, a, r, Append(c, Head(w)), Tail(w)) = LineOf(p, a, r, c, w)
<1> TAKE p \in Seq(Nat), a \in Seq(Nat), r \in Seq(Nat), c \in Seq(Nat), w \in Seq(Nat)
<1>1. a # <<>> => \A u, v \in Seq(Nat) : Append(u, Head(a)) \o (Tail(a) \o v) = u \o (a \o v)
  BY NumberPassedOn, Zenon
<1>2. r # <<>> => \A u, v \in Seq(Nat) : Append(u, Head(r)) \o (Tail(r) \o v) = u \o (r \o v)
  BY NumberPassedOn, Zenon
<1>3. c # <<>> => \A u, v \in Seq(Nat) : Append(u, Head(c)) \o (Tail(c) \o v) = u \o (c \o v)
  BY NumberPassedOn, Zenon
<1>4. w # <<>> => \A u, v \in Seq(Nat) : Append(u, Head(w)) \o (Tail(w) \o v) = u \o (w \o v)
  BY NumberPassedOn, Zenon
<1>5. PICK x \in Seq(Nat) : x = c \o w
  BY ConcatInSeq, Zenon
<1>6. PICK y \in Seq(Nat) : y = r \o x
  BY ConcatInSeq, Zenon
<1>7. a # <<>> => Append(p, Head(a)) \o (Tail(a) \o y) = p \o (a \o y)
  BY <1>1, Zenon
<1>8. r # <<>> => Append(a, Head(r)) \o (Tail(r) \o x) = a \o (r \o x)
  BY <1>2, Zenon
<1>9. c # <<>> => Append(r, Head(c)) \o (Tail(c) \o w) = r \o (c \o w)
  BY <1>3, Zenon
<1>10. w # <<>> => Append(c, Head(w)) \o Tail(w) = c \o w
  <2>1. PICK e \in Seq(Nat) : e = <<>>
    <3>1. <<>> \in Seq(Nat)
      OBVIOUS
    <3> QED
      BY <3>1, Zenon
  <2>2. w # <<>> => Append(c, Head(w)) \o (Tail(w) \o e) = c \o (w \o e)
    BY <1>4, Zenon
  <2>3. w # <<>> => Tail(w) \in Seq(Nat)
    BY FirstAndRest, Zenon
  <2>4. w \o e = w /\ (w # <<>> => Tail(w) \o e = Tail(w))
    BY <2>1, <2>3, ConcatNothing, Zenon
  <2> QED
    BY <2>2, <2>4, Zenon
<1>11. a # <<>> => LineOf(Append(p, Head(a)), Tail(a), r, c, w) = LineOf(p, a, r, c, w)
  BY <1>5, <1>6, <1>7, Zenon DEF LineOf
<1>12. r # <<>> => LineOf(p, Append(a, Head(r)), Tail(r), c, w) = LineOf(p, a, r, c, w)
  BY <1>5, <1>8, Zenon DEF LineOf
<1>13. c # <<>> => LineOf(p, a, Append(r, Head(c)), Tail(c), w) = LineOf(p, a, r, c, w)
  BY <1>9, Zenon DEF LineOf
<1>14. w # <<>> => LineOf(p, a, r, Append(c, Head(w)), Tail(w)) = LineOf(p, a, r, c, w)
  BY <1>10, Zenon DEF LineOf
<1> QED
  BY <1>11, <1>12, <1>13, <1>14, Zenon

\* The line keeps its shape when a number of it is lost.
Thinner(l, k, n) ==
    Increasing(l) /\ Roomy(l, n) =>
      /\ Increasing(k) /\ Roomy(k, n)
      /\ \A y \in Nat : Above(l, y) => Above(k, y)

LEMMA LineWithout ==
    \A p, a, r, c, w \in Seq(Nat) : \A n \in Nat :
      /\ a # <<>> => Thinner(LineOf(p, a, r, c, w), LineOf(p, Tail(a), r, c, w), n)
      /\ w # <<>> => Thinner(LineOf(p, a, r, c, w), LineOf(p, a, r, c, Tail(w)), n)
<1> TAKE p \in Seq(Nat), a \in Seq(Nat), r \in Seq(Nat), c \in Seq(Nat), w \in Seq(Nat)
<1> TAKE n \in Nat
<1>0. \A u, v \in Seq(Nat) : \A x \in Nat : Thinner(u \o (<<x>> \o v), u \o v, n)
  BY ShapeWithout, Zenon DEF Thinner
<1>1. ASSUME a # <<>>
      PROVE  Thinner(LineOf(p, a, r, c, w), LineOf(p, Tail(a), r, c, w), n)
  <2>1. PICK y \in Seq(Nat) : y = r \o (c \o w)
    BY ConcatInSeq, Zenon
  <2>2. /\ Head(a) \in Nat /\ Tail(a) \o y \in Seq(Nat)
        /\ p \o (a \o y) = p \o (<<Head(a)>> \o (Tail(a) \o y))
    <3>1. \A u, v \in Seq(Nat) :
            /\ Head(a) \in Nat /\ Tail(a) \o v \in Seq(Nat)
            /\ u \o (a \o v) = u \o (<<Head(a)>> \o (Tail(a) \o v))
      BY <1>1, NumberBetween, Zenon
    <3> QED
      BY <3>1, Zenon
  <2>3. Thinner(p \o (a \o y), p \o (Tail(a) \o y), n)
    BY <1>0, <2>2, Zenon
  <2> QED
    BY <2>1, <2>3, Zenon DEF LineOf
<1>2. ASSUME w # <<>>
      PROVE  Thinner(LineOf(p, a, r, c, w), LineOf(p, a, r, c, Tail(w)), n)
  <2>1. /\ Head(w) \in Nat /\ Tail(w) \in Seq(Nat) /\ <<Head(w)>> \o Tail(w) = w
        /\ <<Head(w)>> \in Seq(Nat)
    BY <1>2, FirstAndRest, Zenon
  <2>2. PICK t \in Seq(Nat) : t = Tail(w)
    BY <2>1, Zenon
  <2>3. PICK x \in Seq(Nat) : x = r \o c
    BY ConcatInSeq, Zenon
  <2>4. PICK y \in Seq(Nat) : y = a \o x
    BY ConcatInSeq, Zenon
  <2>5. PICK z \in Seq(Nat) : z = p \o y
    BY ConcatInSeq, Zenon
  <2>6. \A v \in Seq(Nat) : LineOf(p, a, r, c, v) = z \o v
    <3> TAKE v \in Seq(Nat)
    <3>0. \A t1, t2 \in Seq(Nat) : t1 \o (t2 \o v) = (t1 \o t2) \o v
      BY AssocLast, Zenon
    <3>1. r \o (c \o v) = x \o v
      BY <3>0, <2>3, Zenon
    <3>2. a \o (x \o v) = y \o v
      BY <3>0, <2>4, Zenon
    <3>3. p \o (y \o v) = z \o v
      BY <3>0, <2>5, Zenon
    <3> QED
      BY <3>1, <3>2, <3>3, Zenon DEF LineOf
  <2>7. LineOf(p, a, r, c, w) = z \o (<<Head(w)>> \o t) /\ LineOf(p, a, r, c, t) = z \o t
    BY <2>1, <2>2, <2>6, Zenon
  <2>8. Thinner(z \o (<<Head(w)>> \o t), z \o t, n)
    BY <1>0, <2>1, Zenon
  <2> QED
    BY <2>2, <2>7, <2>8, Zenon
<1> QED
  BY <1>1, <1>2

-----------------------------------------------------------------------------
(* The window of FifoCtrl.                                                 *)

FifoTypes ==
    /\ fifoPlan \in Seq(FifoCommand) /\ fifoWaiting \in BOOLEAN
    /\ fifoSent \in Nat /\ fifoSeqAck \in Nat
    /\ fifoWire \in Seq(Sent) /\ fifoCommands \in Seq(Sent)
    /\ fifoResults \in Seq(Nat) /\ fifoAnswers \in Seq(Nat) /\ fifoCtrlFifo \in Seq(Nat)
    /\ fifoEarly \in Nat
    /\ fifoWaiting => fifoPlan # <<>>

FifoLine == LineOf(fifoCtrlFifo, fifoAnswers, fifoResults, Ids(fifoCommands), Ids(fifoWire))

LineShape == Increasing(FifoLine) /\ Roomy(FifoLine, fifoSent)

\* Commands that the call has still to send.
Unsent == IF fifoWaiting THEN Len(fifoPlan) - 1 ELSE Len(fifoPlan)

\* The last answer that a call has taken.
AckInv ==
    \E a \in 0 .. fifoSent :
      /\ fifoSeqAck = a % FifoSeqMod /\ Above(FifoLine, a)
      /\ fifoSent - a + Unsent <= MaxSilent
      /\ fifoWaiting /\ Head(fifoPlan).op = "peek" => a < fifoSent

\* The numbers in the line are in a window, unless a call gave up too early.
WindowInv ==
    fifoEarly = 0 =>
      \E b \in 0 .. fifoSent :
        /\ Above(FifoLine, b)
        /\ fifoSent - b <= MaxSeqsOut + (IF fifoWaiting THEN 1 ELSE 0)

FifoInv ==
    /\ FifoTypes /\ LineShape /\ AckInv /\ WindowInv
    /\ fifoMisled = FALSE /\ (fifoEarly = 0 => fifoDropped = FALSE)

LEMMA FifoLineNat ==
    FifoTypes => /\ FifoLine \in Seq(Nat) /\ Ids(fifoCommands) \in Seq(Nat)
                 /\ Ids(fifoWire) \in Seq(Nat)
                 /\ Len(FifoLine) = Len(fifoCtrlFifo) + (Len(fifoAnswers) + (Len(fifoResults)
                                      + (Len(fifoCommands) + Len(fifoWire))))
<1> HAVE FifoTypes
<1>1. /\ fifoWire \in Seq(Sent) /\ fifoCommands \in Seq(Sent) /\ fifoResults \in Seq(Nat)
      /\ fifoAnswers \in Seq(Nat) /\ fifoCtrlFifo \in Seq(Nat)
  BY Zenon DEF FifoTypes
<1>2. /\ Ids(fifoCommands) \in Seq(Nat) /\ Len(Ids(fifoCommands)) = Len(fifoCommands)
      /\ Ids(fifoWire) \in Seq(Nat) /\ Len(Ids(fifoWire)) = Len(fifoWire)
  BY <1>1, IdsOf, Zenon
<1>3. PICK c \in Seq(Nat), w \in Seq(Nat) : c = Ids(fifoCommands) /\ w = Ids(fifoWire)
  BY <1>2, Zenon
<1>4. PICK p \in Seq(Nat), a \in Seq(Nat), r \in Seq(Nat) :
        p = fifoCtrlFifo /\ a = fifoAnswers /\ r = fifoResults
  BY <1>1, Zenon
<1>5. /\ LineOf(p, a, r, c, w) \in Seq(Nat)
      /\ Len(LineOf(p, a, r, c, w)) = Len(p) + (Len(a) + (Len(r) + (Len(c) + Len(w))))
  BY LineOfNat
<1>6. LineOf(p, a, r, c, w) = FifoLine
  BY <1>3, <1>4, Zenon DEF FifoLine
<1> QED
  BY <1>2, <1>3, <1>4, <1>5, <1>6, Zenon

\* While no call gave up too early there are at most MAX_SEQS_OUT + 1 numbers in the line.
LEMMA FifoLineShort ==
    FifoTypes /\ LineShape /\ WindowInv /\ fifoEarly = 0 =>
      Len(FifoLine) <= MaxSeqsOut + (IF fifoWaiting THEN 1 ELSE 0)
<1> SUFFICES ASSUME FifoTypes, LineShape, WindowInv, fifoEarly = 0
             PROVE  Len(FifoLine) <= MaxSeqsOut + (IF fifoWaiting THEN 1 ELSE 0)
  OBVIOUS
<1>1. PICK b \in 0 .. fifoSent :
        /\ Above(FifoLine, b)
        /\ fifoSent - b <= MaxSeqsOut + (IF fifoWaiting THEN 1 ELSE 0)
  BY Zenon DEF WindowInv
<1>2. fifoSent \in Nat /\ FifoLine \in Seq(Nat) /\ Roomy(FifoLine, fifoSent)
  BY FifoLineNat, Zenon DEF FifoTypes, LineShape
<1>3. b \in Nat /\ b <= fifoSent
  BY <1>2
<1>4. Len(FifoLine) \in Nat /\ Len(FifoLine) <= fifoSent - b
  BY <1>1, <1>2, <1>3, ShapeLength, Zenon
<1> QED
  BY <1>1, <1>2, <1>4, FifoConstants

LEMMA FifoInitInv == Fifo!Init => FifoInv
<1> SUFFICES ASSUME Fifo!Init PROVE FifoInv
  OBVIOUS
<1>1. /\ fifoPlan = <<Fifo!Poke>> /\ fifoWaiting = FALSE /\ fifoSent = 0 /\ fifoSeqAck = 0
      /\ fifoWire = <<>> /\ fifoCommands = <<>> /\ fifoResults = <<>> /\ fifoAnswers = <<>>
      /\ fifoCtrlFifo = <<>> /\ fifoEarly = 0 /\ fifoDropped = FALSE /\ fifoMisled = FALSE
  BY Zenon DEF Fifo!Init
<1>2. <<>> \in Seq(Sent) /\ <<>> \in Seq(Nat) /\ Len(<<>>) = 0
  OBVIOUS
<1>3. /\ fifoPlan \in Seq(FifoCommand) /\ fifoPlan # <<>> /\ Len(fifoPlan) = 1
  <2>1. Fifo!Poke \in FifoCommand
    BY DEF Fifo!Poke, FifoCommand
  <2> QED
    BY <1>1, <2>1
<1>4. FifoTypes
  <2>1. fifoSent \in Nat /\ fifoSeqAck \in Nat /\ fifoEarly \in Nat
    BY <1>1
  <2> QED
    BY <1>1, <1>2, <1>3, <2>1, Zenon DEF FifoTypes
<1>5. FifoLine \in Seq(Nat) /\ Len(FifoLine) = 0
  <2>1. /\ FifoLine \in Seq(Nat)
        /\ Len(FifoLine) = Len(fifoCtrlFifo) + (Len(fifoAnswers) + (Len(fifoResults)
                                      + (Len(fifoCommands) + Len(fifoWire))))
    BY <1>4, FifoLineNat, Zenon
  <2>2. /\ Len(fifoCtrlFifo) = 0 /\ Len(fifoAnswers) = 0 /\ Len(fifoResults) = 0
        /\ Len(fifoCommands) = 0 /\ Len(fifoWire) = 0
    BY <1>1, <1>2, Zenon
  <2> QED
    BY <2>1, <2>2
<1>6. /\ LineShape /\ \A n \in Nat : Above(FifoLine, n)
  BY <1>5 DEF LineShape, Increasing, Roomy, Above
<1>7. AckInv
  <2>1. 0 % FifoSeqMod = 0
    BY FifoConstants
  <2>2. fifoSent - 0 + Unsent <= MaxSilent /\ 0 \in 0 .. fifoSent
    BY <1>1, <1>3, FifoConstants DEF Unsent
  <2>3. Above(FifoLine, 0)
    BY <1>6
  <2> QED
    BY <1>1, <2>1, <2>2, <2>3, Zenon DEF AckInv
<1>8. WindowInv
  <2>1. 0 \in 0 .. fifoSent /\ fifoSent - 0 <= MaxSeqsOut + (IF fifoWaiting THEN 1 ELSE 0)
    BY <1>1, FifoConstants
  <2>2. Above(FifoLine, 0)
    BY <1>6
  <2> QED
    BY <2>1, <2>2, Zenon DEF WindowInv
<1> QED
  BY <1>1, <1>4, <1>6, <1>7, <1>8, Zenon DEF FifoInv

\* A step of the radio or the network, which only thins the line out.
LEMMA RadioKeepsWindow ==
    ASSUME FifoInv, FifoTypes', Thinner(FifoLine, FifoLine', fifoSent),
           UNCHANGED <<fifoPlan, fifoWaiting, fifoSent, fifoSeqAck, fifoEarly, fifoMisled>>
    PROVE  LineShape' /\ AckInv' /\ WindowInv' /\ fifoMisled' = FALSE
<1>1. /\ fifoPlan' = fifoPlan /\ fifoWaiting' = fifoWaiting /\ fifoSent' = fifoSent
      /\ fifoSeqAck' = fifoSeqAck /\ fifoEarly' = fifoEarly /\ fifoMisled' = fifoMisled
  OBVIOUS
<1>2. /\ Increasing(FifoLine') /\ Roomy(FifoLine', fifoSent)
      /\ \A y \in Nat : Above(FifoLine, y) => Above(FifoLine', y)
  BY Zenon DEF Thinner, FifoInv, LineShape
<1>3. \A y \in 0 .. fifoSent : y \in Nat
  BY DEF FifoInv, FifoTypes
<1>4. LineShape'
  BY <1>1, <1>2, Zenon DEF LineShape
<1>5. AckInv'
  <2>1. PICK a \in 0 .. fifoSent :
          /\ fifoSeqAck = a % FifoSeqMod /\ Above(FifoLine, a)
          /\ fifoSent - a + Unsent <= MaxSilent
          /\ fifoWaiting /\ Head(fifoPlan).op = "peek" => a < fifoSent
    BY Zenon DEF FifoInv, AckInv
  <2>2. Above(FifoLine', a)
    BY <1>2, <1>3, <2>1, Zenon
  <2>3. Unsent' = Unsent
    <3>1. /\ Unsent = IF fifoWaiting THEN Len(fifoPlan) - 1 ELSE Len(fifoPlan)
          /\ Unsent' = IF fifoWaiting' THEN Len(fifoPlan') - 1 ELSE Len(fifoPlan')
      BY DEF Unsent
    <3> QED
      BY <1>1, <3>1
  <2>4. /\ a \in 0 .. fifoSent' /\ fifoSeqAck' = a % FifoSeqMod /\ Above(FifoLine', a)
        /\ fifoSent' - a + Unsent' <= MaxSilent
        /\ fifoWaiting' /\ Head(fifoPlan').op = "peek" => a < fifoSent'
    <3>1. fifoWaiting' => fifoWaiting
      BY <1>1
    <3> QED
      BY <1>1, <2>1, <2>2, <2>3, <3>1, Zenon
  <2> QED
    BY <2>4, Zenon DEF AckInv
<1>6. WindowInv'
  <2>1. SUFFICES ASSUME fifoEarly = 0
                 PROVE  \E b \in 0 .. fifoSent' :
                          /\ Above(FifoLine', b)
                          /\ fifoSent' - b <= MaxSeqsOut + (IF fifoWaiting' THEN 1 ELSE 0)
    BY <1>1, Zenon DEF WindowInv
  <2>2. PICK b \in 0 .. fifoSent :
          /\ Above(FifoLine, b)
          /\ fifoSent - b <= MaxSeqsOut + (IF fifoWaiting THEN 1 ELSE 0)
    BY <2>1, Zenon DEF FifoInv, WindowInv
  <2>3. Above(FifoLine', b)
    BY <1>2, <1>3, <2>2, Zenon
  <2>4. (IF fifoWaiting' THEN 1 ELSE 0) = (IF fifoWaiting THEN 1 ELSE 0)
    BY <1>1
  <2>5. b \in 0 .. fifoSent' /\ fifoSent' - b <= MaxSeqsOut + (IF fifoWaiting' THEN 1 ELSE 0)
    BY <1>1, <2>2, <2>4, Zenon
  <2> QED
    BY <2>3, <2>5, Zenon
<1> QED
  BY <1>1, <1>4, <1>5, <1>6, Zenon DEF FifoInv

\* The parts of the line.
LEMMA FifoParts ==
    ASSUME FifoTypes
    PROVE  \E p, a, r, c, w \in Seq(Nat) :
             /\ p = fifoCtrlFifo /\ a = fifoAnswers /\ r = fifoResults
             /\ c = Ids(fifoCommands) /\ w = Ids(fifoWire)
             /\ FifoLine = LineOf(p, a, r, c, w)
<1>1. fifoResults \in Seq(Nat) /\ fifoAnswers \in Seq(Nat) /\ fifoCtrlFifo \in Seq(Nat)
  BY Zenon DEF FifoTypes
<1>2. Ids(fifoCommands) \in Seq(Nat) /\ Ids(fifoWire) \in Seq(Nat)
  BY FifoLineNat, Zenon
<1> QED
  BY <1>1, <1>2, Zenon DEF FifoLine

LEMMA ThinnerSame ==
    \A l, n : Thinner(l, l, n)
BY Zenon DEF Thinner

LEMMA NatQueue ==
    ASSUME NEW q \in Seq(Nat), q # <<>>
    PROVE  /\ Tail(q) \in Seq(Nat) /\ Head(q) \in Nat
           /\ \A p \in Seq(Nat) : Append(p, Head(q)) \in Seq(Nat)
BY FirstAndRest, AppendNat, Zenon

LEMMA FifoHandleMsg ==
    ASSUME FifoInv, Fifo!HandleMsg
    PROVE  FifoInv'
<1>1. /\ fifoAnswers # <<>> /\ fifoAnswers' = Tail(fifoAnswers)
      /\ \/ /\ Len(fifoCtrlFifo) < Fifo!CtrlFifoLen
            /\ fifoCtrlFifo' = Append(fifoCtrlFifo, Head(fifoAnswers))
            /\ fifoDropped' = fifoDropped
         \/ /\ ~(Len(fifoCtrlFifo) < Fifo!CtrlFifoLen)
            /\ fifoCtrlFifo' = fifoCtrlFifo /\ fifoDropped' = TRUE
      /\ fifoPlan' = fifoPlan /\ fifoWaiting' = fifoWaiting /\ fifoSent' = fifoSent
      /\ fifoSeqAck' = fifoSeqAck /\ fifoEarly' = fifoEarly /\ fifoMisled' = fifoMisled
      /\ fifoWire' = fifoWire /\ fifoCommands' = fifoCommands /\ fifoResults' = fifoResults
  BY DEF Fifo!HandleMsg, Fifo!call, Fifo!radio
<1>2. FifoTypes
  BY Zenon DEF FifoInv
<1>3. FifoTypes'
  <2>1. /\ fifoAnswers \in Seq(Nat) /\ fifoCtrlFifo \in Seq(Nat)
    BY <1>2, Zenon DEF FifoTypes
  <2>2. fifoAnswers' \in Seq(Nat) /\ fifoCtrlFifo' \in Seq(Nat)
    BY <1>1, <2>1, NatQueue, Zenon
  <2> QED
    BY <1>1, <1>2, <2>2, Zenon DEF FifoTypes
<1>4. PICK p \in Seq(Nat), a \in Seq(Nat), r \in Seq(Nat), c \in Seq(Nat), w \in Seq(Nat) :
        /\ p = fifoCtrlFifo /\ a = fifoAnswers /\ r = fifoResults
        /\ c = Ids(fifoCommands) /\ w = Ids(fifoWire)
        /\ FifoLine = LineOf(p, a, r, c, w)
  BY <1>2, FifoParts, Zenon
<1>5. fifoEarly = 0 => Len(fifoCtrlFifo) < Fifo!CtrlFifoLen
  <2>1. SUFFICES ASSUME fifoEarly = 0 PROVE Len(fifoCtrlFifo) < Fifo!CtrlFifoLen
    OBVIOUS
  <2>2. Len(FifoLine) <= MaxSeqsOut + (IF fifoWaiting THEN 1 ELSE 0)
    BY <2>1, FifoLineShort, Zenon DEF FifoInv
  <2>3. Len(FifoLine) = Len(fifoCtrlFifo) + (Len(fifoAnswers) + (Len(fifoResults)
                                      + (Len(fifoCommands) + Len(fifoWire))))
    BY <1>2, FifoLineNat, Zenon
  <2>4. /\ Len(fifoCtrlFifo) \in Nat /\ Len(fifoAnswers) \in Nat \ {0}
        /\ Len(fifoResults) \in Nat /\ Len(fifoCommands) \in Nat /\ Len(fifoWire) \in Nat
    BY <1>1, <1>2 DEF FifoTypes
  <2> QED
    BY <2>2, <2>3, <2>4, FifoConstants DEF Fifo!CtrlFifoLen
<1>6. Thinner(FifoLine, FifoLine', fifoSent)
  <2>1. CASE Len(fifoCtrlFifo) < Fifo!CtrlFifoLen
    <3>1. FifoLine' = LineOf(Append(p, Head(a)), Tail(a), r, c, w)
      BY <1>1, <1>4, <2>1, Zenon DEF FifoLine
    <3>2. FifoLine' = FifoLine
      BY <1>1, <1>4, <3>1, LinePassedOn
    <3> QED
      BY <3>2, ThinnerSame, Zenon
  <2>2. CASE ~(Len(fifoCtrlFifo) < Fifo!CtrlFifoLen)
    <3>1. FifoLine' = LineOf(p, Tail(a), r, c, w)
      BY <1>1, <1>4, <2>2, Zenon DEF FifoLine
    <3>2. fifoSent \in Nat
      BY <1>2, Zenon DEF FifoTypes
    <3> QED
      BY <1>1, <1>4, <3>1, <3>2, LineWithout, Zenon
  <2> QED
    BY <2>1, <2>2, Zenon
<1>7. LineShape' /\ AckInv' /\ WindowInv' /\ fifoMisled' = FALSE
  BY <1>1, <1>3, <1>6, RadioKeepsWindow, Zenon
<1>8. fifoEarly' = 0 => fifoDropped' = FALSE
  BY <1>1, <1>5, Zenon DEF FifoInv
<1> QED
  BY <1>3, <1>7, <1>8, Zenon DEF FifoInv

LEMMA SentQueue ==
    ASSUME NEW q \in Seq(Sent), q # <<>>
    PROVE  /\ Head(q) \in Sent /\ Tail(q) \in Seq(Sent) /\ Head(q).id \in Nat
           /\ \A p \in Seq(Sent) : Append(p, Head(q)) \in Seq(Sent)
<1>1. Head(q) \in Sent /\ Tail(q) \in Seq(Sent)
  BY IdsOf, Zenon
<1>2. \A x \in Sent : x.id \in Nat
  BY DEF Sent
<1>3. \A p \in Seq(Sent) : \A x \in Sent : Append(p, x) \in Seq(Sent)
  OBVIOUS
<1> QED
  BY <1>1, <1>2, <1>3, Zenon

LEMMA FifoRadio ==
    ASSUME FifoInv, Fifo!StoreCommand \/ Fifo!Act \/ Fifo!SendAnswer \/ Fifo!Lose
    PROVE  FifoInv'
<1>1. /\ fifoPlan' = fifoPlan /\ fifoWaiting' = fifoWaiting /\ fifoSent' = fifoSent
      /\ fifoSeqAck' = fifoSeqAck /\ fifoEarly' = fifoEarly /\ fifoMisled' = fifoMisled
      /\ fifoCtrlFifo' = fifoCtrlFifo /\ fifoDropped' = fifoDropped
  BY DEF Fifo!StoreCommand, Fifo!Act, Fifo!SendAnswer, Fifo!Lose, Fifo!call, Fifo!radio,
         Fifo!history
<1>2. FifoTypes /\ fifoSent \in Nat
  BY Zenon DEF FifoInv, FifoTypes
<1>3. /\ fifoWire \in Seq(Sent) /\ fifoCommands \in Seq(Sent)
      /\ fifoResults \in Seq(Nat) /\ fifoAnswers \in Seq(Nat)
  BY <1>2, Zenon DEF FifoTypes
<1>4. PICK p \in Seq(Nat), a \in Seq(Nat), r \in Seq(Nat), c \in Seq(Nat), w \in Seq(Nat) :
        /\ p = fifoCtrlFifo /\ a = fifoAnswers /\ r = fifoResults
        /\ c = Ids(fifoCommands) /\ w = Ids(fifoWire)
        /\ FifoLine = LineOf(p, a, r, c, w)
  BY <1>2, FifoParts, Zenon
<1>5. SUFFICES FifoTypes' /\ Thinner(FifoLine, FifoLine', fifoSent)
  <2>1. LineShape' /\ AckInv' /\ WindowInv' /\ fifoMisled' = FALSE
    BY <1>1, <1>5, RadioKeepsWindow, Zenon
  <2> QED
    BY <1>1, <1>5, <2>1, Zenon DEF FifoInv
<1>6. CASE Fifo!StoreCommand
  <2>1. /\ fifoWire # <<>> /\ fifoWire' = Tail(fifoWire)
        /\ fifoCommands' = Append(fifoCommands, Head(fifoWire))
        /\ fifoResults' = fifoResults /\ fifoAnswers' = fifoAnswers
    BY <1>6 DEF Fifo!StoreCommand
  <2>2. /\ fifoWire' \in Seq(Sent) /\ fifoCommands' \in Seq(Sent)
    BY <1>3, <2>1, SentQueue, Zenon
  <2>3. FifoTypes'
    BY <1>1, <1>2, <1>3, <2>1, <2>2, Zenon DEF FifoTypes
  <2>4. /\ w # <<>> /\ Head(w) = Head(fifoWire).id /\ Ids(fifoWire') = Tail(w)
        /\ Ids(fifoCommands') = Append(c, Head(fifoWire).id)
    BY <1>3, <1>4, <2>1, IdsOf, SentQueue, Zenon
  <2>5. FifoLine' = LineOf(p, a, r, Append(c, Head(w)), Tail(w))
    BY <1>1, <1>4, <2>1, <2>4, Zenon DEF FifoLine
  <2>6. FifoLine' = FifoLine
    BY <1>4, <2>4, <2>5, LinePassedOn
  <2> QED
    BY <2>3, <2>6, ThinnerSame, Zenon
<1>7. CASE Fifo!Act
  <2>1. /\ fifoCommands # <<>> /\ fifoCommands' = Tail(fifoCommands)
        /\ fifoResults' = Append(fifoResults, Head(fifoCommands).id)
        /\ fifoWire' = fifoWire /\ fifoAnswers' = fifoAnswers
    BY <1>7 DEF Fifo!Act
  <2>2. /\ fifoCommands' \in Seq(Sent) /\ fifoResults' \in Seq(Nat)
    BY <1>3, <2>1, SentQueue, AppendNat, Zenon
  <2>3. FifoTypes'
    BY <1>1, <1>2, <1>3, <2>1, <2>2, Zenon DEF FifoTypes
  <2>4. /\ c # <<>> /\ Head(c) = Head(fifoCommands).id /\ Ids(fifoCommands') = Tail(c)
    BY <1>3, <1>4, <2>1, IdsOf, Zenon
  <2>5. FifoLine' = LineOf(p, a, Append(r, Head(c)), Tail(c), w)
    BY <1>1, <1>4, <2>1, <2>4, Zenon DEF FifoLine
  <2>6. FifoLine' = FifoLine
    BY <1>4, <2>4, <2>5, LinePassedOn
  <2> QED
    BY <2>3, <2>6, ThinnerSame, Zenon
<1>8. CASE Fifo!SendAnswer
  <2>1. /\ fifoResults # <<>> /\ fifoResults' = Tail(fifoResults)
        /\ fifoAnswers' = Append(fifoAnswers, Head(fifoResults))
        /\ fifoWire' = fifoWire /\ fifoCommands' = fifoCommands
    BY <1>8 DEF Fifo!SendAnswer
  <2>2. /\ fifoAnswers' \in Seq(Nat) /\ fifoResults' \in Seq(Nat)
    BY <1>3, <2>1, NatQueue, Zenon
  <2>3. FifoTypes'
    BY <1>1, <1>2, <1>3, <2>1, <2>2, Zenon DEF FifoTypes
  <2>5. FifoLine' = LineOf(p, Append(a, Head(r)), Tail(r), c, w)
    BY <1>1, <1>4, <2>1, Zenon DEF FifoLine
  <2>6. FifoLine' = FifoLine
    BY <1>4, <2>1, <2>5, LinePassedOn
  <2> QED
    BY <2>3, <2>6, ThinnerSame, Zenon
<1>9. CASE Fifo!Lose
  <2>1. /\ fifoResults' = fifoResults /\ fifoCommands' = fifoCommands
        /\ \/ /\ fifoWire # <<>> /\ fifoWire' = Tail(fifoWire)
              /\ fifoAnswers' = fifoAnswers
           \/ /\ fifoAnswers # <<>> /\ fifoAnswers' = Tail(fifoAnswers)
              /\ fifoWire' = fifoWire
    BY <1>9 DEF Fifo!Lose, Fifo!radio
  <2>2. CASE fifoWire # <<>> /\ fifoWire' = Tail(fifoWire) /\ fifoAnswers' = fifoAnswers
    <3>1. fifoWire' \in Seq(Sent)
      BY <1>3, <2>2, SentQueue, Zenon
    <3>2. FifoTypes'
      BY <1>1, <1>2, <1>3, <2>1, <2>2, <3>1, Zenon DEF FifoTypes
    <3>3. w # <<>> /\ Ids(fifoWire') = Tail(w)
      BY <1>3, <1>4, <2>2, IdsOf, Zenon
    <3>4. FifoLine' = LineOf(p, a, r, c, Tail(w))
      BY <1>1, <1>4, <2>1, <2>2, <3>3, Zenon DEF FifoLine
    <3> QED
      BY <1>2, <1>4, <3>2, <3>3, <3>4, LineWithout, Zenon
  <2>3. CASE fifoAnswers # <<>> /\ fifoAnswers' = Tail(fifoAnswers) /\ fifoWire' = fifoWire
    <3>1. fifoAnswers' \in Seq(Nat)
      BY <1>3, <2>3, NatQueue, Zenon
    <3>2. FifoTypes'
      BY <1>1, <1>2, <1>3, <2>1, <2>3, <3>1, Zenon DEF FifoTypes
    <3>4. FifoLine' = LineOf(p, Tail(a), r, c, w)
      BY <1>1, <1>4, <2>1, <2>3, Zenon DEF FifoLine
    <3> QED
      BY <1>2, <1>4, <2>3, <3>2, <3>4, LineWithout, Zenon
  <2> QED
    BY <2>1, <2>2, <2>3, Zenon
<1> QED
  BY <1>6, <1>7, <1>8, <1>9, Zenon

LEMMA SameRemainder ==
    ASSUME NEW a \in Nat, NEW n \in Nat, a <= n, n - a <= MaxSilent,
           a % FifoSeqMod = n % FifoSeqMod
    PROVE  a = n
<1>1. /\ FifoSeqMod \in Nat \ {0} /\ n - a \in 0 .. FifoSeqMod - 1 /\ n \in Int /\ a \in Int
      /\ n % FifoSeqMod \in Int
  <2>1. /\ FifoSeqMod \in Nat \ {0} /\ MaxSilent \in Nat /\ MaxSilent < FifoSeqMod \div 2
    BY FifoConstants
  <2>2. FifoSeqMod = 2 * (FifoSeqMod \div 2) + (FifoSeqMod % 2) /\ FifoSeqMod % 2 \in 0 .. 1
        /\ FifoSeqMod \div 2 \in Int
    BY <2>1
  <2> QED
    BY <2>1, <2>2
<1>2. ((n % FifoSeqMod) - (a % FifoSeqMod)) % FifoSeqMod = n - a
  <2>1. \A x, y \in Int : x - y \in 0 .. FifoSeqMod - 1 =>
          ((x % FifoSeqMod) - (y % FifoSeqMod)) % FifoSeqMod = x - y
    BY <1>1, RemainderOfDifference, Zenon
  <2> QED
    BY <1>1, <2>1, Zenon
<1>3. (n % FifoSeqMod) - (a % FifoSeqMod) = 0
  BY <1>1
<1>4. 0 % FifoSeqMod = 0
  BY <1>1
<1>5. n - a = 0
  BY <1>2, <1>3, <1>4, Zenon
<1> QED
  BY <1>5

\* The unanswered commands, as the numbers of 16 bits give them
LEMMA Unanswered ==
    ASSUME NEW a \in Nat, NEW n \in Nat, a <= n, n - a <= MaxSilent
    PROVE  (n - (a % FifoSeqMod)) % FifoSeqMod = n - a
<1>1. /\ FifoSeqMod \in Nat \ {0} /\ n - a \in 0 .. FifoSeqMod - 1
  <2>1. /\ FifoSeqMod \in Nat \ {0} /\ MaxSilent \in Nat /\ MaxSilent < FifoSeqMod \div 2
    BY FifoConstants
  <2>2. FifoSeqMod = 2 * (FifoSeqMod \div 2) + (FifoSeqMod % 2) /\ FifoSeqMod % 2 \in 0 .. 1
        /\ FifoSeqMod \div 2 \in Int
    BY <2>1
  <2> QED
    BY <2>1, <2>2
<1>2. PICK d \in Int : d = a \div FifoSeqMod /\ a = d * FifoSeqMod + (a % FifoSeqMod)
  BY <1>1
<1>3. n - (a % FifoSeqMod) = d * FifoSeqMod + (n - a)
  <2>1. PICK dm \in Int, r \in Int : dm = d * FifoSeqMod /\ r = a % FifoSeqMod
    BY <1>1
  <2>2. a = dm + r
    BY <1>2, <2>1, Zenon
  <2>3. n - r = dm + (n - a)
    BY <2>2
  <2> QED
    BY <2>1, <2>3, Zenon
<1>4. \A q \in Int, r \in 0 .. FifoSeqMod - 1 : (q * FifoSeqMod + r) % FifoSeqMod = r
  BY <1>1, UniqueRemainder, Zenon
<1> QED
  BY <1>1, <1>2, <1>3, <1>4, Zenon

\* What is known of the last answer that was taken
LEMMA LastAnswer ==
    ASSUME FifoInv
    PROVE  \E a \in Nat :
             /\ a <= fifoSent /\ a \in 0 .. fifoSent /\ fifoSeqAck = a % FifoSeqMod
             /\ Above(FifoLine, a) /\ fifoSent - a + Unsent <= MaxSilent
             /\ fifoWaiting /\ Head(fifoPlan).op = "peek" => a < fifoSent
<1>1. PICK a \in 0 .. fifoSent :
        /\ fifoSeqAck = a % FifoSeqMod /\ Above(FifoLine, a)
        /\ fifoSent - a + Unsent <= MaxSilent
        /\ fifoWaiting /\ Head(fifoPlan).op = "peek" => a < fifoSent
  BY Zenon DEF FifoInv, AckInv
<1>2. a \in Nat /\ a <= fifoSent
  BY DEF FifoInv, FifoTypes
<1> QED
  BY <1>1, <1>2, Zenon

LEMMA FifoCall ==
    ASSUME FifoInv, Fifo!Call
    PROVE  FifoInv'
<1>1. /\ fifoPlan = <<>>
      /\ \/ fifoPlan' = <<Fifo!Poke>>
         \/ fifoPlan' = <<Fifo!Peek>>
         \/ \E s \in Slaves : \E r \in BOOLEAN : fifoPlan' = Fifo!Spi(s, r)
      /\ ((fifoSent - fifoSeqAck) % FifoSeqMod) + Len(fifoPlan') <= MaxSilent
      /\ fifoWaiting' = fifoWaiting /\ fifoSent' = fifoSent /\ fifoSeqAck' = fifoSeqAck
      /\ fifoWire' = fifoWire /\ fifoCommands' = fifoCommands /\ fifoResults' = fifoResults
      /\ fifoAnswers' = fifoAnswers /\ fifoCtrlFifo' = fifoCtrlFifo
      /\ fifoEarly' = fifoEarly /\ fifoDropped' = fifoDropped /\ fifoMisled' = fifoMisled
  BY DEF Fifo!Call, Fifo!radio, Fifo!history
<1>2. fifoWaiting = FALSE /\ fifoWaiting' = FALSE /\ fifoSent \in Nat
  <2>1. fifoWaiting \in BOOLEAN /\ (fifoWaiting => fifoPlan # <<>>) /\ fifoSent \in Nat
    BY Zenon DEF FifoInv, FifoTypes
  <2> QED
    BY <1>1, <2>1
<1>3. fifoPlan' \in Seq(FifoCommand)
  <2>1. /\ Fifo!Poke \in FifoCommand /\ Fifo!Peek \in FifoCommand
        /\ \A s \in Slaves : Fifo!Ctrl(s) \in FifoCommand /\ Fifo!Data(s) \in FifoCommand
    BY DEF Fifo!Poke, Fifo!Peek, Fifo!Ctrl, Fifo!Data, FifoCommand
  <2>2. \A s \in Slaves : \A r \in BOOLEAN : Fifo!Spi(s, r) \in Seq(FifoCommand)
    <3> TAKE s \in Slaves
    <3> TAKE r \in BOOLEAN
    <3>0. <<>> \in Seq(FifoCommand) /\ \A x \in FifoCommand : <<x>> \in Seq(FifoCommand)
      OBVIOUS
    <3>1. (IF fifoCache # s THEN <<Fifo!Ctrl(s)>> ELSE <<>>) \in Seq(FifoCommand)
      BY <2>1, <3>0, Zenon
    <3>2. <<Fifo!Data(s)>> \in Seq(FifoCommand)
      BY <2>1, <3>0, Zenon
    <3>3. (IF r THEN <<Fifo!Peek>> ELSE <<>>) \in Seq(FifoCommand)
      BY <2>1, <3>0, Zenon
    <3>4. \A x, y, z \in Seq(FifoCommand) : (x \o y) \o z \in Seq(FifoCommand)
      OBVIOUS
    <3>5. ((IF fifoCache # s THEN <<Fifo!Ctrl(s)>> ELSE <<>>) \o <<Fifo!Data(s)>>)
            \o (IF r THEN <<Fifo!Peek>> ELSE <<>>) \in Seq(FifoCommand)
      BY <3>1, <3>2, <3>3, <3>4, Zenon
    <3> QED
      BY <3>5, Zenon DEF Fifo!Spi
  <2>3. <<Fifo!Poke>> \in Seq(FifoCommand) /\ <<Fifo!Peek>> \in Seq(FifoCommand)
    <3>1. \A x \in FifoCommand : <<x>> \in Seq(FifoCommand)
      OBVIOUS
    <3> QED
      BY <2>1, <3>1, Zenon
  <2> QED
    BY <1>1, <2>2, <2>3, Zenon
<1>4. FifoTypes'
  BY <1>1, <1>2, <1>3, Zenon DEF FifoInv, FifoTypes
<1>5. FifoLine' = FifoLine
  BY <1>1, Zenon DEF FifoLine
<1>6. LineShape'
  BY <1>1, <1>5, Zenon DEF FifoInv, LineShape
<1>7. AckInv'
  <2>1. PICK a \in Nat :
          /\ a <= fifoSent /\ a \in 0 .. fifoSent /\ fifoSeqAck = a % FifoSeqMod
          /\ Above(FifoLine, a) /\ fifoSent - a + Unsent <= MaxSilent
    BY LastAnswer, Zenon
  <2>2. Unsent' = Len(fifoPlan') /\ Unsent = 0
    BY <1>1, <1>2 DEF Unsent
  <2>3. fifoSent - a <= MaxSilent
    BY <1>2, <2>1, <2>2
  <2>4. (fifoSent - fifoSeqAck) % FifoSeqMod = fifoSent - a
    BY <1>2, <2>1, <2>3, Unanswered, Zenon
  <2>5. fifoSent' - a + Unsent' <= MaxSilent
    <3>0. ((fifoSent - fifoSeqAck) % FifoSeqMod) + Len(fifoPlan') <= MaxSilent
      BY <1>1, Zenon
    <3>1. (fifoSent - a) + Len(fifoPlan') <= MaxSilent
      BY <2>4, <3>0, Zenon
    <3> QED
      BY <1>1, <2>2, <3>1
  <2>6. /\ a \in 0 .. fifoSent' /\ fifoSeqAck' = a % FifoSeqMod /\ Above(FifoLine', a)
        /\ fifoWaiting' /\ Head(fifoPlan').op = "peek" => a < fifoSent'
    BY <1>1, <1>2, <1>5, <2>1, Zenon
  <2> QED
    BY <2>5, <2>6, Zenon DEF AckInv
<1>8. WindowInv'
  <2>1. SUFFICES ASSUME fifoEarly = 0
                 PROVE  \E b \in 0 .. fifoSent' :
                          /\ Above(FifoLine', b)
                          /\ fifoSent' - b <= MaxSeqsOut + (IF fifoWaiting' THEN 1 ELSE 0)
    BY <1>1, Zenon DEF WindowInv
  <2>2. PICK b \in 0 .. fifoSent :
          /\ Above(FifoLine, b)
          /\ fifoSent - b <= MaxSeqsOut + (IF fifoWaiting THEN 1 ELSE 0)
    BY <2>1, Zenon DEF FifoInv, WindowInv
  <2>3. /\ b \in 0 .. fifoSent' /\ Above(FifoLine', b)
        /\ fifoSent' - b <= MaxSeqsOut + (IF fifoWaiting' THEN 1 ELSE 0)
    BY <1>1, <1>2, <1>5, <2>2
  <2> QED
    BY <2>3, Zenon
<1> QED
  BY <1>1, <1>4, <1>6, <1>7, <1>8, Zenon DEF FifoInv

LEMMA FifoSendPkt ==
    ASSUME FifoInv, Fifo!SendPkt
    PROVE  FifoInv'
<1> DEFINE new == [cmd |-> Head(fifoPlan), id |-> fifoSent + 1]
<1>1. /\ fifoPlan # <<>> /\ ~fifoWaiting /\ fifoWaiting' = TRUE /\ fifoSent' = fifoSent + 1
      /\ fifoWire' = Append(fifoWire, new) /\ fifoPlan' = fifoPlan
      /\ fifoSeqAck' = fifoSeqAck /\ fifoCommands' = fifoCommands
      /\ fifoResults' = fifoResults /\ fifoAnswers' = fifoAnswers
      /\ fifoCtrlFifo' = fifoCtrlFifo /\ fifoEarly' = fifoEarly
      /\ fifoDropped' = fifoDropped /\ fifoMisled' = fifoMisled
  BY DEF Fifo!SendPkt, Fifo!radio, Fifo!history
<1>2. /\ FifoTypes /\ fifoSent \in Nat /\ fifoSent + 1 \in Nat /\ fifoWire \in Seq(Sent)
      /\ fifoPlan \in Seq(FifoCommand)
  BY DEF FifoInv, FifoTypes
<1>3. new \in Sent /\ new.id = fifoSent + 1
  BY <1>1, <1>2 DEF Sent
<1> HIDE DEF new
<1>4. FifoTypes'
  <2>1. Append(fifoWire, new) \in Seq(Sent)
    BY <1>2, <1>3
  <2> QED
    BY <1>1, <1>2, <2>1, Zenon DEF FifoTypes
<1>5. FifoLine' = Append(FifoLine, fifoSent + 1)
  <2>1. PICK p \in Seq(Nat), a \in Seq(Nat), r \in Seq(Nat), c \in Seq(Nat), w \in Seq(Nat) :
          /\ p = fifoCtrlFifo /\ a = fifoAnswers /\ r = fifoResults
          /\ c = Ids(fifoCommands) /\ w = Ids(fifoWire)
          /\ FifoLine = LineOf(p, a, r, c, w)
    BY <1>2, FifoParts, Zenon
  <2>2. Ids(fifoWire') = Append(w, fifoSent + 1)
    BY <1>1, <1>2, <1>3, <2>1, IdsOf, Zenon
  <2>3. FifoLine' = LineOf(p, a, r, c, Append(w, fifoSent + 1))
    BY <1>1, <2>1, <2>2, Zenon DEF FifoLine
  <2>4. LineOf(p, a, r, c, Append(w, fifoSent + 1))
          = Append(LineOf(p, a, r, c, w), fifoSent + 1)
    <3>1. PICK x \in Nat : x = fifoSent + 1
      BY <1>2
    <3>2. LineOf(p, a, r, c, Append(w, x)) = Append(LineOf(p, a, r, c, w), x)
      <4>1. \A r1, c1, w1 \in Seq(Nat) : \A y \in Nat :
              LineOf(p, a, r1, c1, Append(w1, y)) = Append(LineOf(p, a, r1, c1, w1), y)
        BY LineSent, Zenon
      <4> QED
        <5>1. \A w1 \in Seq(Nat) : \A y \in Nat :
                LineOf(p, a, r, c, Append(w1, y)) = Append(LineOf(p, a, r, c, w1), y)
          BY <4>1, Zenon
        <5> QED
          BY <5>1, Zenon
    <3> QED
      BY <3>1, <3>2, Zenon
  <2> QED
    BY <2>1, <2>3, <2>4, Zenon
<1>6. /\ Increasing(FifoLine') /\ Roomy(FifoLine', fifoSent + 1)
      /\ \A y \in Nat : Above(FifoLine, y) /\ y <= fifoSent => Above(FifoLine', y)
  <2>1. FifoLine \in Seq(Nat) /\ Increasing(FifoLine) /\ Roomy(FifoLine, fifoSent)
    BY <1>2, FifoLineNat, Zenon DEF FifoInv, LineShape
  <2> QED
    BY <1>2, <1>5, <2>1, ShapeAppend, Zenon
<1>7. LineShape'
  BY <1>1, <1>6, Zenon DEF LineShape
<1>8. AckInv'
  <2>1. PICK a \in Nat :
          /\ a <= fifoSent /\ a \in 0 .. fifoSent /\ fifoSeqAck = a % FifoSeqMod
          /\ Above(FifoLine, a) /\ fifoSent - a + Unsent <= MaxSilent
    BY LastAnswer, Zenon
  <2>2. Unsent = Len(fifoPlan) /\ Unsent' = Len(fifoPlan) - 1 /\ Len(fifoPlan) \in Nat
    BY <1>1, <1>2 DEF Unsent
  <2>3. fifoSent' - a + Unsent' <= MaxSilent /\ a < fifoSent' /\ a \in 0 .. fifoSent'
    BY <1>1, <1>2, <2>1, <2>2, FifoConstants
  <2>4. Above(FifoLine', a) /\ fifoSeqAck' = a % FifoSeqMod
    BY <1>1, <1>6, <2>1, Zenon
  <2> QED
    BY <2>3, <2>4, Zenon DEF AckInv
<1>9. WindowInv'
  <2>1. SUFFICES ASSUME fifoEarly = 0
                 PROVE  \E b \in 0 .. fifoSent' :
                          /\ Above(FifoLine', b)
                          /\ fifoSent' - b <= MaxSeqsOut + (IF fifoWaiting' THEN 1 ELSE 0)
    BY <1>1, Zenon DEF WindowInv
  <2>2. PICK b \in 0 .. fifoSent :
          /\ Above(FifoLine, b)
          /\ fifoSent - b <= MaxSeqsOut + (IF fifoWaiting THEN 1 ELSE 0)
    BY <2>1, Zenon DEF FifoInv, WindowInv
  <2>3. b \in Nat /\ b <= fifoSent
    BY <1>2
  <2>4. /\ b \in 0 .. fifoSent'
        /\ fifoSent' - b <= MaxSeqsOut + (IF fifoWaiting' THEN 1 ELSE 0)
    BY <1>1, <1>2, <2>2, <2>3, FifoConstants
  <2>5. Above(FifoLine', b)
    BY <1>6, <2>2, <2>3, Zenon
  <2> QED
    BY <2>4, <2>5, Zenon
<1> QED
  BY <1>1, <1>4, <1>7, <1>8, <1>9, Zenon DEF FifoInv

\* A call that goes on after the answer a, which is one of the last MAX_SEQS_OUT.
LEMMA GoKeepsWindow ==
    ASSUME FifoInv, fifoWaiting, Fifo!Go, NEW a \in Nat, a <= fifoSent,
           a + MaxSeqsOut >= fifoSent, fifoSeqAck' = a % FifoSeqMod, Above(FifoLine', a),
           fifoSent - a + (Len(fifoPlan) - 1) <= MaxSilent, fifoSent' = fifoSent
    PROVE  /\ AckInv' /\ WindowInv' /\ fifoPlan' \in Seq(FifoCommand)
           /\ fifoWaiting' = FALSE
<1>1. fifoPlan' = Tail(fifoPlan) /\ fifoWaiting' = FALSE
  BY Zenon DEF Fifo!Go
<1>2. fifoPlan \in Seq(FifoCommand) /\ fifoPlan # <<>> /\ fifoSent \in Nat
  BY Zenon DEF FifoInv, FifoTypes
<1>3. /\ fifoPlan' \in Seq(FifoCommand) /\ Len(fifoPlan') = Len(fifoPlan) - 1
  BY <1>1, <1>2
<1>4. a \in 0 .. fifoSent' /\ fifoSent' - a + Unsent' <= MaxSilent
  BY <1>1, <1>2, <1>3 DEF Unsent
<1>5. AckInv'
  <2>1. fifoWaiting' /\ Head(fifoPlan').op = "peek" => a < fifoSent'
    BY <1>1
  <2> QED
    BY <1>4, <2>1, Zenon DEF AckInv
<1>6. fifoSent' - a <= MaxSeqsOut + (IF fifoWaiting' THEN 1 ELSE 0)
  BY <1>1, <1>2, FifoConstants
<1>7. WindowInv'
  BY <1>4, <1>6, Zenon DEF WindowInv
<1> QED
  BY <1>1, <1>3, <1>5, <1>7, Zenon

\* The answer that a call waits for, and what it says of the answer a
LEMMA AwaitedAnswer ==
    ASSUME FifoInv, NEW a \in Nat, a <= fifoSent, fifoSent - a <= MaxSilent,
           ~Fifo!Before(a % FifoSeqMod, Fifo!Target)
    PROVE  /\ a + MaxSeqsOut >= fifoSent
           /\ Head(fifoPlan).op = "peek" => a = fifoSent
<1>1. fifoSent \in Nat /\ MaxSeqsOut \in Nat /\ 0 \in Nat /\ fifoSent - 0 = fifoSent
  BY FifoConstants DEF FifoInv, FifoTypes
<1>2. CASE Head(fifoPlan).op = "peek"
  <2>1. Fifo!Target = (fifoSent - 0) % FifoSeqMod
    BY <1>1, <1>2, Zenon DEF Fifo!Target
  <2>2. fifoSent - a <= 0
    BY <1>1, <2>1, NotBehind, Zenon
  <2> QED
    BY <1>1, <2>2
<1>3. CASE Head(fifoPlan).op # "peek"
  <2>1. Fifo!Target = (fifoSent - MaxSeqsOut) % FifoSeqMod
    BY <1>3, Zenon DEF Fifo!Target
  <2>2. fifoSent - a <= MaxSeqsOut
    BY <1>1, <2>1, NotBehind, Zenon
  <2> QED
    BY <1>1, <1>3, <2>2
<1> QED
  BY <1>2, <1>3, Zenon

LEMMA FifoAnswered ==
    ASSUME FifoInv, Fifo!Answered
    PROVE  FifoInv'
<1>1. /\ fifoWaiting /\ ~Fifo!Before(fifoSeqAck, Fifo!Target) /\ Fifo!Go
      /\ fifoMisled' = (fifoMisled \/ Head(fifoPlan).op = "peek")
      /\ fifoSent' = fifoSent /\ fifoSeqAck' = fifoSeqAck
      /\ fifoWire' = fifoWire /\ fifoCommands' = fifoCommands /\ fifoResults' = fifoResults
      /\ fifoAnswers' = fifoAnswers /\ fifoCtrlFifo' = fifoCtrlFifo
      /\ fifoEarly' = fifoEarly /\ fifoDropped' = fifoDropped
  BY DEF Fifo!Answered, Fifo!radio
<1>2. PICK a \in Nat :
        /\ a <= fifoSent /\ a \in 0 .. fifoSent /\ fifoSeqAck = a % FifoSeqMod
        /\ Above(FifoLine, a) /\ fifoSent - a + Unsent <= MaxSilent
        /\ fifoWaiting /\ Head(fifoPlan).op = "peek" => a < fifoSent
  BY LastAnswer, Zenon
<1>3. /\ fifoSent \in Nat /\ fifoPlan \in Seq(FifoCommand) /\ fifoPlan # <<>>
      /\ MaxSilent \in Nat
  BY <1>1, FifoConstants, Zenon DEF FifoInv, FifoTypes
<1>4. /\ fifoSent - a + (Len(fifoPlan) - 1) <= MaxSilent /\ fifoSent - a <= MaxSilent
  BY <1>1, <1>2, <1>3 DEF Unsent
<1>5. /\ a + MaxSeqsOut >= fifoSent
      /\ Head(fifoPlan).op = "peek" => a = fifoSent
  BY <1>1, <1>2, <1>4, AwaitedAnswer, Zenon
<1>6. Head(fifoPlan).op # "peek"
  <2>1. ~(a = fifoSent /\ a < fifoSent)
    BY <1>3
  <2> QED
    BY <1>1, <1>2, <1>5, <2>1, Zenon
<1>7. FifoLine' = FifoLine
  BY <1>1, Zenon DEF FifoLine
<1>8. AckInv' /\ WindowInv' /\ fifoPlan' \in Seq(FifoCommand) /\ fifoWaiting' = FALSE
  BY <1>1, <1>2, <1>4, <1>5, <1>7, GoKeepsWindow, Zenon
<1>9. FifoTypes'
  BY <1>1, <1>8, Zenon DEF FifoInv, FifoTypes
<1>10. LineShape'
  BY <1>1, <1>7, Zenon DEF FifoInv, LineShape
<1>11. fifoMisled' = FALSE
  BY <1>1, <1>6 DEF FifoInv
<1> QED
  BY <1>1, <1>8, <1>9, <1>10, <1>11, Zenon DEF FifoInv

LEMMA FifoPopAnswer ==
    ASSUME FifoInv, Fifo!PopAnswer
    PROVE  FifoInv'
<1> DEFINE h == Head(fifoCtrlFifo)
<1>1. /\ fifoWaiting /\ fifoCtrlFifo # <<>> /\ fifoCtrlFifo' = Tail(fifoCtrlFifo)
      /\ fifoSeqAck' = h % FifoSeqMod
      /\ \/ /\ fifoSeqAck' = Fifo!Target /\ Fifo!Go
            /\ fifoMisled' = (fifoMisled \/ (Head(fifoPlan).op = "peek" /\ h # fifoSent))
         \/ /\ fifoSeqAck' # Fifo!Target
            /\ fifoPlan' = fifoPlan /\ fifoWaiting' = fifoWaiting
            /\ fifoMisled' = fifoMisled
      /\ fifoSent' = fifoSent
      /\ fifoWire' = fifoWire /\ fifoCommands' = fifoCommands /\ fifoResults' = fifoResults
      /\ fifoAnswers' = fifoAnswers
      /\ fifoEarly' = fifoEarly /\ fifoDropped' = fifoDropped
  BY DEF Fifo!PopAnswer, Fifo!radio
<1>2. /\ FifoTypes /\ fifoSent \in Nat /\ fifoPlan \in Seq(FifoCommand) /\ fifoPlan # <<>>
      /\ fifoCtrlFifo \in Seq(Nat)
  BY <1>1, Zenon DEF FifoInv, FifoTypes
<1>3. fifoCtrlFifo' \in Seq(Nat)
  BY <1>1, <1>2, NatQueue, Zenon
<1>4. FifoLine # <<>> /\ Head(FifoLine) = h /\ FifoLine' = Tail(FifoLine)
  <2>1. PICK p \in Seq(Nat), a \in Seq(Nat), r \in Seq(Nat), c \in Seq(Nat), w \in Seq(Nat) :
          /\ p = fifoCtrlFifo /\ a = fifoAnswers /\ r = fifoResults
          /\ c = Ids(fifoCommands) /\ w = Ids(fifoWire)
          /\ FifoLine = LineOf(p, a, r, c, w)
    BY <1>2, FifoParts, Zenon
  <2>2. FifoLine' = LineOf(Tail(p), a, r, c, w)
    BY <1>1, <2>1, Zenon DEF FifoLine
  <2>3. p # <<>> => \A a1, r1, c1, w1 \in Seq(Nat) :
          /\ LineOf(p, a1, r1, c1, w1) # <<>> /\ Head(LineOf(p, a1, r1, c1, w1)) = Head(p)
          /\ Tail(LineOf(p, a1, r1, c1, w1)) = LineOf(Tail(p), a1, r1, c1, w1)
    BY LineTaken, Zenon
  <2>4. p # <<>>
    BY <1>1, <2>1, Zenon
  <2>5. /\ LineOf(p, a, r, c, w) # <<>> /\ Head(LineOf(p, a, r, c, w)) = Head(p)
        /\ Tail(LineOf(p, a, r, c, w)) = LineOf(Tail(p), a, r, c, w)
    <3>1. \A c1, w1 \in Seq(Nat) :
            /\ LineOf(p, a, r, c1, w1) # <<>> /\ Head(LineOf(p, a, r, c1, w1)) = Head(p)
            /\ Tail(LineOf(p, a, r, c1, w1)) = LineOf(Tail(p), a, r, c1, w1)
      BY <2>3, <2>4, Zenon
    <3> QED
      BY <3>1, Zenon
  <2> QED
    BY <2>1, <2>2, <2>5, Zenon
<1>5. /\ Increasing(FifoLine') /\ Roomy(FifoLine', fifoSent) /\ h \in Nat /\ h <= fifoSent
      /\ Above(FifoLine', h)
      /\ \A y \in Nat : Above(FifoLine, y) => Above(FifoLine', y) /\ y < h
  <2>1. FifoLine \in Seq(Nat) /\ Increasing(FifoLine) /\ Roomy(FifoLine, fifoSent)
    BY <1>2, FifoLineNat, Zenon DEF FifoInv, LineShape
  <2> QED
    BY <1>2, <1>4, <2>1, ShapeTail, Zenon
<1> HIDE DEF h
<1>6. LineShape'
  BY <1>1, <1>5, Zenon DEF LineShape
<1>7. /\ fifoSent - h + (Len(fifoPlan) - 1) <= MaxSilent /\ fifoSent - h <= MaxSilent
      /\ h \in 0 .. fifoSent
  <2>1. PICK a \in Nat :
          /\ a <= fifoSent /\ Above(FifoLine, a) /\ fifoSent - a + Unsent <= MaxSilent
    BY LastAnswer, Zenon
  <2>2. a < h
    BY <1>5, <2>1, Zenon
  <2>3. Unsent = Len(fifoPlan) - 1 /\ Len(fifoPlan) - 1 \in Nat /\ MaxSilent \in Nat
    BY <1>1, <1>2, FifoConstants DEF Unsent
  <2> QED
    BY <1>2, <1>5, <2>1, <2>2, <2>3
<1>8. CASE fifoSeqAck' = Fifo!Target /\ Fifo!Go
           /\ fifoMisled' = (fifoMisled \/ (Head(fifoPlan).op = "peek" /\ h # fifoSent))
  <2>1. ~Fifo!Before(h % FifoSeqMod, Fifo!Target)
    <3>1. h % FifoSeqMod \in Int /\ Fifo!Target = h % FifoSeqMod
      BY <1>1, <1>5, <1>8, FifoConstants
    <3>2. \A x \in Int : ~Fifo!Before(x, x)
      <4> TAKE x \in Int
      <4>1. x - x = 0 /\ 0 % FifoSeqMod = 0
        BY FifoConstants
      <4>2. ~(0 \in 1 .. (FifoSeqMod \div 2) - 1)
        OBVIOUS
      <4> QED
        BY <4>1, <4>2, Zenon DEF Fifo!Before
    <3> QED
      BY <3>1, <3>2, Zenon
  <2>2. /\ h + MaxSeqsOut >= fifoSent
        /\ Head(fifoPlan).op = "peek" => h = fifoSent
    BY <1>5, <1>7, <2>1, AwaitedAnswer, Zenon
  <2>3. AckInv' /\ WindowInv' /\ fifoPlan' \in Seq(FifoCommand) /\ fifoWaiting' = FALSE
    BY <1>1, <1>5, <1>7, <1>8, <2>2, GoKeepsWindow, Zenon
  <2>4. FifoTypes'
    <3>1. fifoSeqAck' \in Nat
      BY <1>1, <1>5, FifoConstants
    <3> QED
      BY <1>1, <1>2, <1>3, <2>3, <3>1, Zenon DEF FifoTypes
  <2>5. fifoMisled' = FALSE
    BY <1>8, <2>2 DEF FifoInv
  <2> QED
    BY <1>1, <1>6, <2>3, <2>4, <2>5, Zenon DEF FifoInv
<1>9. CASE fifoSeqAck' # Fifo!Target /\ fifoPlan' = fifoPlan /\ fifoWaiting' = fifoWaiting
           /\ fifoMisled' = fifoMisled
  <2>1. Head(fifoPlan).op = "peek" => h < fifoSent
    <3>1. SUFFICES ASSUME Head(fifoPlan).op = "peek" PROVE h < fifoSent
      OBVIOUS
    <3>2. Fifo!Target = fifoSent % FifoSeqMod
      BY <3>1, Zenon DEF Fifo!Target
    <3>3. h # fifoSent
      BY <1>1, <1>9, <3>2, Zenon
    <3> QED
      BY <1>2, <1>5, <3>3
  <2>2. FifoTypes'
    <3>1. fifoSeqAck' \in Nat
      BY <1>1, <1>5, FifoConstants
    <3> QED
      BY <1>1, <1>2, <1>3, <1>9, <3>1, Zenon DEF FifoTypes
  <2>3. AckInv'
    <3>1. Unsent' = Len(fifoPlan) - 1
      BY <1>1, <1>9 DEF Unsent
    <3>2. fifoSent' - h + Unsent' <= MaxSilent /\ h \in 0 .. fifoSent'
      BY <1>1, <1>7, <3>1, Zenon
    <3>3. fifoWaiting' /\ Head(fifoPlan').op = "peek" => h < fifoSent'
      BY <1>1, <1>9, <2>1, Zenon
    <3>4. fifoSeqAck' = h % FifoSeqMod /\ Above(FifoLine', h)
      BY <1>1, <1>5, Zenon
    <3> QED
      BY <3>2, <3>3, <3>4, Zenon DEF AckInv
  <2>4. WindowInv'
    <3>1. SUFFICES ASSUME fifoEarly = 0
                   PROVE  \E b \in 0 .. fifoSent' :
                            /\ Above(FifoLine', b)
                            /\ fifoSent' - b <= MaxSeqsOut + (IF fifoWaiting' THEN 1 ELSE 0)
      BY <1>1, Zenon DEF WindowInv
    <3>2. PICK b \in 0 .. fifoSent :
            /\ Above(FifoLine, b)
            /\ fifoSent - b <= MaxSeqsOut + (IF fifoWaiting THEN 1 ELSE 0)
      BY <3>1, Zenon DEF FifoInv, WindowInv
    <3>3. b \in Nat
      BY <1>2
    <3>4. Above(FifoLine', b)
      BY <1>5, <3>2, <3>3, Zenon
    <3>5. (IF fifoWaiting' THEN 1 ELSE 0) = (IF fifoWaiting THEN 1 ELSE 0)
      BY <1>9
    <3>6. b \in 0 .. fifoSent' /\ fifoSent' - b <= MaxSeqsOut + (IF fifoWaiting' THEN 1 ELSE 0)
      BY <1>1, <3>2, <3>5, Zenon
    <3> QED
      BY <3>4, <3>6, Zenon
  <2> QED
    BY <1>1, <1>6, <1>9, <2>2, <2>3, <2>4, Zenon DEF FifoInv
<1> QED
  BY <1>1, <1>8, <1>9, Zenon

LEMMA FifoTimeOut ==
    ASSUME FifoInv, Fifo!TimeOut
    PROVE  FifoInv'
<1>1. /\ fifoWaiting /\ fifoCtrlFifo = <<>>
      /\ fifoEarly' = IF Fifo!ToCome THEN fifoEarly + 1 ELSE fifoEarly
      /\ fifoPlan' = <<>> /\ fifoWaiting' = FALSE
      /\ fifoSent' = fifoSent /\ fifoSeqAck' = fifoSeqAck
      /\ fifoWire' = fifoWire /\ fifoCommands' = fifoCommands /\ fifoResults' = fifoResults
      /\ fifoAnswers' = fifoAnswers /\ fifoCtrlFifo' = fifoCtrlFifo
      /\ fifoDropped' = fifoDropped /\ fifoMisled' = fifoMisled
  BY DEF Fifo!TimeOut, Fifo!radio, Fifo!history
<1>2. /\ FifoTypes /\ fifoSent \in Nat /\ fifoPlan \in Seq(FifoCommand) /\ fifoPlan # <<>>
      /\ fifoEarly \in Nat
  BY <1>1, Zenon DEF FifoInv, FifoTypes
<1>3. fifoPlan' \in Seq(FifoCommand) /\ Len(fifoPlan') = 0 /\ fifoEarly' \in Nat
  BY <1>1, <1>2
<1>4. FifoTypes'
  BY <1>1, <1>2, <1>3, Zenon DEF FifoTypes
<1>5. FifoLine' = FifoLine
  BY <1>1, Zenon DEF FifoLine
<1>6. LineShape'
  BY <1>1, <1>5, Zenon DEF FifoInv, LineShape
<1>7. AckInv'
  <2>1. PICK a \in Nat :
          /\ a <= fifoSent /\ a \in 0 .. fifoSent /\ fifoSeqAck = a % FifoSeqMod
          /\ Above(FifoLine, a) /\ fifoSent - a + Unsent <= MaxSilent
    BY LastAnswer, Zenon
  <2>2. Unsent = Len(fifoPlan) - 1 /\ Unsent' = 0 /\ Len(fifoPlan) - 1 \in Nat
    BY <1>1, <1>2, <1>3 DEF Unsent
  <2>3. fifoSent' - a + Unsent' <= MaxSilent
    BY <1>1, <1>2, <2>1, <2>2, FifoConstants
  <2>4. /\ a \in 0 .. fifoSent' /\ fifoSeqAck' = a % FifoSeqMod /\ Above(FifoLine', a)
        /\ fifoWaiting' /\ Head(fifoPlan').op = "peek" => a < fifoSent'
    BY <1>1, <1>5, <2>1, Zenon
  <2> QED
    BY <2>3, <2>4, Zenon DEF AckInv
<1>8. fifoEarly' = 0 => fifoEarly = 0 /\ ~Fifo!ToCome
  BY <1>1, <1>2
<1>9. WindowInv'
  <2>1. SUFFICES ASSUME fifoEarly' = 0
                 PROVE  \E b \in 0 .. fifoSent' :
                          /\ Above(FifoLine', b)
                          /\ fifoSent' - b <= MaxSeqsOut + (IF fifoWaiting' THEN 1 ELSE 0)
    BY Zenon DEF WindowInv
  <2>2. ~Fifo!ToCome
    BY <1>8, <2>1, Zenon
  <2>3. /\ fifoWire = <<>> /\ fifoCommands = <<>> /\ fifoResults = <<>> /\ fifoAnswers = <<>>
    BY <2>2 DEF Fifo!ToCome
  <2>4. /\ FifoLine \in Seq(Nat)
        /\ Len(FifoLine) = Len(fifoCtrlFifo) + (Len(fifoAnswers) + (Len(fifoResults)
                                      + (Len(fifoCommands) + Len(fifoWire))))
    BY <1>2, FifoLineNat, Zenon
  <2>5. Len(FifoLine) = 0
    <3>1. Len(<<>>) = 0
      OBVIOUS
    <3>2. /\ Len(fifoCtrlFifo) = 0 /\ Len(fifoAnswers) = 0 /\ Len(fifoResults) = 0
          /\ Len(fifoCommands) = 0 /\ Len(fifoWire) = 0
      BY <1>1, <2>3, <3>1, Zenon
    <3> QED
      BY <2>4, <3>2
  <2>6. Above(FifoLine', fifoSent)
    BY <1>5, <2>4, <2>5 DEF Above
  <2>7. /\ fifoSent \in 0 .. fifoSent'
        /\ fifoSent' - fifoSent <= MaxSeqsOut + (IF fifoWaiting' THEN 1 ELSE 0)
    BY <1>1, <1>2, FifoConstants
  <2> QED
    BY <2>6, <2>7, Zenon
<1>10. fifoEarly' = 0 => fifoDropped' = FALSE
  BY <1>1, <1>8, Zenon DEF FifoInv
<1> QED
  BY <1>1, <1>4, <1>6, <1>7, <1>9, <1>10, Zenon DEF FifoInv

LEMMA FifoInvStep == FifoInv /\ [Fifo!Next]_fifoVars => FifoInv'
<1> SUFFICES ASSUME FifoInv, [Fifo!Next]_fifoVars PROVE FifoInv'
  OBVIOUS
<1>1. CASE Fifo!Call
  BY <1>1, FifoCall, Zenon
<1>2. CASE Fifo!SendPkt
  BY <1>2, FifoSendPkt, Zenon
<1>3. CASE Fifo!Answered
  BY <1>3, FifoAnswered, Zenon
<1>4. CASE Fifo!PopAnswer
  BY <1>4, FifoPopAnswer, Zenon
<1>5. CASE Fifo!TimeOut
  BY <1>5, FifoTimeOut, Zenon
<1>6. CASE Fifo!HandleMsg
  BY <1>6, FifoHandleMsg, Zenon
<1>7. CASE Fifo!StoreCommand \/ Fifo!Act \/ Fifo!SendAnswer \/ Fifo!Lose
  BY <1>7, FifoRadio, Zenon
<1>8. CASE UNCHANGED fifoVars
  <2>1. /\ fifoPlan' = fifoPlan /\ fifoWaiting' = fifoWaiting /\ fifoSent' = fifoSent
        /\ fifoSeqAck' = fifoSeqAck /\ fifoEarly' = fifoEarly /\ fifoMisled' = fifoMisled
        /\ fifoWire' = fifoWire /\ fifoCommands' = fifoCommands /\ fifoResults' = fifoResults
        /\ fifoAnswers' = fifoAnswers /\ fifoCtrlFifo' = fifoCtrlFifo
        /\ fifoDropped' = fifoDropped
    BY <1>8 DEF fifoVars
  <2>2. FifoTypes'
    BY <2>1, Zenon DEF FifoInv, FifoTypes
  <2>3. FifoLine' = FifoLine
    BY <2>1, Zenon DEF FifoLine
  <2>4. LineShape' /\ AckInv' /\ WindowInv' /\ fifoMisled' = FALSE
    BY <2>1, <2>2, <2>3, ThinnerSame, RadioKeepsWindow, Zenon
  <2> QED
    BY <2>1, <2>2, <2>4, Zenon DEF FifoInv
<1> QED
  BY <1>1, <1>2, <1>3, <1>4, <1>5, <1>6, <1>7, <1>8, Zenon DEF Fifo!Next

-----------------------------------------------------------------------------
(* FirmwareControl: numbers, and what a call leaves under way.             *)

\* The members of a sequence
Elems(q) == {q[i] : i \in 1 .. Len(q)}

Ascending(q) == \A i, j \in 1 .. Len(q) : i < j => q[i].seq < q[j].seq

LEMMA ElemsTail ==
    ASSUME NEW S, NEW q \in Seq(S), q # <<>>
    PROVE  /\ Head(q) \in S /\ Tail(q) \in Seq(S)
           /\ Head(q) \in Elems(q) /\ Elems(Tail(q)) \subseteq Elems(q)
<1>1. Len(q) \in Nat \ {0} /\ Head(q) = q[1] /\ Head(q) \in S /\ Tail(q) \in Seq(S)
  OBVIOUS
<1>2. Len(Tail(q)) = Len(q) - 1
  BY <1>1
<1>3. \A i \in 1 .. Len(Tail(q)) : Tail(q)[i] = q[i + 1] /\ i + 1 \in 1 .. Len(q)
  BY <1>1, <1>2
<1> QED
  BY <1>1, <1>3 DEF Elems

LEMMA ElemsAppend ==
    ASSUME NEW S, NEW q \in Seq(S), NEW x \in S
    PROVE  Append(q, x) \in Seq(S) /\ Elems(Append(q, x)) \subseteq Elems(q) \cup {x}
<1>1. /\ Append(q, x) \in Seq(S) /\ Len(Append(q, x)) = Len(q) + 1 /\ Len(q) \in Nat
      /\ \A i \in 1 .. Len(q) : Append(q, x)[i] = q[i]
      /\ Append(q, x)[Len(q) + 1] = x
  OBVIOUS
<1>2. \A i \in 1 .. Len(q) + 1 : i \in 1 .. Len(q) \/ i = Len(q) + 1
  BY <1>1
<1>3. \A i \in 1 .. Len(Append(q, x)) : Append(q, x)[i] \in Elems(q) \cup {x}
  BY <1>1, <1>2 DEF Elems
<1> QED
  BY <1>1, <1>3 DEF Elems

Request == [seq : Nat, poke : Nat, call : Nat]
Reply == [seq : Nat, data : Nat]

LEMMA AscendingTail ==
    ASSUME NEW q \in Seq(Request), q # <<>>, Ascending(q)
    PROVE  Ascending(Tail(q)) /\ \A d \in Elems(Tail(q)) : Head(q).seq < d.seq
<1>1. Len(q) \in Nat \ {0} /\ Head(q) = q[1] /\ Len(Tail(q)) = Len(q) - 1
  OBVIOUS
<1>2. \A i \in 1 .. Len(Tail(q)) : Tail(q)[i] = q[i + 1] /\ i + 1 \in 1 .. Len(q) /\ 1 < i + 1
  BY <1>1
<1>3. ASSUME NEW i \in 1 .. Len(Tail(q)), NEW j \in 1 .. Len(Tail(q)), i < j
      PROVE  Tail(q)[i].seq < Tail(q)[j].seq
  <2>1. i + 1 < j + 1
    BY <1>1, <1>3
  <2> QED
    BY <1>2, <2>1 DEF Ascending
<1>4. \A i \in 1 .. Len(Tail(q)) : Head(q).seq < Tail(q)[i].seq
  <2>1. 1 \in 1 .. Len(q)
    BY <1>1
  <2> QED
    BY <1>1, <1>2, <2>1 DEF Ascending
<1> QED
  BY <1>3, <1>4 DEF Ascending, Elems

LEMMA AscendingAppend ==
    ASSUME NEW q \in Seq(Request), NEW x \in Request, Ascending(q),
           \A d \in Elems(q) : d.seq < x.seq
    PROVE  Ascending(Append(q, x))
<1>1. /\ Len(Append(q, x)) = Len(q) + 1 /\ Len(q) \in Nat
      /\ \A i \in 1 .. Len(q) : Append(q, x)[i] = q[i]
      /\ Append(q, x)[Len(q) + 1] = x
  OBVIOUS
<1>2. ASSUME NEW i \in 1 .. Len(q) + 1, NEW j \in 1 .. Len(q) + 1, i < j
      PROVE  Append(q, x)[i].seq < Append(q, x)[j].seq
  <2>1. i \in 1 .. Len(q)
    BY <1>1, <1>2
  <2>2. CASE j \in 1 .. Len(q)
    BY <1>1, <1>2, <2>1, <2>2 DEF Ascending
  <2>3. CASE j = Len(q) + 1
    BY <1>1, <2>1, <2>3 DEF Elems
  <2> QED
    BY <1>1, <2>2, <2>3
<1> QED
  BY <1>1, <1>2 DEF Ascending

FwTypes ==
    /\ fwPc \in [Threads -> {"idle", "ready", "wait"}]
    /\ fwPoke \in [Threads -> Nat] /\ fwId \in [Threads -> Nat]
    /\ fwDuring \in [Threads -> SUBSET Nat]
    /\ fwSeq \in Nat /\ fwCalls \in Nat /\ fwReg \in Nat
    /\ fwDown \in Seq(Request) /\ fwUp \in Seq(Reply) /\ fwSocket \in Seq(Reply)
    /\ fwDone \in SUBSET Nat

\* One thread waits, with the mutex; calls have numbers of their own.
CallsInv ==
    /\ \A t \in Threads :
         /\ fwPc[t] = "wait" => fwMutex = t
         /\ fwPc[t] # "idle" => fwId[t] <= fwCalls /\ fwId[t] \notin fwDone
    /\ \A t, u \in Threads : fwPc[t] # "idle" /\ fwPc[u] # "idle" /\ t # u => fwId[t] # fwId[u]
    /\ \A c \in fwDone : c <= fwCalls

\* Requests are served in the order of their numbers.
RequestsInv ==
    /\ Ascending(fwDown)
    /\ \A d \in Elems(fwDown) : d.seq <= fwSeq /\ d.call \notin fwDone /\ d.call <= fwCalls

\* Replies are older than the requests that are left, and one to the last attempt has
\* a value that the register has had since.
ReplyInv(r) ==
    /\ r.seq <= fwSeq
    /\ \A d \in Elems(fwDown) : r.seq < d.seq
    /\ \A t \in Threads : fwPc[t] = "wait" /\ r.seq = fwSeq => r.data \in fwDuring[t]

RepliesInv == \A r \in Elems(fwUp) \cup Elems(fwSocket) : ReplyInv(r)

FwInv == FwTypes /\ CallsInv /\ RequestsInv /\ RepliesInv /\ fwMisread = FALSE

LEMMA FwConstants ==
    /\ Values \subseteq Nat /\ NoThread \notin Threads
BY PathConstantsAssumption DEF X300Fw!ConstantsAssumption

LEMMA FwInit == X300Fw!Init => FwInv
<1> SUFFICES ASSUME X300Fw!Init PROVE FwInv
  OBVIOUS
<1>1. /\ fwDown = <<>> /\ fwUp = <<>> /\ fwSocket = <<>>
      /\ fwPc = [t \in Threads |-> "idle"] /\ fwDone = {} /\ fwMisread = FALSE
  BY DEF X300Fw!Init
<1>2. Elems(<<>>) = {} /\ Ascending(<<>>)
  BY DEF Elems, Ascending
<1>3. /\ <<>> \in Seq(Request) /\ <<>> \in Seq(Reply)
  OBVIOUS
<1>4. FwTypes
  <2>1. /\ fwPoke \in [Threads -> Nat] /\ fwId \in [Threads -> Nat]
        /\ fwDuring \in [Threads -> SUBSET Nat]
        /\ fwSeq \in Nat /\ fwCalls \in Nat /\ fwReg \in Nat
    BY DEF X300Fw!Init
  <2>2. fwPc \in [Threads -> {"idle", "ready", "wait"}]
    BY <1>1
  <2> QED
    BY <1>1, <1>3, <2>1, <2>2 DEF FwTypes
<1>5. CallsInv
  BY <1>1 DEF CallsInv
<1>6. RequestsInv /\ RepliesInv
  BY <1>1, <1>2 DEF RequestsInv, RepliesInv
<1> QED
  BY <1>1, <1>4, <1>5, <1>6 DEF FwInv

LEMMA FwCall ==
    ASSUME FwInv, NEW t \in Threads, X300Fw!Call(t) \/ Usrp2Fw!Call(t)
    PROVE  FwInv'
<1>1. /\ fwPc[t] = "idle" /\ fwPc' = [fwPc EXCEPT ![t] = "ready"]
      /\ \E v \in Values \cup {0} : fwPoke' = [fwPoke EXCEPT ![t] = v]
      /\ fwCalls' = fwCalls + 1 /\ fwId' = [fwId EXCEPT ![t] = fwCalls + 1]
      /\ fwDuring' = [fwDuring EXCEPT ![t] = {fwReg}]
      /\ UNCHANGED <<fwMutex, fwSeq, fwDown, fwUp, fwSocket, fwReg, fwDone, fwMisread>>
  BY DEF X300Fw!Call, Usrp2Fw!Call, X300Fw!history, Usrp2Fw!history
<1>2. FwTypes /\ CallsInv /\ RequestsInv /\ RepliesInv
  BY DEF FwInv
<1>3. /\ fwPoke' \in [Threads -> Nat] /\ fwId' \in [Threads -> Nat]
      /\ fwCalls \in Nat /\ fwCalls' \in Nat
      /\ fwPc' \in [Threads -> {"idle", "ready", "wait"}]
      /\ fwDuring' \in [Threads -> SUBSET Nat]
  BY <1>1, <1>2, FwConstants DEF FwTypes
<1>4. FwTypes'
  BY <1>1, <1>2, <1>3 DEF FwTypes
<1>5. /\ fwPc'[t] = "ready" /\ fwId'[t] = fwCalls + 1
      /\ \A u \in Threads \ {t} :
           fwPc'[u] = fwPc[u] /\ fwId'[u] = fwId[u] /\ fwDuring'[u] = fwDuring[u]
  BY <1>1, <1>2 DEF FwTypes
<1>6. /\ fwCalls + 1 \notin fwDone /\ \A u \in Threads : fwId[u] \in Nat
      /\ \A c \in fwDone : c \in Nat
      /\ \A d \in Elems(fwDown) : d.call \in Nat
  <2>1. \A c \in fwDone : c \in Nat /\ c <= fwCalls
    BY <1>2 DEF FwTypes, CallsInv
  <2>2. \A d \in Elems(fwDown) : d \in Request
    BY <1>2 DEF FwTypes, Elems
  <2> QED
    BY <1>2, <1>3, <2>1, <2>2 DEF FwTypes, Request
<1>7. CallsInv'
  <2>1. ASSUME NEW u \in Threads, fwPc'[u] # "idle"
        PROVE  fwId'[u] <= fwCalls' /\ fwId'[u] \notin fwDone'
    <3>1. CASE u = t
      BY <1>1, <1>3, <1>5, <1>6, <3>1
    <3>2. CASE u # t
      BY <1>1, <1>2, <1>3, <1>5, <1>6, <2>1, <3>2 DEF CallsInv
    <3> QED
      BY <3>1, <3>2
  <2>2. \A u \in Threads : fwPc'[u] = "wait" => fwMutex' = u
    BY <1>1, <1>2, <1>5 DEF CallsInv
  <2>3. ASSUME NEW u \in Threads, NEW v \in Threads, fwPc'[u] # "idle", fwPc'[v] # "idle",
               u # v
        PROVE  fwId'[u] # fwId'[v]
    <3>1. \A w \in Threads \ {t} : fwPc[w] # "idle" => fwId[w] # fwCalls + 1
      BY <1>2, <1>3, <1>6 DEF CallsInv
    <3> QED
      BY <1>2, <1>5, <2>3, <3>1 DEF CallsInv
  <2>4. \A c \in fwDone' : c <= fwCalls'
    BY <1>1, <1>2, <1>3, <1>6 DEF CallsInv
  <2> QED
    BY <2>1, <2>2, <2>3, <2>4 DEF CallsInv
<1>8. RequestsInv'
  <2>1. \A d \in Elems(fwDown) : d.call <= fwCalls + 1
    BY <1>2, <1>3, <1>6 DEF RequestsInv
  <2> QED
    BY <1>1, <1>2, <2>1 DEF RequestsInv
<1>9. RepliesInv'
  BY <1>1, <1>2, <1>5 DEF RepliesInv, ReplyInv
<1> QED
  BY <1>1, <1>4, <1>7, <1>8, <1>9 DEF FwInv

\* A new attempt has a number that no reply bears.
LEMMA FwAttempt ==
    ASSUME FwInv, NEW t \in Threads, X300Fw!Attempt(t) \/ Usrp2Fw!Attempt(t)
    PROVE  FwInv'
<1> DEFINE request == [seq |-> fwSeq + 1, poke |-> fwPoke[t], call |-> fwId[t]]
<1>1. /\ fwPc[t] = "ready" /\ fwMutex \in {NoThread, t} /\ fwMutex' = t
      /\ fwSeq' = fwSeq + 1
      /\ fwSocket' = fwSocket \/ fwSocket' = <<>>
      /\ fwDown' = Append(fwDown, request)
      /\ fwPc' = [fwPc EXCEPT ![t] = "wait"]
      /\ UNCHANGED <<fwPoke, fwId, fwUp, fwReg, fwCalls, fwDuring, fwDone, fwMisread>>
  <2>1. CASE X300Fw!Attempt(t)
    BY <2>1 DEF X300Fw!Attempt, X300Fw!history
  <2>2. CASE Usrp2Fw!Attempt(t)
    BY <2>2 DEF Usrp2Fw!Attempt, Usrp2Fw!history
  <2> QED
    BY <2>1, <2>2
<1>2. FwTypes /\ CallsInv /\ RequestsInv /\ RepliesInv
  BY DEF FwInv
<1>3. /\ request \in Request /\ fwSeq \in Nat /\ fwDown \in Seq(Request)
      /\ request.seq = fwSeq + 1 /\ request.call = fwId[t]
  BY <1>2 DEF FwTypes, Request
<1> HIDE DEF request
<1>4. fwDown' \in Seq(Request) /\ Elems(fwDown') \subseteq Elems(fwDown) \cup {request}
  BY <1>1, <1>3, ElemsAppend
<1>5. Elems(fwSocket') \subseteq Elems(fwSocket) /\ fwSocket' \in Seq(Reply)
  <2>1. CASE fwSocket' = fwSocket
    BY <1>2, <2>1 DEF FwTypes
  <2>2. CASE fwSocket' = <<>>
    <3>1. Elems(<<>>) = {} /\ <<>> \in Seq(Reply)
      BY DEF Elems
    <3> QED
      BY <2>2, <3>1
  <2> QED
    BY <1>1, <2>1, <2>2
<1>6. /\ \A d \in Elems(fwDown) : d \in Request
      /\ \A r \in Elems(fwUp) \cup Elems(fwSocket) : r \in Reply
  BY <1>2 DEF FwTypes, Elems
<1>7. FwTypes'
  <2>1. fwPc' \in [Threads -> {"idle", "ready", "wait"}] /\ fwSeq' \in Nat
    BY <1>1, <1>2, <1>3 DEF FwTypes
  <2> QED
    BY <1>1, <1>2, <1>4, <1>5, <2>1 DEF FwTypes
<1>8. /\ fwPc'[t] = "wait" /\ \A u \in Threads \ {t} : fwPc'[u] = fwPc[u] /\ fwPc[u] # "wait"
      /\ fwId[t] \notin fwDone /\ fwId[t] <= fwCalls
  BY <1>1, <1>2, FwConstants DEF FwTypes, CallsInv
<1>9. CallsInv'
  BY <1>1, <1>2, <1>8 DEF CallsInv
<1>10. RequestsInv'
  <2>1. \A d \in Elems(fwDown) : d.seq < request.seq /\ d.seq <= fwSeq + 1
    BY <1>2, <1>3, <1>6 DEF RequestsInv, Request
  <2>2. Ascending(fwDown')
    BY <1>1, <1>2, <1>3, <2>1, AscendingAppend DEF RequestsInv
  <2>3. request.seq <= fwSeq'
    BY <1>1, <1>3
  <2>4. \A d \in Elems(fwDown) : d.seq <= fwSeq' /\ d.call \notin fwDone /\ d.call <= fwCalls
    BY <1>1, <1>2, <2>1 DEF RequestsInv
  <2> QED
    BY <1>1, <1>3, <1>4, <1>8, <2>2, <2>3, <2>4 DEF RequestsInv
<1>11. ASSUME NEW r \in Elems(fwUp') \cup Elems(fwSocket') PROVE ReplyInv(r)'
  <2>1. r \in Reply /\ r.seq \in Nat /\ ReplyInv(r)
    BY <1>1, <1>2, <1>5, <1>6 DEF RepliesInv, Reply
  <2>2. r.seq <= fwSeq
    BY <2>1 DEF ReplyInv
  <2>3. r.seq <= fwSeq' /\ r.seq # fwSeq' /\ r.seq < request.seq
    BY <1>1, <1>3, <2>1, <2>2
  <2> QED
    BY <1>4, <2>1, <2>3 DEF ReplyInv
<1> QED
  BY <1>1, <1>7, <1>9, <1>10, <1>11 DEF FwInv, RepliesInv

\* The reply to the last attempt: what was sent before has been served or lost.
LEMMA FwReturn ==
    ASSUME FwInv, NEW t \in Threads, X300Fw!Return(t) \/ Usrp2Fw!Return(t)
    PROVE  FwInv'
<1>1. /\ fwPc[t] = "wait" /\ fwSocket # <<>> /\ Head(fwSocket).seq = fwSeq
      /\ fwMisread' = (fwMisread \/ (fwPoke[t] = 0 /\ Head(fwSocket).data \notin fwDuring[t]))
      /\ fwSocket' = Tail(fwSocket) /\ fwMutex' = NoThread
      /\ fwPc' = [fwPc EXCEPT ![t] = "idle"] /\ fwDone' = fwDone \cup {fwId[t]}
      /\ UNCHANGED <<fwPoke, fwId, fwSeq, fwDown, fwUp, fwReg, fwCalls, fwDuring>>
  BY DEF X300Fw!Return, Usrp2Fw!Return, X300Fw!Matches, Usrp2Fw!Matches
<1>2. FwTypes /\ CallsInv /\ RequestsInv /\ RepliesInv
  BY DEF FwInv
<1>3. /\ Head(fwSocket) \in Elems(fwSocket) /\ Elems(fwSocket') \subseteq Elems(fwSocket)
      /\ fwSocket' \in Seq(Reply)
  BY <1>1, <1>2, ElemsTail DEF FwTypes
<1>4. ReplyInv(Head(fwSocket))
  BY <1>2, <1>3 DEF RepliesInv
<1>5. Elems(fwDown) = {}
  <2>1. ASSUME NEW d \in Elems(fwDown) PROVE FALSE
    <3>1. d \in Request /\ fwSeq \in Nat
      BY <1>2 DEF FwTypes, Elems
    <3>2. fwSeq < d.seq /\ d.seq <= fwSeq
      BY <1>1, <1>2, <1>4 DEF ReplyInv, RequestsInv
    <3>3. d.seq \in Nat
      BY <3>1 DEF Request
    <3> QED
      BY <3>1, <3>2, <3>3
  <2> QED
    BY <2>1
<1>6. fwMisread' = FALSE
  BY <1>1, <1>4 DEF ReplyInv, FwInv
<1>7. /\ fwPc'[t] = "idle" /\ \A u \in Threads \ {t} : fwPc'[u] = fwPc[u]
      /\ fwId[t] \in Nat /\ fwId[t] <= fwCalls
      /\ fwPc' \in [Threads -> {"idle", "ready", "wait"}]
      /\ \A u \in Threads : fwPc'[u] # "wait"
  BY <1>1, <1>2 DEF FwTypes, CallsInv
<1>8. FwTypes'
  BY <1>1, <1>2, <1>3, <1>7 DEF FwTypes
<1>9. CallsInv'
  <2>1. \A u \in Threads : fwPc'[u] # "idle" => u # t /\ fwId[u] # fwId[t]
    BY <1>1, <1>2, <1>7 DEF CallsInv
  <2> QED
    BY <1>1, <1>2, <1>7, <2>1 DEF CallsInv
<1>10. RequestsInv'
  BY <1>1, <1>2, <1>5 DEF RequestsInv
<1>11. RepliesInv'
  BY <1>1, <1>2, <1>3, <1>5, <1>7 DEF RepliesInv, ReplyInv
<1> QED
  BY <1>6, <1>8, <1>9, <1>10, <1>11 DEF FwInv

\* A reply thrown away, an attempt that failed, or both.
LEMMA FwFail ==
    ASSUME FwInv, NEW t \in Threads,
           \/ X300Fw!Skip(t) \/ X300Fw!WrongReply(t) \/ X300Fw!NoReply(t)
           \/ Usrp2Fw!Skip(t) \/ Usrp2Fw!WrongReply(t) \/ Usrp2Fw!NoReply(t)
    PROVE  FwInv'
<1>1. /\ fwPc[t] = "wait"
      /\ \/ fwSocket # <<>> /\ fwSocket' = Tail(fwSocket)
         \/ fwSocket' = fwSocket
      /\ \/ fwPc' = fwPc /\ fwMutex' = fwMutex
         \/ \E step \in {"idle", "ready"} : fwPc' = [fwPc EXCEPT ![t] = step]
      /\ UNCHANGED <<fwPoke, fwId, fwSeq, fwDown, fwUp, fwReg, fwCalls, fwDuring, fwDone,
                     fwMisread>>
  <2>1. CASE X300Fw!Skip(t) \/ Usrp2Fw!Skip(t)
    BY <2>1 DEF X300Fw!Skip, Usrp2Fw!Skip, X300Fw!threads, Usrp2Fw!threads, X300Fw!history,
                Usrp2Fw!history
  <2>2. CASE X300Fw!WrongReply(t) \/ X300Fw!NoReply(t)
    BY <2>2 DEF X300Fw!WrongReply, X300Fw!NoReply, X300Fw!Fail, X300Fw!history
  <2>3. CASE Usrp2Fw!WrongReply(t) \/ Usrp2Fw!NoReply(t)
    BY <2>3 DEF Usrp2Fw!WrongReply, Usrp2Fw!NoReply, Usrp2Fw!Fail, Usrp2Fw!history
  <2> QED
    BY <2>1, <2>2, <2>3
<1>2. FwTypes /\ CallsInv /\ RequestsInv /\ RepliesInv
  BY DEF FwInv
<1>3. Elems(fwSocket') \subseteq Elems(fwSocket) /\ fwSocket' \in Seq(Reply)
  <2>1. fwSocket \in Seq(Reply)
    BY <1>2 DEF FwTypes
  <2>2. CASE fwSocket # <<>> /\ fwSocket' = Tail(fwSocket)
    BY <2>1, <2>2, ElemsTail
  <2>3. CASE fwSocket' = fwSocket
    BY <2>1, <2>3
  <2> QED
    BY <1>1, <2>2, <2>3
<1>4. fwPc' \in [Threads -> {"idle", "ready", "wait"}]
  BY <1>1, <1>2 DEF FwTypes
<1>5. \A u \in Threads :
        /\ fwPc'[u] # "idle" => fwPc[u] # "idle"
        /\ fwPc'[u] = "wait" => fwPc[u] = "wait" /\ fwMutex' = u
  BY <1>1, <1>2 DEF FwTypes, CallsInv
<1>6. FwTypes'
  BY <1>1, <1>2, <1>3, <1>4 DEF FwTypes
<1>7. CallsInv'
  BY <1>1, <1>2, <1>5 DEF CallsInv
<1>8. RequestsInv' /\ RepliesInv'
  BY <1>1, <1>2, <1>3, <1>5 DEF RequestsInv, RepliesInv, ReplyInv
<1> QED
  BY <1>1, <1>6, <1>7, <1>8 DEF FwInv

\* The device serves the oldest request.
LEMMA FwServe ==
    ASSUME FwInv, X300Fw!Serve \/ Usrp2Fw!Serve
    PROVE  FwInv' /\ (fwReg' # fwReg => Head(fwDown).call \notin fwDone)
<1> DEFINE request == Head(fwDown)
           value == IF request.poke # 0 THEN request.poke ELSE fwReg
           reply == [seq |-> request.seq, data |-> value]
<1>1. /\ fwDown # <<>> /\ fwDown' = Tail(fwDown) /\ fwReg' = value
      /\ fwUp' = Append(fwUp, reply)
      /\ fwDuring' = [t \in Threads |-> IF fwPc[t] = "idle" THEN fwDuring[t]
                                        ELSE fwDuring[t] \cup {value}]
      /\ UNCHANGED <<fwPc, fwPoke, fwId, fwMutex, fwSeq, fwSocket, fwCalls, fwDone, fwMisread>>
  BY DEF X300Fw!Serve, Usrp2Fw!Serve, X300Fw!threads, Usrp2Fw!threads, X300Fw!history,
         Usrp2Fw!history
<1>2. FwTypes /\ CallsInv /\ RequestsInv /\ RepliesInv
  BY DEF FwInv
<1>3. /\ request \in Request /\ request \in Elems(fwDown)
      /\ fwDown' \in Seq(Request) /\ Elems(fwDown') \subseteq Elems(fwDown)
      /\ Ascending(fwDown') /\ \A d \in Elems(fwDown') : request.seq < d.seq
  BY <1>1, <1>2, ElemsTail, AscendingTail DEF FwTypes, RequestsInv
<1> HIDE DEF request
<1>4. value \in Nat
  BY <1>2, <1>3 DEF FwTypes, Request
<1> HIDE DEF value
<1>5. reply \in Reply /\ reply.seq = request.seq /\ reply.data = value
  BY <1>3, <1>4 DEF Reply, Request
<1> HIDE DEF reply
<1>6. fwUp' \in Seq(Reply) /\ Elems(fwUp') \subseteq Elems(fwUp) \cup {reply}
  BY <1>1, <1>2, <1>5, ElemsAppend DEF FwTypes
<1>7. /\ fwDuring' \in [Threads -> SUBSET Nat]
      /\ \A t \in Threads : fwDuring[t] \subseteq fwDuring'[t]
      /\ \A t \in Threads : fwPc[t] # "idle" => value \in fwDuring'[t]
  BY <1>1, <1>2, <1>4 DEF FwTypes
<1>8. FwTypes'
  BY <1>1, <1>2, <1>3, <1>4, <1>6, <1>7 DEF FwTypes
<1>9. CallsInv' /\ RequestsInv'
  BY <1>1, <1>2, <1>3 DEF CallsInv, RequestsInv
<1>10. ASSUME NEW r \in Elems(fwUp') \cup Elems(fwSocket') PROVE ReplyInv(r)'
  <2>1. CASE r = reply
    BY <1>1, <1>2, <1>3, <1>5, <1>7, <2>1 DEF ReplyInv, RequestsInv
  <2>2. CASE r # reply
    <3>1. ReplyInv(r)
      BY <1>1, <1>2, <1>6, <1>10, <2>2 DEF RepliesInv
    <3> QED
      BY <1>1, <1>3, <1>7, <3>1 DEF ReplyInv
  <2> QED
    BY <2>1, <2>2
<1>11. Head(fwDown).call \notin fwDone
  BY <1>2, <1>3 DEF RequestsInv, request
<1> QED
  BY <1>1, <1>8, <1>9, <1>10, <1>11 DEF FwInv, RepliesInv

LEMMA FwDeliver ==
    ASSUME FwInv, X300Fw!Deliver \/ Usrp2Fw!Deliver
    PROVE  FwInv'
<1>1. /\ fwUp # <<>> /\ fwUp' = Tail(fwUp) /\ fwSocket' = Append(fwSocket, Head(fwUp))
      /\ UNCHANGED <<fwPc, fwPoke, fwId, fwMutex, fwSeq, fwDown, fwReg, fwCalls, fwDuring,
                     fwDone, fwMisread>>
  BY DEF X300Fw!Deliver, Usrp2Fw!Deliver, X300Fw!threads, Usrp2Fw!threads,
         X300Fw!history, Usrp2Fw!history
<1>2. FwTypes /\ CallsInv /\ RequestsInv /\ RepliesInv
  BY DEF FwInv
<1>3. /\ Head(fwUp) \in Reply /\ Head(fwUp) \in Elems(fwUp)
      /\ fwUp' \in Seq(Reply) /\ Elems(fwUp') \subseteq Elems(fwUp)
  BY <1>1, <1>2, ElemsTail DEF FwTypes
<1>4. /\ fwSocket' \in Seq(Reply)
      /\ Elems(fwSocket') \subseteq Elems(fwSocket) \cup {Head(fwUp)}
  BY <1>1, <1>2, <1>3, ElemsAppend DEF FwTypes
<1>5. Elems(fwUp') \cup Elems(fwSocket') \subseteq Elems(fwUp) \cup Elems(fwSocket)
  BY <1>3, <1>4
<1>6. FwTypes'
  BY <1>1, <1>2, <1>3, <1>4 DEF FwTypes
<1>7. CallsInv' /\ RequestsInv'
  BY <1>1, <1>2 DEF CallsInv, RequestsInv
<1>8. RepliesInv'
  BY <1>1, <1>2, <1>5 DEF RepliesInv, ReplyInv
<1> QED
  BY <1>1, <1>6, <1>7, <1>8 DEF FwInv

LEMMA FwLose ==
    ASSUME FwInv, X300Fw!Lose \/ Usrp2Fw!Lose
    PROVE  FwInv'
<1>1. /\ \/ fwDown # <<>> /\ fwDown' = Tail(fwDown) /\ fwUp' = fwUp
         \/ fwUp # <<>> /\ fwUp' = Tail(fwUp) /\ fwDown' = fwDown
      /\ UNCHANGED <<fwPc, fwPoke, fwId, fwMutex, fwSeq, fwSocket, fwReg, fwCalls, fwDuring,
                     fwDone, fwMisread>>
  BY DEF X300Fw!Lose, Usrp2Fw!Lose, X300Fw!threads, Usrp2Fw!threads, X300Fw!history,
         Usrp2Fw!history
<1>2. FwTypes /\ CallsInv /\ RequestsInv /\ RepliesInv
  BY DEF FwInv
<1>3. /\ fwDown' \in Seq(Request) /\ Elems(fwDown') \subseteq Elems(fwDown)
      /\ Ascending(fwDown')
      /\ fwUp' \in Seq(Reply) /\ Elems(fwUp') \subseteq Elems(fwUp)
  <2>1. fwDown \in Seq(Request) /\ fwUp \in Seq(Reply) /\ Ascending(fwDown)
    BY <1>2 DEF FwTypes, RequestsInv
  <2>2. CASE fwDown # <<>> /\ fwDown' = Tail(fwDown) /\ fwUp' = fwUp
    BY <2>1, <2>2, ElemsTail, AscendingTail
  <2>3. CASE fwUp # <<>> /\ fwUp' = Tail(fwUp) /\ fwDown' = fwDown
    BY <2>1, <2>3, ElemsTail
  <2> QED
    BY <1>1, <2>2, <2>3
<1>4. FwTypes'
  BY <1>1, <1>2, <1>3 DEF FwTypes
<1>5. CallsInv' /\ RequestsInv'
  BY <1>1, <1>2, <1>3 DEF CallsInv, RequestsInv
<1>6. RepliesInv'
  BY <1>1, <1>2, <1>3 DEF RepliesInv, ReplyInv
<1> QED
  BY <1>1, <1>4, <1>5, <1>6 DEF FwInv

LEMMA FwStep ==
    ASSUME FwInv, [PathNext]_<<vars, otherVars>>
    PROVE  FwInv' /\ (fwReg' # fwReg => Head(fwDown).call \notin fwDone)
<1>1. CASE UNCHANGED fwVars
  BY <1>1 DEF fwVars, FwInv, FwTypes, CallsInv, RequestsInv, RepliesInv, ReplyInv
<1>2. UNCHANGED fwVars \/ X300Fw!Next \/ Usrp2Fw!Next
  BY DEF PathNext, otherVars
<1>3. ASSUME NEW t \in Threads,
             \/ X300Fw!Call(t) \/ X300Fw!Attempt(t) \/ X300Fw!Return(t)
             \/ X300Fw!Skip(t) \/ X300Fw!WrongReply(t) \/ X300Fw!NoReply(t)
             \/ Usrp2Fw!Call(t) \/ Usrp2Fw!Attempt(t) \/ Usrp2Fw!Return(t)
             \/ Usrp2Fw!Skip(t) \/ Usrp2Fw!WrongReply(t) \/ Usrp2Fw!NoReply(t)
      PROVE  FwInv' /\ fwReg' = fwReg
  <2>1. FwInv'
    BY <1>3, FwCall, FwAttempt, FwReturn, FwFail
  <2>2. fwReg' = fwReg
    BY <1>3 DEF X300Fw!Call, X300Fw!Attempt, X300Fw!Return, X300Fw!Skip, X300Fw!WrongReply,
       X300Fw!NoReply, X300Fw!Fail, Usrp2Fw!Call, Usrp2Fw!Attempt, Usrp2Fw!Return,
       Usrp2Fw!Skip, Usrp2Fw!WrongReply, Usrp2Fw!NoReply, Usrp2Fw!Fail
  <2> QED
    BY <2>1, <2>2
<1>4. CASE \/ X300Fw!Deliver \/ X300Fw!Lose \/ Usrp2Fw!Deliver \/ Usrp2Fw!Lose
  <2>1. FwInv'
    BY <1>4, FwDeliver, FwLose
  <2>2. fwReg' = fwReg
    BY <1>4 DEF X300Fw!Deliver, X300Fw!Lose, Usrp2Fw!Deliver, Usrp2Fw!Lose
  <2> QED
    BY <2>1, <2>2
<1> QED
  BY <1>1, <1>2, <1>3, <1>4, FwServe DEF X300Fw!Next, Usrp2Fw!Next, fwVars

\* Whatever is lost, late or retried, on either protocol: a call that has returned has
\* nothing under way that writes the register.
THEOREM OnlyCurrentWrite == PathSpec => OnlyCurrent
<1>1. PathInit => FwInv
  BY FwInit DEF PathInit
<1>2. FwInv /\ [PathNext]_<<vars, otherVars>> => FwInv'
  BY FwStep
<1>3. FwInv /\ [PathNext]_<<vars, otherVars>> =>
        [fwReg' # fwReg => Head(fwDown).call \notin fwDone]_X300Fw!vars
  BY FwStep
<1> QED
  BY <1>1, <1>2, <1>3, PTL DEF PathSpec, OnlyCurrent, X300Fw!OnlyCurrent

LEMMA FifoInvNext == FifoInv /\ [PathNext]_<<vars, otherVars>> => FifoInv'
<1> SUFFICES ASSUME FifoInv, [PathNext]_<<vars, otherVars>> PROVE FifoInv'
  OBVIOUS
<1>1. [Fifo!Next]_fifoVars
  BY DEF PathNext, otherVars
<1> QED
  BY <1>1, FifoInvStep, Zenon

LEMMA FifoInvAlways == PathSpec => []FifoInv
<1>1. PathInit => FifoInv
  BY FifoInitInv, Zenon DEF PathInit
<1>2. FifoInv /\ [PathNext]_<<vars, otherVars>> => FifoInv'
  BY FifoInvNext
<1> QED
  BY <1>1, <1>2, PTL DEF PathSpec

\* The window of unanswered commands keeps room for all answers in the queues of the
\* radio and of the host, until a call gives up too early.
THEOREM RoomForAll == PathSpec => []RoomForAnswers
<1>1. FifoInv => RoomForAnswers
  <2> SUFFICES ASSUME FifoInv, fifoEarly = 0
               PROVE  ~fifoDropped /\ (fifoCommands # <<>> => Len(fifoResults) < FifoLen)
    BY Zenon DEF RoomForAnswers, Fifo!RoomForAnswers
  <2>1. ~fifoDropped
    BY DEF FifoInv
  <2>2. ASSUME fifoCommands # <<>>
        PROVE  Len(fifoResults) < FifoLen
    <3>1. Len(FifoLine) <= MaxSeqsOut + (IF fifoWaiting THEN 1 ELSE 0)
      BY FifoLineShort, Zenon DEF FifoInv
    <3>2. Len(FifoLine) = Len(fifoCtrlFifo) + (Len(fifoAnswers) + (Len(fifoResults)
                                        + (Len(fifoCommands) + Len(fifoWire))))
      BY FifoLineNat, Zenon DEF FifoInv
    <3>3. /\ Len(fifoCtrlFifo) \in Nat /\ Len(fifoAnswers) \in Nat
          /\ Len(fifoResults) \in Nat /\ Len(fifoCommands) \in Nat \ {0}
          /\ Len(fifoWire) \in Nat
      BY <2>2 DEF FifoInv, FifoTypes
    <3> QED
      BY <3>1, <3>2, <3>3, FifoConstants
  <2> QED
    BY <2>1, <2>2, Zenon
<1> QED
  BY <1>1, FifoInvAlways, PTL

\* A peek returns what was read for it, over the control FIFO and over either firmware
\* protocol, whatever is late, lost or retried and although the numbers wrap around.
THEOREM PeeksGetTheirs == PathSpec => []PeeksTrue
<1>1. PathInit => FwInv
  BY FwInit DEF PathInit
<1>2. FwInv /\ [PathNext]_<<vars, otherVars>> => FwInv'
  BY FwStep
<1>3. FifoInv /\ FwInv => PeeksTrue
  BY DEF FifoInv, FwInv, PeeksTrue, Fifo!PeekTrue, X300Fw!PeekTrue
<1> QED
  BY <1>1, <1>2, <1>3, FifoInvAlways, PTL DEF PathSpec

-----------------------------------------------------------------------------
(* SoftTimeCtrl: what is left of a burst.                                  *)

\* The samples commanded while the stream is on can be counted in a size_t.
CommandsFit == softAsked < SizeMod

StreamCommand == Soft!Commands \cup {Soft!Stop}

SoftTypes ==
    /\ softMode \in {"stop", "start", "done", "more"}
    /\ softRemaining \in Nat /\ softAsked \in Nat /\ softGiven \in Nat
    /\ softNsamps \in Nat /\ softOver \in BOOLEAN
    /\ softCur \in StreamCommand /\ softQueue \in Seq(StreamCommand)

\* Samples that come before the stream is on, or after the end, are not counted.
CountInv == softMode # "stop" /\ ~softOver => softRemaining = softAsked - softGiven

SoftInv == SoftTypes /\ CountInv

LEMMA SoftConstants ==
    /\ SizeMod \in Nat \ {0} /\ Sizes \subseteq Nat /\ Packets \subseteq Nat
    /\ Soft!Stop \in StreamCommand
    /\ \A c \in StreamCommand :
         c.mode \in {"stop", "start", "done", "more"} /\ c.num \in Nat
<1>1. /\ SizeMod \in Nat \ {0}
      /\ Sizes \subseteq 1 .. (SizeMod - 1) /\ Packets \subseteq 1 .. (SizeMod - 1)
  BY PathConstantsAssumption DEF Soft!ConstantsAssumption
<1>2. Sizes \subseteq Nat /\ Packets \subseteq Nat
  BY <1>1
<1>3. \A c \in StreamCommand :
         c.mode \in {"stop", "start", "done", "more"} /\ c.num \in Nat
  <2>1. ASSUME NEW c \in [mode : Soft!Bursts, num : Sizes, timed : BOOLEAN]
        PROVE  c.mode \in {"stop", "start", "done", "more"} /\ c.num \in Nat
    BY <1>2 DEF Soft!Bursts
  <2>2. ASSUME NEW c \in [mode : {"start"}, num : {0}, timed : BOOLEAN]
        PROVE  c.mode \in {"stop", "start", "done", "more"} /\ c.num \in Nat
    OBVIOUS
  <2>3. Soft!Stop.mode = "stop" /\ Soft!Stop.num = 0
    BY DEF Soft!Stop
  <2> QED
    BY <2>1, <2>2, <2>3 DEF StreamCommand, Soft!Commands
<1>4. Soft!Stop \in StreamCommand
  BY DEF StreamCommand
<1> QED
  BY <1>1, <1>2, <1>3, <1>4, Zenon

LEMMA SoftInit == Soft!Init => SoftInv
<1> SUFFICES ASSUME Soft!Init PROVE SoftInv
  OBVIOUS
<1>1. <<>> \in Seq(StreamCommand) /\ Soft!Stop \in StreamCommand
  BY SoftConstants
<1>2. softCur \in StreamCommand /\ softQueue \in Seq(StreamCommand)
  BY <1>1 DEF Soft!Init
<1>3. SoftTypes /\ softMode = "stop"
  BY <1>2 DEF Soft!Init, SoftTypes
<1> QED
  BY <1>3 DEF SoftInv, CountInv

\* stream_on_off() and the command that it was called for.
LEMMA ApplyInv ==
    ASSUME SoftInv, CommandsFit', Soft!Apply,
           UNCHANGED <<softNsamps, softCur, softQueue>>
    PROVE  SoftInv'
<1>1. /\ SizeMod \in Nat \ {0}
      /\ softCur.num \in Nat /\ softCur.mode \in {"stop", "start", "done", "more"}
      /\ softRemaining \in Nat /\ softAsked \in Nat /\ softGiven \in Nat
      /\ softOver \in BOOLEAN
  BY SoftConstants DEF SoftInv, SoftTypes
<1> DEFINE stops == softCur.mode = "stop" /\ softMode # "stop"
           starts == softCur.mode # "stop" /\ softMode = "stop"
           base == IF stops \/ starts THEN 0 ELSE softRemaining
<1>2. /\ softRemaining' = (base + softCur.num) % SizeMod
      /\ softMode' = softCur.mode
      /\ softAsked' = IF starts THEN softCur.num ELSE softAsked + softCur.num
      /\ softGiven' = IF starts THEN 0 ELSE softGiven
      /\ softOver' = IF starts THEN FALSE ELSE softOver
  BY DEF Soft!Apply, Soft!Cleared
<1>3. base \in Nat
  BY <1>1
<1> HIDE DEF base
<1>4. softRemaining' \in Nat
  BY <1>1, <1>2, <1>3
<1>5. SoftTypes'
  <2>1. softAsked' \in Nat /\ softGiven' \in Nat
    BY <1>1, <1>2
  <2>2. softOver' \in BOOLEAN
    BY <1>1, <1>2, Zenon
  <2> QED
    BY <1>1, <1>2, <1>4, <2>1, <2>2 DEF SoftTypes, SoftInv
<1>6. ASSUME softCur.mode # "stop", ~softOver'
      PROVE  softRemaining' = softAsked' - softGiven'
  <2>1. base + softCur.num = softAsked' - softGiven'
    <3>1. CASE starts
      BY <1>1, <1>2, <3>1 DEF base
    <3>2. CASE ~starts
      <4>1. softMode # "stop" /\ ~softOver /\ base = softRemaining
        BY <1>2, <1>6, <3>2 DEF base
      <4>2. softRemaining = softAsked - softGiven
        BY <4>1 DEF SoftInv, CountInv
      <4> QED
        BY <1>1, <1>2, <3>2, <4>1, <4>2
    <3> QED
      BY <3>1, <3>2
  <2>2. base + softCur.num < SizeMod
    BY <1>1, <1>3, <1>5, <2>1 DEF CommandsFit, SoftTypes
  <2> QED
    BY <1>1, <1>2, <1>3, <2>1, <2>2
<1> QED
  BY <1>2, <1>5, <1>6 DEF SoftInv, CountInv

\* recv_post() counts the samples of a packet.
LEMMA PostCountInv ==
    ASSUME SoftInv, CommandsFit, Soft!PostCount
    PROVE  SoftInv'
<1>1. /\ SizeMod \in Nat \ {0} /\ softNsamps \in Nat
      /\ softRemaining \in Nat /\ softAsked \in Nat /\ softGiven \in Nat
  BY SoftConstants DEF SoftInv, SoftTypes
<1>2. /\ softRemaining' = IF softMode = "start" THEN softRemaining
                          ELSE (softRemaining - softNsamps) % SizeMod
      /\ softGiven' = IF softMode \in Soft!Bursts THEN softGiven + softNsamps ELSE softGiven
      /\ softMode \in Soft!Bursts => softRemaining > softNsamps
      /\ UNCHANGED <<softMode, softAsked, softOver, softNsamps, softCur, softQueue>>
  BY <1>1 DEF Soft!PostCount, Soft!Complete, Soft!taskVars
<1>3. softRemaining' \in Nat /\ softGiven' \in Nat
  BY <1>1, <1>2
<1>4. SoftTypes'
  BY <1>2, <1>3 DEF SoftInv, SoftTypes
<1>5. ASSUME softMode # "stop", ~softOver
      PROVE  softRemaining' = softAsked' - softGiven'
  <2>1. softRemaining = softAsked - softGiven
    BY <1>5 DEF SoftInv, CountInv
  <2>2. CASE softMode \in Soft!Bursts
    <3>1. /\ softRemaining' = (softRemaining - softNsamps) % SizeMod
          /\ softRemaining - softNsamps \in 0 .. SizeMod - 1
      BY <1>1, <1>2, <2>1, <2>2 DEF CommandsFit, Soft!Bursts
    <3>2. softRemaining' = softRemaining - softNsamps
      BY <1>1, <3>1
    <3> QED
      BY <1>1, <1>2, <2>1, <2>2, <3>2
  <2>3. CASE softMode = "start"
    BY <1>2, <2>1, <2>3 DEF Soft!Bursts
  <2> QED
    BY <1>5, <2>2, <2>3 DEF SoftInv, SoftTypes, Soft!Bursts
<1> QED
  BY <1>2, <1>4, <1>5 DEF SoftInv, CountInv

\* Steps of the queue, of the messages and of the waits count nothing.
LEMMA QueueStepInv ==
    ASSUME SoftInv,
           UNCHANGED <<softMode, softRemaining, softAsked, softGiven, softOver>>,
           softNsamps' \in Nat, softCur' \in StreamCommand,
           softQueue' \in Seq(StreamCommand)
    PROVE  SoftInv'
BY DEF SoftInv, SoftTypes, CountInv

LEMMA PostEndInv ==
    ASSUME SoftInv, Soft!PostEnd
    PROVE  SoftInv'
<1>1. /\ softGiven' = softGiven + softRemaining /\ softOver' = TRUE
      /\ softQueue' = softQueue \/ softQueue' = Append(softQueue, Soft!Stop)
      /\ UNCHANGED <<softMode, softRemaining, softAsked, softNsamps, softCur>>
  BY DEF Soft!PostEnd, Soft!Clipped, Soft!stream, Soft!taskVars
<1>2. softQueue' \in Seq(StreamCommand)
  BY <1>1, SoftConstants DEF SoftInv, SoftTypes
<1>3. softGiven' \in Nat
  BY <1>1 DEF SoftInv, SoftTypes
<1> QED
  BY <1>1, <1>2, <1>3 DEF SoftInv, SoftTypes, CountInv

LEMMA SoftStep ==
    ASSUME SoftInv, CommandsFit, CommandsFit', [PathNext]_<<vars, otherVars>>
    PROVE  SoftInv'
<1>1. CASE UNCHANGED softVars
  BY <1>1 DEF softVars, SoftInv, SoftTypes, CountInv
<1>2. /\ softNsamps \in Nat /\ softCur \in StreamCommand /\ softQueue \in Seq(StreamCommand)
      /\ Soft!Stop \in StreamCommand
  BY SoftConstants DEF SoftInv, SoftTypes
<1>3. CASE Soft!Issue
  <2>1. PICK c \in StreamCommand : softQueue' = Append(softQueue, c)
    BY <1>2, <1>3 DEF Soft!Issue, StreamCommand
  <2>2. softQueue' \in Seq(StreamCommand)
    BY <1>2, <2>1
  <2> QED
    BY <1>2, <1>3, <2>2, QueueStepInv
       DEF Soft!Issue, Soft!stream, Soft!taskVars, Soft!recvVars, Soft!history
<1>4. CASE Soft!TaskPop
  <2>1. softCur' \in StreamCommand /\ softQueue' \in Seq(StreamCommand)
    BY <1>2, <1>4 DEF Soft!TaskPop
  <2> QED
    BY <1>2, <1>4, <2>1, QueueStepInv
       DEF Soft!TaskPop, Soft!stream, Soft!recvVars, Soft!history
<1>5. CASE Soft!TaskHandle \/ Soft!TaskWake
  BY <1>5, ApplyInv DEF Soft!TaskHandle, Soft!TaskWake, Soft!recvVars
<1>6. CASE Soft!TaskLate \/ Soft!PostPush
  <2>1. softQueue' = softQueue \/ softQueue' = Append(softQueue, Soft!Stop)
    BY <1>6 DEF Soft!TaskLate, Soft!PostPush
  <2>2. softQueue' \in Seq(StreamCommand)
    BY <1>2, <2>1
  <2> QED
    BY <1>2, <1>6, <2>2, QueueStepInv
       DEF Soft!TaskLate, Soft!PostPush, Soft!stream, Soft!recvVars, Soft!taskVars,
           Soft!history
<1>7. CASE Soft!TaskSleep \/ Soft!RecvMessage \/ Soft!PostMessage
  BY <1>2, <1>7, QueueStepInv
     DEF Soft!TaskSleep, Soft!RecvMessage, Soft!PostMessage, Soft!stream, Soft!recvVars,
         Soft!taskVars, Soft!history
<1>8. CASE Soft!RecvSamples \/ Soft!RecvTimeout
  <2>1. softNsamps' \in Nat
    <3>1. CASE Soft!RecvSamples
      BY <3>1, SoftConstants, Zenon DEF Soft!RecvSamples
    <3>2. CASE Soft!RecvTimeout
      BY <3>2 DEF Soft!RecvTimeout
    <3> QED
      BY <1>8, <3>1, <3>2
  <2> QED
    BY <1>2, <1>8, <2>1, QueueStepInv
       DEF Soft!RecvSamples, Soft!RecvTimeout, Soft!stream, Soft!taskVars, Soft!history
<1>9. UNCHANGED softVars \/ Soft!Next
  BY DEF PathNext, otherVars
<1> QED
  BY <1>1, <1>3, <1>4, <1>5, <1>6, <1>7, <1>8, <1>9, PostCountInv, PostEndInv
     DEF Soft!Next

\* As long as the samples commanded while the stream is on can be counted, the count
\* is what is left of the burst: stream_on_off(), recv_post() and chained commands.
THEOREM BurstCounted == PathSpec /\ []CommandsFit => []Counted
<1>1. PathInit => SoftInv
  BY SoftInit DEF PathInit
<1>2. SoftInv /\ CommandsFit /\ CommandsFit' /\ [PathNext]_<<vars, otherVars>> => SoftInv'
  BY SoftStep
<1>3. SoftInv => Counted
  BY DEF SoftInv, CountInv, Counted, Soft!Counted, Soft!Bursts
<1> QED
  BY <1>1, <1>2, <1>3, PTL DEF PathSpec

-----------------------------------------------------------------------------
(* DeviceClaim: a claim that is renewed holds, one that is abandoned ends.  *)

\* The time that a claimer writes at a tick
Sec(t) == (t \div Second) + 1

LEMMA ClaimConstants ==
    /\ Second \in Nat \ {0} /\ ClaimTimeout \in Nat \ {0} /\ MaxTime \in Nat
    /\ Slack \in Nat /\ MaxOpens \in Nat
    /\ Second + 2 * Slack <= ClaimTimeout
BY PathConstantsAssumption DEF Claim!ConstantsAssumption

LEMMA SecTyped == \A t \in Nat : Sec(t) \in Nat \ {0}
<1> TAKE t \in Nat
<1>1. t \div Second \in Nat
  BY ClaimConstants
<1> QED
  BY <1>1 DEF Sec

LEMMA SecGrows == \A s, t \in Nat : s <= t => Sec(s) <= Sec(t)
<1> TAKE s, t \in Nat
<1> HAVE s <= t
<1> DEFINE a == s \div Second
           b == t \div Second
<1>1. /\ a \in Nat /\ b \in Nat
      /\ s = Second * a + (s % Second) /\ s % Second \in 0 .. Second - 1
      /\ t = Second * b + (t % Second) /\ t % Second \in 0 .. Second - 1
  BY ClaimConstants
<1>2. ASSUME a > b PROVE FALSE
  <2>1. PICK c \in Nat : a = b + 1 + c
    <3>1. a - b - 1 \in Nat /\ a = b + 1 + (a - b - 1)
      BY <1>1, <1>2
    <3> QED
      BY <3>1
  <2>2. Second * a = Second * b + Second + Second * c
    BY <1>1, <2>1, ClaimConstants
  <2>3. Second * c \in Nat /\ Second * b \in Nat
    BY <1>1, <2>1, ClaimConstants
  <2> QED
    BY <1>1, <2>2, <2>3, ClaimConstants
<1> QED
  BY <1>1, <1>2 DEF Sec

\* A second later the time is another one.
LEMMA SecNext == \A t \in Nat : Sec(t + Second) = Sec(t) + 1
<1> TAKE t \in Nat
<1>1. (t + Second) \div Second = (t \div Second) + 1
  BY ClaimConstants
<1> QED
  BY <1>1 DEF Sec

LEMMA SecLater == \A s, t \in Nat : s + Second <= t => Sec(s) < Sec(t)
<1> TAKE s, t \in Nat
<1> HAVE s + Second <= t
<1>1. s + Second \in Nat /\ Sec(s) \in Nat /\ Sec(t) \in Nat
  BY ClaimConstants, SecTyped
<1>2. Sec(s) + 1 <= Sec(t)
  BY <1>1, SecGrows, SecNext
<1> QED
  BY <1>1, <1>2

Active(p) == claimClaimer[p] \in {"time", "src"}

ClaimTypes ==
    /\ claimNow \in Nat /\ claimClaimTime \in Nat /\ claimLastTime \in Nat
    /\ claimTimeout \in Nat /\ claimIdle \in Nat
    /\ claimClaimed \in BOOLEAN
    /\ claimClaimer \in [Processes -> {"off", "time", "src", "closing"}]
    /\ claimWake \in [Processes -> Nat] /\ claimQuiet \in [Processes -> Nat]

\* What the firmware knows of times.
FirmwareInv ==
    /\ claimClaimTime <= Sec(claimNow) /\ claimLastTime <= Sec(claimNow)
    /\ claimClaimed => claimTimeout <= ClaimTimeout /\ claimLastTime # 0

\* While there is no claimer, the count goes on.
IdleInv ==
    claimIdle > 0 =>
      /\ \A p \in Processes : claimClaimer[p] = "off"
      /\ claimLastTime = claimClaimTime
      /\ claimClaimed => claimIdle <= claimTimeout + 1

\* The claimer of p has not written a time since the last write of another.
Unwritten(p) ==
    /\ claimQuiet[p] <= claimNow
    /\ claimClaimTime <= Sec(claimNow - claimQuiet[p])
    /\ claimLastTime <= Sec(claimNow - claimQuiet[p])
    /\ claimClaimer[p] = "src" => claimWake[p] + claimQuiet[p] <= claimNow
    /\ claimClaimer[p] = "time" =>
         claimWake[p] + claimQuiet[p] <= claimNow + Second + Slack

\* It has written the one there is, at tick w.
Written(p, w) ==
    /\ w <= claimNow /\ claimClaimTime = Sec(w)
    /\ claimClaimer[p] = "src" =>
         /\ claimWake[p] <= w
         /\ \/ claimClaimSrc = p
            \/ claimWake[p] + claimQuiet[p] <= claimNow + Second + Slack
    /\ claimClaimer[p] = "time" =>
         /\ w + Second <= claimWake[p] /\ claimWake[p] <= w + Second + Slack
         /\ claimClaimSrc = p

\* The firmware takes it for a new one.
FreshTime(p, w) ==
    \/ /\ claimNow = w /\ claimLastTime # claimClaimTime
       /\ claimClaimed \/ claimQuiet[p] < 2 * (Second + Slack)
    \/ /\ w < claimNow /\ claimLastTime = claimClaimTime
       /\ claimClaimed /\ claimTimeout + w < claimNow

\* It has seen the same time before, which another process has written.
Inherited(p, w) ==
    claimLastTime = claimClaimTime /\ w + claimQuiet[p] < claimNow + Second

HeldInv(p) ==
    Active(p) =>
      /\ claimNow <= claimWake[p] + Slack
      /\ claimClaimer[p] = "src" => claimWake[p] <= claimNow
      /\ claimClaimer[p] = "time" => claimWake[p] <= claimNow + Second
      /\ \/ Unwritten(p)
         \/ \E w \in Nat : Written(p, w) /\ (FreshTime(p, w) \/ Inherited(p, w))

ClaimInv == ClaimTypes /\ FirmwareInv /\ IdleInv /\ \A p \in Processes : HeldInv(p)

LEMMA ClaimInit == Claim!Init => ClaimInv
<1> SUFFICES ASSUME Claim!Init PROVE ClaimInv
  OBVIOUS
<1>1. ClaimTypes
  BY DEF Claim!Init, ClaimTypes
<1>2. FirmwareInv
  <2>1. claimNow = 0 /\ Sec(0) \in Nat /\ claimClaimTime = 0 /\ claimLastTime = 0
        /\ claimClaimed = FALSE
    BY SecTyped DEF Claim!Init
  <2> QED
    BY <2>1 DEF FirmwareInv
<1>3. IdleInv
  BY DEF Claim!Init, IdleInv
<1>4. \A p \in Processes : HeldInv(p)
  BY DEF Claim!Init, HeldInv, Active
<1> QED
  BY <1>1, <1>2, <1>3, <1>4 DEF ClaimInv

\* What a step that leaves the claimer of p alone keeps, when the firmware's words and
\* the number of its last write stay as they are.
HeldState(p) ==
    <<claimNow, claimClaimTime, claimClaimSrc, claimClaimed, claimLastTime, claimTimeout,
      claimClaimer[p], claimWake[p], claimQuiet[p]>>

LEMMA SameHeld ==
    ASSUME NEW p \in Processes, HeldInv(p), HeldState(p)' = HeldState(p)
    PROVE  HeldInv(p)'
BY DEF HeldInv, HeldState, Active, Unwritten, Written, FreshTime, Inherited

\* Another process writes: the claim counts from anew.
LEMMA DisturbedHeld ==
    ASSUME ClaimTypes, FirmwareInv, NEW p \in Processes, HeldInv(p),
           claimNow' = claimNow, claimLastTime' = claimLastTime,
           claimClaimer'[p] = claimClaimer[p], claimWake'[p] = claimWake[p],
           claimQuiet'[p] = 0, claimClaimTime' <= Sec(claimNow)
    PROVE  HeldInv(p)'
<1> SUFFICES ASSUME Active(p)' PROVE HeldInv(p)'
  BY DEF HeldInv
<1>1. /\ claimNow <= claimWake[p] + Slack
      /\ claimClaimer[p] = "src" => claimWake[p] <= claimNow
      /\ claimClaimer[p] = "time" => claimWake[p] <= claimNow + Second
  BY DEF HeldInv, Active
<1>2. /\ claimNow \in Nat /\ claimWake[p] \in Nat /\ Slack \in Nat /\ Second \in Nat
      /\ claimNow - 0 = claimNow
  BY ClaimConstants DEF ClaimTypes
<1>3. claimLastTime <= Sec(claimNow)
  BY DEF FirmwareInv
<1>4. Unwritten(p)'
  BY <1>1, <1>2, <1>3 DEF Unwritten
<1> QED
  BY <1>1, <1>4 DEF HeldInv

LEMMA TickFirmware ==
    ASSUME ClaimTypes, FirmwareInv, Claim!Tick
    PROVE  FirmwareInv' /\ claimTimeout' \in Nat /\ claimClaimed' \in BOOLEAN
<1>1. /\ claimNow \in Nat /\ claimClaimTime \in Nat /\ claimLastTime \in Nat
      /\ claimTimeout \in Nat /\ ClaimTimeout \in Nat
  BY ClaimConstants DEF ClaimTypes
<1>2. claimNow' = claimNow + 1 /\ claimClaimTime' = claimClaimTime /\ Claim!HandleClaim
  BY DEF Claim!Tick
<1>3. /\ Sec(claimNow) <= Sec(claimNow + 1) /\ Sec(claimNow) \in Nat
      /\ Sec(claimNow + 1) \in Nat
  BY <1>1, SecGrows, SecTyped
<1>4. claimClaimTime' <= Sec(claimNow') /\ claimLastTime' <= Sec(claimNow')
  BY <1>1, <1>2, <1>3 DEF FirmwareInv, Claim!HandleClaim
<1>5. claimTimeout' \in Nat /\ claimClaimed' \in BOOLEAN
  BY <1>1, <1>2 DEF Claim!HandleClaim
<1>6. claimClaimed' => claimTimeout' <= ClaimTimeout /\ claimLastTime' # 0
  BY <1>1, <1>2 DEF Claim!HandleClaim
<1> QED
  BY <1>4, <1>5, <1>6 DEF FirmwareInv

LEMMA TickIdle ==
    ASSUME ClaimTypes, FirmwareInv, IdleInv, Claim!Tick
    PROVE  IdleInv' /\ claimIdle' \in Nat
<1>1. /\ claimClaimTime \in Nat /\ claimLastTime \in Nat /\ claimIdle \in Nat
      /\ claimTimeout \in Nat /\ ClaimTimeout \in Nat
  BY ClaimConstants DEF ClaimTypes
<1>2. /\ claimClaimTime' = claimClaimTime /\ Claim!HandleClaim
      /\ claimClaimer' = claimClaimer
      /\ claimIdle' = IF Claim!Off /\ claimIdle <= ClaimTimeout + 1
                      THEN claimIdle + 1 ELSE claimIdle
  BY DEF Claim!Tick
<1>3. claimIdle' \in Nat
  BY <1>1, <1>2
<1>4. claimLastTime' = claimClaimTime'
  BY <1>2 DEF Claim!HandleClaim
<1>5. ASSUME claimIdle' > 0
      PROVE  \A p \in Processes : claimClaimer'[p] = "off"
  BY <1>1, <1>2, <1>5 DEF IdleInv, Claim!Off
<1>6. ASSUME claimIdle' > 0, claimClaimed'
      PROVE  claimIdle' <= claimTimeout' + 1
  <2>1. CASE claimClaimTime = claimLastTime
    <3>1. /\ claimClaimed /\ claimTimeout' <= ClaimTimeout /\ claimClaimTime # 0
          /\ claimTimeout' = IF claimTimeout > ClaimTimeout THEN claimTimeout
                             ELSE claimTimeout + 1
      BY <1>1, <1>2, <1>6, <2>1 DEF Claim!HandleClaim
    <3>2. claimTimeout' = claimTimeout + 1
      BY <1>1, <3>1
    <3>3. claimIdle > 0 => claimIdle <= claimTimeout + 1
      BY <3>1 DEF IdleInv
    <3> QED
      BY <1>1, <1>2, <3>2, <3>3
  <2>2. CASE claimClaimTime # claimLastTime
    <3>1. claimIdle = 0
      BY <1>1, <2>2 DEF IdleInv
    <3>2. claimTimeout' \in Nat
      BY TickFirmware
    <3>3. claimIdle' = claimIdle \/ claimIdle' = claimIdle + 1
      BY <1>2, Zenon
    <3> QED
      BY <3>1, <3>2, <3>3
  <2> QED
    BY <2>1, <2>2
<1> QED
  BY <1>3, <1>4, <1>5, <1>6 DEF IdleInv

LEMMA TickHeld ==
    ASSUME ClaimTypes, FirmwareInv, NEW p \in Processes, HeldInv(p), Claim!Tick
    PROVE  HeldInv(p)' /\ claimQuiet'[p] \in Nat
<1>1. /\ claimNow \in Nat /\ claimClaimTime \in Nat /\ claimLastTime \in Nat
      /\ claimTimeout \in Nat /\ ClaimTimeout \in Nat
      /\ claimWake[p] \in Nat /\ claimQuiet[p] \in Nat
      /\ Slack \in Nat /\ Second \in Nat \ {0} /\ Second + 2 * Slack <= ClaimTimeout
  BY ClaimConstants DEF ClaimTypes
<1>2. /\ claimNow' = claimNow + 1 /\ claimClaimTime' = claimClaimTime
      /\ claimClaimSrc' = claimClaimSrc /\ claimClaimer' = claimClaimer
      /\ claimWake' = claimWake
      /\ Active(p) => claimNow < claimWake[p] + Slack
  BY DEF Claim!Tick, Active
<1>3. /\ claimQuiet'[p] =
           IF Active(p) /\ claimQuiet[p] < Claim!Settled THEN claimQuiet[p] + 1
           ELSE claimQuiet[p]
      /\ claimQuiet'[p] \in Nat
  BY <1>1 DEF Claim!Tick, Active, ClaimTypes
<1>4. claimLastTime' = claimClaimTime
  BY <1>2 DEF Claim!Tick, Claim!HandleClaim
<1>5. SUFFICES ASSUME Active(p) PROVE HeldInv(p)'
  BY <1>2, <1>3 DEF HeldInv, Active
<1>6. claimQuiet'[p] <= claimQuiet[p] + 1
  BY <1>1, <1>3
<1>7. /\ claimNow' <= claimWake'[p] + Slack
      /\ claimClaimer'[p] = "src" => claimWake'[p] <= claimNow'
      /\ claimClaimer'[p] = "time" => claimWake'[p] <= claimNow' + Second
  BY <1>1, <1>2, <1>5 DEF HeldInv
<1>8. ASSUME Unwritten(p) PROVE Unwritten(p)'
  <2>1. /\ claimNow - claimQuiet[p] \in Nat /\ claimNow' - claimQuiet'[p] \in Nat
        /\ claimNow - claimQuiet[p] <= claimNow' - claimQuiet'[p]
    BY <1>1, <1>2, <1>3, <1>6, <1>8 DEF Unwritten
  <2>2. /\ Sec(claimNow - claimQuiet[p]) <= Sec(claimNow' - claimQuiet'[p])
        /\ Sec(claimNow - claimQuiet[p]) \in Nat
        /\ Sec(claimNow' - claimQuiet'[p]) \in Nat
    BY <2>1, SecGrows, SecTyped
  <2>3. /\ claimClaimTime' <= Sec(claimNow' - claimQuiet'[p])
        /\ claimLastTime' <= Sec(claimNow' - claimQuiet'[p])
    BY <1>1, <1>2, <1>4, <1>8, <2>2 DEF Unwritten
  <2>4. claimQuiet'[p] <= claimNow'
    BY <1>1, <1>2, <1>3, <1>6, <1>8 DEF Unwritten
  <2>5. /\ claimClaimer'[p] = "src" => claimWake'[p] + claimQuiet'[p] <= claimNow'
        /\ claimClaimer'[p] = "time" =>
             claimWake'[p] + claimQuiet'[p] <= claimNow' + Second + Slack
    BY <1>1, <1>2, <1>3, <1>6, <1>8 DEF Unwritten
  <2> QED
    BY <2>3, <2>4, <2>5 DEF Unwritten
<1>9. ASSUME NEW w \in Nat, Written(p, w), FreshTime(p, w) \/ Inherited(p, w)
      PROVE  Written(p, w)' /\ (FreshTime(p, w)' \/ Inherited(p, w)')
  <2>1. Written(p, w)'
    BY <1>1, <1>2, <1>3, <1>6, <1>9 DEF Written
  <2>2. CASE Inherited(p, w)
    <3>1. Inherited(p, w)'
      BY <1>1, <1>2, <1>3, <1>4, <1>6, <2>2 DEF Inherited
    <3> QED
      BY <2>1, <3>1
  <2>3. CASE FreshTime(p, w)
    <3>1. claimClaimTime # 0 /\ w < claimNow'
      <4>1. Sec(w) \in Nat \ {0}
        BY SecTyped
      <4> QED
        BY <1>1, <1>2, <1>9, <4>1 DEF Written
    <3>2. CASE claimLastTime # claimClaimTime
      <4>1. w = claimNow
        BY <2>3, <3>2 DEF FreshTime
      <4>2. claimTimeout' = 0 /\ claimClaimed'
        BY <1>1, <3>1, <3>2 DEF Claim!Tick, Claim!HandleClaim
      <4> QED
        BY <1>1, <1>2, <1>4, <2>1, <3>1, <4>1, <4>2 DEF FreshTime
    <3>3. CASE claimLastTime = claimClaimTime
      <4>1. w < claimNow /\ claimClaimed /\ claimTimeout + w < claimNow
        BY <2>3, <3>3 DEF FreshTime
      <4>2. claimTimeout <= ClaimTimeout
        BY <4>1 DEF FirmwareInv
      <4>3. claimTimeout' = claimTimeout + 1
        BY <1>1, <3>1, <3>3, <4>2 DEF Claim!Tick, Claim!HandleClaim
      <4>4. claimNow < w + Second + 2 * Slack
        BY <1>1, <1>2, <1>5, <1>9 DEF Written, Active
      <4>5. claimTimeout' <= ClaimTimeout
        BY <1>1, <4>1, <4>3, <4>4
      <4>6. claimClaimed'
        BY <3>1, <4>1, <4>5 DEF Claim!Tick, Claim!HandleClaim
      <4> QED
        BY <1>1, <1>2, <1>4, <2>1, <3>1, <4>1, <4>3, <4>6 DEF FreshTime
    <3> QED
      BY <3>2, <3>3
  <2> QED
    BY <1>9, <2>2, <2>3
<1> QED
  BY <1>5, <1>7, <1>8, <1>9 DEF HeldInv

LEMMA OpenInv ==
    ASSUME ClaimInv, NEW q \in Processes, Claim!Open(q)
    PROVE  ClaimInv'
<1>1. /\ claimClaimer[q] = "off"
      /\ claimClaimer' = [claimClaimer EXCEPT ![q] = "time"]
      /\ claimWake' = [claimWake EXCEPT ![q] = claimNow]
      /\ claimQuiet' = [claimQuiet EXCEPT ![q] = 0]
      /\ claimIdle' = 0
      /\ UNCHANGED <<claimNow, claimClaimed, claimLastTime, claimTimeout, claimClaimTime,
                     claimClaimSrc>>
  BY DEF Claim!Open, Claim!firmware
<1>2. ClaimTypes /\ FirmwareInv /\ IdleInv
  BY DEF ClaimInv
<1>3. ClaimTypes'
  BY <1>1, <1>2 DEF ClaimTypes
<1>4. FirmwareInv' /\ IdleInv'
  BY <1>1, <1>2 DEF FirmwareInv, IdleInv
<1>5. ASSUME NEW p \in Processes PROVE HeldInv(p)'
  <2>1. CASE p = q
    <3>1. claimClaimer'[q] = "time" /\ claimWake'[q] = claimNow /\ claimQuiet'[q] = 0
      BY <1>1, <1>2 DEF ClaimTypes
    <3>2. claimNow \in Nat /\ Slack \in Nat /\ Second \in Nat /\ claimNow - 0 = claimNow
      BY <1>2, ClaimConstants DEF ClaimTypes
    <3>3. Unwritten(q)'
      BY <1>1, <1>2, <3>1, <3>2 DEF Unwritten, FirmwareInv
    <3> QED
      BY <1>1, <2>1, <3>1, <3>2, <3>3 DEF HeldInv
  <2>2. CASE p # q
    <3>1. HeldState(p)' = HeldState(p)
      BY <1>1, <1>2, <2>2 DEF HeldState, ClaimTypes
    <3> QED
      BY <3>1, SameHeld DEF ClaimInv
  <2> QED
    BY <2>1, <2>2
<1> QED
  BY <1>3, <1>4, <1>5 DEF ClaimInv

\* What a write of a process that is not off keeps, the process itself left aside.
LEMMA WriteInv ==
    ASSUME ClaimInv, NEW q \in Processes, claimClaimer[q] # "off",
           claimNow' = claimNow, claimLastTime' = claimLastTime,
           claimClaimed' = claimClaimed, claimTimeout' = claimTimeout,
           claimIdle' = claimIdle,
           claimClaimTime' \in Nat, claimClaimTime' <= Sec(claimNow),
           claimClaimer' \in [Processes -> {"off", "time", "src", "closing"}],
           claimWake' \in [Processes -> Nat], claimQuiet' \in [Processes -> Nat],
           \A p \in Processes \ {q} :
             /\ claimClaimer'[p] = claimClaimer[p] /\ claimWake'[p] = claimWake[p]
             /\ claimQuiet'[p] = 0,
           HeldInv(q)'
    PROVE  ClaimInv'
<1>1. ClaimTypes'
  BY DEF ClaimInv, ClaimTypes
<1>2. FirmwareInv'
  BY DEF ClaimInv, FirmwareInv
<1>3. claimIdle = 0 /\ IdleInv'
  <2>1. claimIdle \in Nat /\ ~(claimIdle > 0)
    BY DEF ClaimInv, IdleInv, ClaimTypes
  <2> QED
    BY <2>1 DEF IdleInv
<1>4. \A p \in Processes : HeldInv(p)'
  BY DisturbedHeld DEF ClaimInv
<1> QED
  BY <1>1, <1>2, <1>3, <1>4 DEF ClaimInv

LEMMA ClaimTimeInv ==
    ASSUME ClaimInv, NEW q \in Processes, Claim!ClaimTime(q)
    PROVE  ClaimInv'
<1>1. /\ claimClaimer[q] = "time" /\ claimWake[q] <= claimNow
      /\ claimClaimTime' = Sec(claimNow)
      /\ claimClaimer' = [claimClaimer EXCEPT ![q] = "src"]
      /\ claimQuiet' = Claim!Disturbed(q)
      /\ UNCHANGED <<claimNow, claimClaimed, claimLastTime, claimTimeout, claimClaimSrc,
                     claimWake, claimIdle>>
  BY DEF Claim!ClaimTime, Claim!firmware, Sec
<1>2. ClaimTypes /\ FirmwareInv /\ HeldInv(q)
  BY DEF ClaimInv
<1>3. /\ claimNow \in Nat /\ claimLastTime \in Nat /\ claimClaimTime \in Nat
      /\ claimQuiet[q] \in Nat /\ claimWake[q] \in Nat
      /\ Slack \in Nat /\ Second \in Nat \ {0} /\ Sec(claimNow) \in Nat
  BY <1>2, ClaimConstants, SecTyped DEF ClaimTypes
<1>4. /\ claimQuiet' \in [Processes -> Nat] /\ claimQuiet'[q] = claimQuiet[q]
      /\ \A p \in Processes \ {q} : claimQuiet'[p] = 0
  BY <1>1, <1>2 DEF Claim!Disturbed, ClaimTypes
<1>5. claimClaimer'[q] = "src" /\ claimWake'[q] = claimWake[q]
  BY <1>1, <1>2 DEF ClaimTypes
<1>6. claimNow <= claimWake[q] + Slack
  BY <1>1, <1>2 DEF HeldInv, Active
<1>7. /\ Written(q, claimNow)'
      /\ FreshTime(q, claimNow)' \/ Inherited(q, claimNow)'
  <2>1. CASE Unwritten(q)
    <3>1. /\ claimQuiet[q] <= claimNow
          /\ claimLastTime <= Sec(claimNow - claimQuiet[q])
          /\ claimWake[q] + claimQuiet[q] <= claimNow + Second + Slack
      BY <1>1, <2>1 DEF Unwritten
    <3>2. Written(q, claimNow)'
      BY <1>1, <1>3, <1>4, <1>5, <3>1 DEF Written
    <3>3. CASE claimLastTime # Sec(claimNow)
      <4>1. claimQuiet[q] < 2 * (Second + Slack)
        BY <1>3, <1>6, <3>1
      <4> QED
        BY <1>1, <1>4, <3>2, <3>3, <4>1 DEF FreshTime
    <3>4. CASE claimLastTime = Sec(claimNow)
      <4>1. claimQuiet[q] < Second
        <5>1. ASSUME Second <= claimQuiet[q] PROVE FALSE
          <6>1. /\ claimNow - claimQuiet[q] \in Nat
                /\ (claimNow - claimQuiet[q]) + Second <= claimNow
            BY <1>3, <3>1, <5>1
          <6>2. /\ Sec(claimNow - claimQuiet[q]) < Sec(claimNow)
                /\ Sec(claimNow - claimQuiet[q]) \in Nat
            BY <1>3, <6>1, SecLater, SecTyped
          <6> QED
            BY <1>3, <3>1, <3>4, <6>2
        <5> QED
          BY <1>3, <5>1
      <4> QED
        BY <1>1, <1>3, <1>4, <3>2, <3>4, <4>1 DEF Inherited
    <3> QED
      BY <3>3, <3>4, <3>2
  <2>2. CASE ~Unwritten(q)
    <3>1. PICK w \in Nat : Written(q, w) /\ (FreshTime(q, w) \/ Inherited(q, w))
      BY <1>1, <1>2, <2>2 DEF HeldInv, Active
    <3>2. /\ claimClaimTime = Sec(w) /\ w + Second <= claimWake[q]
          /\ claimWake[q] <= w + Second + Slack /\ claimClaimSrc = q
      BY <1>1, <3>1 DEF Written
    <3>3. Sec(w) < Sec(claimNow) /\ Sec(w) \in Nat
      BY <1>1, <1>3, <3>2, SecLater, SecTyped
    <3>4. w < claimNow
      BY <1>1, <1>3, <3>2
    <3>5. claimLastTime = Sec(w)
      BY <1>3, <3>1, <3>2, <3>4 DEF FreshTime, Inherited
    <3>6. claimClaimed \/ claimQuiet[q] < 2 * (Second + Slack)
      <4>1. CASE FreshTime(q, w)
        BY <1>3, <3>4, <4>1 DEF FreshTime
      <4>2. CASE Inherited(q, w)
        BY <1>3, <1>6, <3>2, <4>2 DEF Inherited
      <4> QED
        BY <3>1, <4>1, <4>2
    <3>7. Written(q, claimNow)'
      BY <1>1, <1>3, <1>5, <3>2 DEF Written
    <3>8. FreshTime(q, claimNow)'
      BY <1>1, <1>3, <1>4, <3>3, <3>5, <3>6 DEF FreshTime
    <3> QED
      BY <3>7, <3>8
  <2> QED
    BY <2>1, <2>2
<1>8. HeldInv(q)'
  BY <1>1, <1>3, <1>5, <1>6, <1>7 DEF HeldInv
<1>9. /\ claimClaimer' \in [Processes -> {"off", "time", "src", "closing"}]
      /\ claimWake' \in [Processes -> Nat]
      /\ \A p \in Processes \ {q} :
           claimClaimer'[p] = claimClaimer[p] /\ claimWake'[p] = claimWake[p]
  BY <1>1, <1>2 DEF ClaimTypes
<1> QED
  BY <1>1, <1>3, <1>4, <1>8, <1>9, WriteInv

LEMMA ClaimSourceInv ==
    ASSUME ClaimInv, NEW q \in Processes, Claim!ClaimSource(q)
    PROVE  ClaimInv'
<1>1. /\ claimClaimer[q] = "src" /\ claimClaimSrc' = q
      /\ claimClaimer' = [claimClaimer EXCEPT ![q] = "time"]
      /\ claimWake' = [claimWake EXCEPT ![q] = claimNow + Second]
      /\ claimQuiet' = Claim!Disturbed(q)
      /\ UNCHANGED <<claimNow, claimClaimed, claimLastTime, claimTimeout, claimClaimTime,
                     claimIdle>>
  BY DEF Claim!ClaimSource, Claim!firmware
<1>2. ClaimTypes /\ FirmwareInv /\ HeldInv(q)
  BY DEF ClaimInv
<1>3. /\ claimNow \in Nat /\ claimLastTime \in Nat /\ claimClaimTime \in Nat
      /\ claimQuiet[q] \in Nat /\ claimWake[q] \in Nat
      /\ Slack \in Nat /\ Second \in Nat \ {0}
  BY <1>2, ClaimConstants DEF ClaimTypes
<1>4. /\ claimQuiet' \in [Processes -> Nat] /\ claimQuiet'[q] = claimQuiet[q]
      /\ \A p \in Processes \ {q} : claimQuiet'[p] = 0
  BY <1>1, <1>2 DEF Claim!Disturbed, ClaimTypes
<1>5. claimClaimer'[q] = "time" /\ claimWake'[q] = claimNow + Second
  BY <1>1, <1>2 DEF ClaimTypes
<1>6. claimNow <= claimWake[q] + Slack /\ claimWake[q] <= claimNow
  BY <1>1, <1>2 DEF HeldInv, Active
<1>7. \/ Unwritten(q)'
      \/ \E w \in Nat : Written(q, w)' /\ (FreshTime(q, w)' \/ Inherited(q, w)')
  <2>1. CASE Unwritten(q)
    <3>1. Unwritten(q)'
      BY <1>1, <1>3, <1>4, <1>5, <1>6, <2>1 DEF Unwritten
    <3> QED
      BY <3>1
  <2>2. CASE ~Unwritten(q)
    <3>1. PICK w \in Nat : Written(q, w) /\ (FreshTime(q, w) \/ Inherited(q, w))
      BY <1>1, <1>2, <2>2 DEF HeldInv, Active
    <3>2. Written(q, w)'
      BY <1>1, <1>3, <1>5, <1>6, <3>1 DEF Written
    <3>3. FreshTime(q, w)' \/ Inherited(q, w)'
      BY <1>1, <1>4, <3>1 DEF FreshTime, Inherited
    <3> QED
      BY <3>2, <3>3
  <2> QED
    BY <2>1, <2>2
<1>8. HeldInv(q)'
  BY <1>1, <1>3, <1>5, <1>6, <1>7 DEF HeldInv
<1>9. /\ claimClaimer' \in [Processes -> {"off", "time", "src", "closing"}]
      /\ claimWake' \in [Processes -> Nat]
      /\ \A p \in Processes \ {q} :
           claimClaimer'[p] = claimClaimer[p] /\ claimWake'[p] = claimWake[p]
  BY <1>1, <1>2, <1>3 DEF ClaimTypes
<1>10. claimClaimer[q] # "off" /\ claimClaimTime' \in Nat /\ claimClaimTime' <= Sec(claimNow)
  BY <1>1, <1>2, <1>3 DEF FirmwareInv
<1> QED
  BY <1>1, <1>4, <1>8, <1>9, <1>10, WriteInv

LEMMA CloseInv ==
    ASSUME ClaimInv, NEW q \in Processes, Claim!CloseTime(q) \/ Claim!CloseSource(q)
    PROVE  ClaimInv'
<1>1. /\ claimClaimer[q] \in {"time", "closing"}
      /\ claimClaimTime' = 0 \/ claimClaimTime' = claimClaimTime
      /\ \E step \in {"closing", "off"} : claimClaimer' = [claimClaimer EXCEPT ![q] = step]
      /\ claimWake' = claimWake \/ claimWake' = [claimWake EXCEPT ![q] = 0]
      /\ \/ claimQuiet' = Claim!Disturbed(q)
         \/ claimQuiet' = [Claim!Disturbed(q) EXCEPT ![q] = 0]
      /\ UNCHANGED <<claimNow, claimClaimed, claimLastTime, claimTimeout, claimIdle>>
  BY DEF Claim!CloseTime, Claim!CloseSource, Claim!firmware
<1>2. ClaimTypes /\ FirmwareInv
  BY DEF ClaimInv
<1>3. claimNow \in Nat /\ claimClaimTime \in Nat /\ Sec(claimNow) \in Nat
  BY <1>2, SecTyped DEF ClaimTypes
<1>4. /\ claimQuiet' \in [Processes -> Nat]
      /\ \A p \in Processes \ {q} : claimQuiet'[p] = 0
  <2>1. /\ Claim!Disturbed(q) \in [Processes -> Nat]
        /\ \A p \in Processes \ {q} : Claim!Disturbed(q)[p] = 0
    BY <1>2 DEF Claim!Disturbed, ClaimTypes
  <2> QED
    BY <1>1, <2>1
<1>5. claimClaimTime' \in Nat /\ claimClaimTime' <= Sec(claimNow)
  BY <1>1, <1>2, <1>3 DEF FirmwareInv
<1>6. /\ claimClaimer' \in [Processes -> {"off", "time", "src", "closing"}]
      /\ claimWake' \in [Processes -> Nat]
      /\ \A p \in Processes \ {q} :
           claimClaimer'[p] = claimClaimer[p] /\ claimWake'[p] = claimWake[p]
      /\ claimClaimer'[q] \in {"closing", "off"}
  BY <1>1, <1>2 DEF ClaimTypes
<1>7. HeldInv(q)' /\ claimClaimer[q] # "off"
  BY <1>1, <1>6 DEF HeldInv, Active
<1> QED
  BY <1>1, <1>4, <1>5, <1>6, <1>7, WriteInv

LEMMA CrashInv ==
    ASSUME ClaimInv, NEW q \in Processes, Claim!Crash(q)
    PROVE  ClaimInv'
<1>1. /\ claimClaimer' = [claimClaimer EXCEPT ![q] = "off"]
      /\ claimWake' = [claimWake EXCEPT ![q] = 0]
      /\ claimQuiet' = [claimQuiet EXCEPT ![q] = 0]
      /\ UNCHANGED <<claimNow, claimClaimed, claimLastTime, claimTimeout, claimClaimTime,
                     claimClaimSrc, claimIdle>>
  BY DEF Claim!Crash, Claim!firmware
<1>2. ClaimTypes /\ FirmwareInv /\ IdleInv
  BY DEF ClaimInv
<1>3. ClaimTypes' /\ FirmwareInv' /\ IdleInv'
  BY <1>1, <1>2 DEF ClaimTypes, FirmwareInv, IdleInv
<1>4. ASSUME NEW p \in Processes PROVE HeldInv(p)'
  <2>1. CASE p = q
    BY <1>1, <1>2, <2>1 DEF HeldInv, Active, ClaimTypes
  <2>2. CASE p # q
    <3>1. HeldState(p)' = HeldState(p)
      BY <1>1, <1>2, <2>2 DEF HeldState, ClaimTypes
    <3> QED
      BY <3>1, SameHeld DEF ClaimInv
  <2> QED
    BY <2>1, <2>2
<1> QED
  BY <1>3, <1>4 DEF ClaimInv

\* What the claims are told by.
claimState ==
    <<claimNow, claimClaimTime, claimClaimSrc, claimClaimed, claimLastTime, claimTimeout,
      claimClaimer, claimWake, claimQuiet, claimIdle>>

LEMMA SameClaims ==
    ASSUME ClaimInv, UNCHANGED claimState
    PROVE  ClaimInv'
<1>1. \A p \in Processes : HeldState(p)' = HeldState(p)
  BY DEF claimState, HeldState
<1>2. \A p \in Processes : HeldInv(p)'
  BY <1>1, SameHeld DEF ClaimInv
<1>3. ClaimTypes' /\ FirmwareInv' /\ IdleInv'
  BY DEF ClaimInv, claimState, ClaimTypes, FirmwareInv, IdleInv
<1> QED
  BY <1>2, <1>3 DEF ClaimInv

LEMMA TickInv ==
    ASSUME ClaimInv, Claim!Tick
    PROVE  ClaimInv'
<1>1. ClaimTypes /\ FirmwareInv /\ IdleInv
  BY DEF ClaimInv
<1>2. FirmwareInv' /\ claimTimeout' \in Nat /\ claimClaimed' \in BOOLEAN
  BY <1>1, TickFirmware
<1>3. IdleInv' /\ claimIdle' \in Nat
  BY <1>1, TickIdle
<1>4. \A p \in Processes : HeldInv(p)' /\ claimQuiet'[p] \in Nat
  BY <1>1, TickHeld DEF ClaimInv
<1>5. claimQuiet' \in [Processes -> Nat]
  <2>1. /\ claimQuiet' = [p \in Processes |-> claimQuiet'[p]]
    BY DEF Claim!Tick
  <2> QED
    BY <1>4, <2>1
<1>6. /\ claimNow' \in Nat /\ claimClaimTime' \in Nat /\ claimLastTime' \in Nat
      /\ claimClaimer' = claimClaimer /\ claimWake' = claimWake
  BY <1>1 DEF ClaimTypes, Claim!Tick, Claim!HandleClaim
<1>7. ClaimTypes'
  BY <1>1, <1>2, <1>3, <1>5, <1>6 DEF ClaimTypes
<1> QED
  BY <1>2, <1>3, <1>4, <1>7 DEF ClaimInv

LEMMA ClaimStep ==
    ASSUME ClaimInv, [PathNext]_<<vars, otherVars>>
    PROVE  ClaimInv'
<1>1. CASE UNCHANGED claimVars
  BY <1>1, SameClaims DEF claimVars, claimState
<1>2. CASE Claim!Tick
  BY <1>2, TickInv
<1>3. ASSUME NEW p \in Processes,
             \/ Claim!CheckStatus(p) \/ Claim!CheckSource(p) \/ Claim!Open(p)
             \/ Claim!ClaimTime(p) \/ Claim!ClaimSource(p)
             \/ Claim!CloseTime(p) \/ Claim!CloseSource(p) \/ Claim!Crash(p)
      PROVE  ClaimInv'
  <2>1. CASE Claim!CheckStatus(p) \/ Claim!CheckSource(p)
    <3>1. UNCHANGED claimState
      BY <2>1 DEF Claim!CheckStatus, Claim!CheckSource, Claim!firmware, Claim!history,
                  claimState
    <3> QED
      BY <3>1, SameClaims
  <2> QED
    BY <1>3, <2>1, OpenInv, ClaimTimeInv, ClaimSourceInv, CloseInv, CrashInv
<1>4. UNCHANGED claimVars \/ Claim!Next
  BY DEF PathNext, otherVars
<1> QED
  BY <1>1, <1>2, <1>3, <1>4 DEF Claim!Next

LEMMA ClaimInvHolds ==
    ASSUME ClaimInv
    PROVE  ClaimHeld /\ Expires
<1>1. ASSUME NEW p \in Processes, Active(p), claimQuiet[p] >= 2 * (Second + Slack)
      PROVE  claimClaimed /\ claimClaimSrc = p
  <2>1. /\ claimNow \in Nat /\ claimQuiet[p] \in Nat /\ claimWake[p] \in Nat
        /\ claimTimeout \in Nat /\ Slack \in Nat /\ Second \in Nat \ {0}
    BY ClaimConstants DEF ClaimInv, ClaimTypes
  <2>2. /\ claimNow <= claimWake[p] + Slack
        /\ claimClaimer[p] = "src" => claimWake[p] <= claimNow
    BY <1>1 DEF ClaimInv, HeldInv
  <2>3. ~Unwritten(p)
    BY <1>1, <2>1, <2>2 DEF Unwritten, Active
  <2>4. PICK w \in Nat : Written(p, w) /\ (FreshTime(p, w) \/ Inherited(p, w))
    BY <1>1, <2>3 DEF ClaimInv, HeldInv
  <2>5. claimNow <= w + Second + 2 * Slack
    BY <1>1, <2>1, <2>2, <2>4 DEF Written, Active
  <2>6. ~Inherited(p, w)
    BY <1>1, <2>1, <2>5 DEF Inherited
  <2>7. claimClaimed
    BY <1>1, <2>1, <2>4, <2>6 DEF FreshTime
  <2>8. claimClaimSrc = p
    BY <1>1, <2>1, <2>2, <2>4 DEF Written, Active
  <2> QED
    BY <2>7, <2>8
<1>2. ClaimHeld
  BY <1>1 DEF ClaimHeld, Claim!ClaimHeld, Claim!Settled, Active
<1>3. ASSUME claimIdle > ClaimTimeout + 1, claimClaimed
      PROVE  FALSE
  <2>1. claimIdle \in Nat /\ claimTimeout \in Nat /\ ClaimTimeout \in Nat
    BY ClaimConstants DEF ClaimInv, ClaimTypes
  <2>2. claimTimeout <= ClaimTimeout /\ claimIdle <= claimTimeout + 1
    BY <1>3, <2>1 DEF ClaimInv, FirmwareInv, IdleInv
  <2> QED
    BY <1>3, <2>1, <2>2
<1>4. Expires
  BY <1>3 DEF Expires, Claim!Expires
<1> QED
  BY <1>2, <1>4

\* Whatever the processes, their number, crashes and delays: a process whose claimer
\* runs, and whom no other has disturbed for two periods, holds the claim, with its
\* own hash: claimer_loop() and handle_claim().
THEOREM ClaimIsHeld == PathSpec => []ClaimHeld
<1>1. PathInit => ClaimInv
  BY ClaimInit DEF PathInit
<1>2. ClaimInv /\ [PathNext]_<<vars, otherVars>> => ClaimInv'
  BY ClaimStep
<1>3. ClaimInv => ClaimHeld
  BY ClaimInvHolds
<1> QED
  BY <1>1, <1>2, <1>3, PTL DEF PathSpec

\* A device that nobody uses becomes free, whenever its last claimer crashed or closed.
THEOREM ClaimExpires == PathSpec => []Expires
<1>1. PathInit => ClaimInv
  BY ClaimInit DEF PathInit
<1>2. ClaimInv /\ [PathNext]_<<vars, otherVars>> => ClaimInv'
  BY ClaimStep
<1>3. ClaimInv => Expires
  BY ClaimInvHolds
<1> QED
  BY <1>1, <1>2, <1>3, PTL DEF PathSpec
=============================================================================
