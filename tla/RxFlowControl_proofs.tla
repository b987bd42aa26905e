------------------------ MODULE RxFlowControl_proofs -------------------------
(***************************************************************************)
(* For every window, every rate of answers, any losses and any number of   *)
(* messages: types, the numbers the host answers with, and that the gate   *)
(* implements a window of credit.                                          *)
(***************************************************************************)
EXTENDS RxFlowControl, FiniteSetTheorems, FunctionTheorems, TLAPS

-----------------------------------------------------------------------------
(* Numbers of which the code sees only the low bits.                       *)

\* A multiple of m between -m and m is 0.
LEMMA SmallMultiple ==
    ASSUME NEW t \in Int, NEW m \in Nat \ {0}, 0 - m < t * m, t * m < m
    PROVE  t = 0
<1>1. CASE t >= 1
  <2>1. t * m = (t - 1) * m + m /\ (t - 1) * m >= 0
    BY <1>1
  <2> QED
    BY <2>1
<1>2. CASE t <= -1
  <2>1. t * m = (t + 1) * m - m /\ (t + 1) * m <= 0
    BY <1>2
  <2> QED
    BY <2>1
<1> QED
  BY <1>1, <1>2

\* The quotient and the remainder are the only ones.
LEMMA UniqueRemainder ==
    ASSUME NEW q \in Int, NEW m \in Nat \ {0}, NEW r \in 0 .. m - 1
    PROVE  (q * m + r) % m = r
<1> DEFINE a == q * m + r
           d == a \div m
           t == q - d
<1>1. a \in Int /\ a = d * m + (a % m) /\ d \in Int /\ a % m \in 0 .. m - 1
  OBVIOUS
<1>2. t \in Int /\ t * m = q * m - d * m
  BY <1>1
<1>3. q * m \in Int /\ d * m \in Int /\ a = q * m + r
  BY <1>1
<1> HIDE DEF a, d, t
<1>4. t * m = (a % m) - r
  BY <1>1, <1>2, <1>3
<1>5. t * m \in Int /\ 0 - m < t * m /\ t * m < m
  BY <1>1, <1>4
<1>6. t = 0
  BY <1>2, <1>5, SmallMultiple
<1>7. a % m = r
  BY <1>1, <1>4, <1>6
<1> QED
  BY <1>7 DEF a

\* A number is recovered from its remainder and a number less than a turn before.
LEMMA RecoveredNumber ==
    ASSUME NEW h \in Nat, NEW s \in Nat, NEW m \in Nat \ {0}, h <= s, s < h + m
    PROVE  LET base == IF s % m < h % m THEN h + m ELSE h
           IN  (base - (base % m)) + (s % m) = s
<1> DEFINE qh == h \div m
           qs == s \div m
           rh == h % m
           rs == s % m
           base == IF rs < rh THEN h + m ELSE h
<1>1. h = qh * m + rh /\ s = qs * m + rs /\ qh \in Int /\ qs \in Int
      /\ rh \in 0 .. m - 1 /\ rs \in 0 .. m - 1
  OBVIOUS
<1>2. qh * m \in Int /\ qs * m \in Int /\ (qs - qh) * m = qs * m - qh * m
      /\ ((qs - qh) - 1) * m = qs * m - qh * m - m /\ (qh + 1) * m = qh * m + m
      /\ (qs - qh) \in Int /\ (qs - qh) - 1 \in Int /\ (qh + 1) \in Int
  BY <1>1
<1> HIDE DEF qh, qs, rh, rs
<1>3. CASE rs < rh
  <2>1. 0 - m < ((qs - qh) - 1) * m /\ ((qs - qh) - 1) * m < m
    BY <1>1, <1>2, <1>3
  <2>2. (qs - qh) - 1 = 0
    BY <1>2, <2>1, SmallMultiple
  <2>3. base = (qh + 1) * m + rh
    BY <1>1, <1>2, <1>3
  <2>4. base % m = rh
    BY <1>1, <1>2, <2>3, UniqueRemainder
  <2> QED
    BY <1>1, <1>2, <1>3, <2>2, <2>3, <2>4 DEF rs, rh
<1>4. CASE ~(rs < rh)
  <2>1. 0 - m < (qs - qh) * m /\ (qs - qh) * m < m
    BY <1>1, <1>2, <1>4
  <2>2. qs - qh = 0
    BY <1>2, <2>1, SmallMultiple
  <2>3. base = h /\ base % m = rh
    BY <1>4 DEF rh
  <2> QED
    BY <1>1, <1>2, <1>4, <2>2, <2>3 DEF rs, rh
<1> QED
  BY <1>3, <1>4

-----------------------------------------------------------------------------
(* The invariant.                                                          *)

\* Packets under way are numbered in the order of their places, not above them.
WireInv ==
    /\ IsFiniteSet(wire)
    /\ \A p \in wire : /\ p.pos < current /\ p.seq <= p.pos /\ p.seq <= data
                       /\ seq32 <= p.seq
                       /\ seq32 > 0 => seq32 < p.pos
    /\ \A p, q \in wire : /\ p.pos = q.pos => p = q
                          /\ p.pos < q.pos => p.seq <= q.seq

\* The gate never lets a packet go beyond the window: that the two numbers differ
\* means that one is less.
GateInv ==
    /\ data <= current
    /\ current <= last + Window
    /\ go => current < last + Window

AnswersInv ==
    /\ last <= seq32 /\ seq32 <= data
    /\ seq32 > 0 => seq32 < current
    /\ \A i \in 1 .. Len(acks) :
         /\ last <= acks[i] /\ acks[i] <= seq32
         /\ \A j \in i .. Len(acks) : acks[i] <= acks[j]

IInv == TypeOK /\ WireInv /\ GateInv /\ AnswersInv

LEMMA InvInit == Init => IInv
<1> SUFFICES ASSUME Init PROVE IInv
  OBVIOUS
<1>1. Window \in Nat /\ Window > 1
  BY ConstantsAssumption
<1>2. acks = <<0>> /\ acks \in Seq(Nat) /\ Len(acks) = 1 /\ acks[1] = 0
  BY DEF Init
<1>3. TypeOK
  BY <1>2 DEF Init, TypeOK
<1>4. WireInv
  BY FS_EmptySet DEF Init, WireInv
<1>5. GateInv
  BY <1>1 DEF Init, GateInv
<1>6. AnswersInv
  BY <1>2 DEF Init, AnswersInv
<1> QED
  BY <1>3, <1>4, <1>5, <1>6 DEF IInv

\* Types of what the invariant speaks of, for the arithmetic of the steps.
LEMMA Typed ==
    ASSUME IInv
    PROVE  /\ current \in Nat /\ data \in Nat /\ last \in Int /\ seq32 \in Nat
           /\ lost \in Nat /\ go \in BOOLEAN /\ Window \in Nat /\ SeqMod \in Nat \ {0}
           /\ \A p \in wire : p \in Packet /\ p.pos \in Nat /\ p.seq \in Nat
           /\ acks \in Seq(Nat) /\ Len(acks) \in Nat
           /\ \A i \in 1 .. Len(acks) : acks[i] \in Nat
<1>1. \A p \in wire : p \in Packet /\ p.pos \in Nat /\ p.seq \in Nat
  BY DEF IInv, TypeOK, Packet
<1>2. acks \in Seq(Nat) /\ Len(acks) \in Nat /\ \A i \in 1 .. Len(acks) : acks[i] \in Nat
  <2>1. acks \in Seq(Nat)
    BY DEF IInv, TypeOK
  <2> QED
    BY <2>1
<1> QED
  BY <1>1, <1>2, ConstantsAssumption DEF IInv, TypeOK

\* The host recovers the whole number of the packet it answers.
LEMMA RecoveredTrue ==
    ASSUME IInv, NEW p \in wire, InTurn(p)
    PROVE  Recovered(p) = p.seq
<1>1. /\ seq32 \in Nat /\ p.seq \in Nat /\ SeqMod \in Nat \ {0}
      /\ seq32 <= p.seq /\ p.seq < seq32 + SeqMod
  BY Typed DEF IInv, WireInv, InTurn
<1>2. LET base == IF p.seq % SeqMod < seq32 % SeqMod THEN seq32 + SeqMod ELSE seq32
      IN  (base - (base % SeqMod)) + (p.seq % SeqMod) = p.seq
  BY <1>1, RecoveredNumber
<1> QED
  BY <1>2 DEF Recovered

\* The packets under way have places after the last answer and before the next
\* packet, so there are no more of them than the window.
LEMMA InvImpliesWindow == IInv => WindowRespected
<1> SUFFICES ASSUME IInv PROVE WindowRespected
  OBVIOUS
<1> DEFINE low == IF seq32 > 0 THEN seq32 + 1 ELSE 0
           high == current - 1
           place == [p \in wire |-> p.pos]
<1>1. low \in Int /\ high \in Int
  BY Typed
<1>2. /\ IsFiniteSet(low .. high)
      /\ Cardinality(low .. high) = IF low > high THEN 0 ELSE high - low + 1
  BY <1>1, FS_Interval
<1>3. place \in Injection(wire, low .. high)
  <2>1. \A p \in wire : p.pos \in low .. high
    BY <1>1, Typed DEF IInv, WireInv
  <2>2. place \in [wire -> low .. high]
    BY <2>1
  <2>3. \A p, q \in wire : place[p] = place[q] => p = q
    BY DEF IInv, WireInv
  <2> HIDE DEF place
  <2> QED
    BY <2>2, <2>3, Fun_IsInj
<1> HIDE DEF place
<1>4. Cardinality(wire) <= Cardinality(low .. high)
  BY <1>2, <1>3, FS_Injection
<1>5. Cardinality(wire) \in Nat
  BY FS_CardinalityType DEF IInv, WireInv
<1>6. (IF low > high THEN 0 ELSE high - low + 1) <= Window
  BY Typed DEF IInv, GateInv, AnswersInv
<1>7. Cardinality(low .. high) \in Int
  BY <1>1, <1>2
<1> HIDE DEF low, high
<1> QED
  BY <1>2, <1>4, <1>5, <1>6, <1>7, Typed DEF WindowRespected

-----------------------------------------------------------------------------
(* The steps.                                                              *)

\* Without its first answer the rest are in order.
LEMMA TailKeeps ==
    ASSUME IInv, acks # <<>>
    PROVE  /\ Tail(acks) \in Seq(Nat) /\ Len(Tail(acks)) = Len(acks) - 1
           /\ \A i \in 1 .. Len(Tail(acks)) :
                Tail(acks)[i] = acks[i + 1] /\ i + 1 \in 1 .. Len(acks)
           /\ Head(acks) = acks[1] /\ 1 \in 1 .. Len(acks)
BY Typed

\* Losing packets, or taking them in without an answer.
LEMMA FewerPackets ==
    ASSUME IInv, NEW p \in wire, wire' = wire \ {p}, lost' \in Nat,
           UNCHANGED <<current, data, last, go, seq32, acks>>
    PROVE  IInv'
<1>1. IsFiniteSet(wire')
  BY FS_RemoveElement DEF IInv, WireInv
<1>2. TypeOK' /\ GateInv' /\ AnswersInv'
  BY DEF IInv, TypeOK, GateInv, AnswersInv
<1>3. WireInv'
  BY <1>1 DEF IInv, WireInv
<1> QED
  BY <1>2, <1>3 DEF IInv

\* Losing an answer, or hearing it.
LEMMA FewerAnswers ==
    ASSUME IInv, acks # <<>>, acks' = Tail(acks), lost' \in Nat,
           last' \in {last, Head(acks)},
           UNCHANGED <<current, data, go, wire, seq32>>
    PROVE  IInv'
<1>1. /\ acks' \in Seq(Nat)
      /\ \A i \in 1 .. Len(acks') : acks'[i] = acks[i + 1] /\ i + 1 \in 1 .. Len(acks)
      /\ Len(acks') = Len(acks) - 1 /\ Head(acks) = acks[1] /\ 1 \in 1 .. Len(acks)
  BY TailKeeps
<1>2. last' \in Int /\ last <= last' /\ last' <= acks[1] /\ acks[1] \in Nat
      /\ (last' = last \/ last' = acks[1])
  BY <1>1, Typed DEF IInv, AnswersInv
<1>3. TypeOK'
  BY <1>1, <1>2 DEF IInv, TypeOK
<1>4. WireInv' /\ GateInv'
  BY <1>2, Typed DEF IInv, WireInv, GateInv
<1>5. AnswersInv'
  <2>1. last' <= seq32 /\ seq32 <= data /\ (seq32 > 0 => seq32 < current)
    BY <1>1, <1>2 DEF IInv, AnswersInv
  <2>2. ASSUME NEW i \in 1 .. Len(acks')
        PROVE  /\ last' <= acks'[i] /\ acks'[i] <= seq32
               /\ \A j \in i .. Len(acks') : acks'[i] <= acks'[j]
    <3>1. acks'[i] = acks[i + 1] /\ i + 1 \in 1 .. Len(acks) /\ i + 1 \in 1 .. Len(acks)
      BY <1>1
    <3>2. acks[1] <= acks[i + 1] /\ acks[i + 1] <= seq32 /\ acks[i + 1] \in Nat
      BY <1>1, <3>1, Typed DEF IInv, AnswersInv
    <3>3. ASSUME NEW j \in i .. Len(acks')
          PROVE  acks'[i] <= acks'[j]
      <4>1. acks'[j] = acks[j + 1] /\ j + 1 \in (i + 1) .. Len(acks)
        BY <1>1, Typed
      <4> QED
        BY <3>1, <4>1 DEF IInv, AnswersInv
    <3> QED
      BY <1>2, <3>1, <3>2, <3>3, Typed
  <2> QED
    BY <2>1, <2>2 DEF AnswersInv
<1> QED
  BY <1>3, <1>4, <1>5 DEF IInv

\* A packet passes the gate, and is numbered data or message.
LEMMA PassKeeps ==
    ASSUME IInv, Pass, data' \in {data, data + 1}
    PROVE  IInv'
<1> DEFINE new == [pos |-> current, seq |-> data]
<1>1. /\ go /\ go' = FALSE /\ current' = current + 1 /\ wire' = wire \cup {new}
      /\ UNCHANGED <<last, seq32, acks, lost>>
  BY DEF Pass
<1>2. data' \in Nat /\ data <= data' /\ data' <= data + 1
  BY Typed
<1>3. new \in Packet /\ new.pos = current /\ new.seq = data
  BY Typed DEF Packet
<1> HIDE DEF new
<1>4. TypeOK'
  <2>1. wire' \in SUBSET Packet /\ current' \in Nat
    BY <1>1, <1>3, Typed
  <2> QED
    BY <1>1, <1>2, <2>1 DEF IInv, TypeOK
<1>5. WireInv'
  <2>1. IsFiniteSet(wire')
    BY <1>1, FS_AddElement DEF IInv, WireInv
  <2>2. ASSUME NEW p \in wire'
        PROVE  /\ p.pos < current' /\ p.seq <= p.pos /\ p.seq <= data'
               /\ seq32 <= p.seq
               /\ seq32 > 0 => seq32 < p.pos
    <3>1. CASE p \in wire
      BY <1>1, <1>2, <3>1, Typed DEF IInv, WireInv
    <3>2. CASE p = new
      <4>1. seq32 <= data /\ data <= current
        BY DEF IInv, AnswersInv, GateInv
      <4>2. seq32 > 0 => seq32 < current
        BY DEF IInv, AnswersInv
      <4> QED
        BY <1>1, <1>2, <1>3, <3>2, <4>1, <4>2, Typed
    <3> QED
      BY <1>1, <3>1, <3>2
  <2>3. ASSUME NEW p \in wire', NEW q \in wire'
        PROVE  /\ p.pos = q.pos => p = q
               /\ p.pos < q.pos => p.seq <= q.seq
    BY <1>1, <1>3, Typed DEF IInv, WireInv
  <2> QED
    BY <1>1, <2>1, <2>2, <2>3 DEF WireInv
<1>6. GateInv'
  BY <1>1, <1>2, Typed DEF IInv, GateInv
<1>7. AnswersInv'
  BY <1>1, <1>2, Typed DEF IInv, AnswersInv
<1> QED
  BY <1>4, <1>5, <1>6, <1>7 DEF IInv

\* A packet is answered with the number it has.
LEMMA AnswerKeeps ==
    ASSUME IInv, ReceiveAnswered
    PROVE  IInv'
<1>1. PICK p \in wire :
        /\ InTurn(p) /\ wire' = wire \ {p}
        /\ seq32' = Recovered(p) /\ acks' = Append(acks, Recovered(p))
        /\ UNCHANGED <<current, data, last, go, lost>>
  BY DEF ReceiveAnswered
<1>2. /\ seq32' = p.seq /\ acks' = Append(acks, p.seq)
      /\ p.seq \in Nat /\ p.pos \in Nat /\ seq32 <= p.seq
      /\ p.seq <= p.pos /\ p.pos < current /\ p.seq <= data
  BY <1>1, RecoveredTrue, Typed DEF IInv, WireInv
<1>3. /\ acks' \in Seq(Nat) /\ Len(acks') = Len(acks) + 1
      /\ \A i \in 1 .. Len(acks) : acks'[i] = acks[i]
      /\ acks'[Len(acks) + 1] = p.seq
  BY <1>2, Typed
<1>4. TypeOK'
  BY <1>1, <1>2, <1>3 DEF IInv, TypeOK
<1>5. WireInv'
  <2>1. IsFiniteSet(wire')
    BY <1>1, FS_RemoveElement DEF IInv, WireInv
  <2>2. \A q \in wire' : q \in wire /\ p.pos < q.pos /\ p.seq <= q.seq
    BY <1>1, Typed DEF IInv, WireInv, InTurn, Oldest
  <2> QED
    BY <1>1, <1>2, <2>1, <2>2, Typed DEF IInv, WireInv
<1>6. GateInv'
  BY <1>1 DEF IInv, GateInv
<1>7. AnswersInv'
  <2>1. last <= seq32' /\ seq32' <= data /\ (seq32' > 0 => seq32' < current)
    BY <1>2, Typed DEF IInv, AnswersInv
  <2>2. ASSUME NEW i \in 1 .. Len(acks')
        PROVE  /\ last <= acks'[i] /\ acks'[i] <= seq32'
               /\ \A j \in i .. Len(acks') : acks'[i] <= acks'[j]
    <3>1. CASE i = Len(acks) + 1
      BY <1>2, <1>3, <2>1, <3>1, Typed
    <3>2. CASE i # Len(acks) + 1
      <4>1. i \in 1 .. Len(acks) /\ acks'[i] = acks[i]
        BY <1>3, <3>2, Typed
      <4>2. last <= acks[i] /\ acks[i] <= seq32 /\ acks[i] \in Nat
        BY <4>1, Typed DEF IInv, AnswersInv
      <4>3. ASSUME NEW j \in i .. Len(acks')
            PROVE  acks'[i] <= acks'[j]
        <5>1. CASE j = Len(acks) + 1
          BY <1>2, <1>3, <4>1, <4>2, <5>1, Typed
        <5>2. CASE j # Len(acks) + 1
          <6>1. Len(acks) \in Nat /\ Len(acks') = Len(acks) + 1
            BY <1>3, Typed
          <6>2. j \in i .. Len(acks) + 1
            BY <4>3, <6>1
          <6>3. j \in i .. Len(acks) /\ j \in 1 .. Len(acks)
            BY <4>1, <5>2, <6>1, <6>2
          <6> QED
            BY <1>3, <4>1, <6>3 DEF IInv, AnswersInv
        <5> QED
          BY <5>1, <5>2
      <4>4. last <= acks'[i] /\ acks'[i] <= seq32'
        BY <1>2, <4>1, <4>2, Typed
      <4> QED
        BY <4>3, <4>4
    <3> QED
      BY <3>1, <3>2
  <2> QED
    BY <1>1, <2>1, <2>2 DEF AnswersInv
<1> QED
  BY <1>4, <1>5, <1>6, <1>7 DEF IInv

LEMMA InvStep == IInv /\ [Next]_vars => IInv'
<1> SUFFICES ASSUME IInv, [Next]_vars PROVE IInv'
  OBVIOUS
<1>1. CASE Open
  <2>1. go' = TRUE /\ last + Window # current
        /\ UNCHANGED <<current, data, last, wire, seq32, acks, lost>>
    BY <1>1, Typed DEF Open, GoUntil
  <2>2. GateInv'
    BY <2>1, Typed DEF IInv, GateInv
  <2> QED
    BY <2>1, <2>2 DEF IInv, TypeOK, WireInv, AnswersInv
<1>2. CASE PassData
  BY <1>2, PassKeeps DEF PassData
<1>3. CASE PassMessage
  BY <1>3, PassKeeps DEF PassMessage
<1>4. CASE HearAnswer
  <2>1. lost' \in Nat
    BY <1>4, Typed DEF HearAnswer
  <2> QED
    BY <1>4, <2>1, FewerAnswers DEF HearAnswer
<1>5. CASE ReceiveUnanswered
  <2>1. lost' \in Nat
    BY <1>5, Typed DEF ReceiveUnanswered
  <2> QED
    BY <1>5, <2>1, FewerPackets DEF ReceiveUnanswered
<1>6. CASE ReceiveAnswered
  BY <1>6, AnswerKeeps
<1>7. CASE ReceiveNoBuffer
  <2>1. lost' \in Nat
    BY <1>7, Typed DEF ReceiveNoBuffer
  <2> QED
    BY <1>7, <2>1, FewerPackets DEF ReceiveNoBuffer
<1>8. CASE LosePacket
  <2>1. lost' \in Nat
    BY <1>8, Typed DEF LosePacket
  <2> QED
    BY <1>8, <2>1, FewerPackets DEF LosePacket
<1>9. CASE LoseAnswer
  <2>1. lost' \in Nat
    BY <1>9, Typed DEF LoseAnswer
  <2> QED
    BY <1>9, <2>1, FewerAnswers DEF LoseAnswer
<1>10. CASE UNCHANGED vars
  BY <1>10 DEF vars, IInv, TypeOK, WireInv, GateInv, AnswersInv
<1> QED
  BY <1>1, <1>2, <1>3, <1>4, <1>5, <1>6, <1>7, <1>8, <1>9, <1>10 DEF Next

-----------------------------------------------------------------------------
(* The theorems.                                                           *)

\* The state stays well-formed, the recovered numbers included.
THEOREM RxFlowTypeCorrect == Spec => []TypeOK
<1>1. IInv => TypeOK
  BY DEF IInv
<1> QED
  BY <1>1, InvInit, InvStep, PTL DEF Spec

\* The host sends good numbers: they never go back, and no packet up to an
\* answered number is still under way.
THEOREM NumbersGood == Spec => []GoodNumbers
<1>1. IInv => GoodNumbers
  <2> SUFFICES ASSUME IInv PROVE GoodNumbers
    OBVIOUS
  <2>1. DOMAIN acks = 1 .. Len(acks)
    BY Typed
  <2>2. \A a \in Numbers(acks) : last <= a /\ a <= seq32
    BY <2>1 DEF Numbers, IInv, AnswersInv
  <2>3. \A i, j \in DOMAIN acks : i <= j => acks[i] <= acks[j]
    BY <2>1 DEF IInv, AnswersInv
  <2>4. seq32 > 0 => \A p \in wire : p.pos > seq32
    BY Typed DEF IInv, WireInv
  <2> QED
    BY <2>2, <2>3, <2>4 DEF GoodNumbers, IInv, AnswersInv
<1> QED
  BY <1>1, InvInit, InvStep, PTL DEF Spec

\* The radio never has more packets under way than the host has room for.
THEOREM RxWindowKept == Spec => []WindowRespected
BY InvInit, InvStep, InvImpliesWindow, PTL DEF Spec

\* The packets under way count as an interval between those gone and those sent.
LEMMA Counts ==
    ASSUME IInv
    PROVE  /\ IsFiniteSet(wire) /\ Cardinality(wire) \in Nat
           /\ Cardinality(wire) <= Window
BY FS_CardinalityType, InvImpliesWindow DEF IInv, WireInv, WindowRespected

LEMMA CountsNext ==
    ASSUME IInv'
    PROVE  Cardinality(wire') \in Nat /\ Cardinality(wire') <= Window
<1>1. (IInv => Cardinality(wire) \in Nat /\ Cardinality(wire) <= Window)'
  BY Counts, PTL
<1> QED
  BY <1>1

\* The gate implements a window of credit: each of its steps is one of the
\* abstract window or leaves it alone.
THEOREM RxImplementsCreditWindow == Spec => ImplementsCreditWindow
<1>1. Init => Credit!Init
  BY FS_EmptySet DEF Init, Credit!Init
<1>2. IInv /\ IInv' /\ [Next]_vars
      => [Credit!Next]_<<current, current - Cardinality(wire)>>
  <2> SUFFICES ASSUME IInv, IInv', [Next]_vars
               PROVE  [Credit!Next]_<<current, current - Cardinality(wire)>>
    OBVIOUS
  <2>1. /\ Cardinality(wire) \in Nat /\ Cardinality(wire') \in Nat
        /\ Cardinality(wire') <= Window /\ IsFiniteSet(wire)
        /\ current \in Nat /\ Window \in Nat
    <3>1. Cardinality(wire') \in Nat /\ Cardinality(wire') <= Window
      BY CountsNext
    <3> QED
      BY <3>1, Counts, Typed
  <2>2. CASE Pass
    <3>1. [pos |-> current, seq |-> data] \notin wire
      BY Typed DEF IInv, WireInv
    <3>2. current' = current + 1 /\ Cardinality(wire') = Cardinality(wire) + 1
      BY <2>1, <2>2, <3>1, FS_AddElement DEF Pass
    <3> QED
      BY <2>1, <3>2 DEF Credit!Next, Credit!Send
  <2>3. ASSUME NEW p \in wire, wire' = wire \ {p}, UNCHANGED current
        PROVE  Credit!Next
    <3>1. Cardinality(wire') = Cardinality(wire) - 1
      BY <2>1, <2>3, FS_RemoveElement
    <3> QED
      BY <2>1, <2>3, <3>1 DEF Credit!Next, Credit!Leave
  <2>4. CASE UNCHANGED <<current, wire>>
    BY <2>4
  <2>5. CASE PassData \/ PassMessage
    BY <2>2, <2>5 DEF PassData, PassMessage
  <2>6. CASE Open \/ HearAnswer \/ LoseAnswer \/ UNCHANGED vars
    BY <2>4, <2>6 DEF Open, HearAnswer, LoseAnswer, vars
  <2>7. CASE ReceiveUnanswered \/ ReceiveAnswered \/ ReceiveNoBuffer \/ LosePacket
    BY <2>3, <2>7 DEF ReceiveUnanswered, ReceiveAnswered, ReceiveNoBuffer, LosePacket
  <2> QED
    BY <2>5, <2>6, <2>7 DEF Next
<1> QED
  BY <1>1, <1>2, InvInit, InvStep, PTL DEF Spec, ImplementsCreditWindow, Credit!Spec
=============================================================================
