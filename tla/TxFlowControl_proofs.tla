------------------------ MODULE TxFlowControl_proofs -------------------------
(***************************************************************************)
(* For every window below the number space, every rate of answers and any  *)
(* losses: types, and that the host keeps to the radio's window, on the    *)
(* X300 and, over a change of streamers, on the USRP2.                     *)
(***************************************************************************)
EXTENDS MCTxFlow, FiniteSetTheorems, SequenceTheorems, TLAPS

-----------------------------------------------------------------------------
(* Numbers of which the code sees only the low bits.                       *)

\* A multiple of m between -m and m is 0.
LEMMA SmallMultiple ==
    ASSUME NEW t \in Int, NEW m \in Nat \ {0}, 0 - m < t * m, t * m < m
    PROVE  t = 0
<1>1. CASE t >= 1
  <2>1. t * m = (t - 1) * m + m /\ (t - 1) * m >= 0
    BY <1>1
  <2> QED
    BY <2>1
<1>2. CASE t <= -1
  <2>1. t * m = (t + 1) * m - m /\ (t + 1) * m <= 0
    BY <1>2
  <2> QED
    BY <2>1
<1> QED
  BY <1>1, <1>2

\* The quotient and the remainder are the only ones.
LEMMA UniqueRemainder ==
    ASSUME NEW q \in Int, NEW m \in Nat \ {0}, NEW r \in 0 .. m - 1
    PROVE  (q * m + r) % m = r
<1> DEFINE a == q * m + r
           d == a \div m
           t == q - d
<1>1. a \in Int /\ a = d * m + (a % m) /\ d \in Int /\ a % m \in 0 .. m - 1
  OBVIOUS
<1>2. t \in Int /\ t * m = q * m - d * m
  BY <1>1
<1>3. q * m \in Int /\ d * m \in Int /\ a = q * m + r
  BY <1>1
<1> HIDE DEF a, d, t
<1>4. t * m = (a % m) - r
  BY <1>1, <1>2, <1>3
<1>5. t * m \in Int /\ 0 - m < t * m /\ t * m < m
  BY <1>1, <1>4
<1>6. t = 0
  BY <1>2, <1>5, SmallMultiple
<1>7. a % m = r
  BY <1>1, <1>4, <1>6
<1> QED
  BY <1>7 DEF a

\* The masked difference of two masked numbers is their difference, when that is
\* a residue itself.
LEMMA MaskedDifference ==
    ASSUME NEW a \in Nat, NEW b \in Nat, NEW m \in Nat \ {0}, a - b \in 0 .. m - 1
    PROVE  ((a % m) - (b % m)) % m = a - b
<1> DEFINE x == (a % m) - (b % m)
           qa == a \div m
           qb == b \div m
           qx == x \div m
           t == (qa - qb) + qx
<1>1. a = qa * m + (a % m) /\ b = qb * m + (b % m)
      /\ qa \in Int /\ qb \in Int /\ a % m \in 0 .. m - 1 /\ b % m \in 0 .. m - 1
  OBVIOUS
<1>2. x \in Int
  BY <1>1
<1>3. x = qx * m + (x % m) /\ qx \in Int /\ x % m \in 0 .. m - 1
  BY <1>2
<1>4. t \in Int /\ t * m = qa * m - qb * m + qx * m
  BY <1>1, <1>3
<1>5. a - b - (x % m) = t * m
  <2>1. a - b = qa * m - qb * m + x
    <3>1. qa * m \in Int /\ qb * m \in Int
      BY <1>1
    <3> QED
      BY <1>1, <3>1
  <2>2. qa * m \in Int /\ qb * m \in Int /\ qx * m \in Int
    BY <1>1, <1>3
  <2> HIDE DEF qa, qb, qx, x, t
  <2> QED
    BY <2>1, <2>2, <1>2, <1>3, <1>4
<1> HIDE DEF qa, qb, qx, x, t
<1>6. t * m \in Int /\ 0 - m < t * m /\ t * m < m
  BY <1>3, <1>4, <1>5
<1>7. t = 0
  BY <1>4, <1>6, SmallMultiple
<1>8. x % m = a - b
  BY <1>3, <1>5, <1>7
<1> QED
  BY <1>8 DEF x

-----------------------------------------------------------------------------
\* The radio answers at least once a window.
LEMMA AckEveryTyped == AckEvery \in Nat \ {0}
BY ConstantsAssumption DEF AckEvery

-----------------------------------------------------------------------------
(* The invariant.                                                          *)

\* The number that the code takes for the last one consumed.
Base == IF heard = -1 THEN 0 ELSE heard

\* Packets that have left the send handler.
Sent == IF held THEN out - 1 ELSE out

HostInv ==
    /\ heard >= -1 /\ heard < Sent
    /\ ack = Base % SeqMod
    /\ out - Base <= Window + 1
    /\ held => out >= 1

\* What is in flight is newer than all answers on their way, which are newer than
\* the one that is queued, which is newer than the one that was heard.
PacketsInv ==
    \A s \in down : /\ heard < s /\ s < Sent
                    /\ \A q \in queue : q < s

QueueInv == \A q \in queue : heard <= q /\ q < Sent

AnswersInv ==
    \A i \in 1 .. Len(acks) :
        /\ heard <= acks[i].seq /\ acks[i].seq < Sent
        /\ \A q \in queue : q <= acks[i].seq
        /\ \A s \in down : acks[i].seq < s
        /\ \A j \in i .. Len(acks) : acks[i].seq <= acks[j].seq

IInv == TypeOK /\ HostInv /\ PacketsInv /\ QueueInv /\ AnswersInv

LEMMA InvInit == Init => IInv
<1> SUFFICES ASSUME Init PROVE IInv
  OBVIOUS
<1>1. /\ AckEvery \in Nat \ {0} /\ SeqMod \in Nat \ {0} /\ Window \in Nat
      /\ 0 % SeqMod = 0
  BY AckEveryTyped, ConstantsAssumption
<1>2. TypeOK
  <2>1. acks \in Seq(Answer)
    BY DEF Init
  <2>2. 0 \in 0 .. SeqMod - 1 /\ 0 \in 0 .. AckEvery - 1
    BY <1>1
  <2>3. queue \in SUBSET Nat /\ down \in SUBSET Nat
    BY DEF Init
  <2>4. out \in Nat /\ lost \in Nat /\ heard \in Int
    BY DEF Init
  <2>5. held \in BOOLEAN /\ ack = 0 /\ count = 0
    BY DEF Init
  <2> QED
    BY <2>1, <2>2, <2>3, <2>4, <2>5 DEF TypeOK
<1>3. HostInv
  BY <1>1 DEF Init, HostInv, Base, Sent
<1>4. PacketsInv /\ QueueInv
  BY DEF Init, PacketsInv, QueueInv
<1>5. AnswersInv
  BY DEF Init, AnswersInv
<1> QED
  BY <1>2, <1>3, <1>4, <1>5 DEF IInv

\* The host compares the true distance to the last answer with the window.
LEMMA InWindowTrue ==
    ASSUME TypeOK, HostInv
    PROVE  InWindow <=> out - Base <= Window
<1>1. /\ out \in Nat /\ Base \in Nat /\ SeqMod \in Nat \ {0}
      /\ Base <= out /\ out - Base <= Window + 1 /\ Window + 1 < SeqMod /\ Window \in Nat
  BY ConstantsAssumption DEF TypeOK, HostInv, Base, Sent
<1>2. out - Base \in 0 .. SeqMod - 1
  BY <1>1
<1>3. ((out % SeqMod) - (Base % SeqMod)) % SeqMod = out - Base
  BY <1>1, <1>2, MaskedDifference
<1> QED
  BY <1>3 DEF InWindow, HostInv

\* What the responder says of a packet bears its number.
LEMMA SaysTyped ==
    ASSUME NEW s \in Nat, NEW outcome \in {"plain", "eob", "error"}
    PROVE  /\ Says(s, outcome) \in Seq(Answer)
           /\ \A i \in 1 .. Len(Says(s, outcome)) : Says(s, outcome)[i].seq = s
<1>1. CASE outcome = "eob"
  BY <1>1 DEF Says, Answer
<1>2. CASE outcome = "plain" /\ Trigger
  BY <1>2 DEF Says, Answer
<1>3. CASE outcome = "plain" /\ ~Trigger
  BY <1>3 DEF Says, Answer
<1>4. CASE outcome = "error" /\ Trigger
  BY <1>4 DEF Says, Answer
<1>5. CASE outcome = "error" /\ ~Trigger
  BY <1>5 DEF Says, Answer
<1> QED
  BY <1>1, <1>2, <1>3, <1>4, <1>5

\* ack_queue holds what it held and then some of what is said, in order.
LEMMA QueuedTyped ==
    ASSUME TypeOK, NEW said \in Seq(Answer)
    PROVE  /\ Queued(said) \in Seq(Answer)
           /\ Len(Queued(said)) <= Len(acks) + Len(said)
           /\ \A i \in 1 .. Len(Queued(said)) :
                Queued(said)[i] = IF i <= Len(acks) THEN acks[i] ELSE said[i - Len(acks)]
<1> DEFINE all == acks \o said
           n == IF Len(all) <= AckDepth THEN Len(all) ELSE AckDepth
<1>1. /\ acks \in Seq(Answer) /\ all \in Seq(Answer)
      /\ Len(all) = Len(acks) + Len(said)
      /\ \A i \in 1 .. Len(all) :
           all[i] = IF i <= Len(acks) THEN acks[i] ELSE said[i - Len(acks)]
  BY DEF TypeOK
<1>2. n \in 0 .. Len(all)
  BY <1>1, ConstantsAssumption
<1>3. Queued(said) = SubSeq(all, 1, n)
  BY DEF Queued
<1> HIDE DEF all, n
<1>4. SubSeq(all, 1, n) \in Seq(Answer) /\ Len(SubSeq(all, 1, n)) = n
      /\ \A i \in 1 .. n : SubSeq(all, 1, n)[i] = all[i]
  BY <1>1, <1>2
<1> QED
  BY <1>1, <1>2, <1>3, <1>4

\* Without its first answer the rest are in order.
LEMMA TailKeeps ==
    ASSUME IInv, acks # <<>>
    PROVE  /\ Tail(acks) \in Seq(Answer) /\ Head(acks) \in Answer
           /\ Len(Tail(acks)) = Len(acks) - 1
           /\ \A i \in 1 .. Len(Tail(acks)) : Tail(acks)[i] = acks[i + 1]
           /\ Head(acks) = acks[1] /\ Len(acks) >= 1
BY DEF IInv, TypeOK

LEMMA InvStep == IInv /\ [Next]_vars => IInv'
<1> SUFFICES ASSUME IInv, [Next]_vars PROVE IInv'
  OBVIOUS
<1> USE DEF IInv
<1>0. /\ out \in Nat /\ heard \in Int /\ down \in SUBSET Nat /\ queue \in SUBSET Nat
      /\ acks \in Seq(Answer) /\ held \in BOOLEAN /\ Len(acks) \in Nat
      /\ \A i \in 1 .. Len(acks) : acks[i].seq \in Nat
      /\ Window \in Nat /\ SeqMod \in Nat \ {0}
  <2>1. acks \in Seq(Answer) /\ Len(acks) \in Nat
    BY DEF TypeOK
  <2>2. \A i \in 1 .. Len(acks) : acks[i] \in Answer
    BY <2>1
  <2>3. \A i \in 1 .. Len(acks) : acks[i].seq \in Nat
    BY <2>2 DEF Answer
  <2> QED
    BY <2>1, <2>3, ConstantsAssumption DEF TypeOK
<1>1. CASE Grant
  <2>1. out - Base <= Window
    BY <1>1, InWindowTrue DEF Grant
  <2>2. Base' = Base /\ Sent' = Sent
    BY <1>0, <1>1 DEF Grant, Base, Sent
  <2>3. TypeOK'
    BY <1>0, <1>1 DEF Grant, TypeOK
  <2>4. HostInv'
    BY <1>0, <1>1, <2>1, <2>2 DEF Grant, HostInv, Base
  <2> QED
    BY <1>1, <2>2, <2>3, <2>4 DEF Grant, PacketsInv, QueueInv, AnswersInv
<1>2. CASE PopAck
  <2>1. PICK q \in queue : ack' = q % SeqMod /\ heard' = q
    BY <1>2 DEF PopAck
  <2>2. q \in Nat /\ heard <= q /\ q < Sent /\ Base' = q /\ Sent' = Sent
    BY <1>0, <1>2, <2>1 DEF PopAck, QueueInv, Base, Sent
  <2>3. ack' \in 0 .. SeqMod - 1
    BY <1>0, <2>1, <2>2
  <2>4. TypeOK'
    BY <1>0, <1>2, <2>1, <2>2, <2>3 DEF PopAck, TypeOK
  <2>5. HostInv'
    BY <1>0, <1>2, <2>1, <2>2 DEF PopAck, HostInv, Base
  <2>6. PacketsInv'
    BY <1>0, <1>2, <2>1, <2>2 DEF PopAck, PacketsInv
  <2>7. QueueInv'
    BY <1>2 DEF PopAck, QueueInv
  <2>8. AnswersInv'
    BY <1>0, <1>2, <2>1, <2>2 DEF PopAck, AnswersInv
  <2> QED
    BY <2>4, <2>5, <2>6, <2>7, <2>8
<1>3. CASE Commit
  <2>1. Sent = out - 1 /\ Sent' = Sent + 1 /\ Base' = Base /\ out >= 1
    BY <1>0, <1>3 DEF Commit, HostInv, Sent, Base
  <2>2. TypeOK'
    <3>1. out - 1 \in Nat
      BY <1>0, <2>1
    <3>2. down' \in SUBSET Nat
      BY <1>0, <1>3, <3>1 DEF Commit
    <3> QED
      BY <1>3, <3>2 DEF Commit, TypeOK
  <2>3. HostInv'
    BY <1>0, <1>3, <2>1 DEF Commit, HostInv
  <2>4. PacketsInv'
    BY <1>0, <1>3, <2>1 DEF Commit, PacketsInv, QueueInv, HostInv
  <2>5. QueueInv'
    BY <1>0, <1>3, <2>1 DEF Commit, QueueInv
  <2>6. AnswersInv'
    BY <1>0, <1>3, <2>1 DEF Commit, AnswersInv
  <2> QED
    BY <2>2, <2>3, <2>4, <2>5, <2>6
<1>4. CASE Consume
  <2>1. PICK s \in down, outcome \in {"plain", "eob", "error"} :
          /\ Oldest(s)
          /\ down' = down \ {s}
          /\ acks' = Queued(Says(s, outcome))
          /\ count' = Counted
          /\ UNCHANGED <<out, ack, queue, held, lost, heard>>
    BY <1>4 DEF Consume
  <2> DEFINE said == Says(s, outcome)
  <2>2. /\ said \in Seq(Answer)
        /\ \A i \in 1 .. Len(said) : said[i].seq = s
    BY <1>0, SaysTyped
  <2> HIDE DEF said
  <2>3. /\ acks' \in Seq(Answer) /\ Len(acks') \in Nat
        /\ Len(acks') <= Len(acks) + Len(said)
        /\ \A i \in 1 .. Len(acks') :
             acks'[i] = IF i <= Len(acks) THEN acks[i] ELSE said[i - Len(acks)]
    BY <2>1, <2>2, QueuedTyped DEF said
  <2>4. \A i \in 1 .. Len(acks') :
          acks'[i].seq = IF i <= Len(acks) THEN acks[i].seq ELSE s
    <3> SUFFICES ASSUME NEW i \in 1 .. Len(acks')
                 PROVE  acks'[i].seq = IF i <= Len(acks) THEN acks[i].seq ELSE s
      OBVIOUS
    <3>1. CASE i <= Len(acks)
      BY <2>3, <3>1
    <3>2. CASE ~(i <= Len(acks))
      <4>1. i - Len(acks) \in 1 .. Len(said)
        BY <1>0, <2>2, <2>3, <3>2
      <4> QED
        BY <2>2, <2>3, <3>2, <4>1
    <3> QED
      BY <3>1, <3>2
  <2>5. /\ s \in Nat /\ heard < s /\ s < Sent
        /\ \A q \in queue : q < s
        /\ \A i \in 1 .. Len(acks) : acks[i].seq < s
        /\ \A t \in down' : t \in down /\ s < t
    BY <1>0, <2>1 DEF PacketsInv, AnswersInv, Oldest
  <2>6. Sent' = Sent /\ Base' = Base
    BY <2>1 DEF Sent, Base
  <2>7. TypeOK'
    <3>1. Counted \in 0 .. AckEvery - 1
      BY AckEveryTyped DEF Counted, Trigger, TypeOK
    <3> QED
      BY <1>0, <2>1, <2>3, <3>1 DEF TypeOK
  <2>8. HostInv'
    BY <2>1, <2>6 DEF HostInv
  <2>9. PacketsInv' /\ QueueInv'
    BY <2>1, <2>5, <2>6 DEF PacketsInv, QueueInv
  <2>10. AnswersInv'
    <3> SUFFICES ASSUME NEW i \in 1 .. Len(acks')
                 PROVE  /\ heard <= acks'[i].seq /\ acks'[i].seq < Sent
                        /\ \A q \in queue : q <= acks'[i].seq
                        /\ \A t \in down' : acks'[i].seq < t
                        /\ \A j \in i .. Len(acks') : acks'[i].seq <= acks'[j].seq
      BY <2>1, <2>6 DEF AnswersInv
    <3>1. CASE i <= Len(acks)
      <4>1. acks'[i].seq = acks[i].seq /\ i \in 1 .. Len(acks)
        BY <1>0, <2>3, <2>4, <3>1
      <4>2. ASSUME NEW j \in i .. Len(acks')
            PROVE  acks[i].seq <= acks'[j].seq
        <5>1. j \in 1 .. Len(acks')
          BY <2>3
        <5>2. CASE j <= Len(acks)
          BY <1>0, <2>3, <2>4, <4>1, <5>1, <5>2 DEF AnswersInv
        <5>3. CASE ~(j <= Len(acks))
          BY <1>0, <2>4, <2>5, <4>1, <5>1, <5>3
        <5> QED
          BY <5>2, <5>3
      <4> QED
        BY <2>5, <4>1, <4>2 DEF AnswersInv
    <3>2. CASE ~(i <= Len(acks))
      <4>1. acks'[i].seq = s
        BY <2>4, <3>2
      <4>2. \A j \in i .. Len(acks') : acks'[j].seq = s
        BY <1>0, <2>3, <2>4, <3>2
      <4> QED
        BY <1>0, <2>5, <4>1, <4>2
    <3> QED
      BY <3>1, <3>2
  <2> QED
    BY <2>7, <2>8, <2>9, <2>10
<1>5. CASE HandleAsync
  <2>1. /\ acks # <<>> /\ acks' = Tail(acks)
        /\ queue' = queue \/ queue' = {acks[1].seq}
        /\ UNCHANGED <<out, ack, held, down, count, lost, heard>>
    BY <1>5, TailKeeps DEF HandleAsync, Pushed
  <2>2. /\ acks' \in Seq(Answer) /\ 1 \in 1 .. Len(acks) /\ Len(acks') = Len(acks) - 1
        /\ \A i \in 1 .. Len(acks') : acks'[i] = acks[i + 1] /\ i + 1 \in 1 .. Len(acks)
    BY <1>0, <2>1, TailKeeps
  <2>3. Sent' = Sent /\ Base' = Base
    BY <2>1 DEF Sent, Base
  <2>4. TypeOK'
    BY <1>0, <2>1, <2>2 DEF TypeOK
  <2>5. HostInv'
    BY <2>1, <2>3 DEF HostInv
  <2>6. PacketsInv' /\ QueueInv'
    BY <1>0, <2>1, <2>2, <2>3 DEF PacketsInv, QueueInv, AnswersInv
  <2>7. AnswersInv'
    <3> SUFFICES ASSUME NEW i \in 1 .. Len(acks')
                 PROVE  /\ heard <= acks'[i].seq /\ acks'[i].seq < Sent
                        /\ \A q \in queue' : q <= acks'[i].seq
                        /\ \A t \in down : acks'[i].seq < t
                        /\ \A j \in i .. Len(acks') : acks'[i].seq <= acks'[j].seq
      BY <2>1, <2>3 DEF AnswersInv
    <3>1. acks'[i] = acks[i + 1] /\ i + 1 \in 1 .. Len(acks)
      BY <2>2
    <3>2. ASSUME NEW j \in i .. Len(acks')
          PROVE  acks'[i].seq <= acks'[j].seq
      <4>1. acks'[j] = acks[j + 1] /\ j + 1 \in (i + 1) .. Len(acks)
        BY <1>0, <2>2
      <4> QED
        BY <3>1, <4>1 DEF AnswersInv
    <3>3. acks[1].seq <= acks[i + 1].seq
      BY <1>0, <2>2, <3>1 DEF AnswersInv
    <3> QED
      BY <2>1, <3>1, <3>2, <3>3 DEF AnswersInv
  <2> QED
    BY <2>4, <2>5, <2>6, <2>7
<1>6. CASE LosePacket
  <2>1. /\ down' \subseteq down /\ lost' \in Nat
        /\ UNCHANGED <<out, ack, queue, held, count, acks, heard>>
    BY <1>6 DEF LosePacket, TypeOK
  <2> QED
    BY <1>0, <2>1 DEF TypeOK, HostInv, PacketsInv, QueueInv, AnswersInv, Sent, Base
<1>7. CASE LoseAnswer
  <2>1. /\ acks # <<>> /\ acks' = Tail(acks) /\ lost' \in Nat
        /\ UNCHANGED <<out, ack, queue, held, down, count, heard>>
    BY <1>7 DEF LoseAnswer, TypeOK
  <2>2. /\ acks' \in Seq(Answer) /\ Len(acks') = Len(acks) - 1
        /\ \A i \in 1 .. Len(acks') : acks'[i] = acks[i + 1] /\ i + 1 \in 1 .. Len(acks)
    BY <1>0, <2>1, TailKeeps
  <2>3. Sent' = Sent /\ Base' = Base
    BY <2>1 DEF Sent, Base
  <2>4. TypeOK' /\ HostInv' /\ PacketsInv' /\ QueueInv'
    BY <1>0, <2>1, <2>2, <2>3 DEF TypeOK, HostInv, PacketsInv, QueueInv
  <2>5. AnswersInv'
    <3> SUFFICES ASSUME NEW i \in 1 .. Len(acks')
                 PROVE  /\ heard <= acks'[i].seq /\ acks'[i].seq < Sent
                        /\ \A q \in queue : q <= acks'[i].seq
                        /\ \A t \in down : acks'[i].seq < t
                        /\ \A j \in i .. Len(acks') : acks'[i].seq <= acks'[j].seq
      BY <2>1, <2>3 DEF AnswersInv
    <3>1. acks'[i] = acks[i + 1] /\ i + 1 \in 1 .. Len(acks)
      BY <2>2
    <3>2. ASSUME NEW j \in i .. Len(acks')
          PROVE  acks'[i].seq <= acks'[j].seq
      <4>1. acks'[j] = acks[j + 1] /\ j + 1 \in (i + 1) .. Len(acks)
        BY <1>0, <2>2
      <4> QED
        BY <3>1, <4>1 DEF AnswersInv
    <3> QED
      BY <3>1, <3>2 DEF AnswersInv
  <2> QED
    BY <2>4, <2>5
<1>8. CASE UNCHANGED vars
  BY <1>8 DEF vars, TypeOK, HostInv, PacketsInv, QueueInv, AnswersInv, Sent, Base
<1> QED
  BY <1>1, <1>2, <1>3, <1>4, <1>5, <1>6, <1>7, <1>8 DEF Next

\* The packets in flight are numbered between the last answer and the last packet
\* sent, so there are no more of them than the distance between the two.
LEMMA InvImpliesWindow == IInv => WindowRespected
<1> SUFFICES ASSUME IInv PROVE WindowRespected
  OBVIOUS
<1>1. /\ out \in Nat /\ heard \in Int /\ held \in BOOLEAN /\ Window \in Nat
      /\ heard >= -1 /\ heard < Sent /\ Sent \in Int
      /\ out - Base <= Window + 1
  BY ConstantsAssumption DEF IInv, TypeOK, HostInv, Sent
<1>2. down \subseteq (heard + 1) .. (Sent - 1)
  BY <1>1 DEF IInv, TypeOK, PacketsInv
<1>3. /\ IsFiniteSet((heard + 1) .. (Sent - 1))
      /\ Cardinality((heard + 1) .. (Sent - 1)) <= Sent - heard - 1
  <2> DEFINE a == heard + 1
             b == Sent - 1
  <2>1. a \in Int /\ b \in Int /\ a <= b + 1
    BY <1>1
  <2>2. IsFiniteSet(a .. b) /\ Cardinality(a .. b) = IF a > b THEN 0 ELSE b - a + 1
    BY <2>1, FS_Interval
  <2>3. (IF a > b THEN 0 ELSE b - a + 1) <= Sent - heard - 1
    BY <1>1
  <2> QED
    BY <2>2, <2>3
<1>4. /\ Cardinality(down) \in Nat
      /\ Cardinality(down) <= Sent - heard - 1
  <2>1. IsFiniteSet(down) /\ Cardinality(down) <= Cardinality((heard + 1) .. (Sent - 1))
    BY <1>2, <1>3, FS_Subset
  <2>2. Cardinality(down) \in Nat /\ Cardinality((heard + 1) .. (Sent - 1)) \in Nat
    BY <1>3, <2>1, FS_CardinalityType
  <2> QED
    BY <1>1, <1>3, <2>1, <2>2
<1> QED
  BY <1>1, <1>4 DEF WindowRespected, InFlight, Sent, Base

\* The state of flow control stays well-formed: the count of packets is reset
\* before it reaches the rate of answers, the acknowledged number has 12 bits.
THEOREM FlowTypeCorrect == Spec => []TypeOK
<1>1. IInv => TypeOK
  BY DEF IInv
<1> QED
  BY <1>1, InvInit, InvStep, PTL DEF Spec

\* The host never has more packets under way than the radio has room for, but for
\* the one before the first answer.
THEOREM RadioHasRoom == Spec => []WindowRespected
BY InvInit, InvStep, InvImpliesWindow, PTL DEF Spec

\* What is in flight has a finite number, the window and one at most.
LEMMA Counts ==
    ASSUME IInv
    PROVE  /\ IsFiniteSet(down) /\ Cardinality(down) \in Nat
           /\ InFlight \in Nat /\ InFlight <= Window + 1
<1>1. /\ out \in Nat /\ heard \in Int /\ held \in BOOLEAN /\ Window \in Nat
      /\ heard >= -1 /\ Sent \in Int
  BY ConstantsAssumption DEF IInv, TypeOK, HostInv, Sent
<1>2. down \subseteq (heard + 1) .. (Sent - 1)
  BY <1>1 DEF IInv, TypeOK, PacketsInv
<1>3. heard + 1 \in Int /\ Sent - 1 \in Int
  BY <1>1
<1>4. IsFiniteSet(down)
  BY <1>2, <1>3, FS_Interval, FS_Subset
<1>5. Cardinality(down) \in Nat
  BY <1>4, FS_CardinalityType
<1> QED
  BY <1>1, <1>4, <1>5, InvImpliesWindow DEF WindowRespected, InFlight

LEMMA CountsNext ==
    ASSUME IInv'
    PROVE  InFlight' \in Nat /\ InFlight' <= Window + 1
<1>1. (IInv => InFlight \in Nat /\ InFlight <= Window + 1)'
  BY Counts, PTL
<1> QED
  BY <1>1

\* The host's window implements a window of credit: each step is one of the
\* abstract window or leaves it alone.
THEOREM TxImplementsCreditWindow == Spec => ImplementsCreditWindow
<1>1. Init => Credit!Init
  BY FS_EmptySet DEF Init, Credit!Init, InFlight
<1>2. IInv /\ IInv' /\ [Next]_vars => [Credit!Next]_<<out, out - InFlight>>
  <2> SUFFICES ASSUME IInv, IInv', [Next]_vars
               PROVE  [Credit!Next]_<<out, out - InFlight>>
    OBVIOUS
  <2>1. /\ InFlight \in Nat /\ InFlight' \in Nat /\ InFlight' <= Window + 1
        /\ IsFiniteSet(down) /\ Cardinality(down) \in Nat
        /\ out \in Nat /\ held \in BOOLEAN /\ Window \in Nat
    BY Counts, CountsNext, ConstantsAssumption DEF IInv, TypeOK
  <2>2. CASE Grant
    <3>1. out' = out + 1 /\ InFlight' = InFlight + 1
      BY <2>1, <2>2 DEF Grant, InFlight
    <3> QED
      BY <2>1, <3>1 DEF Credit!Next, Credit!Send
  <2>3. CASE Commit
    <3>1. out - 1 \notin down
      BY <2>1, <2>3 DEF IInv, PacketsInv, Sent, TypeOK, Commit
    <3>2. Cardinality(down') = Cardinality(down) + 1
      BY <2>1, <2>3, <3>1, FS_AddElement DEF Commit
    <3>3. InFlight' = InFlight /\ out' = out
      BY <2>1, <2>3, <3>2 DEF Commit, InFlight
    <3> QED
      BY <3>3
  <2>4. ASSUME NEW s \in down, down' = down \ {s}, UNCHANGED <<out, held>>
        PROVE  Credit!Next
    <3>1. Cardinality(down') = Cardinality(down) - 1
      BY <2>1, <2>4, FS_RemoveElement
    <3>2. InFlight' = InFlight - 1
      BY <2>1, <2>4, <3>1 DEF InFlight
    <3> QED
      BY <2>1, <2>4, <3>2 DEF Credit!Next, Credit!Leave
  <2>5. CASE Consume \/ LosePacket
    BY <2>4, <2>5 DEF Consume, LosePacket
  <2>6. CASE UNCHANGED <<out, held, down>>
    BY <2>6 DEF InFlight
  <2>7. CASE PopAck \/ HandleAsync \/ LoseAnswer \/ UNCHANGED vars
    BY <2>6, <2>7 DEF PopAck, HandleAsync, LoseAnswer, vars
  <2> QED
    BY <2>2, <2>3, <2>5, <2>7 DEF Next
<1> QED
  BY <1>1, <1>2, InvInit, InvStep, PTL DEF Spec, ImplementsCreditWindow, Credit!Spec

-----------------------------------------------------------------------------
(* The invariant of the USRP2's flow control.                              *)

Number == 0 .. Usrp2SeqMod - 1

Report == [seq : Number, about : Int]

\* How many frames before the one to come, in numbers that wrap, another was sent.
Since(coming, n) == (coming - n) % Usrp2SeqMod

Age(n) == Since(usrp2Out, n)

\* Frames that the monitor lets go before the next report.
Leeway == IF Age(usrp2Ack) < Usrp2Window THEN Usrp2Window - Age(usrp2Ack) ELSE 0

Held == IF usrp2Held = {} THEN 0 ELSE 1

Stale(i) == usrp2Ups[i].about # usrp2Made

MonitorTypes ==
    /\ usrp2Pc \in {"open", "setup"}
    /\ usrp2Made \in Nat /\ usrp2Out \in Nat /\ usrp2Misled \in Nat
    /\ usrp2Ack \in Number
    /\ usrp2Held = {} \/ \E n \in Number : usrp2Held = {n}
    /\ usrp2Down \in Seq(Number)
    /\ usrp2Seqnum \in Number
    /\ usrp2Ups \in Seq(Report)
    /\ Len(usrp2Ups) <= MaxUps

\* Reports come in the order of the streamers, and there are only so many about
\* another one.
ReportsInv ==
    /\ usrp2Misled <= MaxUps + 1
    /\ \A i \in 1 .. Len(usrp2Ups) :
         /\ usrp2Ups[i].about <= usrp2Made
         /\ Stale(i) => /\ i + usrp2Misled <= MaxUps + 1
                        /\ \A j \in 1 .. i : Stale(j)

\* Until the radio is cleared all reports are about other streamers.
SetupInv ==
    /\ usrp2Held = {} /\ usrp2Out = 0
    /\ \/ usrp2Misled = 0 /\ usrp2Ack = 0
       \/ usrp2Misled = 1
    /\ \A i \in 1 .. Len(usrp2Ups) : Stale(i)

\* The reports under way are about frames at most the span ago, the later the younger,
\* and no younger than the last one that the radio has read.
ReportAges(span) ==
    \A i \in 1 .. Len(usrp2Ups) : ~Stale(i) =>
        /\ Age(usrp2Ups[i].seq) \in Age(usrp2Seqnum) .. span
        /\ \A j \in 1 .. i : ~Stale(j) => Age(usrp2Ups[j].seq) >= Age(usrp2Ups[i].seq)

\* What is in flight is younger than that, each frame younger than the one before.
InFlightInv(span) ==
    /\ Age(usrp2Seqnum) \in 1 .. span
    /\ Age(usrp2Seqnum) > Len(usrp2Down) + Held
    /\ \A n \in usrp2Held : Age(n) = 1
    /\ \A i \in 1 .. Len(usrp2Down) :
         /\ Age(usrp2Down[i]) < Age(usrp2Seqnum)
         /\ Age(usrp2Down[i]) > Len(usrp2Down) - i + Held
         /\ \A j \in 1 .. i - 1 : Age(usrp2Down[j]) > Age(usrp2Down[i])
    /\ ReportAges(span)

\* Those frames and the ones that may follow make up a window for each report that
\* could have misled the monitor, and one.
OpenInv ==
    \E span \in 1 .. Usrp2SeqMod - 1 :
        /\ span + Leeway <= Usrp2Window * (1 + usrp2Misled) + 1
        /\ InFlightInv(span)

MonitorInv ==
    /\ MonitorTypes /\ ReportsInv
    /\ usrp2Pc = "setup" => SetupInv
    /\ usrp2Pc = "open" => OpenInv

-----------------------------------------------------------------------------
(* Numbers that wrap.                                                      *)

LEMMA MonitorConstants ==
    /\ Usrp2Window \in Nat \ {0} /\ Usrp2SeqMod \in Nat \ {0} /\ MaxUps \in Nat \ {0}
    /\ Usrp2Window * (MaxUps + 2) \in Nat
    /\ Usrp2Window * (MaxUps + 2) + 1 < Usrp2SeqMod
    /\ Usrp2Window + 1 < Usrp2SeqMod
<1>1. /\ Usrp2Window \in Nat \ {0} /\ Usrp2SeqMod \in Nat \ {0} /\ MaxUps \in Nat \ {0}
      /\ Usrp2Window * (MaxUps + 2) + 1 < Usrp2SeqMod
  BY Usrp2ConstantsAssumption DEF Usrp2!ConstantsAssumption
<1>2. Usrp2Window * (MaxUps + 2) = Usrp2Window * (MaxUps + 1) + Usrp2Window
      /\ Usrp2Window * (MaxUps + 1) \in Nat
  BY <1>1
<1>3. Usrp2Window * (MaxUps + 2) \in Nat
  BY <1>1
<1> HIDE DEF Usrp2!ConstantsAssumption
<1> QED
  BY <1>1, <1>2, <1>3

\* All that so many misleading reports let go have different numbers.
LEMMA NumbersSuffice ==
    ASSUME NEW m \in Nat, m <= MaxUps + 1
    PROVE  /\ Usrp2Window * (1 + m) \in Nat
           /\ Usrp2Window <= Usrp2Window * (1 + m)
           /\ Usrp2Window * (1 + m) + 1 < Usrp2SeqMod
<1>1. /\ Usrp2Window \in Nat \ {0} /\ MaxUps \in Nat \ {0} /\ Usrp2SeqMod \in Nat
      /\ Usrp2Window * (MaxUps + 2) + 1 < Usrp2SeqMod
      /\ Usrp2Window * (MaxUps + 2) \in Nat
  BY MonitorConstants
<1>2. PICK d \in Nat : MaxUps + 2 = (1 + m) + d
  <2>1. (MaxUps + 2) - (1 + m) \in Nat
    BY <1>1
  <2> QED
    BY <1>1, <2>1
<1>3. Usrp2Window * (MaxUps + 2) = Usrp2Window * (1 + m) + Usrp2Window * d
  BY <1>1, <1>2
<1>4. Usrp2Window * d \in Nat /\ Usrp2Window * m \in Nat /\ Usrp2Window * (1 + m) \in Nat
      /\ Usrp2Window * (1 + m) = Usrp2Window + Usrp2Window * m
  BY <1>1
<1> QED
  BY <1>1, <1>3, <1>4

\* One more window.
LEMMA OneMoreWindow ==
    ASSUME NEW m \in Nat
    PROVE  Usrp2Window * (1 + (m + 1)) = Usrp2Window * (1 + m) + Usrp2Window
BY MonitorConstants

\* The successor's remainder.
LEMMA NextRemainder ==
    ASSUME NEW x \in Int, NEW m \in Nat \ {0}, x % m < m - 1
    PROVE  (x + 1) % m = (x % m) + 1
<1> DEFINE q == x \div m
           r == x % m
<1>1. x = q * m + r /\ q \in Int /\ r \in 0 .. m - 1
  OBVIOUS
<1>2. q * m \in Int /\ r + 1 \in 0 .. m - 1
  BY <1>1
<1> HIDE DEF q
<1>3. x + 1 = q * m + (r + 1)
  BY <1>1, <1>2
<1>4. (q * m + (r + 1)) % m = r + 1
  BY <1>1, <1>2, UniqueRemainder
<1> QED
  BY <1>3, <1>4

\* A number and its remainder are a multiple apart.
LEMMA YoungestAge ==
    ASSUME NEW x \in Int, NEW m \in Nat, m > 1
    PROVE  ((x + 1) - (x % m)) % m = 1 /\ x % m \in 0 .. m - 1
<1> DEFINE r == x % m
<1>1. x = m * (x \div m) + r /\ x \div m \in Int /\ r \in 0 .. m - 1
  OBVIOUS
<1> HIDE DEF r
<1>2. PICK q \in Int : x = m * q + r
  BY <1>1, Zenon
<1>3. q * m \in Int /\ q * m = m * q /\ m * q \in Int
  OBVIOUS
<1>4. (x + 1) - r = q * m + 1
  BY <1>1, <1>2, <1>3
<1>5. m \in Nat \ {0} /\ 1 \in 0 .. m - 1
  OBVIOUS
<1>6. (q * m + 1) % m = 1
  BY <1>1, <1>5, UniqueRemainder, Zenon
<1>7. ((x + 1) - r) % m = 1
  BY <1>4, <1>6, Zenon
<1> QED
  BY <1>1, <1>7 DEF r

\* One frame later everything is one frame older, and the frame is one old.
LEMMA AllAge ==
    ASSUME NEW coming \in Nat
    PROVE  /\ \A n \in Number : /\ Since(coming, n) \in 0 .. Usrp2SeqMod - 1
                                /\ Since(coming, n) < Usrp2SeqMod - 1
                                     => Since(coming + 1, n) = Since(coming, n) + 1
           /\ coming % Usrp2SeqMod \in Number
           /\ Since(coming + 1, coming % Usrp2SeqMod) = 1
<1>1. Usrp2SeqMod \in Nat \ {0} /\ Usrp2SeqMod > 1
  BY MonitorConstants
<1>2. ASSUME NEW n \in Number
      PROVE  /\ Since(coming, n) \in 0 .. Usrp2SeqMod - 1
             /\ Since(coming, n) < Usrp2SeqMod - 1
                  => Since(coming + 1, n) = Since(coming, n) + 1
  <2>1. coming - n \in Int /\ (coming + 1) - n = (coming - n) + 1
    BY <1>1 DEF Number
  <2>2. (coming - n) % Usrp2SeqMod \in 0 .. Usrp2SeqMod - 1
    BY <1>1, <2>1
  <2>3. (coming - n) % Usrp2SeqMod < Usrp2SeqMod - 1 =>
          ((coming - n) + 1) % Usrp2SeqMod = ((coming - n) % Usrp2SeqMod) + 1
    BY <1>1, <2>1, NextRemainder
  <2> QED
    BY <2>1, <2>2, <2>3 DEF Since
<1>3. /\ coming % Usrp2SeqMod \in 0 .. Usrp2SeqMod - 1
      /\ ((coming + 1) - (coming % Usrp2SeqMod)) % Usrp2SeqMod = 1
  <2>1. coming \in Int /\ Usrp2SeqMod \in Nat
    BY <1>1
  <2> QED
    BY <1>1, <2>1, YoungestAge, Zenon
<1> QED
  BY <1>2, <1>3 DEF Since, Number

\* The number before the first is one old when no frame has been sent.
LEMMA FirstAge ==
    Usrp2SeqMod - 1 \in Number /\ 0 \in Number /\ Since(0, Usrp2SeqMod - 1) = 1
<1>1. Usrp2SeqMod \in Nat \ {0} /\ Usrp2SeqMod > 1
  BY MonitorConstants
<1>2. -1 \in Int /\ 1 \in 0 .. Usrp2SeqMod - 1 /\ 0 - (Usrp2SeqMod - 1) = (-1) * Usrp2SeqMod + 1
  BY <1>1
<1>3. ((-1) * Usrp2SeqMod + 1) % Usrp2SeqMod = 1
  BY <1>1, <1>2, UniqueRemainder, Zenon
<1> QED
  BY <1>1, <1>2, <1>3 DEF Since, Number

LEMMA AgeTyped ==
    ASSUME NEW coming \in Nat, NEW n \in Number
    PROVE  /\ Usrp2SeqMod \in Nat
           /\ Since(coming, n) \in Nat /\ Since(coming, n) \in 0 .. Usrp2SeqMod - 1
<1>1. Since(coming, n) \in 0 .. Usrp2SeqMod - 1
  BY AllAge
<1> QED
  BY <1>1, MonitorConstants

LEMMA MonitorNumbers ==
    ASSUME MonitorTypes
    PROVE  /\ usrp2Seqnum \in Number /\ Len(usrp2Down) \in Nat /\ Len(usrp2Ups) \in Nat
           /\ \A i \in 1 .. Len(usrp2Down) : usrp2Down[i] \in Number
           /\ \A i \in 1 .. Len(usrp2Ups) : usrp2Ups[i].seq \in Number
<1>1. usrp2Down \in Seq(Number) /\ usrp2Ups \in Seq(Report)
  BY DEF MonitorTypes
<1>2. /\ Len(usrp2Down) \in Nat
      /\ \A i \in 1 .. Len(usrp2Down) : usrp2Down[i] \in Number
  BY <1>1
<1>3. /\ Len(usrp2Ups) \in Nat
      /\ \A i \in 1 .. Len(usrp2Ups) : usrp2Ups[i].seq \in Number
  <2>1. Len(usrp2Ups) \in Nat
    BY <1>1
  <2>2. ASSUME NEW i \in 1 .. Len(usrp2Ups)
        PROVE  usrp2Ups[i].seq \in Number
    <3>1. usrp2Ups[i] \in Report
      BY <1>1
    <3> QED
      BY <3>1 DEF Report
  <2> QED
    BY <2>1, <2>2
<1>4. usrp2Seqnum \in Number
  BY DEF MonitorTypes
<1> QED
  BY <1>2, <1>3, <1>4

-----------------------------------------------------------------------------
(* Every step of the USRP2's flow control keeps its invariant.             *)

\* GetSendBuff: the span grows by the frame that the leeway loses.
LEMMA SendInv ==
    ASSUME MonitorInv, Usrp2!GetSendBuff
    PROVE  MonitorInv'
<1>1. /\ usrp2Pc = "open" /\ usrp2Held = {} /\ usrp2Out \in Nat /\ usrp2Ack \in Number
      /\ Since(usrp2Out, usrp2Ack) < Usrp2Window
      /\ usrp2Held' = {usrp2Out % Usrp2SeqMod} /\ usrp2Out' = usrp2Out + 1
      /\ UNCHANGED <<usrp2Pc, usrp2Made, usrp2Ack, usrp2Down, usrp2Seqnum, usrp2Ups, usrp2Misled>>
  BY DEF MonitorInv, MonitorTypes, Usrp2!GetSendBuff, Usrp2!Ready, Usrp2!radio, Since
<1>2. PICK span \in 1 .. Usrp2SeqMod - 1 :
        /\ span + Leeway <= Usrp2Window * (1 + usrp2Misled) + 1
        /\ InFlightInv(span)
  BY <1>1 DEF MonitorInv, OpenInv
<1>3. /\ usrp2Out % Usrp2SeqMod \in Number
      /\ Since(usrp2Out', usrp2Out % Usrp2SeqMod) = 1
      /\ \A n \in Number : /\ Since(usrp2Out, n) \in 0 .. Usrp2SeqMod - 1
                           /\ Since(usrp2Out, n) < Usrp2SeqMod - 1
                                => Since(usrp2Out', n) = Since(usrp2Out, n) + 1
  BY <1>1, AllAge
<1>4. MonitorTypes'
  BY <1>1, <1>3 DEF MonitorInv, MonitorTypes
<1>5. ReportsInv'
  BY <1>1 DEF MonitorInv, ReportsInv, Stale
<1>6. /\ span + 1 \in 1 .. Usrp2SeqMod - 1
      /\ (span + 1) + Leeway' <= Usrp2Window * (1 + usrp2Misled) + 1
  <2>1. /\ Usrp2Window * (1 + usrp2Misled) \in Nat
        /\ Usrp2Window * (1 + usrp2Misled) + 1 < Usrp2SeqMod
    BY NumbersSuffice DEF MonitorInv, MonitorTypes, ReportsInv
  <2>2. Usrp2Window \in Nat \ {0} /\ Usrp2Window + 1 < Usrp2SeqMod /\ Usrp2SeqMod \in Nat
    BY MonitorConstants
  <2>3. /\ Since(usrp2Out, usrp2Ack) \in Nat
        /\ Since(usrp2Out', usrp2Ack') = Since(usrp2Out, usrp2Ack) + 1
    BY <1>1, <1>3, <2>2
  <2>4. Leeway = Usrp2Window - Since(usrp2Out, usrp2Ack)
    BY <1>1 DEF Leeway, Age
  <2>5. Leeway' = Leeway - 1
    BY <1>1, <2>2, <2>3, <2>4 DEF Leeway, Age
  <2> QED
    BY <1>1, <1>2, <2>1, <2>2, <2>3, <2>4, <2>5
<1>7. InFlightInv(span + 1)'
  <2>1. span + 1 <= Usrp2SeqMod - 1 /\ span \in Nat /\ Usrp2SeqMod \in Nat /\ Held = 0 /\ Held' = 1
    BY <1>1, <1>2, <1>6, MonitorConstants DEF Held
  <2>2. ASSUME NEW n \in Number, Since(usrp2Out, n) <= span
        PROVE  Since(usrp2Out', n) = Since(usrp2Out, n) + 1 /\ Since(usrp2Out, n) \in Nat
    BY <1>3, <2>1, <2>2
  <2>3. /\ Since(usrp2Out, usrp2Seqnum) \in 1 .. span
        /\ Since(usrp2Out, usrp2Seqnum) > Len(usrp2Down)
        /\ usrp2Seqnum \in Number /\ Len(usrp2Down) \in Nat /\ Len(usrp2Ups) \in Nat
        /\ \A i \in 1 .. Len(usrp2Down) : usrp2Down[i] \in Number
        /\ \A i \in 1 .. Len(usrp2Ups) : usrp2Ups[i].seq \in Number
    <3>1. MonitorTypes
      BY DEF MonitorInv
    <3>2. /\ usrp2Seqnum \in Number /\ Len(usrp2Down) \in Nat /\ Len(usrp2Ups) \in Nat
          /\ \A i \in 1 .. Len(usrp2Down) : usrp2Down[i] \in Number
          /\ \A i \in 1 .. Len(usrp2Ups) : usrp2Ups[i].seq \in Number
      BY <3>1, MonitorNumbers
    <3>3. Age(usrp2Seqnum) \in 1 .. span /\ Age(usrp2Seqnum) > Len(usrp2Down) + Held
      BY <1>2 DEF InFlightInv
    <3> QED
      BY <2>1, <3>2, <3>3 DEF Age
  <2>4. Since(usrp2Out', usrp2Seqnum) = Since(usrp2Out, usrp2Seqnum) + 1
    BY <2>1, <2>2, <2>3
  <2>5. \A i \in 1 .. Len(usrp2Down) :
          /\ Since(usrp2Out', usrp2Down[i]) = Since(usrp2Out, usrp2Down[i]) + 1
          /\ Since(usrp2Out, usrp2Down[i]) \in Nat
          /\ Since(usrp2Out, usrp2Down[i]) < Since(usrp2Out, usrp2Seqnum)
          /\ Since(usrp2Out, usrp2Down[i]) > Len(usrp2Down) - i
          /\ \A j \in 1 .. i - 1 : Since(usrp2Out, usrp2Down[j]) > Since(usrp2Out, usrp2Down[i])
    <3> SUFFICES ASSUME NEW i \in 1 .. Len(usrp2Down)
                 PROVE  /\ Since(usrp2Out', usrp2Down[i]) = Since(usrp2Out, usrp2Down[i]) + 1
                        /\ Since(usrp2Out, usrp2Down[i]) \in Nat
                        /\ Since(usrp2Out, usrp2Down[i]) < Since(usrp2Out, usrp2Seqnum)
                        /\ Since(usrp2Out, usrp2Down[i]) > Len(usrp2Down) - i
                        /\ \A j \in 1 .. i - 1 :
                             Since(usrp2Out, usrp2Down[j]) > Since(usrp2Out, usrp2Down[i])
      OBVIOUS
    <3>1. /\ Since(usrp2Out, usrp2Down[i]) < Since(usrp2Out, usrp2Seqnum)
          /\ Since(usrp2Out, usrp2Down[i]) > Len(usrp2Down) - i
          /\ \A j \in 1 .. i - 1 : Since(usrp2Out, usrp2Down[j]) > Since(usrp2Out, usrp2Down[i])
      BY <1>2, <2>1, <2>3 DEF InFlightInv, Age
    <3>2. Since(usrp2Out, usrp2Down[i]) \in 0 .. Usrp2SeqMod - 1
      BY <1>3, <2>3
    <3> QED
      BY <2>1, <2>2, <2>3, <3>1, <3>2
  <2>6. \A i \in 1 .. Len(usrp2Ups) : ~Stale(i) =>
          /\ Since(usrp2Out', usrp2Ups[i].seq) = Since(usrp2Out, usrp2Ups[i].seq) + 1
          /\ Since(usrp2Out, usrp2Ups[i].seq) \in Since(usrp2Out, usrp2Seqnum) .. span
          /\ \A j \in 1 .. i : ~Stale(j) =>
                Since(usrp2Out, usrp2Ups[j].seq) >= Since(usrp2Out, usrp2Ups[i].seq)
    BY <1>2, <2>1, <2>2, <2>3 DEF InFlightInv, ReportAges, Age
  <2>7. \A n \in usrp2Held' : Since(usrp2Out', n) = 1
    BY <1>1, <1>3
  <2>8. \A i \in 1 .. Len(usrp2Ups) : ~Stale(i) =>
          /\ Since(usrp2Out', usrp2Ups[i].seq) \in Since(usrp2Out', usrp2Seqnum) .. span + 1
          /\ \A j \in 1 .. i : ~Stale(j) =>
                Since(usrp2Out', usrp2Ups[j].seq) >= Since(usrp2Out', usrp2Ups[i].seq)
    <3> SUFFICES ASSUME NEW i \in 1 .. Len(usrp2Ups), ~Stale(i)
                 PROVE  /\ Since(usrp2Out', usrp2Ups[i].seq) \in Since(usrp2Out', usrp2Seqnum) .. span + 1
                        /\ \A j \in 1 .. i : ~Stale(j) =>
                             Since(usrp2Out', usrp2Ups[j].seq) >= Since(usrp2Out', usrp2Ups[i].seq)
      OBVIOUS
    <3>1. Since(usrp2Out', usrp2Ups[i].seq) \in Since(usrp2Out', usrp2Seqnum) .. span + 1
      BY <2>1, <2>3, <2>4, <2>6
    <3>2. ASSUME NEW j \in 1 .. i, ~Stale(j)
          PROVE  Since(usrp2Out', usrp2Ups[j].seq) >= Since(usrp2Out', usrp2Ups[i].seq)
      <4>1. j \in 1 .. Len(usrp2Ups)
        BY <2>3
      <4> QED
        BY <2>1, <2>3, <2>6, <3>2, <4>1
    <3> QED
      BY <3>1, <3>2
  <2>9. \A i \in 1 .. Len(usrp2Down) :
          /\ Since(usrp2Out', usrp2Down[i]) < Since(usrp2Out', usrp2Seqnum)
          /\ Since(usrp2Out', usrp2Down[i]) > Len(usrp2Down) - i + 1
          /\ \A j \in 1 .. i - 1 : Since(usrp2Out', usrp2Down[j]) > Since(usrp2Out', usrp2Down[i])
    <3> SUFFICES ASSUME NEW i \in 1 .. Len(usrp2Down)
                 PROVE  /\ Since(usrp2Out', usrp2Down[i]) < Since(usrp2Out', usrp2Seqnum)
                        /\ Since(usrp2Out', usrp2Down[i]) > Len(usrp2Down) - i + 1
                        /\ \A j \in 1 .. i - 1 :
                             Since(usrp2Out', usrp2Down[j]) > Since(usrp2Out', usrp2Down[i])
      OBVIOUS
    <3>1. /\ Since(usrp2Out', usrp2Down[i]) < Since(usrp2Out', usrp2Seqnum)
          /\ Since(usrp2Out', usrp2Down[i]) > Len(usrp2Down) - i + 1
      BY <2>3, <2>4, <2>5
    <3>2. ASSUME NEW j \in 1 .. i - 1
          PROVE  Since(usrp2Out', usrp2Down[j]) > Since(usrp2Out', usrp2Down[i])
      <4>1. j \in 1 .. Len(usrp2Down)
        BY <2>3
      <4> QED
        BY <2>5, <4>1
    <3> QED
      BY <3>1, <3>2
  <2> QED
    BY <1>1, <2>1, <2>3, <2>4, <2>7, <2>8, <2>9 DEF InFlightInv, ReportAges, Age, Stale
<1>8. OpenInv'
  BY <1>1, <1>6, <1>7 DEF OpenInv
<1> QED
  BY <1>1, <1>4, <1>5, <1>8 DEF MonitorInv

\* Commit: the youngest frame goes on its way.
LEMMA CommitInv ==
    ASSUME MonitorInv, Usrp2!Commit
    PROVE  MonitorInv'
<1>1. /\ usrp2Held' = {}
      /\ UNCHANGED <<usrp2Pc, usrp2Made, usrp2Out, usrp2Ack, usrp2Seqnum, usrp2Ups, usrp2Misled>>
  BY DEF Usrp2!Commit, Usrp2!radio
<1>2. PICK n \in usrp2Held : usrp2Down' = Append(usrp2Down, n)
  BY DEF Usrp2!Commit
<1>3. /\ MonitorTypes /\ ReportsInv /\ n \in Number /\ usrp2Pc = "open"
      /\ usrp2Down \in Seq(Number) /\ Held = 1
  BY <1>2 DEF MonitorInv, MonitorTypes, SetupInv, Held
<1>4. /\ usrp2Down' \in Seq(Number) /\ Len(usrp2Down') = Len(usrp2Down) + 1
      /\ Len(usrp2Down) \in Nat
      /\ \A i \in 1 .. Len(usrp2Down) : usrp2Down'[i] = usrp2Down[i]
      /\ usrp2Down'[Len(usrp2Down) + 1] = n
  BY <1>2, <1>3
<1>5. MonitorTypes'
  BY <1>1, <1>3, <1>4 DEF MonitorTypes
<1>6. ReportsInv'
  BY <1>1, <1>3 DEF ReportsInv, Stale
<1>7. PICK span \in 1 .. Usrp2SeqMod - 1 :
        /\ span + Leeway <= Usrp2Window * (1 + usrp2Misled) + 1
        /\ InFlightInv(span)
  BY <1>3 DEF MonitorInv, OpenInv
<1>8. span + Leeway' <= Usrp2Window * (1 + usrp2Misled') + 1
  BY <1>1, <1>7 DEF Leeway, Age
<1>9. InFlightInv(span)'
  <2>1. /\ Since(usrp2Out, n) = 1 /\ Held' = 0
        /\ Since(usrp2Out, usrp2Seqnum) \in 1 .. span
        /\ Since(usrp2Out, usrp2Seqnum) > Len(usrp2Down) + 1
        /\ \A i \in 1 .. Len(usrp2Down) :
             /\ Since(usrp2Out, usrp2Down[i]) < Since(usrp2Out, usrp2Seqnum)
             /\ Since(usrp2Out, usrp2Down[i]) > Len(usrp2Down) - i + 1
             /\ \A j \in 1 .. i - 1 : Since(usrp2Out, usrp2Down[j]) > Since(usrp2Out, usrp2Down[i])
    BY <1>1, <1>2, <1>3, <1>7 DEF InFlightInv, Age, Held
  <2>2. \A i \in 1 .. Len(usrp2Down') :
          /\ Since(usrp2Out, usrp2Down'[i]) < Since(usrp2Out, usrp2Seqnum)
          /\ Since(usrp2Out, usrp2Down'[i]) > Len(usrp2Down') - i
          /\ \A j \in 1 .. i - 1 : Since(usrp2Out, usrp2Down'[j]) > Since(usrp2Out, usrp2Down'[i])
    <3>1. ASSUME NEW i \in 1 .. Len(usrp2Down)
          PROVE  /\ Since(usrp2Out, usrp2Down'[i]) < Since(usrp2Out, usrp2Seqnum)
                 /\ Since(usrp2Out, usrp2Down'[i]) > Len(usrp2Down') - i
                 /\ \A j \in 1 .. i - 1 :
                      Since(usrp2Out, usrp2Down'[j]) > Since(usrp2Out, usrp2Down'[i])
      <4>1. \A j \in 1 .. i - 1 : j \in 1 .. Len(usrp2Down)
        BY <1>4
      <4> QED
        BY <1>4, <2>1, <4>1
    <3>2. ASSUME NEW i, i = Len(usrp2Down) + 1
          PROVE  /\ Since(usrp2Out, usrp2Down'[i]) < Since(usrp2Out, usrp2Seqnum)
                 /\ Since(usrp2Out, usrp2Down'[i]) > Len(usrp2Down') - i
                 /\ \A j \in 1 .. i - 1 :
                      Since(usrp2Out, usrp2Down'[j]) > Since(usrp2Out, usrp2Down'[i])
      <4>1. Since(usrp2Out, usrp2Down'[i]) = 1 /\ Len(usrp2Down') - i = 0
        BY <1>4, <2>1, <3>2
      <4>2. ASSUME NEW j \in 1 .. i - 1
            PROVE  Since(usrp2Out, usrp2Down'[j]) > 1
        <5>1. j \in 1 .. Len(usrp2Down) /\ usrp2Down[j] \in Number
          BY <1>3, <1>4, <3>2
        <5>2. Since(usrp2Out, usrp2Down[j]) \in 0 .. Usrp2SeqMod - 1 /\ usrp2Out \in Nat
          BY <1>3, <5>1, AllAge DEF MonitorTypes
        <5> QED
          BY <1>4, <2>1, <5>1, <5>2, MonitorConstants
      <4> QED
        BY <1>4, <2>1, <4>1, <4>2
    <3>3. ASSUME NEW i \in 1 .. Len(usrp2Down')
          PROVE  i \in 1 .. Len(usrp2Down) \/ i = Len(usrp2Down) + 1
      BY <1>4
    <3> QED
      BY <3>1, <3>2, <3>3
  <2>3. Since(usrp2Out, usrp2Seqnum) > Len(usrp2Down')
    BY <1>4, <2>1
  <2>4. \A i \in 1 .. Len(usrp2Ups) : ~Stale(i) =>
         /\ Since(usrp2Out, usrp2Ups[i].seq) \in Since(usrp2Out, usrp2Seqnum) .. span
         /\ \A j \in 1 .. i : ~Stale(j) =>
              Since(usrp2Out, usrp2Ups[j].seq) >= Since(usrp2Out, usrp2Ups[i].seq)
    BY <1>7 DEF InFlightInv, ReportAges, Age
  <2> QED
    BY <1>1, <1>4, <2>1, <2>2, <2>3, <2>4 DEF InFlightInv, ReportAges, Age, Stale
<1>10. OpenInv'
  BY <1>1, <1>3, <1>7, <1>8, <1>9 DEF OpenInv
<1> QED
  BY <1>1, <1>3, <1>5, <1>6, <1>10 DEF MonitorInv

\* ClearMonitor: every report under way is about another streamer from now on.
LEMMA ClearMonitorInv ==
    ASSUME MonitorInv, Usrp2!ClearMonitor
    PROVE  MonitorInv'
<1>1. /\ usrp2Held = {} /\ usrp2Pc' = "setup" /\ usrp2Made' = usrp2Made + 1
      /\ usrp2Out' = 0 /\ usrp2Ack' = 0 /\ usrp2Misled' = 0
      /\ UNCHANGED <<usrp2Held, usrp2Down, usrp2Seqnum, usrp2Ups>>
  BY DEF Usrp2!ClearMonitor, Usrp2!radio
<1>2. /\ MonitorTypes /\ ReportsInv /\ usrp2Made \in Nat /\ usrp2Ups \in Seq(Report)
      /\ Len(usrp2Ups) \in Nat /\ Len(usrp2Ups) <= MaxUps /\ MaxUps \in Nat
  BY MonitorConstants DEF MonitorInv, MonitorTypes
<1>3. MonitorTypes'
  BY <1>1, <1>2, FirstAge DEF MonitorTypes
<1>4. \A i \in 1 .. Len(usrp2Ups) : usrp2Ups[i].about \in Int /\ usrp2Ups[i].about <= usrp2Made
  <2>1. ASSUME NEW i \in 1 .. Len(usrp2Ups)
        PROVE  usrp2Ups[i].about \in Int
    <3>1. usrp2Ups[i] \in Report
      BY <1>2
    <3> QED
      BY <3>1 DEF Report
  <2> QED
    BY <1>2, <2>1 DEF ReportsInv
<1>5. \A i \in 1 .. Len(usrp2Ups') :
        /\ usrp2Ups'[i].about <= usrp2Made' /\ usrp2Ups'[i].about # usrp2Made'
        /\ i + usrp2Misled' <= MaxUps + 1
  BY <1>1, <1>2, <1>4
<1>6. \A i \in 1 .. Len(usrp2Ups') : \A j \in 1 .. i : usrp2Ups'[j].about # usrp2Made'
  <2>1. \A i \in 1 .. Len(usrp2Ups') : \A j \in 1 .. i : j \in 1 .. Len(usrp2Ups')
    BY <1>1, <1>2
  <2> QED
    BY <1>5, <2>1
<1>7. ReportsInv'
  BY <1>1, <1>2, <1>5, <1>6 DEF ReportsInv, Stale
<1>8. SetupInv'
  BY <1>1, <1>5 DEF SetupInv, Stale
<1> QED
  BY <1>1, <1>3, <1>7, <1>8 DEF MonitorInv

\* ClearRadio: the number before the first is one frame old, and no report under way
\* is about the streamer.
LEMMA ClearRadioInv ==
    ASSUME MonitorInv, Usrp2!ClearRadio
    PROVE  MonitorInv'
<1>1. /\ usrp2Pc = "setup" /\ usrp2Pc' = "open" /\ usrp2Down' = <<>>
      /\ usrp2Seqnum' = Usrp2SeqMod - 1
      /\ UNCHANGED <<usrp2Made, usrp2Out, usrp2Ack, usrp2Held, usrp2Ups, usrp2Misled>>
  BY DEF Usrp2!ClearRadio, Usrp2!ClearedNumber
<1>2. /\ MonitorTypes /\ ReportsInv /\ usrp2Held = {} /\ usrp2Out = 0
      /\ usrp2Misled \in 0 .. 1 /\ usrp2Ack \in Number
      /\ \A i \in 1 .. Len(usrp2Ups) : Stale(i)
  BY <1>1 DEF MonitorInv, MonitorTypes, SetupInv
<1>3. MonitorTypes'
  BY <1>1, <1>2, FirstAge DEF MonitorTypes
<1>4. ReportsInv'
  BY <1>1, <1>2 DEF ReportsInv, Stale
<1>5. 1 + Leeway' <= Usrp2Window * (1 + usrp2Misled') + 1
  <2>1. Since(0, usrp2Ack) \in 0 .. Usrp2SeqMod - 1
    BY <1>2, AllAge
  <2>2. /\ Usrp2Window \in Nat /\ Usrp2SeqMod \in Nat
        /\ Usrp2Window * (1 + usrp2Misled) \in Nat
        /\ Usrp2Window <= Usrp2Window * (1 + usrp2Misled)
    BY <1>2, MonitorConstants, NumbersSuffice
  <2>3. Leeway' <= Usrp2Window /\ Leeway' \in Nat
    BY <1>1, <1>2, <2>1, <2>2 DEF Leeway, Age
  <2> QED
    BY <1>1, <2>2, <2>3
<1>6. InFlightInv(1)'
  <2>1. Since(usrp2Out', usrp2Seqnum') = 1 /\ Len(usrp2Down') = 0 /\ Held' = 0 /\ usrp2Held' = {}
    BY <1>1, <1>2, FirstAge DEF Held
  <2>2. \A i \in 1 .. Len(usrp2Ups') : usrp2Ups'[i].about # usrp2Made'
    BY <1>1, <1>2 DEF Stale
  <2> QED
    BY <2>1, <2>2 DEF InFlightInv, ReportAges, Age, Stale
<1>7. 1 \in 1 .. Usrp2SeqMod - 1
  BY MonitorConstants
<1>8. OpenInv'
  BY <1>5, <1>6, <1>7 DEF OpenInv
<1> QED
  BY <1>1, <1>3, <1>4, <1>8 DEF MonitorInv

\* What is left of the reports when the first goes.
LEMMA ReportsLeft ==
    ASSUME MonitorTypes, ReportsInv, usrp2Ups # <<>>, usrp2Ups' = Tail(usrp2Ups),
           usrp2Made' = usrp2Made
    PROVE  /\ usrp2Ups' \in Seq(Report) /\ Len(usrp2Ups') <= MaxUps /\ Len(usrp2Ups') \in Nat
           /\ Len(usrp2Ups) = Len(usrp2Ups') + 1 /\ 1 \in 1 .. Len(usrp2Ups)
           /\ Head(usrp2Ups) = usrp2Ups[1] /\ Head(usrp2Ups).seq \in Number
           /\ \A i \in 1 .. Len(usrp2Ups') : /\ i + 1 \in 1 .. Len(usrp2Ups)
                                            /\ usrp2Ups'[i] = usrp2Ups[i + 1]
           /\ \A i \in 1 .. Len(usrp2Ups') :
                /\ usrp2Ups'[i].about <= usrp2Made
                /\ usrp2Ups'[i].about # usrp2Made =>
                     /\ i + 1 + usrp2Misled <= MaxUps + 1
                     /\ usrp2Ups[1].about # usrp2Made
                     /\ \A j \in 1 .. i : usrp2Ups'[j].about # usrp2Made
<1>1. /\ usrp2Ups \in Seq(Report) /\ Len(usrp2Ups) \in Nat /\ Len(usrp2Ups) <= MaxUps
      /\ MaxUps \in Nat /\ usrp2Misled \in Nat
  BY MonitorConstants DEF MonitorTypes
<1>2. /\ usrp2Ups' \in Seq(Report) /\ Len(usrp2Ups') \in Nat
      /\ Len(usrp2Ups) = Len(usrp2Ups') + 1
      /\ Head(usrp2Ups) = usrp2Ups[1]
  BY <1>1
<1>3. ASSUME NEW i \in 1 .. Len(usrp2Ups')
      PROVE  i + 1 \in 1 .. Len(usrp2Ups) /\ usrp2Ups'[i] = usrp2Ups[i + 1]
  BY <1>1, <1>2
<1>4. Head(usrp2Ups).seq \in Number /\ 1 \in 1 .. Len(usrp2Ups)
  <2>1. 1 \in 1 .. Len(usrp2Ups)
    BY <1>2
  <2> QED
    BY <1>2, <2>1, MonitorNumbers
<1>5. ASSUME NEW i \in 1 .. Len(usrp2Ups')
      PROVE  /\ usrp2Ups'[i].about <= usrp2Made
             /\ usrp2Ups'[i].about # usrp2Made =>
                  /\ i + 1 + usrp2Misled <= MaxUps + 1
                  /\ usrp2Ups[1].about # usrp2Made
                  /\ \A j \in 1 .. i : usrp2Ups'[j].about # usrp2Made
  <2>1. i + 1 \in 1 .. Len(usrp2Ups) /\ usrp2Ups'[i] = usrp2Ups[i + 1]
    BY <1>3
  <2>2. /\ usrp2Ups[i + 1].about <= usrp2Made
        /\ usrp2Ups[i + 1].about # usrp2Made =>
             /\ i + 1 + usrp2Misled <= MaxUps + 1
             /\ \A j \in 1 .. i + 1 : usrp2Ups[j].about # usrp2Made
    BY <2>1 DEF ReportsInv, Stale
  <2>3. ASSUME usrp2Ups[i + 1].about # usrp2Made
        PROVE  /\ usrp2Ups[1].about # usrp2Made
               /\ \A j \in 1 .. i : usrp2Ups'[j].about # usrp2Made
    <3>1. 1 \in 1 .. i + 1
      BY <1>2
    <3>2. ASSUME NEW j \in 1 .. i
          PROVE  j + 1 \in 1 .. i + 1 /\ j \in 1 .. Len(usrp2Ups')
      BY <1>2
    <3>3. ASSUME NEW j \in 1 .. i
          PROVE  usrp2Ups'[j].about # usrp2Made
      BY <1>3, <2>2, <2>3, <3>2
    <3> QED
      BY <2>2, <2>3, <3>1, <3>3
  <2> QED
    BY <2>1, <2>2, <2>3
<1> QED
  BY <1>1, <1>2, <1>3, <1>4, <1>5

\* Their ages stay in order.
LEMMA AgesLeft ==
    ASSUME NEW span, ReportAges(span), Len(usrp2Ups) \in Nat, Len(usrp2Ups') \in Nat,
           \A i \in 1 .. Len(usrp2Ups') : /\ i + 1 \in 1 .. Len(usrp2Ups)
                                        /\ usrp2Ups'[i] = usrp2Ups[i + 1],
           UNCHANGED <<usrp2Out, usrp2Made, usrp2Seqnum>>
    PROVE  ReportAges(span)'
<1> DEFINE seq(i) == usrp2Ups[i].seq
           about(i) == usrp2Ups[i].about
<1>1. \A i \in 1 .. Len(usrp2Ups) : about(i) = usrp2Made =>
        /\ Since(usrp2Out, seq(i)) \in Since(usrp2Out, usrp2Seqnum) .. span
        /\ \A j \in 1 .. i : about(j) = usrp2Made =>
             Since(usrp2Out, seq(j)) >= Since(usrp2Out, seq(i))
  BY DEF ReportAges, Age, Stale
<1>2. ASSUME NEW i \in 1 .. Len(usrp2Ups'), usrp2Ups'[i].about = usrp2Made
      PROVE  /\ Since(usrp2Out, usrp2Ups'[i].seq) \in Since(usrp2Out, usrp2Seqnum) .. span
             /\ \A j \in 1 .. i : usrp2Ups'[j].about = usrp2Made =>
                  Since(usrp2Out, usrp2Ups'[j].seq) >= Since(usrp2Out, usrp2Ups'[i].seq)
  <2>1. i + 1 \in 1 .. Len(usrp2Ups) /\ usrp2Ups'[i] = usrp2Ups[i + 1]
    OBVIOUS
  <2>2. ASSUME NEW j \in 1 .. i
        PROVE  j + 1 \in 1 .. i + 1 /\ usrp2Ups'[j] = usrp2Ups[j + 1]
    <3>1. j \in 1 .. Len(usrp2Ups')
      OBVIOUS
    <3> QED
      BY <3>1
  <2>3. Since(usrp2Out, usrp2Ups'[i].seq) \in Since(usrp2Out, usrp2Seqnum) .. span
    BY <1>1, <1>2, <2>1
  <2>4. ASSUME NEW j \in 1 .. i, usrp2Ups'[j].about = usrp2Made
        PROVE  Since(usrp2Out, usrp2Ups'[j].seq) >= Since(usrp2Out, usrp2Ups'[i].seq)
    BY <1>1, <1>2, <2>1, <2>2, <2>4
  <2> QED
    BY <2>3, <2>4
<1> QED
  BY <1>2 DEF ReportAges, Age, Stale

\* LoseReport.
LEMMA LoseReportInv ==
    ASSUME MonitorInv, Usrp2!LoseReport
    PROVE  MonitorInv'
<1>1. /\ usrp2Ups # <<>> /\ usrp2Ups' = Tail(usrp2Ups)
      /\ UNCHANGED <<usrp2Pc, usrp2Made, usrp2Out, usrp2Ack, usrp2Held, usrp2Down,
                     usrp2Seqnum, usrp2Misled>>
  BY DEF Usrp2!LoseReport, Usrp2!radio
<1>2. /\ MonitorTypes /\ ReportsInv /\ MaxUps \in Nat /\ usrp2Misled \in Nat
  BY MonitorConstants DEF MonitorInv, MonitorTypes
<1>3. /\ usrp2Ups' \in Seq(Report) /\ Len(usrp2Ups') <= MaxUps /\ Len(usrp2Ups') \in Nat
      /\ \A i \in 1 .. Len(usrp2Ups') : /\ i + 1 \in 1 .. Len(usrp2Ups)
                                       /\ usrp2Ups'[i] = usrp2Ups[i + 1]
      /\ \A i \in 1 .. Len(usrp2Ups') :
           /\ usrp2Ups'[i].about <= usrp2Made
           /\ usrp2Ups'[i].about # usrp2Made =>
                /\ i + 1 + usrp2Misled <= MaxUps + 1
                /\ \A j \in 1 .. i : usrp2Ups'[j].about # usrp2Made
  BY <1>1, <1>2, ReportsLeft
<1>4. MonitorTypes'
  BY <1>1, <1>2, <1>3 DEF MonitorTypes
<1>5. ReportsInv'
  BY <1>1, <1>2, <1>3 DEF ReportsInv, Stale
<1>6. SetupInv => SetupInv'
  BY <1>1, <1>3 DEF SetupInv, Stale
<1>7. OpenInv => OpenInv'
  <2>1. SUFFICES ASSUME NEW span \in 1 .. Usrp2SeqMod - 1,
                        span + Leeway <= Usrp2Window * (1 + usrp2Misled) + 1,
                        InFlightInv(span)
                 PROVE  /\ span + Leeway' <= Usrp2Window * (1 + usrp2Misled') + 1
                        /\ InFlightInv(span)'
    BY DEF OpenInv
  <2>2. Leeway' = Leeway
    BY <1>1 DEF Leeway, Age
  <2>3. ReportAges(span)'
    BY <1>1, <1>3, <2>1, AgesLeft DEF InFlightInv
  <2> QED
    BY <1>1, <2>1, <2>2, <2>3 DEF InFlightInv, Age, Held
<1> QED
  BY <1>1, <1>4, <1>5, <1>6, <1>7 DEF MonitorInv

\* Deliver: a report about the streamer makes the span end at its frame; one about
\* another opens the window once more.
LEMMA DeliverInv ==
    ASSUME MonitorInv, Usrp2!Deliver
    PROVE  MonitorInv'
<1>1. /\ usrp2Ups # <<>> /\ usrp2Ups' = Tail(usrp2Ups) /\ usrp2Ack' = Head(usrp2Ups).seq
      /\ UNCHANGED <<usrp2Pc, usrp2Made, usrp2Out, usrp2Held, usrp2Down, usrp2Seqnum>>
  BY DEF Usrp2!Deliver, Usrp2!radio
<1>2. /\ MonitorTypes /\ ReportsInv /\ MaxUps \in Nat /\ usrp2Misled \in Nat
      /\ usrp2Misled <= MaxUps + 1 /\ usrp2Pc \in {"open", "setup"} /\ usrp2Out \in Nat
      /\ Len(usrp2Ups) \in Nat
  BY MonitorConstants, MonitorNumbers DEF MonitorInv, MonitorTypes, ReportsInv
<1>3. /\ usrp2Ups' \in Seq(Report) /\ Len(usrp2Ups') <= MaxUps /\ Len(usrp2Ups') \in Nat
      /\ 1 \in 1 .. Len(usrp2Ups) /\ Head(usrp2Ups) = usrp2Ups[1]
      /\ Head(usrp2Ups).seq \in Number
      /\ \A i \in 1 .. Len(usrp2Ups') : /\ i + 1 \in 1 .. Len(usrp2Ups)
                                       /\ usrp2Ups'[i] = usrp2Ups[i + 1]
      /\ \A i \in 1 .. Len(usrp2Ups') :
           /\ usrp2Ups'[i].about <= usrp2Made
           /\ usrp2Ups'[i].about # usrp2Made =>
                /\ i + 1 + usrp2Misled <= MaxUps + 1
                /\ usrp2Ups[1].about # usrp2Made
                /\ \A j \in 1 .. i : usrp2Ups'[j].about # usrp2Made
  BY <1>1, <1>2, ReportsLeft
<1>4. usrp2Ups[1].about # usrp2Made => 1 + usrp2Misled <= MaxUps + 1
  BY <1>2, <1>3 DEF ReportsInv, Stale
<1>5. usrp2Misled' = IF usrp2Ups[1].about = usrp2Made THEN usrp2Misled
                     ELSE IF usrp2Pc = "setup" THEN 1 ELSE usrp2Misled + 1
  BY <1>3 DEF Usrp2!Deliver
<1>6. usrp2Misled' \in Nat /\ usrp2Misled' <= MaxUps + 1
  BY <1>2, <1>4, <1>5
<1>7. MonitorTypes'
  BY <1>1, <1>2, <1>3, <1>6 DEF MonitorTypes
<1>8. ReportsInv'
  <2>1. ASSUME NEW i \in 1 .. Len(usrp2Ups'), usrp2Ups'[i].about # usrp2Made
        PROVE  i + usrp2Misled' <= MaxUps + 1
    BY <1>2, <1>3, <1>5, <2>1
  <2> QED
    BY <1>1, <1>3, <1>6, <2>1 DEF ReportsInv, Stale
<1>9. CASE usrp2Pc = "setup"
  <2>1. SetupInv /\ usrp2Ups[1].about # usrp2Made
    BY <1>3, <1>9 DEF MonitorInv, SetupInv, Stale
  <2>2. usrp2Misled' = 1
    BY <1>5, <1>9, <2>1
  <2>3. SetupInv'
    BY <1>1, <1>3, <2>1, <2>2 DEF SetupInv, Stale
  <2> QED
    BY <1>1, <1>7, <1>8, <1>9, <2>3 DEF MonitorInv
<1>10. CASE usrp2Pc = "open"
  <2>1. PICK span \in 1 .. Usrp2SeqMod - 1 :
          /\ span + Leeway <= Usrp2Window * (1 + usrp2Misled) + 1
          /\ InFlightInv(span)
    BY <1>10 DEF MonitorInv, OpenInv
  <2>2. /\ Since(usrp2Out, usrp2Ack) \in 0 .. Usrp2SeqMod - 1
        /\ Since(usrp2Out, usrp2Ack') \in 0 .. Usrp2SeqMod - 1
        /\ Since(usrp2Out, usrp2Seqnum) \in 1 .. Usrp2SeqMod - 1
    <3>1. usrp2Ack \in Number /\ usrp2Ack' \in Number
      BY <1>1, <1>2, <1>3 DEF MonitorTypes
    <3>2. Since(usrp2Out, usrp2Seqnum) \in 1 .. span
      BY <2>1 DEF InFlightInv, Age
    <3> QED
      BY <1>2, <3>1, <3>2, AgeTyped
  <2>3. /\ Usrp2Window \in Nat /\ Usrp2SeqMod \in Nat
        /\ Usrp2Window * (1 + usrp2Misled) \in Nat
        /\ Usrp2Window <= Usrp2Window * (1 + usrp2Misled)
        /\ Usrp2Window * (1 + (usrp2Misled + 1)) = Usrp2Window * (1 + usrp2Misled) + Usrp2Window
    BY <1>2, MonitorConstants, NumbersSuffice, OneMoreWindow
  <2>4. Leeway \in Nat /\ Leeway' \in Nat /\ Leeway' <= Usrp2Window
        /\ (Leeway' = 0 \/ Leeway' + Since(usrp2Out, usrp2Ack') = Usrp2Window)
    BY <1>1, <2>2, <2>3 DEF Leeway, Age
  <2>5. CASE usrp2Ups[1].about # usrp2Made
    <3>1. usrp2Misled' = usrp2Misled + 1
      BY <1>5, <1>10, <2>5
    <3>2. span + Leeway' <= Usrp2Window * (1 + usrp2Misled') + 1
      <4>1. Usrp2Window * (1 + usrp2Misled') = Usrp2Window * (1 + usrp2Misled) + Usrp2Window
        BY <2>3, <3>1, Zenon
      <4>2. span \in Nat /\ span <= Usrp2Window * (1 + usrp2Misled) + 1
        BY <2>1, <2>3, <2>4
      <4> QED
        BY <2>3, <2>4, <4>1, <4>2
    <3>3. ReportAges(span)'
      BY <1>1, <1>2, <1>3, <2>1, AgesLeft DEF InFlightInv
    <3>4. InFlightInv(span)'
      BY <1>1, <2>1, <3>3 DEF InFlightInv, Age, Held
    <3> QED
      BY <1>1, <1>7, <1>8, <1>10, <2>1, <3>2, <3>4 DEF MonitorInv, OpenInv
  <2>6. CASE usrp2Ups[1].about = usrp2Made
    <3>1. PICK age : age = Since(usrp2Out, usrp2Ack')
      OBVIOUS
    <3>2. age \in Since(usrp2Out, usrp2Seqnum) .. span
      BY <1>1, <1>3, <2>1, <2>6, <3>1 DEF InFlightInv, ReportAges, Age, Stale
    <3>3. age \in 1 .. Usrp2SeqMod - 1
      BY <2>1, <2>2, <2>3, <3>2
    <3>4. usrp2Misled' = usrp2Misled
      BY <1>5, <2>6
    <3>5. age + Leeway' <= Usrp2Window * (1 + usrp2Misled') + 1
      BY <1>2, <2>1, <2>3, <2>4, <3>2, <3>3, <3>4, <3>1
    <3>6. ReportAges(age)
      <4>1. ASSUME NEW i \in 1 .. Len(usrp2Ups), ~Stale(i)
            PROVE  Age(usrp2Ups[i].seq) \in Age(usrp2Seqnum) .. age
        <5>1. 1 \in 1 .. i /\ ~Stale(1)
          BY <1>2, <2>6 DEF Stale
        <5>2. /\ Age(usrp2Ups[i].seq) \in Age(usrp2Seqnum) .. span
              /\ Age(usrp2Ups[1].seq) >= Age(usrp2Ups[i].seq)
          BY <2>1, <4>1, <5>1 DEF InFlightInv, ReportAges
        <5> QED
          BY <1>1, <1>3, <2>2, <3>2, <3>1, <5>2 DEF Age
      <4> QED
        BY <2>1, <4>1 DEF InFlightInv, ReportAges
    <3>7. ReportAges(age)'
      BY <1>1, <1>2, <1>3, <3>6, AgesLeft
    <3>8. InFlightInv(age)'
      <4>1. Age(usrp2Seqnum) \in 1 .. age
        BY <2>1, <2>2, <3>2, <3>3 DEF Age
      <4> QED
        BY <1>1, <2>1, <3>7, <4>1 DEF InFlightInv, Age, Held
    <3> QED
      BY <1>1, <1>7, <1>8, <1>10, <3>3, <3>5, <3>8 DEF MonitorInv, OpenInv
  <2> QED
    BY <2>5, <2>6
<1> QED
  BY <1>2, <1>9, <1>10

\* Deframe: the frame read is the oldest in flight.
LEMMA DeframeInv ==
    ASSUME MonitorInv, Usrp2!Deframe
    PROVE  MonitorInv'
<1>1. /\ usrp2Down # <<>> /\ usrp2Down' = Tail(usrp2Down) /\ usrp2Seqnum' = Head(usrp2Down)
      /\ UNCHANGED <<usrp2Pc, usrp2Made, usrp2Out, usrp2Ack, usrp2Held, usrp2Ups, usrp2Misled>>
  BY DEF Usrp2!Deframe
<1>2. /\ MonitorTypes /\ ReportsInv /\ usrp2Out \in Nat
      /\ usrp2Down \in Seq(Number) /\ Len(usrp2Down) \in Nat /\ usrp2Seqnum \in Number
  BY MonitorNumbers DEF MonitorInv, MonitorTypes
<1>3. /\ usrp2Down' \in Seq(Number) /\ Len(usrp2Down) = Len(usrp2Down') + 1
      /\ Len(usrp2Down') \in Nat /\ Head(usrp2Down) = usrp2Down[1]
      /\ \A i \in 1 .. Len(usrp2Down') : usrp2Down'[i] = usrp2Down[i + 1]
  BY <1>1, <1>2
<1>4. usrp2Down[1] \in Number /\ 1 \in 1 .. Len(usrp2Down)
  BY <1>2, <1>3
<1>5. MonitorTypes'
  BY <1>1, <1>2, <1>3, <1>4 DEF MonitorTypes
<1>6. ReportsInv'
  BY <1>1, <1>2 DEF ReportsInv, Stale
<1>7. SetupInv => SetupInv'
  BY <1>1 DEF SetupInv, Stale
<1>8. OpenInv => OpenInv'
  <2>1. SUFFICES ASSUME NEW span \in 1 .. Usrp2SeqMod - 1,
                        span + Leeway <= Usrp2Window * (1 + usrp2Misled) + 1,
                        InFlightInv(span)
                 PROVE  /\ span + Leeway' <= Usrp2Window * (1 + usrp2Misled') + 1
                        /\ InFlightInv(span)'
    BY DEF OpenInv
  <2>2. Leeway' = Leeway /\ Held' = Held /\ Held \in 0 .. 1
    BY <1>1 DEF Leeway, Age, Held
  <2>3. /\ Since(usrp2Out, usrp2Seqnum) \in 1 .. span
        /\ \A i \in 1 .. Len(usrp2Down) :
             /\ Since(usrp2Out, usrp2Down[i]) < Since(usrp2Out, usrp2Seqnum)
             /\ Since(usrp2Out, usrp2Down[i]) > Len(usrp2Down) - i + Held
             /\ \A j \in 1 .. i - 1 : Since(usrp2Out, usrp2Down[j]) > Since(usrp2Out, usrp2Down[i])
    BY <2>1 DEF InFlightInv, Age
  <2>4. Since(usrp2Out, usrp2Down[1]) \in Nat
    BY <1>2, <1>4, AgeTyped
  <2>5. /\ Since(usrp2Out, usrp2Down[1]) \in 1 .. span
        /\ Since(usrp2Out, usrp2Down[1]) < Since(usrp2Out, usrp2Seqnum)
        /\ Since(usrp2Out, usrp2Down[1]) > Len(usrp2Down') + Held
    BY <1>3, <1>4, <2>2, <2>3, <2>4
  <2>6. ASSUME NEW i \in 1 .. Len(usrp2Down')
        PROVE  /\ Since(usrp2Out, usrp2Down'[i]) < Since(usrp2Out, usrp2Down[1])
               /\ Since(usrp2Out, usrp2Down'[i]) > Len(usrp2Down') - i + Held
               /\ \A j \in 1 .. i - 1 :
                    Since(usrp2Out, usrp2Down'[j]) > Since(usrp2Out, usrp2Down'[i])
    <3>1. /\ i + 1 \in 1 .. Len(usrp2Down) /\ usrp2Down'[i] = usrp2Down[i + 1]
          /\ 1 \in 1 .. (i + 1) - 1 /\ Len(usrp2Down) - (i + 1) = Len(usrp2Down') - i
      BY <1>3
    <3>2. \A j \in 1 .. i - 1 : /\ j + 1 \in 1 .. (i + 1) - 1
                              /\ usrp2Down'[j] = usrp2Down[j + 1]
      <4>1. \A j \in 1 .. i - 1 : j \in 1 .. Len(usrp2Down')
        BY <1>3
      <4> QED
        BY <1>3, <4>1
    <3>3. Since(usrp2Out, usrp2Down[1]) > Since(usrp2Out, usrp2Down[i + 1])
      BY <2>3, <3>1
    <3>4. Since(usrp2Out, usrp2Down[i + 1]) > Len(usrp2Down) - (i + 1) + Held
      BY <2>3, <3>1
    <3>5. Since(usrp2Out, usrp2Down[i + 1]) \in Nat
      <4>1. usrp2Down[i + 1] \in Number
        BY <1>2, <3>1
      <4> QED
        BY <1>2, <4>1, AgeTyped
    <3>6. \A j \in 1 .. i - 1 : Since(usrp2Out, usrp2Down[j + 1]) > Since(usrp2Out, usrp2Down[i + 1])
      BY <2>3, <3>1, <3>2
    <3> QED
      BY <2>2, <2>4, <3>1, <3>2, <3>3, <3>4, <3>5, <3>6
  <2>7. ASSUME NEW i \in 1 .. Len(usrp2Ups), ~Stale(i)
        PROVE  /\ Since(usrp2Out, usrp2Ups[i].seq) \in Since(usrp2Out, usrp2Down[1]) .. span
               /\ \A j \in 1 .. i : ~Stale(j) =>
                    Since(usrp2Out, usrp2Ups[j].seq) >= Since(usrp2Out, usrp2Ups[i].seq)
    <3>1. /\ Since(usrp2Out, usrp2Ups[i].seq) \in Since(usrp2Out, usrp2Seqnum) .. span
          /\ \A j \in 1 .. i : ~Stale(j) =>
               Since(usrp2Out, usrp2Ups[j].seq) >= Since(usrp2Out, usrp2Ups[i].seq)
      BY <2>1, <2>7 DEF InFlightInv, ReportAges, Age
    <3> QED
      BY <2>3, <2>4, <2>5, <3>1
  <2>8. ReportAges(span)'
    BY <1>1, <1>3, <2>7 DEF ReportAges, Age, Stale
  <2>9. \A n \in usrp2Held' : Since(usrp2Out', n) = 1
    BY <1>1, <2>1 DEF InFlightInv, Age
  <2> QED
    BY <1>1, <1>3, <2>1, <2>2, <2>5, <2>6, <2>8, <2>9 DEF InFlightInv, Age
<1> QED
  BY <1>1, <1>5, <1>6, <1>7, <1>8 DEF MonitorInv

\* Consume and CycleUpdate: a new report is about the last frame that the radio read.
LEMMA ReportedInv ==
    ASSUME MonitorInv, usrp2Ups' = Usrp2!Reported,
           UNCHANGED <<usrp2Pc, usrp2Made, usrp2Out, usrp2Ack, usrp2Held, usrp2Down,
                       usrp2Seqnum, usrp2Misled>>
    PROVE  MonitorInv'
<1> DEFINE about == IF usrp2Pc = "setup" THEN usrp2Made - 1 ELSE usrp2Made
           report == [seq |-> usrp2Seqnum, about |-> about]
<1>1. /\ MonitorTypes /\ ReportsInv /\ usrp2Out \in Nat /\ usrp2Made \in Nat
      /\ usrp2Ups \in Seq(Report) /\ Len(usrp2Ups) \in Nat /\ Len(usrp2Ups) <= MaxUps
      /\ usrp2Seqnum \in Number /\ usrp2Misled \in Nat /\ MaxUps \in Nat
      /\ usrp2Pc \in {"open", "setup"}
  BY MonitorNumbers, MonitorConstants DEF MonitorInv, MonitorTypes
<1>2. CASE usrp2Ups' = usrp2Ups
  <2>1. MonitorTypes' /\ ReportsInv'
    BY <1>1, <1>2 DEF MonitorTypes, ReportsInv, Stale
  <2>2. SetupInv => SetupInv'
    BY <1>2 DEF SetupInv, Stale
  <2>3. OpenInv => OpenInv'
    BY <1>2 DEF OpenInv, InFlightInv, ReportAges, Leeway, Age, Held, Stale
  <2> QED
    BY <2>1, <2>2, <2>3 DEF MonitorInv
<1>3. CASE Len(usrp2Ups) < MaxUps /\ usrp2Ups' = Append(usrp2Ups, report)
  <2>1. report \in Report /\ report.seq = usrp2Seqnum /\ report.about = about
    BY <1>1 DEF Report
  <2>2. PICK l \in Nat : l = Len(usrp2Ups) + 1
    BY <1>1
  <2> HIDE DEF report
  <2>3. /\ usrp2Ups' \in Seq(Report) /\ Len(usrp2Ups') = l /\ l <= MaxUps
        /\ \A i \in 1 .. Len(usrp2Ups) : usrp2Ups'[i] = usrp2Ups[i]
        /\ usrp2Ups'[l] = report
    BY <1>1, <1>3, <2>1, <2>2
  <2>4. /\ \A i \in 1 .. l : i \in 1 .. Len(usrp2Ups) \/ i = l
        /\ \A i \in 1 .. Len(usrp2Ups) : \A j \in 1 .. i : j \in 1 .. Len(usrp2Ups)
        /\ \A j \in 1 .. l : j \in 1 .. Len(usrp2Ups) \/ j = l
        /\ l \notin 1 .. Len(usrp2Ups)
    BY <1>1, <2>2
  <2>5. MonitorTypes'
    BY <1>1, <2>3 DEF MonitorTypes
  <2>6. CASE usrp2Pc = "setup"
    <3>1. about # usrp2Made /\ about <= usrp2Made
      BY <1>1, <2>6
    <3>2. SetupInv /\ usrp2Misled <= 1
      BY <1>1, <2>6 DEF MonitorInv, SetupInv
    <3>3. \A i \in 1 .. Len(usrp2Ups) :
            /\ usrp2Ups[i].about # usrp2Made /\ usrp2Ups[i].about <= usrp2Made
            /\ i + usrp2Misled <= MaxUps + 1
      BY <3>2 DEF SetupInv, ReportsInv, MonitorInv, Stale
    <3>4. l + usrp2Misled <= MaxUps + 1
      BY <1>1, <2>3, <3>2
    <3>5. \A i \in 1 .. l :
            /\ usrp2Ups'[i].about # usrp2Made /\ usrp2Ups'[i].about <= usrp2Made
            /\ i + usrp2Misled <= MaxUps + 1
      BY <2>1, <2>3, <2>4, <3>1, <3>3, <3>4
    <3>6. \A i \in 1 .. l : \A j \in 1 .. i : j \in 1 .. l
      BY <2>2
    <3>7. ReportsInv'
      BY <1>1, <2>3, <3>5, <3>6 DEF ReportsInv, Stale
    <3>8. SetupInv'
      BY <2>3, <3>2, <3>5 DEF SetupInv, Stale
    <3> QED
      BY <2>5, <2>6, <3>7, <3>8 DEF MonitorInv
  <2>7. CASE usrp2Pc = "open"
    <3>1. about = usrp2Made
      BY <2>7
    <3>2. ReportsInv'
      <4>1. \A i \in 1 .. Len(usrp2Ups) :
              /\ usrp2Ups[i].about <= usrp2Made
              /\ usrp2Ups[i].about # usrp2Made =>
                   /\ i + usrp2Misled <= MaxUps + 1
                   /\ \A j \in 1 .. i : usrp2Ups[j].about # usrp2Made
        BY <1>1 DEF ReportsInv, Stale
      <4>2. \A i \in 1 .. l :
              /\ usrp2Ups'[i].about <= usrp2Made
              /\ usrp2Ups'[i].about # usrp2Made =>
                   /\ i + usrp2Misled <= MaxUps + 1
                   /\ \A j \in 1 .. i : usrp2Ups'[j].about # usrp2Made
        BY <1>1, <2>1, <2>3, <2>4, <3>1, <4>1
      <4> QED
        BY <1>1, <2>3, <4>2 DEF ReportsInv, Stale
    <3>3. PICK span \in 1 .. Usrp2SeqMod - 1 :
            /\ span + Leeway <= Usrp2Window * (1 + usrp2Misled) + 1
            /\ InFlightInv(span)
      BY <2>7 DEF MonitorInv, OpenInv
    <3>4. Leeway' = Leeway /\ Held' = Held
      BY DEF Leeway, Age, Held
    <3>5. PICK youngest \in 1 .. span : youngest = Since(usrp2Out, usrp2Seqnum)
      BY <3>3 DEF InFlightInv, Age
    <3>6. \A i \in 1 .. Len(usrp2Ups) : usrp2Ups[i].about = usrp2Made =>
            /\ Since(usrp2Out, usrp2Ups[i].seq) \in youngest .. span
            /\ \A j \in 1 .. i : usrp2Ups[j].about = usrp2Made =>
                 Since(usrp2Out, usrp2Ups[j].seq) >= Since(usrp2Out, usrp2Ups[i].seq)
      BY <3>3, <3>5 DEF InFlightInv, ReportAges, Age, Stale
    <3>7. Since(usrp2Out, usrp2Ups'[l].seq) = youngest
      BY <2>1, <2>3, <3>5
    <3>8. \A j \in 1 .. l : usrp2Ups'[j].about = usrp2Made =>
            Since(usrp2Out, usrp2Ups'[j].seq) \in youngest .. span
      BY <2>3, <2>4, <3>5, <3>6, <3>7
    <3>9. \A i \in 1 .. l : usrp2Ups'[i].about = usrp2Made =>
            \A j \in 1 .. i : usrp2Ups'[j].about = usrp2Made =>
                Since(usrp2Out, usrp2Ups'[j].seq) >= Since(usrp2Out, usrp2Ups'[i].seq)
      <4>1. ASSUME NEW i \in 1 .. Len(usrp2Ups), usrp2Ups'[i].about = usrp2Made,
                   NEW j \in 1 .. i, usrp2Ups'[j].about = usrp2Made
            PROVE  Since(usrp2Out, usrp2Ups'[j].seq) >= Since(usrp2Out, usrp2Ups'[i].seq)
        <5>1. usrp2Ups'[i] = usrp2Ups[i] /\ usrp2Ups'[j] = usrp2Ups[j]
          BY <2>3, <2>4
        <5> QED
          BY <3>6, <4>1, <5>1
      <4>2. ASSUME NEW j \in 1 .. l, usrp2Ups'[j].about = usrp2Made
            PROVE  Since(usrp2Out, usrp2Ups'[j].seq) >= Since(usrp2Out, usrp2Ups'[l].seq)
        BY <3>5, <3>7, <3>8, <4>2
      <4> QED
        BY <2>4, <4>1, <4>2
    <3>10. ReportAges(span)'
      BY <2>3, <3>5, <3>8, <3>9 DEF ReportAges, Age, Stale
    <3>11. InFlightInv(span)'
      BY <3>3, <3>4, <3>10 DEF InFlightInv, Age
    <3> QED
      BY <2>5, <2>7, <3>2, <3>3, <3>4, <3>11 DEF MonitorInv, OpenInv
  <2> QED
    BY <1>1, <2>6, <2>7
<1> QED
  BY <1>2, <1>3 DEF Usrp2!Reported

\* A sequence without one of its elements.
Without(s, k) == SubSeq(s, 1, k - 1) \o SubSeq(s, k + 1, Len(s))

LEMMA WithoutOne ==
    ASSUME NEW S, NEW s \in Seq(S), NEW k \in 1 .. Len(s), NEW t, t = Without(s, k)
    PROVE  /\ t \in Seq(S) /\ Len(t) \in Nat /\ Len(s) = Len(t) + 1
           /\ \A i \in 1 .. Len(t) : t[i] = IF i < k THEN s[i] ELSE s[i + 1]
<1>1. PICK before, after : before = SubSeq(s, 1, k - 1) /\ after = SubSeq(s, k + 1, Len(s))
  OBVIOUS
<1>2. Len(s) \in Nat /\ \A i \in 1 .. Len(s) : s[i] \in S
  OBVIOUS
<1>3. /\ before \in Seq(S) /\ Len(before) = k - 1
      /\ \A i \in 1 .. k - 1 : before[i] = s[i]
  <2>1. \A i \in 1 .. k - 1 : s[i] \in S
    BY <1>2
  <2> QED
    BY <1>1, <1>2, <2>1, SubSeqProperties
<1>4. /\ after \in Seq(S) /\ Len(after) = Len(s) - k
      /\ \A i \in 1 .. Len(s) - k : after[i] = s[k + i]
  <2>1. \A i \in k + 1 .. Len(s) : s[i] \in S
    BY <1>2
  <2> QED
    BY <1>1, <1>2, <2>1, SubSeqProperties
<1>5. t = before \o after
  BY <1>1 DEF Without
<1>6. /\ t \in Seq(S) /\ Len(t) = Len(before) + Len(after)
      /\ \A i \in 1 .. Len(before) : t[i] = before[i]
      /\ \A i \in 1 .. Len(after) : t[Len(before) + i] = after[i]
  <2>1. before \in Seq(S) /\ after \in Seq(S) /\ Len(before) \in Nat /\ Len(after) \in Nat
    BY <1>3, <1>4
  <2>2. /\ t \in Seq(S) /\ Len(t) = Len(before) + Len(after)
        /\ \A i \in 1 .. Len(before) + Len(after) :
             t[i] = IF i <= Len(before) THEN before[i] ELSE after[i - Len(before)]
    BY <1>5, <2>1, ConcatProperties, Zenon
  <2>3. ASSUME NEW i \in 1 .. Len(after)
        PROVE  /\ Len(before) + i \in 1 .. Len(before) + Len(after)
               /\ ~(Len(before) + i <= Len(before)) /\ (Len(before) + i) - Len(before) = i
    BY <2>1
  <2>4. \A i \in 1 .. Len(before) : i \in 1 .. Len(before) + Len(after) /\ i <= Len(before)
    BY <2>1
  <2> QED
    BY <2>2, <2>3, <2>4
<1>7. Len(t) = Len(s) - 1
  BY <1>2, <1>3, <1>4, <1>6
<1>8. ASSUME NEW i \in 1 .. Len(t)
      PROVE  t[i] = IF i < k THEN s[i] ELSE s[i + 1]
  <2>1. CASE i < k
    BY <1>2, <1>3, <1>6, <1>7, <2>1
  <2>2. CASE ~(i < k)
    <3>1. /\ i - (k - 1) \in 1 .. Len(s) - k /\ Len(before) + (i - (k - 1)) = i
          /\ k + (i - (k - 1)) = i + 1
      BY <1>2, <1>3, <1>7, <2>2
    <3>2. t[Len(before) + (i - (k - 1))] = s[k + (i - (k - 1))]
      BY <1>4, <1>6, <3>1
    <3> QED
      BY <2>2, <3>1, <3>2
  <2> QED
    BY <2>1, <2>2
<1> QED
  BY <1>2, <1>6, <1>7, <1>8

\* LosePacket: what is left in flight keeps its order.
LEMMA LosePacketInv ==
    ASSUME MonitorInv, Usrp2!LosePacket
    PROVE  MonitorInv'
<1>1. UNCHANGED <<usrp2Pc, usrp2Made, usrp2Out, usrp2Ack, usrp2Held, usrp2Seqnum, usrp2Ups,
                  usrp2Misled>>
  BY DEF Usrp2!LosePacket, Usrp2!radio
<1>2. PICK k \in DOMAIN usrp2Down :
        usrp2Down' = Without(usrp2Down, k)
  BY DEF Usrp2!LosePacket, Without
<1>3. /\ MonitorTypes /\ ReportsInv /\ usrp2Out \in Nat /\ usrp2Seqnum \in Number
      /\ usrp2Down \in Seq(Number) /\ Len(usrp2Down) \in Nat
  BY MonitorNumbers DEF MonitorInv, MonitorTypes
<1>4. /\ usrp2Down' \in Seq(Number) /\ Len(usrp2Down) = Len(usrp2Down') + 1
      /\ Len(usrp2Down') \in Nat /\ k \in 1 .. Len(usrp2Down)
      /\ \A i \in 1 .. Len(usrp2Down') :
           usrp2Down'[i] = IF i < k THEN usrp2Down[i] ELSE usrp2Down[i + 1]
  <2>1. k \in 1 .. Len(usrp2Down)
    BY <1>2, <1>3
  <2> QED
    BY <1>2, <1>3, <2>1, WithoutOne
<1>5. MonitorTypes'
  BY <1>1, <1>3, <1>4 DEF MonitorTypes
<1>6. ReportsInv'
  BY <1>1, <1>3 DEF ReportsInv, Stale
<1>7. SetupInv => SetupInv'
  BY <1>1 DEF SetupInv, Stale
<1>8. OpenInv => OpenInv'
  <2>1. SUFFICES ASSUME NEW span \in 1 .. Usrp2SeqMod - 1,
                        span + Leeway <= Usrp2Window * (1 + usrp2Misled) + 1,
                        InFlightInv(span)
                 PROVE  /\ span + Leeway' <= Usrp2Window * (1 + usrp2Misled') + 1
                        /\ InFlightInv(span)'
    BY DEF OpenInv
  <2>2. Leeway' = Leeway /\ Held' = Held /\ Held \in 0 .. 1
    BY <1>1 DEF Leeway, Age, Held
  <2>3. /\ Since(usrp2Out, usrp2Seqnum) \in 1 .. span
        /\ Since(usrp2Out, usrp2Seqnum) > Len(usrp2Down) + Held
        /\ \A i \in 1 .. Len(usrp2Down) :
             /\ Since(usrp2Out, usrp2Down[i]) < Since(usrp2Out, usrp2Seqnum)
             /\ Since(usrp2Out, usrp2Down[i]) > Len(usrp2Down) - i + Held
             /\ \A j \in 1 .. i - 1 : Since(usrp2Out, usrp2Down[j]) > Since(usrp2Out, usrp2Down[i])
    BY <2>1 DEF InFlightInv, Age
  <2>4. ASSUME NEW i \in 1 .. Len(usrp2Down')
        PROVE  /\ Since(usrp2Out, usrp2Down'[i]) < Since(usrp2Out, usrp2Seqnum)
               /\ Since(usrp2Out, usrp2Down'[i]) > Len(usrp2Down') - i + Held
               /\ \A j \in 1 .. i - 1 :
                    Since(usrp2Out, usrp2Down'[j]) > Since(usrp2Out, usrp2Down'[i])
    <3>1. PICK m \in 1 .. Len(usrp2Down) :
            /\ m = (IF i < k THEN i ELSE i + 1)
            /\ usrp2Down'[i] = usrp2Down[m] /\ Len(usrp2Down) - m >= Len(usrp2Down') - i
      BY <1>4
    <3>2. ASSUME NEW j \in 1 .. i - 1
          PROVE  \E p \in 1 .. m - 1 : usrp2Down'[j] = usrp2Down[p]
      <4>1. j \in 1 .. Len(usrp2Down') /\ j < i
        BY <1>4
      <4>2. CASE j < k
        BY <1>4, <3>1, <4>1, <4>2
      <4>3. CASE ~(j < k)
        <5>1. j + 1 \in 1 .. m - 1 /\ usrp2Down'[j] = usrp2Down[j + 1]
          BY <1>4, <3>1, <4>1, <4>3
        <5> QED
          BY <5>1
      <4> QED
        BY <4>2, <4>3
    <3>3. Since(usrp2Out, usrp2Down[m]) \in Nat
      <4>1. usrp2Down[m] \in Number
        BY <1>3, <3>1
      <4> QED
        BY <1>3, <4>1, AgeTyped
    <3>4. Since(usrp2Out, usrp2Down[m]) > Len(usrp2Down) - m + Held
      BY <2>3, <3>1
    <3>5. Since(usrp2Out, usrp2Down'[i]) > Len(usrp2Down') - i + Held
      BY <1>4, <2>2, <3>1, <3>3, <3>4
    <3>6. \A p \in 1 .. m - 1 : Since(usrp2Out, usrp2Down[p]) > Since(usrp2Out, usrp2Down[m])
      BY <2>3, <3>1
    <3> QED
      BY <2>3, <3>1, <3>2, <3>5, <3>6
  <2>5. Since(usrp2Out, usrp2Seqnum) > Len(usrp2Down') + Held
    BY <1>4, <2>1, <2>2, <2>3
  <2>6. ReportAges(span)'
    BY <1>1, <2>1 DEF InFlightInv, ReportAges, Age, Stale
  <2>7. \A n \in usrp2Held' : Since(usrp2Out', n) = 1
    BY <1>1, <2>1 DEF InFlightInv, Age
  <2> QED
    BY <1>1, <2>1, <2>2, <2>3, <2>4, <2>5, <2>6, <2>7 DEF InFlightInv, Age
<1> QED
  BY <1>1, <1>5, <1>6, <1>7, <1>8 DEF MonitorInv

\* A streamer that has sent nothing: as after ClearRadio.
LEMMA MonitorInit ==
    ASSUME Usrp2!Init
    PROVE  MonitorInv
<1>1. /\ usrp2Pc = "open" /\ usrp2Made = 1 /\ usrp2Out = 0 /\ usrp2Ack = 0 /\ usrp2Held = {}
      /\ usrp2Down = <<>> /\ usrp2Seqnum = Usrp2SeqMod - 1 /\ usrp2Ups = <<>> /\ usrp2Misled = 0
  BY DEF Usrp2!Init
<1>2. /\ Usrp2SeqMod - 1 \in Number /\ 0 \in Number /\ Since(0, Usrp2SeqMod - 1) = 1
      /\ MaxUps \in Nat /\ Usrp2Window \in Nat /\ 1 \in 1 .. Usrp2SeqMod - 1
  BY FirstAge, MonitorConstants
<1>3. MonitorTypes /\ ReportsInv
  BY <1>1, <1>2 DEF MonitorTypes, ReportsInv
<1>4. Since(0, 0) \in Nat
  BY <1>2, AgeTyped
<1>5. Leeway \in Nat /\ Leeway <= Usrp2Window
  BY <1>1, <1>2, <1>4 DEF Leeway, Age
<1>6. Usrp2Window * (1 + 0) = Usrp2Window
  BY <1>2
<1>7. 1 + Leeway <= Usrp2Window * (1 + usrp2Misled) + 1
  BY <1>1, <1>2, <1>5, <1>6
<1>8. InFlightInv(1)
  BY <1>1, <1>2 DEF InFlightInv, ReportAges, Age, Held
<1> QED
  BY <1>1, <1>2, <1>3, <1>7, <1>8 DEF MonitorInv, OpenInv

LEMMA MonitorStep ==
    ASSUME MonitorInv, [FlowNext]_<<generation, vars, usrp2Vars>>
    PROVE  MonitorInv'
<1>1. CASE UNCHANGED usrp2Vars
  <2>1. MonitorTypes' /\ ReportsInv'
    BY <1>1 DEF MonitorInv, MonitorTypes, ReportsInv, Stale, usrp2Vars
  <2>2. SetupInv => SetupInv'
    BY <1>1 DEF SetupInv, Stale, usrp2Vars
  <2>3. OpenInv => OpenInv'
    BY <1>1 DEF OpenInv, InFlightInv, ReportAges, Leeway, Age, Held, Stale, usrp2Vars
  <2> QED
    BY <1>1, <2>1, <2>2, <2>3 DEF MonitorInv, usrp2Vars
<1>2. CASE Usrp2!Consume
  <2>1. /\ UNCHANGED <<usrp2Pc, usrp2Made, usrp2Out, usrp2Ack, usrp2Held, usrp2Down,
                       usrp2Seqnum, usrp2Misled>>
        /\ usrp2Ups' = usrp2Ups \/ usrp2Ups' = Usrp2!Reported
    BY <1>2 DEF Usrp2!Consume
  <2>2. CASE usrp2Ups' = usrp2Ups
    <3>1. MonitorTypes' /\ ReportsInv'
      BY <2>1, <2>2 DEF MonitorInv, MonitorTypes, ReportsInv, Stale
    <3>2. SetupInv => SetupInv'
      BY <2>1, <2>2 DEF SetupInv, Stale
    <3>3. OpenInv => OpenInv'
      BY <2>1, <2>2 DEF OpenInv, InFlightInv, ReportAges, Leeway, Age, Held, Stale
    <3> QED
      BY <2>1, <3>1, <3>2, <3>3 DEF MonitorInv
  <2> QED
    BY <2>1, <2>2, ReportedInv
<1>3. CASE Usrp2!CycleUpdate
  BY <1>3, ReportedInv DEF Usrp2!CycleUpdate
<1>4. CASE \/ Usrp2!GetSendBuff \/ Usrp2!Commit \/ Usrp2!ClearMonitor \/ Usrp2!ClearRadio
           \/ Usrp2!Deliver \/ Usrp2!Deframe \/ Usrp2!LosePacket \/ Usrp2!LoseReport
  BY <1>4, SendInv, CommitInv, ClearMonitorInv, ClearRadioInv, DeliverInv, DeframeInv,
     LosePacketInv, LoseReportInv
<1> QED
  BY <1>1, <1>2, <1>3, <1>4 DEF FlowNext, Usrp2!Next

\* The radio's buffer takes what the monitor lets go, a window more for each report
\* that could have misled it: the frames in flight are younger than the last one read.
LEMMA MonitorInvKeepsWindow ==
    ASSUME MonitorInv
    PROVE  WindowKept
<1>1. ASSUME usrp2Pc = "open"
      PROVE  Len(usrp2Down) + Held <= Usrp2Window * (1 + usrp2Misled)
  <2>1. Held \in 0 .. 1
    BY DEF Held
  <2>2. PICK span \in 1 .. Usrp2SeqMod - 1 :
          /\ span + Leeway <= Usrp2Window * (1 + usrp2Misled) + 1
          /\ InFlightInv(span)
    BY <1>1 DEF MonitorInv, OpenInv
  <2>3. /\ Age(usrp2Seqnum) \in 1 .. span
        /\ Age(usrp2Seqnum) > Len(usrp2Down) + Held
    BY <2>2 DEF InFlightInv
  <2>4. /\ Len(usrp2Down) \in Nat /\ Usrp2Window * (1 + usrp2Misled) \in Nat
    BY MonitorNumbers, NumbersSuffice DEF MonitorInv, MonitorTypes, ReportsInv
  <2>5. Leeway \in Nat
    <3>1. usrp2Ack \in Number /\ usrp2Out \in Nat
      BY DEF MonitorInv, MonitorTypes
    <3> QED
      BY <3>1, AgeTyped, MonitorConstants DEF Leeway, Age
  <2> QED
    BY <2>1, <2>2, <2>3, <2>4, <2>5
<1> QED
  BY <1>1 DEF WindowKept, Usrp2!WindowKept, Usrp2!InFlight, Held

\* Over every change of streamers and whatever is lost, the frames in flight fit into
\* the radio's buffer, but for a window for each report about another streamer that
\* the present one heard: get_send_buff(), update_fc_condition() and clear().
THEOREM MonitorKeepsWindow == FlowSpec => []WindowKept
<1>1. FlowInit => MonitorInv
  BY MonitorInit DEF FlowInit
<1>2. MonitorInv /\ [FlowNext]_<<generation, vars, usrp2Vars>> => MonitorInv'
  BY MonitorStep
<1>3. MonitorInv => WindowKept
  BY MonitorInvKeepsWindow
<1> QED
  BY <1>1, <1>2, <1>3, PTL DEF FlowSpec
=============================================================================
