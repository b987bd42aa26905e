---------------------- MODULE RecvPacketHandler_proofs ----------------------
(***************************************************************************)
(* Proofs about RecvPacketHandler, for every value of its constants.       *)
(*                                                                         *)
(* The argument is about the ring of four slots.  While get_aligned_buffs  *)
(* runs, only the current slot holds frames and the two slots after it are *)
(* clean (AligningOK); outside of it, either the current slot holds an     *)
(* aligned set that is being consumed, or it is an error slot and the      *)
(* progress waits in the next one (HoldingOK).                             *)
(*                                                                         *)
(* For what the application is handed, the argument is about time: the     *)
(* instants in a slot that is aligned or saved, the packet each channel    *)
(* expects, and the instants at which the radios go on (SlotsInv, GapInv,  *)
(* TimeInv).                                                               *)
(***************************************************************************)
EXTENDS RecvPacketHandler, TLAPS

\* The channels already aligned hold a frame stamped with the alignment time.
SlotOK(s) ==
    s.left > 0 => \A c \in Chan \ s.todo : s.per[c].buff /\ s.per[c].time = s.atime

NoFrames(s) == \A c \in Chan : ~s.per[c].buff

AligningOK(S, i) ==
    /\ S \in [Slots -> Slot]
    /\ \A k \in Slots : SlotOK(S[k])
    /\ \A k \in Slots \ {i} : NoFrames(S[k])
    /\ S[Next4(i)].left = 0
    /\ S[Next4(Next4(i))].left = 0

HoldingOK(S, i) ==
    /\ S \in [Slots -> Slot]
    /\ \A k \in Slots : SlotOK(S[k])
    /\ \A k \in Slots \ {i, Next4(i)} : NoFrames(S[k])
    /\ NoFrames(S[i]) \/ NoFrames(S[Next4(i)])
    /\ S[Next4(Next4(i))].left = 0
    /\ S[i].left > 0 => /\ S[i].todo = {}
                        /\ \A c \in Chan : S[i].per[c].time = S[i].md.time_spec

IInv ==
    /\ TypeOK
    /\ clock.back <= clock.at
    /\ pc = "align" => AligningOK(slots, idx)
    /\ pc # "align" => HoldingOK(slots, idx)
    /\ pc \in {"idle", "fetch"} /\ Curr.left = 0 => NoFrames(Curr)
    /\ pc # "idle" => call.accum < call.want

-----------------------------------------------------------------------------
(* The operators.                                                          *)

LEMMA RingIndices ==
    ASSUME NEW i \in Slots
    PROVE  /\ Prev(i) \in Slots /\ Next4(i) \in Slots
           /\ Next4(i) # i /\ Prev(i) # i /\ Next4(i) # Prev(i)
           /\ Next4(Next4(i)) \in Slots
           /\ Next4(Next4(i)) \notin {i, Next4(i), Prev(i)}
           /\ Next4(Next4(Next4(i))) = Prev(i)
  BY DEF Slots, Prev, Next4

LEMMA BlankOK ==
    ASSUME NEW lens \in [Chan -> Nat]
    PROVE  /\ Blank(lens) \in Slot /\ SlotOK(Blank(lens)) /\ NoFrames(Blank(lens))
           /\ Blank(lens).left = 0
<1>1. CleanMetadata \in Metadata
  BY DEF CleanMetadata, Metadata, Codes
<1>2. Blank(lens).per \in [Chan -> PerBuffer]
  BY DEF Blank, PerBuffer
<1> QED
  BY <1>1, <1>2 DEF Blank, Slot, SlotOK, NoFrames

LEMMA ResetOK ==
    ASSUME NEW s \in Slot
    PROVE  /\ Reset(s) \in Slot /\ SlotOK(Reset(s)) /\ NoFrames(Reset(s))
           /\ Reset(s).left = 0
<1>1. [c \in Chan |-> s.per[c].len] \in [Chan -> Nat]
  BY DEF Slot, PerBuffer
<1> QED
  BY <1>1, BlankOK DEF Reset

\* What may arrive is well typed.
PacketOK(p) ==
    /\ p.kind \in {"data", "overflow", "late_command"}
    /\ p.seq \in 0 .. SeqMod - 1
    /\ p.at \in Nat
    /\ p.after \in Radio

LEMMA ArrivalsOK ==
    ASSUME TypeOK, NEW c \in Chan, NEW p \in Arrivals(c)
    PROVE  PacketOK(p)
<1> USE ConstantsAssumption
<1>1. /\ net[c] \in Radio /\ net[c].seq \in 0 .. SeqMod - 1 /\ net[c].at \in Nat
      /\ net[c].from \in Nat /\ net[c].up \in BOOLEAN /\ net[c].late \in BOOLEAN
  BY DEF TypeOK, Radio
<1>2. ASSUME NEW k \in Nat
      PROVE  k * Len \in Nat /\ (k + 1) * Len \in Nat
  OBVIOUS
<1>3. ASSUME NEW k \in Int
      PROVE  k % SeqMod \in 0 .. SeqMod - 1
  OBVIOUS
<1>4. CASE p \in DataArrivals(c)
  <2>1. PICK k \in 0 .. MaxLost :
          p = Arrival("data", (net[c].seq + k) % SeqMod, net[c].at + k * Len,
                [net[c] EXCEPT !.seq = (net[c].seq + k + 1) % SeqMod,
                               !.at = net[c].at + (k + 1) * Len, !.late = FALSE])
    BY <1>4 DEF DataArrivals
  <2>2. /\ (net[c].seq + k) % SeqMod \in 0 .. SeqMod - 1
        /\ (net[c].seq + k + 1) % SeqMod \in 0 .. SeqMod - 1
    BY <1>1, <1>3
  <2>3. net[c].at + k * Len \in Nat /\ net[c].at + (k + 1) * Len \in Nat
    BY <1>1, <1>2
  <2> QED
    BY <1>1, <2>1, <2>2, <2>3 DEF PacketOK, Arrival, Radio
<1>5. CASE p \in LateArrivals(c)
  <2>1. PICK k \in 1 .. MaxLate :
          /\ net[c].at - k * Len >= net[c].from
          /\ p = Arrival("data", (net[c].seq - k) % SeqMod, net[c].at - k * Len,
                         [net[c] EXCEPT !.late = TRUE])
    BY <1>5 DEF LateArrivals
  <2>2. (net[c].seq - k) % SeqMod \in 0 .. SeqMod - 1
    BY <1>1, <1>3
  <2>3. net[c].at - k * Len \in Nat
    BY <1>1, <1>2, <2>1
  <2> QED
    BY <1>1, <2>1, <2>2, <2>3 DEF PacketOK, Arrival, Radio
<1>6. CASE p \in MessageArrivals(c)
  <2>1. PICK k \in Messages :
          p = Arrival(k, 0, net[c].at, [net[c] EXCEPT !.up = k # "overflow"])
    BY <1>6 DEF MessageArrivals
  <2>2. k \in {"overflow", "late_command"} /\ 0 \in 0 .. SeqMod - 1
    OBVIOUS
  <2> QED
    BY <1>1, <2>1, <2>2 DEF PacketOK, Arrival, Radio
<1> QED
  BY <1>4, <1>5, <1>6 DEF Arrivals

LEMMA StampNat ==
    ASSUME TypeOK, clock.back <= clock.at, NEW t \in Nat
    PROVE  Stamp(t) \in Nat
  BY DEF TypeOK, Stamp

LEMMA WithPacketOK ==
    ASSUME TypeOK, clock.back <= clock.at, SlotOK(Curr),
           NEW c \in Curr.todo, NEW p, PacketOK(p)
    PROVE  LET s == WithPacket(c, p)
           IN  /\ s \in Slot /\ SlotOK(s) /\ s.todo = Curr.todo
               /\ s.per[c].buff
               /\ s.left = Curr.left /\ s.per[c].time = Stamp(p.at)
<1> DEFINE s == WithPacket(c, p)
<1>1. Curr \in Slot /\ c \in Chan
  BY DEF TypeOK, Curr, Slot
<1>2. Unpacked(p, Curr.per[c]) \in PerBuffer
  <2>1. Stamp(p.at) \in Nat
    BY StampNat DEF PacketOK
  <2>2. Items(p.kind) \in Nat
    BY ConstantsAssumption DEF Items
  <2> QED
    BY <2>1, <2>2 DEF Unpacked, PerBuffer, PacketOK
<1>3. s \in Slot
  BY <1>1, <1>2 DEF WithPacket, Slot
<1>4. \A d \in Chan : s.per[d] = IF d = c THEN Unpacked(p, Curr.per[c]) ELSE Curr.per[d]
  BY <1>1 DEF WithPacket, Slot
<1>5. s.todo = Curr.todo /\ s.left = Curr.left /\ s.atime = Curr.atime
  BY <1>1 DEF WithPacket, Slot
<1> QED
  BY <1>1, <1>3, <1>4, <1>5 DEF SlotOK, Unpacked

\* alignment_check() keeps the aligned channels at one time.
LEMMA AlignmentCheckOK ==
    ASSUME NEW s \in Slot, SlotOK(s), NEW c \in s.todo, s.per[c].buff
    PROVE  AlignmentCheck(c, s) \in Slot /\ SlotOK(AlignmentCheck(c, s))
<1>1. c \in Chan /\ s.per[c] \in PerBuffer
  BY DEF Slot
<1>2. CASE ~s.valid \/ s.per[c].time > s.atime
  BY <1>1, <1>2 DEF AlignmentCheck, SlotOK, Slot, PerBuffer
<1>3. CASE ~(~s.valid \/ s.per[c].time > s.atime) /\ s.per[c].time = s.atime
  BY <1>1, <1>3 DEF AlignmentCheck, SlotOK, Slot, PerBuffer
<1>4. CASE ~(~s.valid \/ s.per[c].time > s.atime) /\ s.per[c].time # s.atime
  BY <1>4 DEF AlignmentCheck
<1> QED
  BY <1>2, <1>3, <1>4

LEMMA CheckedOK ==
    ASSUME TypeOK, clock.back <= clock.at, SlotOK(Curr),
           NEW c \in Curr.todo, NEW p, PacketOK(p)
    PROVE  Checked(c, p) \in Slot /\ SlotOK(Checked(c, p))
<1> DEFINE s == WithPacket(c, p)
<1> DEFINE r == [s EXCEPT !.valid = FALSE]
<1>1. s \in Slot /\ SlotOK(s) /\ c \in s.todo /\ s.per[c].buff
  BY WithPacketOK
<1>2. r \in Slot /\ SlotOK(r) /\ c \in r.todo /\ r.per[c].buff
  BY <1>1 DEF Slot, SlotOK
<1>3. Checked(c, p) = AlignmentCheck(c, s) \/ Checked(c, p) = AlignmentCheck(c, r)
  BY DEF Checked
<1> HIDE DEF s, r
<1> QED
  BY <1>1, <1>2, <1>3, AlignmentCheckOK

\* An early return from the loop saves the progress in the next slot.
LEMMA GiveUpOK ==
    ASSUME idx \in Slots, AligningOK(slots, idx),
           NEW s \in Slot, SlotOK(s), NEW md \in Metadata
    PROVE  HoldingOK(GiveUp(s, md), idx) /\ GiveUp(s, md)[idx].left = 0
<1> DEFINE n == Next4(idx)
<1> DEFINE G == GiveUp(s, md)
<1>1. n \in Slots /\ n # idx
  BY RingIndices
<1>2. /\ G = [k \in Slots |-> IF k = idx THEN [slots[n] EXCEPT !.md = md]
                              ELSE IF k = n THEN s ELSE slots[k]]
  BY <1>1 DEF GiveUp, Swap, AligningOK
<1>3. slots[n] \in Slot /\ slots[n].left = 0 /\ NoFrames(slots[n])
  BY <1>1 DEF AligningOK
<1>4. /\ G[idx] \in Slot /\ G[idx].left = 0 /\ NoFrames(G[idx]) /\ SlotOK(G[idx])
  BY <1>2, <1>3 DEF Slot, NoFrames, SlotOK
<1>5. /\ Next4(n) \in Slots /\ Next4(n) \notin {idx, n}
  BY RingIndices
<1>6. G \in [Slots -> Slot]
  BY <1>2, <1>4 DEF AligningOK
<1>7. \A k \in Slots : SlotOK(G[k])
  BY <1>2, <1>4 DEF AligningOK
<1>8. \A k \in Slots \ {idx, n} : NoFrames(G[k])
  BY <1>2 DEF AligningOK
<1>9. G[Next4(n)].left = 0
  BY <1>2, <1>5 DEF AligningOK
<1>10. HoldingOK(G, idx)
  <2> HIDE DEF G
  <2> QED
    BY <1>4, <1>6, <1>7, <1>8, <1>9 DEF HoldingOK
<1> QED
  BY <1>4, <1>10

LEMMA SetMetadataOK ==
    ASSUME NEW i \in Slots, NEW S, HoldingOK(S, i), S[i].left = 0, NEW md \in Metadata
    PROVE  LET T == [S EXCEPT ![i].md = md] IN HoldingOK(T, i) /\ T[i].left = 0
<1> DEFINE T == [S EXCEPT ![i].md = md]
<1>1. S \in [Slots -> Slot] /\ S[i] \in Slot
  BY DEF HoldingOK
<1>2. /\ T[i] \in Slot /\ T[i].left = 0 /\ T[i].per = S[i].per /\ SlotOK(T[i])
  BY <1>1 DEF Slot, SlotOK
<1>3. \A k \in Slots \ {i} : T[k] = S[k]
  BY <1>1
<1>4. T \in [Slots -> Slot]
  BY <1>1, <1>2
<1>5. Next4(i) \in Slots /\ Next4(Next4(i)) \in Slots /\ Next4(i) # i /\ Next4(Next4(i)) # i
  BY RingIndices
<1>6. NoFrames(T[i]) <=> NoFrames(S[i])
  BY <1>2 DEF NoFrames
<1>7. HoldingOK(T, i)
  <2> HIDE DEF T
  <2> QED
    BY <1>2, <1>3, <1>4, <1>5, <1>6 DEF HoldingOK
<1> QED
  BY <1>2, <1>7

LEMMA AfterOverflowOK ==
    ASSUME idx \in Slots, NEW S, HoldingOK(S, idx), S[idx].left = 0
    PROVE  HoldingOK(AfterOverflow(S), idx) /\ AfterOverflow(S)[idx].left = 0
<1> DEFINE A == AfterOverflow(S)
<1>1. CASE Recovery # "flush"
  BY <1>1 DEF AfterOverflow
<1>2. CASE Recovery = "flush"
  <2>1. A = [i \in Slots |-> IF i \in {Prev(idx), idx, Next4(idx)} THEN Reset(S[i]) ELSE S[i]]
    BY <1>2 DEF AfterOverflow
  <2>2. \A i \in Slots : S[i] \in Slot
    BY DEF HoldingOK
  <2>3. \A i \in {Prev(idx), idx, Next4(idx)} :
          A[i] \in Slot /\ SlotOK(A[i]) /\ NoFrames(A[i]) /\ A[i].left = 0
    BY <2>1, <2>2, ResetOK, RingIndices
  <2>4. \A i \in Slots \ {Prev(idx), idx, Next4(idx)} : A[i] = S[i]
    BY <2>1
  <2>5. A \in [Slots -> Slot]
    BY <2>1, <2>2, <2>3, <2>4
  <2>6. \A i \in Slots : SlotOK(A[i])
    BY <2>3, <2>4 DEF HoldingOK
  <2>7. A[Next4(Next4(idx))].left = 0
    BY <2>4, RingIndices DEF HoldingOK
  <2>8. \A k \in Slots \ {idx, Next4(idx)} : NoFrames(A[k])
    BY <2>3, <2>4 DEF HoldingOK
  <2>9. HoldingOK(A, idx)
    <3> HIDE DEF A
    <3> QED
      BY <2>3, <2>5, <2>6, <2>7, <2>8 DEF HoldingOK
  <2> QED
    BY <2>3, <2>9
<1> QED
  BY <1>1, <1>2

LEMMA HandleOverflowOK ==
    ASSUME NEW c \in Chan, NEW n \in [Chan -> Radio], NEW e \in [Chan -> 0 .. SeqMod - 1],
           HandleOverflow(c, n, e)
    PROVE  net' \in [Chan -> Radio] /\ expected' \in [Chan -> 0 .. SeqMod - 1]
<1> USE ConstantsAssumption
<1>1. CASE RestartRadio(c, n, e)
  <2>1. CASE net' = n
    BY <1>1, <2>1 DEF RestartRadio
  <2>2. CASE net' # n
    <3>1. PICK g \in Gaps :
            net' = [n EXCEPT ![c] = [@ EXCEPT !.at = n[c].at + g, !.from = n[c].at + g,
                                              !.up = TRUE]]
      BY <1>1, <2>2 DEF RestartRadio
    <3>2. n[c].at + g \in Nat
      BY DEF Radio
    <3>3. [n[c] EXCEPT !.at = n[c].at + g, !.from = n[c].at + g, !.up = TRUE] \in Radio
      BY <3>2 DEF Radio
    <3>4. net' \in [Chan -> Radio]
      BY <3>1, <3>3
    <3> QED
      BY <1>1, <3>4 DEF RestartRadio
  <2> QED
    BY <2>1, <2>2
<1>2. CASE RestartAll(n, e)
  <2>1. PICK f \in [Chan -> 0 .. MaxDrain], g \in Gaps, last \in Chan :
          /\ \A d \in Chan : StopAt(n, f, d) <= StopAt(n, f, last)
          /\ net' = [d \in Chan |-> [seq |-> StopSeq(n, f, d),
                                     at |-> StopAt(n, f, last) + g,
                                     from |-> StopAt(n, f, last) + g,
                                     up |-> TRUE, late |-> FALSE]]
          /\ expected' = [d \in Chan |-> IF Recovery = "flush" /\ Drained(n, f, d) > 0
                                         THEN StopSeq(n, f, d) ELSE e[d]]
    BY <1>2 DEF RestartAll
  <2>2. \A d \in Chan : Drained(n, f, d) \in Nat
    BY DEF Drained
  <2>3. \A d \in Chan : StopAt(n, f, d) \in Nat
    <3> TAKE d \in Chan
    <3>1. Drained(n, f, d) * Len \in Nat
      BY <2>2
    <3>2. n[d].at \in Nat
      BY DEF Radio
    <3> QED
      BY <3>1, <3>2 DEF StopAt
  <2>4. \A d \in Chan : StopSeq(n, f, d) \in 0 .. SeqMod - 1
    <3> TAKE d \in Chan
    <3>1. n[d].seq + Drained(n, f, d) \in Int
      BY <2>2 DEF Radio
    <3> QED
      BY <3>1 DEF StopSeq
  <2>5. StopAt(n, f, last) + g \in Nat
    BY <2>3
  <2> QED
    BY <2>1, <2>4, <2>5 DEF Radio
<1> QED
  BY <1>1, <1>2 DEF HandleOverflow

-----------------------------------------------------------------------------
(* The inductive invariant.                                                *)

LEMMA InitIInv == Init => IInv
<1> SUFFICES ASSUME Init PROVE IInv
  OBVIOUS
<1> USE ConstantsAssumption DEF Init
<1>1. [c \in Chan |-> 0] \in [Chan -> Nat]
  OBVIOUS
<1>2. \A i \in Slots : /\ slots[i] \in Slot /\ SlotOK(slots[i]) /\ NoFrames(slots[i])
                       /\ slots[i].left = 0
  BY <1>1, BlankOK
<1>3. slots \in [Slots -> Slot] /\ idx \in Slots
  BY <1>2 DEF Slots
<1>4. net \in [Chan -> Radio]
  <2>1. PICK start \in [Chan -> StartAt] :
          net = [c \in Chan |-> [seq |-> 0, at |-> start[c], from |-> start[c],
                                 up |-> TRUE, late |-> FALSE]]
    OBVIOUS
  <2>2. \A c \in Chan : start[c] \in Nat
    OBVIOUS
  <2> QED
    BY <2>1, <2>2 DEF Radio
<1>5. call \in Call /\ ret \in Return
  BY DEF NoCall, NoReturn, Call, Return, CleanMetadata, Metadata, Codes
<1>6. TypeOK
  BY <1>3, <1>4, <1>5 DEF TypeOK
<1>7. HoldingOK(slots, idx)
  BY <1>2, <1>3, RingIndices DEF HoldingOK
<1> QED
  BY <1>2, <1>3, <1>6, <1>7 DEF IInv, Curr

\* One iteration of the loop in get_aligned_buffs.
LEMMA AlignStepIInv ==
    ASSUME IInv, NEW c \in Chan, AlignStep(c)
    PROVE  IInv'
<1> USE ConstantsAssumption
<1>1. /\ TypeOK /\ pc = "align" /\ c \in Curr.todo /\ clock.back <= clock.at
      /\ call.accum < call.want
  BY DEF AlignStep, AlignData, AlignmentFailure, InlineMessage, SequenceError,
         Timeout, BadPacket, NextTodo, IInv
<1>2. AligningOK(slots, idx) /\ idx \in Slots /\ Curr \in Slot /\ SlotOK(Curr)
  BY <1>1 DEF IInv, AligningOK, TypeOK, Curr
<1>3. ASSUME NEW p, PacketOK(p)
      PROVE  /\ [net EXCEPT ![c] = p.after] \in [Chan -> Radio]
             /\ Counted(c, p) \in [Chan -> 0 .. SeqMod - 1]
  <2>1. (p.seq + 1) % SeqMod \in 0 .. SeqMod - 1
    BY <1>3 DEF PacketOK
  <2> QED
    BY <1>1, <1>3, <2>1 DEF TypeOK, PacketOK, Counted
\* An early return with some progress s and some metadata.
<1>4. ASSUME pc' = "copy", HoldingOK(slots', idx),
             UNCHANGED <<clock, idx, queue, call, ret, app>>, iters' \in Nat,
             net' \in [Chan -> Radio], expected' \in [Chan -> 0 .. SeqMod - 1]
      PROVE  IInv'
  <2>1. slots' \in [Slots -> Slot]
    BY <1>4 DEF HoldingOK
  <2>2. TypeOK'
    BY <1>1, <1>4, <2>1 DEF TypeOK
  <2>3. HoldingOK(slots', idx')
    BY <1>4
  <2> QED
    BY <1>1, <1>4, <2>2, <2>3 DEF IInv
<1>5. ASSUME NEW code \in Codes
      PROVE  Error(code) \in Metadata
  <2>1. slots[Next4(idx)].md \in Metadata
    BY <1>1, <1>2, RingIndices DEF TypeOK, Slot
  <2> QED
    BY <2>1, <1>5 DEF Error, Metadata
<1>6. CASE AlignData(c)
  <2>1. PICK p \in Arrivals(c) :
          /\ net' = [net EXCEPT ![c] = p.after]
          /\ expected' = Counted(c, p)
          /\ slots' = [slots EXCEPT ![idx] = Checked(c, p)]
    BY <1>6 DEF AlignData
  <2>2. PacketOK(p)
    BY <1>1, ArrivalsOK
  <2>3. Checked(c, p) \in Slot /\ SlotOK(Checked(c, p))
    BY <1>1, <1>2, <2>2, CheckedOK
  <2>4. slots' \in [Slots -> Slot] /\ \A k \in Slots : SlotOK(slots'[k])
    BY <1>2, <2>1, <2>3 DEF AligningOK
  <2>5. AligningOK(slots', idx)
    BY <1>2, <2>1, <2>4, RingIndices DEF AligningOK
  <2>6. UNCHANGED <<clock, idx, queue, pc, call, ret, app>> /\ iters' \in Nat
    BY <1>1, <1>6 DEF AlignData, TypeOK
  <2>7. TypeOK'
    BY <1>1, <1>3, <2>1, <2>2, <2>4, <2>6 DEF TypeOK
  <2> QED
    BY <1>1, <2>5, <2>6, <2>7 DEF IInv
<1>7. CASE AlignmentFailure(c)
  <2>1. PICK p \in Arrivals(c) :
          /\ HandleOverflow(c, [net EXCEPT ![c] = p.after], Counted(c, p))
          /\ slots' = AfterOverflow(GiveUp(Checked(c, p), Error("ALIGNMENT")))
    BY <1>7 DEF AlignmentFailure
  <2>2. PacketOK(p)
    BY <1>1, ArrivalsOK
  <2>3. Checked(c, p) \in Slot /\ SlotOK(Checked(c, p))
    BY <1>1, <1>2, <2>2, CheckedOK
  <2>4. Error("ALIGNMENT") \in Metadata
    BY <1>5 DEF Codes
  <2>5. HoldingOK(slots', idx)
    BY <1>2, <2>1, <2>3, <2>4, GiveUpOK, AfterOverflowOK
  <2>6. net' \in [Chan -> Radio] /\ expected' \in [Chan -> 0 .. SeqMod - 1]
    BY <1>3, <2>1, <2>2, HandleOverflowOK
  <2>7. pc' = "copy" /\ UNCHANGED <<clock, idx, queue, call, ret, app>> /\ iters' \in Nat
    BY <1>1, <1>7 DEF AlignmentFailure, TypeOK
  <2> QED
    BY <1>4, <2>5, <2>6, <2>7
<1>8. CASE InlineMessage(c)
  <2>1. PICK p \in Arrivals(c) :
          LET n == [net EXCEPT ![c] = p.after]
              md == MessageMetadata(c, p)
              S == GiveUp(WithPacket(c, p), md)
          IN \/ /\ HandleOverflow(c, n, expected)
                /\ slots' = [AfterOverflow(S) EXCEPT ![idx].md = md]
             \/ /\ net' = n
                /\ slots' = S
                /\ UNCHANGED expected
    BY <1>8 DEF InlineMessage
  <2>2. PacketOK(p)
    BY <1>1, ArrivalsOK
  <2> DEFINE md == MessageMetadata(c, p)
  <2> DEFINE S == GiveUp(WithPacket(c, p), md)
  <2>3. WithPacket(c, p) \in Slot /\ SlotOK(WithPacket(c, p))
    BY <1>1, <1>2, <2>2, WithPacketOK
  <2>4. md \in Metadata
    <3>1. Stamp(p.at) \in Nat
      BY <1>1, <2>2, StampNat DEF PacketOK
    <3>2. Error("OVERFLOW") \in Metadata /\ Error("LATE_COMMAND") \in Metadata
      BY <1>5 DEF Codes
    <3> QED
      BY <3>1, <3>2 DEF MessageMetadata, Metadata
  <2> HIDE DEF md
  <2>5. HoldingOK(S, idx) /\ S[idx].left = 0
    BY <1>2, <2>3, <2>4, GiveUpOK
  <2> HIDE DEF S
  <2>6. HoldingOK(AfterOverflow(S), idx) /\ AfterOverflow(S)[idx].left = 0
    BY <1>2, <2>5, AfterOverflowOK
  <2>7. HoldingOK([AfterOverflow(S) EXCEPT ![idx].md = md], idx)
    BY <1>2, <2>4, <2>6, SetMetadataOK
  <2>8. \/ /\ HandleOverflow(c, [net EXCEPT ![c] = p.after], expected)
           /\ slots' = [AfterOverflow(S) EXCEPT ![idx].md = md]
        \/ /\ net' = [net EXCEPT ![c] = p.after]
           /\ slots' = S
           /\ UNCHANGED expected
    BY <2>1 DEF S, md
  <2>9. HoldingOK(slots', idx)
    BY <2>5, <2>7, <2>8
  <2>10. expected \in [Chan -> 0 .. SeqMod - 1]
    BY <1>1 DEF TypeOK
  <2>11. net' \in [Chan -> Radio] /\ expected' \in [Chan -> 0 .. SeqMod - 1]
    BY <1>3, <2>2, <2>8, <2>10, HandleOverflowOK
  <2>12. pc' = "copy" /\ UNCHANGED <<clock, idx, queue, call, ret, app>> /\ iters' \in Nat
    BY <1>1, <1>8 DEF InlineMessage, TypeOK
  <2> QED
    BY <1>4, <2>9, <2>11, <2>12
<1>9. CASE SequenceError(c)
  <2>1. PICK p \in Arrivals(c) :
          /\ net' = [net EXCEPT ![c] = p.after]
          /\ expected' = Counted(c, p)
          /\ slots' = GiveUp(AlignmentCheck(c, WithPacket(c, p)), SequenceMetadata(c))
    BY <1>9 DEF SequenceError
  <2>2. PacketOK(p)
    BY <1>1, ArrivalsOK
  <2>3. LET s == AlignmentCheck(c, WithPacket(c, p)) IN s \in Slot /\ SlotOK(s)
    BY <1>1, <1>2, <2>2, WithPacketOK, AlignmentCheckOK
  <2>4. SequenceMetadata(c) \in Metadata
    <3>1. slots[Prev(idx)] \in Slot
      BY <1>1, <1>2, RingIndices DEF TypeOK
    <3>2. /\ slots[Prev(idx)].md.has_time_spec \in BOOLEAN
          /\ slots[Prev(idx)].md.time_spec + slots[Prev(idx)].per[c].len \in Nat
      BY <3>1 DEF Slot, Metadata, PerBuffer
    <3>3. Error("OVERFLOW") \in Metadata
      BY <1>5 DEF Codes
    <3> QED
      BY <3>2, <3>3 DEF SequenceMetadata, Metadata
  <2>5. HoldingOK(slots', idx)
    BY <1>2, <2>1, <2>3, <2>4, GiveUpOK
  <2>6. pc' = "copy" /\ UNCHANGED <<clock, idx, queue, call, ret, app>> /\ iters' \in Nat
    BY <1>1, <1>9 DEF SequenceError, TypeOK
  <2> QED
    BY <1>3, <1>4, <2>1, <2>2, <2>5, <2>6
\* Neither a timeout nor a packet that throws touches an aligned channel.
<1>10. ASSUME NEW b \in BOOLEAN
       PROVE  LET s == [Curr EXCEPT !.per[c].buff = b] IN s \in Slot /\ SlotOK(s)
  <2> DEFINE s == [Curr EXCEPT !.per[c].buff = b]
  <2>1. s \in Slot
    BY <1>2 DEF Slot, PerBuffer
  <2>2. /\ s.left = Curr.left /\ s.todo = Curr.todo /\ s.atime = Curr.atime
        /\ \A d \in Chan \ {c} : s.per[d] = Curr.per[d]
    BY <1>2 DEF Slot
  <2> HIDE DEF s
  <2>3. SlotOK(s)
    BY <1>1, <1>2, <2>2 DEF SlotOK
  <2> QED
    BY <2>1, <2>3 DEF s
<1>11. CASE Timeout(c)
  <2>1. slots' = GiveUp([Curr EXCEPT !.per[c].buff = FALSE], Error("TIMEOUT"))
    BY <1>11 DEF Timeout
  <2>2. HoldingOK(slots', idx)
    BY <1>2, <1>5, <1>10, <2>1, GiveUpOK DEF Codes
  <2>3. /\ pc' = "copy" /\ UNCHANGED <<clock, idx, queue, call, ret, app>> /\ iters' \in Nat
        /\ net' \in [Chan -> Radio] /\ expected' \in [Chan -> 0 .. SeqMod - 1]
    BY <1>1, <1>11 DEF Timeout, TypeOK
  <2> QED
    BY <1>4, <2>2, <2>3
<1>12. CASE BadPacket(c)
  <2>1. PICK p \in Arrivals(c), parsed \in BOOLEAN :
          /\ net' = [net EXCEPT ![c] = p.after]
          /\ slots' = GiveUp(IF parsed THEN WithPacket(c, p)
                             ELSE [Curr EXCEPT !.per[c].buff = TRUE], Error("BAD_PACKET"))
    BY <1>12 DEF BadPacket
  <2>2. PacketOK(p)
    BY <1>1, ArrivalsOK
  <2>3. WithPacket(c, p) \in Slot /\ SlotOK(WithPacket(c, p))
    BY <1>1, <1>2, <2>2, WithPacketOK
  <2>4. HoldingOK(slots', idx)
    BY <1>2, <1>5, <1>10, <2>1, <2>3, GiveUpOK DEF Codes
  <2>5. /\ pc' = "copy" /\ UNCHANGED <<clock, idx, queue, call, ret, app>> /\ iters' \in Nat
        /\ expected' \in [Chan -> 0 .. SeqMod - 1]
    BY <1>1, <1>12 DEF BadPacket, TypeOK
  <2> QED
    BY <1>3, <1>4, <2>1, <2>2, <2>4, <2>5
<1> QED
  BY <1>6, <1>7, <1>8, <1>9, <1>11, <1>12 DEF AlignStep

\* Copying items keeps the frames as long as items are left, and only so long.
LEMMA AfterCopyOK ==
    ASSUME NEW s \in Slot, SlotOK(s), NEW items \in Nat, items <= s.left, NEW samples \in Nat
    PROVE  LET t == AfterCopy(s, items, samples)
           IN  /\ t \in Slot /\ SlotOK(t)
               /\ NoFrames(s) => NoFrames(t)
               /\ t.left = 0 => NoFrames(t)
               /\ t.left > 0 => s.left > 0
               /\ t.todo = s.todo /\ t.md = s.md
               /\ \A c \in Chan : t.per[c].time = s.per[c].time
<1> DEFINE t == AfterCopy(s, items, samples)
<1>1. \A c \in Chan : s.per[c] \in PerBuffer
  BY DEF Slot
<1>2. \A c \in Chan :
        t.per[c] = [s.per[c] EXCEPT !.at = @ + samples,
                                    !.buff = IF s.left = items THEN FALSE ELSE @]
  BY DEF AfterCopy, Slot
<1>3. /\ t.left = s.left - items /\ t.frag = s.frag + items
      /\ t.todo = s.todo /\ t.atime = s.atime /\ t.md = s.md /\ t.valid = s.valid
  BY DEF AfterCopy, Slot
<1>4. ASSUME NEW c \in Chan
      PROVE  /\ t.per[c] \in PerBuffer
             /\ t.per[c].time = s.per[c].time
             /\ s.left = items => ~t.per[c].buff
             /\ s.left # items => (t.per[c].buff <=> s.per[c].buff)
  <2> HIDE DEF t
  <2>1. s.per[c] \in PerBuffer
    BY <1>1
  <2>2. CASE s.left = items
    <3>1. t.per[c] = [s.per[c] EXCEPT !.at = s.per[c].at + samples, !.buff = FALSE]
      BY <1>2, <2>2
    <3>2. s.per[c].at + samples \in Nat
      BY <2>1 DEF PerBuffer
    <3>3. t.per[c] \in PerBuffer
      BY <2>1, <3>1, <3>2 DEF PerBuffer
    <3>4. t.per[c].time = s.per[c].time /\ t.per[c].buff = FALSE
      BY <2>1, <3>1 DEF PerBuffer
    <3> QED
      BY <2>2, <3>3, <3>4
  <2>3. CASE s.left # items
    <3>1. t.per[c] = [s.per[c] EXCEPT !.at = s.per[c].at + samples, !.buff = s.per[c].buff]
      BY <1>2, <2>3
    <3>2. s.per[c].at + samples \in Nat
      BY <2>1 DEF PerBuffer
    <3>3. t.per[c] \in PerBuffer
      BY <2>1, <3>1, <3>2 DEF PerBuffer
    <3>4. t.per[c].time = s.per[c].time /\ t.per[c].buff = s.per[c].buff
      BY <2>1, <3>1 DEF PerBuffer
    <3> QED
      BY <2>3, <3>3, <3>4
  <2> QED
    BY <2>2, <2>3
<1>5. s.left \in Nat /\ s.frag \in Nat
  BY DEF Slot
<1>6. t.per \in [Chan -> PerBuffer]
  BY <1>4 DEF AfterCopy, Slot
<1>7. t \in Slot
  <2>1. t = [s EXCEPT !.left = s.left - items, !.frag = s.frag + items, !.per = t.per]
    BY DEF AfterCopy, Slot
  <2>2. s.left - items \in Nat /\ s.frag + items \in Nat
    BY <1>5
  <2> HIDE DEF t
  <2> QED
    BY <1>6, <2>1, <2>2 DEF Slot
<1> HIDE DEF t
<1>8. SlotOK(t)
  BY <1>3, <1>4, <1>5 DEF SlotOK
<1>9. NoFrames(s) => NoFrames(t)
  BY <1>4 DEF NoFrames
<1>10. t.left = 0 => NoFrames(t)
  BY <1>3, <1>4, <1>5 DEF NoFrames
<1> QED
  BY <1>3, <1>4, <1>5, <1>7, <1>8, <1>9, <1>10 DEF t

\* The tail of recv_one_packet and what recv makes of it.
LEMMA CopyIInv ==
    ASSUME IInv, Copy
    PROVE  IInv'
<1> USE ConstantsAssumption
<1> DEFINE items == ItemsToCopy
<1> DEFINE samples == SamplesToCopy
<1> DEFINE s == AfterCopy(Curr, items, samples)
<1>1. /\ TypeOK /\ pc = "copy" /\ HoldingOK(slots, idx) /\ idx \in Slots
      /\ call.accum < call.want /\ clock.back <= clock.at
      /\ slots' = [slots EXCEPT ![idx] = s]
      /\ UNCHANGED <<net, clock, expected, idx, iters>>
  BY DEF Copy, IInv, TypeOK, Curr
<1>2. Curr \in Slot /\ Curr.left \in Nat /\ SlotOK(Curr)
  BY <1>1 DEF TypeOK, HoldingOK, Curr, Slot
<1>3. items \in Nat /\ items <= Curr.left
  <2>1. call.want - call.accum \in Nat
    BY <1>1 DEF TypeOK, Call
  <2>2. (call.want - call.accum) * NumOutputs \in Nat
    BY <2>1
  <2> QED
    BY <1>2, <2>2 DEF ItemsToCopy
<1>4. samples \in Nat
  BY <1>3 DEF SamplesToCopy
<1> HIDE DEF items, samples
<1>5. s \in Slot /\ SlotOK(s)
  BY <1>2, <1>3, <1>4, AfterCopyOK
<1>6. /\ NoFrames(Curr) => NoFrames(s)
      /\ s.left = 0 => NoFrames(s)
      /\ s.left > 0 => /\ s.todo = {}
                       /\ \A c \in Chan : s.per[c].time = s.md.time_spec
  <2>1. Curr.left > 0 => /\ Curr.todo = {}
                         /\ \A c \in Chan : Curr.per[c].time = Curr.md.time_spec
    BY <1>1 DEF HoldingOK, Curr
  <2>2. s.left > 0 => Curr.left > 0
    BY <1>2, <1>3, <1>4, AfterCopyOK
  <2> QED
    BY <1>2, <1>3, <1>4, <2>1, <2>2, AfterCopyOK
<1> HIDE DEF s
<1>7. /\ slots' \in [Slots -> Slot] /\ slots'[idx] = s
      /\ \A k \in Slots \ {idx} : slots'[k] = slots[k]
  BY <1>1, <1>5 DEF TypeOK
<1>8. HoldingOK(slots', idx)
  BY <1>1, <1>5, <1>6, <1>7, RingIndices DEF HoldingOK, Curr
<1>9. FragmentMetadata \in Metadata
  <2>1. Curr.md \in Metadata /\ Curr.frag \in Nat
    BY <1>2 DEF Slot
  <2>2. Curr.md.time_spec + Curr.frag \in Nat /\ (Curr.left # ItemsToCopy) \in BOOLEAN
    BY <2>1 DEF Metadata
  <2> QED
    BY <2>1, <2>2 DEF FragmentMetadata, Metadata
<1> DEFINE h == IF samples > 0
                THEN [next |-> [c \in Chan |-> Curr.per[c].at + samples], told |-> FALSE]
                ELSE app
<1> DEFINE from == IF call.accum = 0 THEN [c \in Chan |-> Curr.per[c].at] ELSE call.from
<1> DEFINE accum == call.accum + samples
<1> DEFINE now == [call EXCEPT !.accum = accum, !.from = from, !.first = FALSE,
                               !.md = IF call.first THEN FragmentMetadata ELSE call.md]
<1>10. \A c \in Chan : Curr.per[c].at \in Nat
  BY <1>2 DEF Slot, PerBuffer
<1>11. /\ h \in [next : [Chan -> Nat], told : BOOLEAN]
       /\ from \in [Chan -> Nat] /\ accum \in Nat /\ now \in Call
       /\ now.accum = accum /\ now.want = call.want /\ now.md \in Metadata
       /\ call.md \in Metadata /\ call.from \in [Chan -> Nat]
  <2>1. call \in Call /\ app \in [next : [Chan -> Nat], told : BOOLEAN]
    BY <1>1 DEF TypeOK
  <2>2. h \in [next : [Chan -> Nat], told : BOOLEAN]
    BY <1>4, <1>10, <2>1
  <2>3. from \in [Chan -> Nat] /\ accum \in Nat
    BY <1>4, <1>10, <2>1 DEF Call
  <2>4. (IF call.first THEN FragmentMetadata ELSE call.md) \in Metadata
    BY <1>9, <2>1 DEF Call
  <2> HIDE DEF h, from, accum
  <2>5. /\ now \in Call /\ now.accum = accum /\ now.want = call.want
        /\ now.md \in Metadata
    BY <2>1, <2>3, <2>4 DEF Call
  <2> QED
    BY <2>1, <2>2, <2>3, <2>5 DEF Call
<1>12. \/ /\ pc' = "idle" /\ call' = NoCall
          /\ queue' \in {queue, {FragmentMetadata}}
          /\ \E n \in {accum}, md \in {FragmentMetadata, call.md, now.md},
                f \in {from, call.from} :
               ret' = [n |-> n, md |-> md, from |-> f]
          /\ \E t \in BOOLEAN : app' = [h EXCEPT !.told = t]
       \/ /\ pc' = "fetch" /\ call' = now /\ accum < call.want /\ app' = h
          /\ UNCHANGED <<queue, ret>>
  BY DEF Copy, ReturnFromRecv, samples
<1> HIDE DEF h, from, accum, now
<1>13. NoCall \in Call
  BY DEF NoCall, Call, CleanMetadata, Metadata, Codes
<1>14. TypeOK'
  <2>1. CASE pc' = "idle"
    <3>1. queue' \in SUBSET Metadata
      BY <1>1, <1>9, <1>12, <2>1 DEF TypeOK
    <3>2. ret' \in Return
      BY <1>9, <1>11, <1>12, <2>1 DEF Return
    <3>3. app' \in [next : [Chan -> Nat], told : BOOLEAN]
      BY <1>11, <1>12, <2>1
    <3> QED
      BY <1>1, <1>7, <1>12, <1>13, <2>1, <3>1, <3>2, <3>3 DEF TypeOK
  <2>2. CASE pc' = "fetch"
    BY <1>1, <1>7, <1>11, <1>12, <2>2 DEF TypeOK
  <2> QED
    BY <1>12, <2>1, <2>2
<1>15. pc' # "idle" => call'.accum < call'.want
  BY <1>11, <1>12
<1>16. Curr'.left = 0 => NoFrames(Curr')
  BY <1>1, <1>5, <1>6, <1>7 DEF Curr
<1> QED
  BY <1>1, <1>8, <1>12, <1>14, <1>15, <1>16 DEF IInv

LEMMA StepIInv ==
    ASSUME IInv, [Next]_vars
    PROVE  IInv'
<1> USE ConstantsAssumption
<1>1. CASE UNCHANGED vars
  <2>1. UNCHANGED <<net, clock, expected, slots, idx, iters, queue, pc, call, ret, app>>
    BY <1>1 DEF vars
  <2>2. TypeOK' /\ Curr' = Curr
    BY <2>1 DEF IInv, TypeOK, Curr
  <2>3. HoldingOK(slots, idx)' = HoldingOK(slots, idx)
    BY <2>1
  <2>4. AligningOK(slots, idx)' = AligningOK(slots, idx)
    BY <2>1
  <2> QED
    BY <2>1, <2>2, <2>3, <2>4 DEF IInv
<1>2. ASSUME NEW c \in Chan, AlignStep(c)
      PROVE  IInv'
  BY <1>2, AlignStepIInv
<1>3. CASE Aligned
  <2> DEFINE md == [Curr.md EXCEPT !.code = "NONE",
                                   !.has_time_spec = TRUE,
                                   !.time_spec = Curr.per[0].time,
                                   !.more_fragments = FALSE,
                                   !.fragment_offset = 0]
  <2>1. /\ AligningOK(slots, idx) /\ TypeOK /\ Curr.todo = {} /\ idx \in Slots
        /\ slots' = [slots EXCEPT ![idx].md = md] /\ pc' = "copy"
        /\ UNCHANGED <<net, clock, expected, idx, iters, queue, call, ret, app>>
    BY <1>3 DEF Aligned, IInv, TypeOK
  <2>2. Curr \in Slot /\ 0 \in Chan
    BY <2>1 DEF TypeOK, Curr, Chan
  <2>3. md \in Metadata /\ md.time_spec = Curr.per[0].time
    BY <2>2 DEF Metadata, Codes, Slot, PerBuffer
  <2> HIDE DEF md
  <2>4. /\ slots'[idx] \in Slot /\ slots'[idx].per = Curr.per /\ slots'[idx].md = md
        /\ slots'[idx].todo = {} /\ slots'[idx].left = Curr.left
        /\ slots'[idx].atime = Curr.atime
    BY <2>1, <2>2, <2>3 DEF TypeOK, Curr, Slot
  <2>5. \A k \in Slots \ {idx} : slots'[k] = slots[k]
    BY <2>1 DEF TypeOK
  <2>6. slots' \in [Slots -> Slot]
    BY <2>1, <2>4, <2>5 DEF TypeOK
  <2>7. SlotOK(slots[idx]) /\ SlotOK(slots'[idx])
    BY <2>1, <2>4 DEF AligningOK, SlotOK, Curr
  <2>8. slots'[idx].left > 0 => \A c \in Chan : slots'[idx].per[c].time = slots'[idx].md.time_spec
    BY <2>1, <2>2, <2>3, <2>4, <2>7 DEF SlotOK
  <2>9. HoldingOK(slots', idx)
    BY <2>1, <2>4, <2>5, <2>6, <2>7, <2>8, RingIndices DEF AligningOK, HoldingOK
  <2>10. TypeOK'
    BY <2>1, <2>6 DEF TypeOK
  <2>11. pc = "align" /\ idx' = idx
    BY <1>3, <2>1 DEF Aligned
  <2> QED
    BY <2>1, <2>9, <2>10, <2>11 DEF IInv
<1>4. CASE UseFragment
  <2>1. /\ pc = "fetch" /\ pc' = "copy"
        /\ UNCHANGED <<net, clock, expected, slots, idx, iters, queue, call, ret, app>>
    BY <1>4 DEF UseFragment
  <2>2. TypeOK'
    BY <2>1 DEF IInv, TypeOK
  <2> QED
    BY <2>1, <2>2 DEF IInv
<1>5. CASE NextBuffers
  <2>1. /\ TypeOK /\ idx \in Slots /\ HoldingOK(slots, idx) /\ NoFrames(Curr) /\ Curr.left = 0
        /\ slots' = [slots EXCEPT ![Prev(idx)] = Reset(slots[Prev(idx)])]
        /\ idx' = Next4(idx) /\ iters' = 0 /\ pc' = "align"
        /\ UNCHANGED <<net, clock, expected, queue, call, ret, app>>
    BY <1>5 DEF NextBuffers, IInv, TypeOK
  <2>2. /\ slots'[Prev(idx)] = Reset(slots[Prev(idx)])
        /\ \A k \in Slots \ {Prev(idx)} : slots'[k] = slots[k]
        /\ slots[Prev(idx)] \in Slot
    BY <2>1, RingIndices DEF TypeOK
  <2>3. /\ slots'[Prev(idx)] \in Slot /\ SlotOK(slots'[Prev(idx)])
        /\ NoFrames(slots'[Prev(idx)]) /\ slots'[Prev(idx)].left = 0
    BY <2>2, ResetOK
  <2>4. slots' \in [Slots -> Slot] /\ \A k \in Slots : SlotOK(slots'[k])
    BY <2>1, <2>2, <2>3, RingIndices DEF HoldingOK
  <2>5. AligningOK(slots', idx')
    <3>1. \A k \in Slots \ {Next4(idx)} : NoFrames(slots'[k])
      BY <2>1, <2>2, <2>3 DEF HoldingOK, Curr
    <3>2. slots'[Next4(Next4(idx))].left = 0 /\ slots'[Next4(Next4(Next4(idx)))].left = 0
      BY <2>1, <2>2, <2>3, RingIndices DEF HoldingOK
    <3> QED
      BY <2>1, <2>4, <3>1, <3>2 DEF AligningOK
  <2>6. TypeOK'
    BY <2>1, <2>4, RingIndices DEF TypeOK
  <2>7. pc # "idle"
    BY <1>5 DEF NextBuffers
  <2> QED
    BY <2>1, <2>5, <2>6, <2>7 DEF IInv
<1>6. CASE Copy
  BY <1>6, CopyIInv
<1>7. CASE RecvQueuedError
  <2>1. PICK md \in queue :
          /\ pc = "idle" /\ pc' = "idle" /\ queue' = {} /\ call' = NoCall
          /\ ret' = [n |-> 0, md |-> md, from |-> NoReturn.from]
          /\ app' = [app EXCEPT !.told = @ \/ md.code \in LossCodes]
          /\ UNCHANGED <<net, clock, expected, slots, idx, iters>>
    BY <1>7 DEF RecvQueuedError, ReturnFromRecv
  <2>2. ret' \in Return /\ call' \in Call
    BY <2>1 DEF IInv, TypeOK, Return, NoReturn, NoCall, Call, CleanMetadata, Metadata, Codes
  <2>3. app' \in [next : [Chan -> Nat], told : BOOLEAN]
    BY <2>1 DEF IInv, TypeOK
  <2>4. TypeOK'
    BY <2>1, <2>2, <2>3 DEF IInv, TypeOK
  <2>5. Curr' = Curr
    BY <2>1 DEF Curr
  <2> QED
    BY <2>1, <2>4, <2>5 DEF IInv
<1>8. ASSUME NEW want \in Wants, NEW one \in BOOLEAN, RecvCall(want, one)
      PROVE  IInv'
  <2>1. /\ pc = "idle" /\ pc' = "fetch" /\ queue' = {} /\ ret' = NoReturn
        /\ call' = [NoCall EXCEPT !.want = want, !.one = one]
        /\ UNCHANGED <<net, clock, expected, slots, idx, iters, app>>
    BY <1>8 DEF RecvCall
  <2>2. ret' \in Return
    BY <2>1 DEF Return, NoReturn, CleanMetadata, Metadata, Codes
  <2>3. NoCall \in Call /\ NoCall.accum = 0
    BY DEF NoCall, Call, CleanMetadata, Metadata, Codes
  <2>4. want \in Nat /\ want > 0
    OBVIOUS
  <2>5. call' \in Call /\ call'.accum < call'.want
    BY <2>1, <2>3, <2>4 DEF Call
  <2>6. TypeOK'
    BY <2>1, <2>2, <2>5 DEF IInv, TypeOK
  <2>7. Curr' = Curr
    BY <2>1 DEF Curr
  <2> QED
    BY <2>1, <2>5, <2>6, <2>7 DEF IInv
<1>9. CASE SetDeviceTime
  <2>1. PICK c \in Chan : /\ net[c].at >= SetBack
                          /\ clock' = [at |-> net[c].at, back |-> SetBack]
    BY <1>9 DEF SetDeviceTime
  <2>2. UNCHANGED <<net, expected, slots, idx, iters, queue, pc, call, ret, app>>
    BY <1>9 DEF SetDeviceTime, rxvars
  <2>3. clock' \in [at : Nat, back : Nat] /\ clock'.back <= clock'.at
    BY <2>1 DEF IInv, TypeOK, Radio
  <2>4. TypeOK'
    BY <2>2, <2>3 DEF IInv, TypeOK
  <2>5. Curr' = Curr
    BY <2>2 DEF Curr
  <2> QED
    BY <2>2, <2>3, <2>4, <2>5 DEF IInv
<1> QED
  BY <1>1, <1>2, <1>3, <1>4, <1>5, <1>6, <1>7, <1>8, <1>9 DEF Next, RecvStep

-----------------------------------------------------------------------------
(* The theorems.                                                           *)

\* The inductive invariant holds: the slots are rotated, swapped and reset so
\* that the loop of get_aligned_buffs always starts from clean slots.
THEOREM Invariant == Spec => []IInv
  BY InitIInv, StepIInv, PTL DEF Spec

\* Every variable keeps its type; in particular no time, count or sequence
\* number leaves its range, whatever the network does.
THEOREM TypeCorrect == Spec => []TypeOK
<1>1. IInv => TypeOK
  BY DEF IInv
<1> QED
  BY <1>1, Invariant, PTL

\* While samples are left to copy, all channels hold frames of the same time
\* stamp, the one in the metadata, for any number of channels, any threshold,
\* any overflow handler, and under losses, repetitions and exceptions.
THEOREM BuffersAlwaysAligned == Spec => []BuffersAligned
<1>1. IInv => BuffersAligned
  <2> SUFFICES ASSUME IInv, pc # "align", Curr.left > 0
               PROVE  /\ Curr.todo = {}
                      /\ \A c \in Chan : /\ Curr.per[c].buff
                                         /\ Curr.per[c].time = Curr.md.time_spec
    BY DEF BuffersAligned
  <2>1. HoldingOK(slots, idx) /\ idx \in Slots
    BY DEF IInv, TypeOK
  <2> QED
    BY <2>1 DEF HoldingOK, SlotOK, Curr
<1> QED
  BY <1>1, Invariant, PTL

\* Every channel holds at most one frame of its transport in the four slots.
THEOREM AtMostOneBufferHeld == Spec => []OneBufferHeld
<1>1. IInv => OneBufferHeld
  <2> SUFFICES ASSUME IInv PROVE OneBufferHeld
    OBVIOUS
  <2>1. idx \in Slots /\ Next4(idx) \in Slots
    BY RingIndices DEF IInv, TypeOK
  <2>2. CASE pc = "align"
    BY <2>1, <2>2 DEF IInv, AligningOK, NoFrames, OneBufferHeld
  <2>3. CASE pc # "align"
    BY <2>1, <2>3 DEF IInv, HoldingOK, NoFrames, OneBufferHeld
  <2> QED
    BY <2>2, <2>3
<1> QED
  BY <1>1, Invariant, PTL

-----------------------------------------------------------------------------
(* The alignment, while the device time is never set back: a slot that is   *)
(* being filled (Forming) holds packets taken at one instant, and a slot    *)
(* that is being consumed (Whole) is the packets of one instant, of which   *)
(* all channels have given up as much.                                      *)

Fresh(s) == s.left = 0 /\ s.todo = Chan /\ ~s.valid /\ s.frag = 0

Forming(s) ==
    /\ s.left = 0 => Fresh(s)
    /\ s.left > 0 => s.valid /\ s.left = Len * NumOutputs /\ s.todo # Chan
    /\ s.frag = 0
    /\ \A c \in Chan \ s.todo : s.per[c].at = s.atime

Whole(s) ==
    /\ s.todo = {}
    /\ s.md.code = "NONE" /\ s.md.has_time_spec /\ s.md.time_spec = s.atime
    /\ \A c \in Chan : /\ (s.per[c].at - s.atime) * NumOutputs = s.frag
                       /\ (s.atime + Len - s.per[c].at) * NumOutputs = s.left

\* The slot the next packet goes to, when none is being consumed.
Active == IF pc = "align" THEN Curr ELSE slots[Next4(idx)]

SlotsInv ==
    /\ clock.back = 0
    /\ pc # "idle" => queue = {}
    /\ \A md, other \in queue : md = other
    /\ Fresh(slots[Next4(Next4(idx))])
    /\ pc = "align" \/ Curr.left > 0 => Fresh(slots[Next4(idx)])
    /\ pc = "align" \/ Curr.left = 0 => Forming(Active)
    /\ pc # "align" /\ Curr.left > 0 => Whole(Curr)

-----------------------------------------------------------------------------
(* Nothing is lost without a word.                                          *)

\* The samples from x on are those that a radio n sends next, as far as a
\* receiver which expects sequence number e can tell: a late packet that has
\* the expected number is not the last one the radio has sent.
Awaits(n, e, x) ==
    \E j \in -MaxLate .. 0 :
      /\ j = 0 \/ (n.late /\ -MaxLate < j)
      /\ e = (n.seq + j) % SeqMod
      /\ x = n.at + j * Len

\* A channel that is still to be aligned has restarted later than the instant
\* aligned to, so that what the others have given up will be thrown away.
Doomed(s, N) == \E d \in s.todo : N[d].from > s.atime

Kept(s, N, E) ==
    Doomed(s, N) \/ \A c \in Chan \ s.todo : Awaits(N[c], E[c], s.atime + Len)

\* What is being aligned follows what the application has.
Follows(s, N, E, next) ==
    /\ \A c \in s.todo : Awaits(N[c], E[c], next[c])
    /\ \A c \in Chan \ s.todo : s.atime = next[c]

\* A loss is reported, or is about to be.
Told ==
    \/ app.told
    \/ \E md \in queue : md.code \in LossCodes
    \/ pc = "copy" /\ Curr.left = 0 /\ Curr.md.code \in LossCodes

GapInv ==
    /\ \A c \in Chan : net[c].from <= net[c].at
    /\ Recovery = "restart" /\ ~Faulty => \A c \in Chan : net[c].up
    /\ ~Told => \A c, d \in Chan : app.next[c] = app.next[d]
    /\ pc = "align" \/ Curr.left = 0 =>
         Kept(Active, net, expected) /\ (~Told => Follows(Active, net, expected, app.next))
    /\ pc # "align" /\ Curr.left > 0 =>
         /\ \A c \in Chan : Awaits(net[c], expected[c], Curr.atime + Len)
         /\ ~Told => \A c \in Chan : Curr.per[c].at = app.next[c]

-----------------------------------------------------------------------------
(* The time of the metadata.                                               *)

GoodTime(md, from) ==
    md.code = "NONE" /\ md.has_time_spec /\ \A c \in Chan : from[c] = md.time_spec

TimeInv ==
    /\ pc = "copy" /\ Curr.left = 0 => Curr.md.code # "NONE"
    /\ call.first \/ call.accum > 0
    /\ call.first => call.accum = 0
    /\ ~call.first => GoodTime(call.md, call.from)
    /\ ret.n > 0 => GoodTime(ret.md, ret.from)

-----------------------------------------------------------------------------
(* The slots.                                                              *)

LEMMA PacketItems == Len * NumOutputs \in Nat /\ Len * NumOutputs > 0
  BY ConstantsAssumption

LEMMA FreshForms == \A s : Fresh(s) => Forming(s)
  BY DEF Fresh, Forming

LEMMA ResetFresh == \A s : Fresh(Reset(s))
  BY DEF Fresh, Reset, Blank

\* What a data packet of channel c makes of a slot s: it takes over, it joins
\* the others, or it is older.
Became(s, c, at, r) ==
    /\ r.frag = s.frag /\ r.md = s.md
    /\ r.per[c].at = at /\ r.per[c].time = at
    /\ \A d \in Chan \ {c} : r.per[d] = s.per[d]
    /\ \/ r.valid /\ r.atime = at /\ r.todo = Chan \ {c} /\ r.left = Len * NumOutputs
       \/ /\ s.valid /\ s.atime = at
          /\ r.valid /\ r.atime = at /\ r.todo = s.todo \ {c} /\ r.left = s.left
       \/ /\ s.valid /\ at < s.atime
          /\ r.valid /\ r.atime = s.atime /\ r.todo = s.todo /\ r.left = s.left

LEMMA AlignmentCheckBecomes ==
    ASSUME TypeOK, clock.back = 0, NEW c \in Curr.todo, NEW p, PacketOK(p), p.kind = "data",
           NEW v \in BOOLEAN, v => Curr.valid, NEW r,
           r = AlignmentCheck(c, [WithPacket(c, p) EXCEPT !.valid = v])
    PROVE  /\ Became(Curr, c, p.at, r)
           /\ v /\ Curr.atime = p.at => r.todo = Curr.todo \ {c} /\ r.atime = p.at
<1> DEFINE s == [WithPacket(c, p) EXCEPT !.valid = v]
<1>1. Curr \in Slot /\ c \in Chan
  BY DEF TypeOK, Curr, Slot
<1>2. Stamp(p.at) = p.at /\ p.at \in Nat
  BY DEF Stamp, PacketOK, TypeOK
<1>3. Unpacked(p, Curr.per[c]) = [buff |-> TRUE, time |-> p.at, at |-> p.at, len |-> Len * NumOutputs]
  BY <1>2 DEF Unpacked, Items
<1>4. /\ s.per[c] = [buff |-> TRUE, time |-> p.at, at |-> p.at, len |-> Len * NumOutputs]
      /\ \A d \in Chan \ {c} : s.per[d] = Curr.per[d]
      /\ s.valid = v /\ s.todo = Curr.todo /\ s.left = Curr.left /\ s.atime = Curr.atime
      /\ s.frag = Curr.frag /\ s.md = Curr.md
  BY <1>1, <1>3 DEF WithPacket, Slot
<1>5. s \in [todo : SUBSET Chan, valid : BOOLEAN, atime : Nat, left : Nat,
             frag : Nat, md : Metadata, per : [Chan -> PerBuffer]]
  <2>1. Unpacked(p, Curr.per[c]) \in PerBuffer
    BY <1>2, <1>3, PacketItems DEF PerBuffer
  <2>2. WithPacket(c, p) \in Slot
    BY <1>1, <2>1 DEF WithPacket, Slot
  <2> QED
    BY <2>2 DEF Slot
<1>6. r = AlignmentCheck(c, s) /\ Curr.atime \in Nat
  BY <1>1 DEF Slot
<1> HIDE DEF s
<1>7. CASE ~s.valid \/ s.per[c].time > s.atime
  <2>1. r = [s EXCEPT !.valid = TRUE, !.atime = p.at, !.todo = Chan \ {c},
                      !.left = Len * NumOutputs]
    BY <1>4, <1>6, <1>7 DEF AlignmentCheck
  <2>2. r.valid /\ r.atime = p.at /\ r.todo = Chan \ {c} /\ r.left = Len * NumOutputs
        /\ r.frag = s.frag /\ r.md = s.md /\ r.per = s.per
    BY <1>5, <2>1
  <2>3. ~(v /\ Curr.atime = p.at)
    BY <1>2, <1>4, <1>6, <1>7
  <2> QED
    BY <1>4, <2>2, <2>3 DEF Became
<1>8. CASE ~(~s.valid \/ s.per[c].time > s.atime) /\ s.per[c].time = s.atime
  <2>1. r = [s EXCEPT !.todo = s.todo \ {c}]
    BY <1>6, <1>8 DEF AlignmentCheck
  <2>2. r.valid = s.valid /\ r.atime = p.at /\ r.todo = s.todo \ {c} /\ r.left = s.left
        /\ r.frag = s.frag /\ r.md = s.md /\ r.per = s.per
    BY <1>4, <1>5, <1>8, <2>1
  <2> QED
    BY <1>4, <1>8, <2>2 DEF Became
<1>9. CASE ~(~s.valid \/ s.per[c].time > s.atime) /\ s.per[c].time # s.atime
  <2>1. r = s /\ s.valid /\ p.at < s.atime
    BY <1>2, <1>4, <1>6, <1>9 DEF AlignmentCheck
  <2>2. Curr.valid /\ r.valid
    BY <1>4, <2>1
  <2>6. s.per[c].at = p.at /\ s.per[c].time = p.at
    BY <1>4
  <2>3. /\ r.per[c].at = p.at /\ r.per[c].time = p.at
        /\ \A d \in Chan \ {c} : r.per[d] = Curr.per[d]
        /\ r.todo = Curr.todo /\ r.left = Curr.left /\ r.atime = Curr.atime
        /\ r.frag = Curr.frag /\ r.md = Curr.md /\ p.at < Curr.atime
    BY <1>4, <2>1, <2>6, Zenon
  <2>4. Became(Curr, c, p.at, r)
    BY <2>2, <2>3 DEF Became
  <2>5. Curr.atime # p.at
    BY <1>4, <1>9
  <2> QED
    BY <2>4, <2>5
<1> QED
  BY <1>7, <1>8, <1>9

\* The same of the iteration for a sequence error, and of one for other data,
\* which joins when it has the time of the alignment.
LEMMA DataBecomes ==
    ASSUME TypeOK, clock.back = 0, NEW c \in Curr.todo, NEW p, PacketOK(p), p.kind = "data"
    PROVE  /\ Became(Curr, c, p.at, AlignmentCheck(c, WithPacket(c, p)))
           /\ Became(Curr, c, p.at, Checked(c, p))
           /\ Curr.valid /\ Curr.atime = p.at =>
                Checked(c, p).todo = Curr.todo \ {c} /\ Checked(c, p).atime = p.at
<1> DEFINE s == WithPacket(c, p)
<1>1. Curr \in Slot /\ c \in Chan
  BY DEF TypeOK, Curr, Slot
<1>2. /\ s.valid = Curr.valid /\ s.atime = Curr.atime /\ s.per[c].time = p.at
      /\ s = [s EXCEPT !.valid = Curr.valid] /\ Curr.valid \in BOOLEAN
  <2>1. Stamp(p.at) = p.at
    BY DEF Stamp, PacketOK, TypeOK
  <2> QED
    BY <1>1, <2>1 DEF WithPacket, Slot, Unpacked
<1>3. /\ Became(Curr, c, p.at, AlignmentCheck(c, s))
      /\ Curr.valid /\ Curr.atime = p.at =>
           /\ AlignmentCheck(c, s).todo = Curr.todo \ {c}
           /\ AlignmentCheck(c, s).atime = p.at
  BY <1>2, AlignmentCheckBecomes
<1>4. Became(Curr, c, p.at, AlignmentCheck(c, [s EXCEPT !.valid = FALSE]))
  BY AlignmentCheckBecomes
<1>5. \/ Checked(c, p) = AlignmentCheck(c, s)
      \/ /\ Checked(c, p) = AlignmentCheck(c, [s EXCEPT !.valid = FALSE])
         /\ Curr.atime # p.at
  BY <1>2 DEF Checked
<1> HIDE DEF s
<1> QED
  BY <1>3, <1>4, <1>5 DEF s

LEMMA BecameForming ==
    ASSUME NEW s, NEW c \in Chan, c \in s.todo, s.todo \subseteq Chan, s.left \in Nat, NEW at, NEW r,
           Forming(s), Became(s, c, at, r)
    PROVE  /\ Forming(r) /\ r.todo \subseteq Chan
           /\ c \in r.todo => \E d \in Chan \ r.todo : at < r.per[d].at
<1>1. /\ r.frag = s.frag /\ r.per[c].at = at /\ \A d \in Chan \ {c} : r.per[d] = s.per[d]
  BY DEF Became
<1>2. CASE r.valid /\ r.atime = at /\ r.todo = Chan \ {c} /\ r.left = Len * NumOutputs
  BY <1>1, <1>2, PacketItems DEF Forming
<1>3. CASE /\ s.valid /\ s.atime = at
           /\ r.valid /\ r.atime = at /\ r.todo = s.todo \ {c} /\ r.left = s.left
  <2>1. s.left > 0
    BY <1>3 DEF Forming, Fresh
  <2> QED
    BY <1>1, <1>3, <2>1 DEF Forming
<1>4. CASE /\ s.valid /\ at < s.atime
           /\ r.valid /\ r.atime = s.atime /\ r.todo = s.todo /\ r.left = s.left
  <2>1. s.left > 0
    BY <1>4 DEF Forming, Fresh
  <2>2. PICK d \in Chan : d \notin s.todo
    BY <2>1 DEF Forming
  <2>3. \A e \in Chan \ r.todo : r.per[e].at = r.atime
    BY <1>1, <1>4 DEF Forming
  <2> QED
    BY <1>1, <1>4, <2>1, <2>2, <2>3 DEF Forming
<1> QED
  BY <1>2, <1>3, <1>4 DEF Became

\* After an early return: an empty slot, then the progress, then a fresh slot.
Returned(S, i) ==
    S[i].left = 0 /\ Forming(S[Next4(i)]) /\ Fresh(S[Next4(Next4(i))])

LEMMA GiveUpReturns ==
    ASSUME TypeOK, SlotsInv, pc = "align", NEW s, NEW md
    PROVE  LET G == GiveUp(s, md)
           IN  /\ DOMAIN G = Slots
               /\ G[idx].left = 0 /\ G[idx].md = md
               /\ G[Next4(idx)] = s
               /\ Fresh(G[Next4(Next4(idx))])
<1> DEFINE n == Next4(idx)
<1> DEFINE G == GiveUp(s, md)
<1>1. /\ idx \in Slots /\ n \in Slots /\ n # idx
      /\ Next4(n) \in Slots /\ Next4(n) # idx /\ Next4(n) # n
  BY RingIndices DEF TypeOK
<1>2. slots \in [Slots -> Slot]
  BY DEF TypeOK
<1>3. G = [k \in Slots |-> IF k = idx THEN [slots[n] EXCEPT !.md = md]
                           ELSE IF k = n THEN s ELSE slots[k]]
  BY <1>1, <1>2 DEF GiveUp, Swap
<1>4. slots[n] \in Slot /\ slots[n].left = 0 /\ Fresh(slots[Next4(n)])
  BY <1>1, <1>2 DEF SlotsInv, Fresh
<1>5. [slots[n] EXCEPT !.md = md].left = 0 /\ [slots[n] EXCEPT !.md = md].md = md
  BY <1>4 DEF Slot
<1>6. G[idx] = [slots[n] EXCEPT !.md = md] /\ G[n] = s /\ G[Next4(n)] = slots[Next4(n)]
  BY <1>1, <1>3
<1>7. DOMAIN G = Slots
  BY <1>3
<1> HIDE DEF G, n
<1> QED
  BY <1>4, <1>5, <1>6, <1>7 DEF G, n

LEMMA AfterOverflowReturns ==
    ASSUME idx \in Slots, NEW S, Returned(S, idx)
    PROVE  /\ Returned(AfterOverflow(S), idx)
           /\ Recovery # "flush" => AfterOverflow(S) = S
           /\ Recovery = "flush" => Fresh(AfterOverflow(S)[Next4(idx)])
<1> DEFINE n == Next4(idx)
<1>1. n \in Slots /\ Next4(n) \in Slots /\ Next4(n) \notin {idx, n, Prev(idx)}
  BY RingIndices
<1>2. CASE Recovery # "flush"
  BY <1>2 DEF AfterOverflow
<1>3. CASE Recovery = "flush"
  <2> DEFINE A == AfterOverflow(S)
  <2>1. A = [i \in Slots |-> IF i \in {Prev(idx), idx, n} THEN Reset(S[i]) ELSE S[i]]
    BY <1>3 DEF AfterOverflow
  <2>2. A[idx] = Reset(S[idx]) /\ A[n] = Reset(S[n]) /\ A[Next4(n)] = S[Next4(n)]
    BY <1>1, <2>1
  <2>3. Fresh(A[idx]) /\ Fresh(A[n])
    BY <2>2, ResetFresh
  <2> HIDE DEF A
  <2>4. Returned(A, idx)
    BY <2>2, <2>3, FreshForms DEF Returned, Fresh
  <2> QED
    BY <1>3, <2>3, <2>4 DEF A
<1> QED
  BY <1>2, <1>3

\* The packet of a channel that is not aligned does not change the progress.
LEMMA WithPacketForming ==
    ASSUME TypeOK, NEW c \in Curr.todo, NEW x, Forming(Curr)
    PROVE  LET s == [Curr EXCEPT !.per[c] = x]
           IN  /\ Forming(s)
               /\ s.todo = Curr.todo /\ s.atime = Curr.atime
<1> DEFINE s == [Curr EXCEPT !.per[c] = x]
<1>1. Curr \in Slot /\ c \in Chan
  BY DEF TypeOK, Curr, Slot
<1>2. /\ s.todo = Curr.todo /\ s.atime = Curr.atime /\ s.left = Curr.left
      /\ s.valid = Curr.valid /\ s.frag = Curr.frag
      /\ \A d \in Chan \ {c} : s.per[d] = Curr.per[d]
  BY <1>1 DEF Slot
<1> HIDE DEF s
<1>3. Forming(s)
  BY <1>2 DEF Forming, Fresh
<1> QED
  BY <1>2, <1>3 DEF s

\* What one iteration of the loop in get_aligned_buffs leaves behind.
LEMMA AlignStepReturns ==
    ASSUME IInv, SlotsInv, NEW c \in Chan, AlignStep(c)
    PROVE  \/ /\ pc' = "align" /\ AlignData(c) /\ UNCHANGED <<idx, clock, queue>>
              /\ Forming(Curr')
              /\ slots'[Next4(idx)] = slots[Next4(idx)]
              /\ slots'[Next4(Next4(idx))] = slots[Next4(Next4(idx))]
              /\ c \in Curr'.todo => \E d \in Chan \ Curr'.todo : Curr'.per[c].at < Curr'.per[d].at
           \/ /\ pc' = "copy" /\ UNCHANGED <<idx, clock, queue>>
              /\ Returned(slots', idx)
<1>1. /\ TypeOK /\ pc = "align" /\ c \in Curr.todo /\ clock.back = 0
      /\ idx \in Slots /\ slots \in [Slots -> Slot] /\ Curr \in Slot
      /\ Forming(Curr) /\ Curr = slots[idx]
  BY DEF AlignStep, AlignData, AlignmentFailure, InlineMessage, SequenceError,
         Timeout, BadPacket, NextTodo, IInv, TypeOK, SlotsInv, Active, Curr
<1>2. Curr.todo \subseteq Chan /\ Curr.left \in Nat
  BY <1>1 DEF Slot
<1>3. ASSUME NEW p \in Arrivals(c), p.kind = "data"
      PROVE  /\ Forming(AlignmentCheck(c, WithPacket(c, p))) /\ Forming(Checked(c, p))
             /\ c \in Checked(c, p).todo =>
                  \E d \in Chan \ Checked(c, p).todo :
                    Checked(c, p).per[c].at < Checked(c, p).per[d].at
  <2>1. PacketOK(p)
    BY <1>1, ArrivalsOK
  <2>2. /\ Became(Curr, c, p.at, AlignmentCheck(c, WithPacket(c, p)))
        /\ Became(Curr, c, p.at, Checked(c, p))
    BY <1>1, <1>3, <2>1, DataBecomes
  <2>3. Checked(c, p).per[c].at = p.at
    BY <2>2 DEF Became
  <2> QED
    BY <1>1, <1>2, <2>2, <2>3, BecameForming
<1>4. ASSUME NEW p \in Arrivals(c), PacketType(c, p) \in {"IF_DATA", "TIMESTAMP_ERROR", "SEQUENCE_ERROR"}
      PROVE  p.kind = "data"
  BY <1>4 DEF PacketType
<1>5. ASSUME NEW s, Forming(s), NEW md
      PROVE  Returned(GiveUp(s, md), idx)
  BY <1>1, <1>5, GiveUpReturns DEF Returned
<1>6. CASE AlignData(c)
  <2>1. PICK p \in Arrivals(c) :
          /\ PacketType(c, p) \in {"IF_DATA", "TIMESTAMP_ERROR"}
          /\ slots' = [slots EXCEPT ![idx] = Checked(c, p)]
          /\ UNCHANGED <<clock, idx, queue, pc, call, ret, app>>
    BY <1>6 DEF AlignData
  <2>2. p.kind = "data"
    BY <1>4, <2>1
  <2>3. /\ slots'[idx] = Checked(c, p)
        /\ slots'[Next4(idx)] = slots[Next4(idx)]
        /\ slots'[Next4(Next4(idx))] = slots[Next4(Next4(idx))]
    BY <1>1, <2>1, RingIndices
  <2>4. Curr' = Checked(c, p)
    BY <2>1, <2>3 DEF Curr
  <2> QED
    BY <1>1, <1>3, <1>6, <2>1, <2>2, <2>3, <2>4
<1>7. CASE AlignmentFailure(c)
  <2>1. PICK p \in Arrivals(c) :
          /\ PacketType(c, p) \in {"IF_DATA", "TIMESTAMP_ERROR"}
          /\ slots' = AfterOverflow(GiveUp(Checked(c, p), Error("ALIGNMENT")))
    BY <1>7 DEF AlignmentFailure
  <2>2. p.kind = "data"
    BY <1>4, <2>1
  <2>3. Returned(GiveUp(Checked(c, p), Error("ALIGNMENT")), idx)
    BY <1>3, <1>5, <2>2
  <2>4. Returned(slots', idx)
    BY <1>1, <2>1, <2>3, AfterOverflowReturns
  <2> QED
    BY <1>7, <2>4 DEF AlignmentFailure
<1>8. ASSUME NEW p
      PROVE  Forming(WithPacket(c, p))
  BY <1>1, WithPacketForming DEF WithPacket
<1>9. CASE InlineMessage(c)
  <2>1. PICK p \in Arrivals(c) :
          LET md == MessageMetadata(c, p)
              S == GiveUp(WithPacket(c, p), md)
          IN slots' \in {[AfterOverflow(S) EXCEPT ![idx].md = md], S}
    BY <1>9 DEF InlineMessage
  <2> DEFINE md == MessageMetadata(c, p)
  <2> DEFINE S == GiveUp(WithPacket(c, p), md)
  <2>2. Returned(S, idx) /\ DOMAIN S = Slots
    BY <1>1, <1>5, <1>8, GiveUpReturns
  <2>3. slots' \in {[AfterOverflow(S) EXCEPT ![idx].md = md], S}
    BY <2>1
  <2> HIDE DEF S, md
  <2>4. Returned(AfterOverflow(S), idx) /\ DOMAIN AfterOverflow(S) = Slots
    BY <1>1, <2>2, AfterOverflowReturns DEF AfterOverflow
  <2>5. Returned([AfterOverflow(S) EXCEPT ![idx].md = md], idx)
    <3> DEFINE A == AfterOverflow(S)
    <3> DEFINE T == [A EXCEPT ![idx].md = md]
    <3>1. Returned(A, idx) /\ DOMAIN A = Slots
      BY <2>4
    <3> HIDE DEF A
    <3>2. T[idx] = [A[idx] EXCEPT !.md = md]
      BY <1>1, <3>1
    <3>3. T[Next4(idx)] = A[Next4(idx)] /\ T[Next4(Next4(idx))] = A[Next4(Next4(idx))]
      BY <1>1, <3>1, RingIndices
    <3>4. [A[idx] EXCEPT !.md = md].left = A[idx].left
      OBVIOUS
    <3> QED
      BY <3>1, <3>2, <3>3, <3>4 DEF Returned, A
  <2>6. Returned(slots', idx)
    BY <2>2, <2>3, <2>5
  <2> QED
    BY <1>9, <2>6 DEF InlineMessage
<1>10. CASE SequenceError(c)
  <2>1. PICK p \in Arrivals(c) :
          /\ PacketType(c, p) = "SEQUENCE_ERROR"
          /\ slots' = GiveUp(AlignmentCheck(c, WithPacket(c, p)), SequenceMetadata(c))
    BY <1>10 DEF SequenceError
  <2>2. Returned(slots', idx)
    BY <1>3, <1>4, <1>5, <2>1
  <2> QED
    BY <1>10, <2>2 DEF SequenceError
<1>11. ASSUME NEW b
       PROVE  Forming([Curr EXCEPT !.per[c].buff = b])
  BY <1>1, WithPacketForming
<1>12. CASE Timeout(c)
  <2>1. Returned(slots', idx)
    BY <1>5, <1>11, <1>12 DEF Timeout
  <2> QED
    BY <1>12, <2>1 DEF Timeout
<1>13. CASE BadPacket(c)
  <2>1. PICK p \in Arrivals(c), parsed \in BOOLEAN :
          slots' = GiveUp(IF parsed THEN WithPacket(c, p)
                          ELSE [Curr EXCEPT !.per[c].buff = TRUE], Error("BAD_PACKET"))
    BY <1>13 DEF BadPacket
  <2>2. Returned(slots', idx)
    BY <1>5, <1>8, <1>11, <2>1
  <2> QED
    BY <1>13, <2>2 DEF BadPacket
<1> QED
  BY <1>6, <1>7, <1>9, <1>10, <1>12, <1>13 DEF AlignStep

LEMMA CancelFactor ==
    ASSUME NEW m \in Int, NEW n \in Nat \ {0}
    PROVE  /\ (m * n) \div n = m
           /\ m * n = 0 => m = 0
           /\ m * n > 0 => m > 0
<1>1. (m * n) \div n = m
  OBVIOUS
<1>2. m * n = 0 => m = 0
  OBVIOUS
<1>3. m <= 0 => m * n <= 0
  OBVIOUS
<1> QED
  BY <1>1, <1>2, <1>3

LEMMA Distributes ==
    ASSUME NEW a \in Int, NEW b \in Int, NEW n \in Int
    PROVE  (a + b) * n = a * n + b * n /\ (a - b) * n = a * n - b * n
  OBVIOUS

\* Copying takes as many samples from all channels, and at least one.
LEMMA CopyTakes ==
    ASSUME IInv, SlotsInv, pc = "copy", NEW t, t = AfterCopy(Curr, ItemsToCopy, SamplesToCopy)
    PROVE  /\ SamplesToCopy \in Nat /\ t.todo = Curr.todo /\ t.atime = Curr.atime /\ t.md = Curr.md
           /\ t.valid = Curr.valid
           /\ \A c \in Chan : t.per[c].at = Curr.per[c].at + SamplesToCopy
           /\ Curr.left = 0 => SamplesToCopy = 0 /\ t.left = 0
           /\ Curr.left > 0 => /\ SamplesToCopy > 0
                               /\ t.left > 0 => Whole(t)
                               /\ t.left = 0 => \A c \in Chan : t.per[c].at = t.atime + Len
                               /\ t.left \in Nat
<1> USE ConstantsAssumption
<1> DEFINE items == ItemsToCopy
<1> DEFINE samples == SamplesToCopy
<1> DEFINE w == call.want - call.accum
<1>1. /\ Curr \in Slot /\ Curr.left \in Nat /\ Curr.frag \in Nat /\ Curr.atime \in Nat
      /\ w \in Nat /\ w > 0
  BY DEF IInv, TypeOK, Curr, Slot, Call
<1>2. \A c \in Chan : Curr.per[c] \in PerBuffer /\ Curr.per[c].at \in Nat
  BY <1>1 DEF Slot, PerBuffer
<1>3. items = (IF w * NumOutputs <= Curr.left THEN w * NumOutputs ELSE Curr.left)
      /\ samples = items \div NumOutputs
  BY DEF ItemsToCopy, SamplesToCopy
<1>4. /\ t.left = Curr.left - items /\ t.frag = Curr.frag + items
      /\ t.todo = Curr.todo /\ t.atime = Curr.atime /\ t.md = Curr.md /\ t.valid = Curr.valid
      /\ \A c \in Chan : t.per[c].at = Curr.per[c].at + samples
  BY <1>1 DEF AfterCopy, Slot, PerBuffer
<1> HIDE DEF items, samples, w
<1>5. w * NumOutputs \in Nat /\ w * NumOutputs > 0
  BY <1>1
<1>6. CASE Curr.left = 0
  <2>1. items = 0
    BY <1>3, <1>5, <1>6
  <2>2. samples = 0
    BY <1>3, <2>1
  <2> QED
    BY <1>4, <1>6, <2>1, <2>2 DEF samples
<1>7. CASE Curr.left > 0
  <2>1. Whole(Curr)
    BY <1>7 DEF SlotsInv
  <2>2. 0 \in Chan
    BY DEF Chan
  <2>3. PICK r \in Int : r = Curr.atime + Len - Curr.per[0].at
    BY <1>1, <1>2, <2>2
  <2>4. r * NumOutputs = Curr.left
    BY <2>1, <2>2, <2>3 DEF Whole
  <2>5. PICK m \in Int : items = m * NumOutputs /\ m > 0
    <3>1. r > 0
      BY <1>7, <2>4, CancelFactor
    <3> QED
      BY <1>1, <1>3, <2>4, <3>1
  <2>6. samples = m
    BY <1>3, <2>5, CancelFactor
  <2>7. items \in Nat /\ items <= Curr.left
    BY <1>1, <1>3, <1>5
  <2>8. t.left \in Nat /\ t.left = Curr.left - m * NumOutputs
    BY <1>1, <1>4, <2>5, <2>7
  <2>9. ASSUME NEW c \in Chan
        PROVE  /\ (t.per[c].at - t.atime) * NumOutputs = t.frag
               /\ (t.atime + Len - t.per[c].at) * NumOutputs = t.left
    <3>1. PICK a \in Int : a = Curr.per[c].at - Curr.atime
      BY <1>1, <1>2
    <3>2. PICK b \in Int : b = Curr.atime + Len - Curr.per[c].at
      BY <1>1, <1>2
    <3>3. a * NumOutputs = Curr.frag /\ b * NumOutputs = Curr.left
      BY <2>1, <3>1, <3>2 DEF Whole
    <3>4. t.per[c].at - t.atime = a + m /\ t.atime + Len - t.per[c].at = b - m
      BY <1>1, <1>2, <1>4, <2>6, <3>1, <3>2
    <3>5. (a + m) * NumOutputs = Curr.frag + items /\ (b - m) * NumOutputs = Curr.left - items
      BY <2>5, <3>3, Distributes
    <3> QED
      BY <1>4, <3>4, <3>5
  <2>10. t.left > 0 => Whole(t)
    <3>1. /\ Curr.todo = {}
          /\ Curr.md.code = "NONE" /\ Curr.md.has_time_spec /\ Curr.md.time_spec = Curr.atime
      BY <2>1 DEF Whole
    <3>2. /\ t.todo = {}
          /\ t.md.code = "NONE" /\ t.md.has_time_spec /\ t.md.time_spec = t.atime
      BY <1>4, <3>1, Zenon
    <3> QED
      BY <2>9, <3>2 DEF Whole
  <2>11. ASSUME t.left = 0, NEW c \in Chan
         PROVE  t.per[c].at = t.atime + Len
    <3>1. PICK b \in Int : b = t.atime + Len - t.per[c].at
      BY <1>1, <1>2, <1>4, <2>6
    <3>2. b * NumOutputs = 0
      BY <2>9, <2>11, <3>1
    <3>3. b = 0
      BY <3>2, CancelFactor
    <3> QED
      BY <1>1, <1>2, <1>4, <2>6, <3>1, <3>3
  <2>12. samples > 0 /\ samples \in Nat
    BY <2>5, <2>6
  <2> QED
    BY <1>4, <1>7, <2>8, <2>10, <2>11, <2>12 DEF samples
<1> QED
  BY <1>1, <1>6, <1>7

LEMMA InitSlotsInv == Init => SlotsInv
<1> SUFFICES ASSUME Init PROVE SlotsInv
  OBVIOUS
<1>1. \A i \in Slots : Fresh(slots[i]) /\ slots[i].left = 0
  BY DEF Init, Fresh, Blank
<1>2. idx \in Slots /\ Next4(idx) \in Slots /\ Next4(Next4(idx)) \in Slots
  <2>1. idx \in Slots
    BY DEF Init, Slots
  <2> QED
    BY <2>1, RingIndices
<1>3. Curr.left = 0 /\ Fresh(slots[Next4(idx)]) /\ Fresh(slots[Next4(Next4(idx))]) /\ Forming(Active)
  BY <1>1, <1>2, FreshForms DEF Curr, Active
<1> QED
  BY <1>3 DEF SlotsInv, Init

LEMMA AlignedSlots ==
    ASSUME IInv, SlotsInv, Aligned
    PROVE  /\ SlotsInv'
           /\ Curr.left > 0 /\ Curr'.left = Curr.left /\ Curr'.atime = Curr.atime
           /\ \A c \in Chan : Curr'.per[c].at = Curr.atime
<1> DEFINE md == [Curr.md EXCEPT !.code = "NONE",
                                 !.has_time_spec = TRUE,
                                 !.time_spec = Curr.per[0].time,
                                 !.more_fragments = FALSE,
                                 !.fragment_offset = 0]
<1>1. /\ TypeOK /\ pc = "align" /\ Curr.todo = {} /\ idx \in Slots /\ Curr = slots[idx]
      /\ slots' = [slots EXCEPT ![idx].md = md] /\ pc' = "copy"
      /\ UNCHANGED <<net, clock, expected, idx, iters, queue, call, ret, app>>
      /\ slots \in [Slots -> Slot] /\ Curr \in Slot
  BY DEF Aligned, IInv, TypeOK, Curr
<1>2. Forming(Curr) /\ SlotOK(Curr) /\ 0 \in Chan
  BY <1>1, ConstantsAssumption DEF SlotsInv, Active, IInv, AligningOK, Chan
<1>3. Chan # {}
  BY <1>2
<1>4. Curr.left > 0 /\ Curr.left = Len * NumOutputs /\ Curr.frag = 0
  <2>1. Curr.left # 0
    BY <1>1, <1>2, <1>3 DEF Forming, Fresh
  <2>2. Curr.left \in Nat
    BY <1>1 DEF Slot
  <2> QED
    BY <1>2, <2>1, <2>2 DEF Forming
<1>5. \A c \in Chan : Curr.per[c].at = Curr.atime /\ Curr.per[c].time = Curr.atime
  BY <1>1, <1>2, <1>4 DEF Forming, SlotOK
<1>6. md.code = "NONE" /\ md.has_time_spec = TRUE /\ md.time_spec = Curr.atime
  <2>1. md.code = "NONE" /\ md.has_time_spec = TRUE /\ md.time_spec = Curr.per[0].time
    BY <1>1 DEF Slot, Metadata
  <2> QED
    BY <1>2, <1>5, <2>1
<1> HIDE DEF md
<1>7. /\ slots'[idx] = [Curr EXCEPT !.md = md]
      /\ slots'[Next4(idx)] = slots[Next4(idx)]
      /\ slots'[Next4(Next4(idx))] = slots[Next4(Next4(idx))]
  BY <1>1, RingIndices
<1>8. Curr' = [Curr EXCEPT !.md = md]
  BY <1>1, <1>7 DEF Curr
<1>9. /\ Curr'.left = Curr.left /\ Curr'.atime = Curr.atime /\ Curr'.todo = {}
      /\ Curr'.frag = 0 /\ Curr'.md = md /\ Curr'.per = Curr.per
  BY <1>1, <1>4, <1>8 DEF Slot
<1>10. Whole(Curr')
  <2>1. Curr'.md.code = "NONE" /\ Curr'.md.has_time_spec /\ Curr'.md.time_spec = Curr'.atime
    BY <1>6, <1>9
  <2>2. ASSUME NEW c \in Chan
        PROVE  /\ (Curr'.per[c].at - Curr'.atime) * NumOutputs = Curr'.frag
               /\ (Curr'.atime + Len - Curr'.per[c].at) * NumOutputs = Curr'.left
    <3>1. Curr.atime \in Nat
      BY <1>1 DEF Slot
    <3>2. Curr'.per[c].at - Curr'.atime = 0 /\ Curr'.atime + Len - Curr'.per[c].at = Len
      BY <1>5, <1>9, <3>1, ConstantsAssumption
    <3> QED
      BY <1>4, <1>9, <3>2, ConstantsAssumption
  <2> QED
    BY <1>9, <2>1, <2>2 DEF Whole
<1>11. SlotsInv'
  BY <1>1, <1>4, <1>7, <1>9, <1>10 DEF SlotsInv
<1> QED
  BY <1>4, <1>5, <1>9, <1>11

LEMMA SlotsInvNext ==
    ASSUME IInv, SlotsInv, SetBack = 0, [Next]_vars
    PROVE  SlotsInv'
<1>1. /\ TypeOK /\ idx \in Slots /\ slots \in [Slots -> Slot] /\ Curr \in Slot
      /\ Curr = slots[idx] /\ Curr.left \in Nat
  BY DEF IInv, TypeOK, Curr, Slot
<1>2. CASE UNCHANGED vars
  BY <1>2 DEF vars, SlotsInv, Active, Curr
<1>3. ASSUME NEW c \in Chan, AlignStep(c)
      PROVE  SlotsInv'
  <2>1. pc = "align"
    BY <1>3 DEF AlignStep, AlignData, AlignmentFailure, InlineMessage, SequenceError,
                Timeout, BadPacket
  <2>2. CASE /\ pc' = "align" /\ AlignData(c) /\ UNCHANGED <<idx, clock, queue>>
             /\ Forming(Curr')
             /\ slots'[Next4(idx)] = slots[Next4(idx)]
             /\ slots'[Next4(Next4(idx))] = slots[Next4(Next4(idx))]
    BY <2>1, <2>2 DEF SlotsInv, Active
  <2>3. CASE pc' = "copy" /\ UNCHANGED <<idx, clock, queue>> /\ Returned(slots', idx)
    BY <2>1, <2>3 DEF SlotsInv, Active, Returned, Curr
  <2> QED
    BY <1>3, <2>2, <2>3, AlignStepReturns
<1>4. CASE Aligned
  BY <1>4, AlignedSlots
<1>5. CASE UseFragment
  BY <1>5 DEF UseFragment, SlotsInv, Active, Curr
<1>6. CASE NextBuffers
  <2> DEFINE n == Next4(idx)
  <2>1. /\ pc = "fetch" /\ Curr.left = 0 /\ idx' = n /\ pc' = "align"
        /\ slots' = [slots EXCEPT ![Prev(idx)] = Reset(slots[Prev(idx)])]
        /\ UNCHANGED <<clock, queue>>
    BY <1>6 DEF NextBuffers
  <2>2. /\ n \in Slots /\ Next4(n) \in Slots /\ n # Prev(idx) /\ Next4(n) # Prev(idx)
        /\ Next4(Next4(n)) = Prev(idx) /\ Prev(idx) \in Slots
    BY <1>1, RingIndices
  <2>3. /\ slots'[n] = slots[n] /\ slots'[Next4(n)] = slots[Next4(n)]
        /\ slots'[Prev(idx)] = Reset(slots[Prev(idx)])
    BY <1>1, <2>1, <2>2
  <2>4. Forming(slots[n]) /\ Fresh(slots[Next4(n)])
    BY <2>1 DEF SlotsInv, Active
  <2>5. Fresh(slots'[Next4(Next4(n))])
    BY <2>2, <2>3, ResetFresh
  <2> HIDE DEF n
  <2> QED
    BY <2>1, <2>3, <2>4, <2>5 DEF SlotsInv, Active, Curr
<1>7. CASE Copy
  <2>1. /\ pc = "copy" /\ idx' = idx /\ clock' = clock /\ pc' \in {"idle", "fetch"}
        /\ slots' = [slots EXCEPT ![idx] = AfterCopy(slots[idx], ItemsToCopy, SamplesToCopy)]
        /\ pc' = "fetch" => queue' = queue
        /\ \A md, other \in queue' : md = other
    BY <1>7 DEF Copy, ReturnFromRecv, SlotsInv
  <2>2. PICK t : t = AfterCopy(Curr, ItemsToCopy, SamplesToCopy)
    OBVIOUS
  <2>3. /\ slots'[idx] = t
        /\ slots'[Next4(idx)] = slots[Next4(idx)]
        /\ slots'[Next4(Next4(idx))] = slots[Next4(Next4(idx))]
    BY <1>1, <2>1, <2>2, RingIndices
  <2>4. Curr' = t
    BY <2>1, <2>3 DEF Curr
  <2>5. CASE Curr.left = 0
    <3>1. t.left = 0 /\ Forming(slots[Next4(idx)])
      BY <2>1, <2>2, <2>5, CopyTakes DEF SlotsInv, Active
    <3> QED
      BY <2>1, <2>3, <2>4, <3>1 DEF SlotsInv, Active
  <2>6. CASE Curr.left > 0
    <3>1. /\ t.left > 0 => Whole(t)
          /\ Fresh(slots[Next4(idx)])
      BY <2>1, <2>2, <2>6, CopyTakes DEF SlotsInv
    <3> QED
      BY <2>1, <2>3, <2>4, <3>1, FreshForms DEF SlotsInv, Active
  <2> QED
    BY <1>1, <2>5, <2>6
<1>8. CASE RecvQueuedError
  BY <1>8 DEF RecvQueuedError, ReturnFromRecv, SlotsInv, Active, Curr
<1>9. ASSUME NEW want \in Wants, NEW one \in BOOLEAN, RecvCall(want, one)
      PROVE  SlotsInv'
  BY <1>9 DEF RecvCall, SlotsInv, Active, Curr
<1>10. CASE SetDeviceTime
  BY <1>10, ConstantsAssumption DEF SetDeviceTime
<1> QED
  BY <1>2, <1>3, <1>4, <1>5, <1>6, <1>7, <1>8, <1>9, <1>10 DEF Next, RecvStep

-----------------------------------------------------------------------------
(* The network and the radios.                                             *)

\* A late packet and the losses before the next one together reach less far
\* than the sequence numbers do.
LossVisible == MaxLost + MaxLate < SeqMod

\* A multiple of m between -m and m is 0.
LEMMA SmallMultiple ==
    ASSUME NEW t \in Int, NEW m \in Nat \ {0}, 0 - m < t * m, t * m < m
    PROVE  t = 0
<1>1. CASE t >= 1
  <2>1. t * m = (t - 1) * m + m /\ (t - 1) * m >= 0
    BY <1>1
  <2> QED
    BY <2>1
<1>2. CASE t <= -1
  <2>1. t * m = (t + 1) * m - m /\ (t + 1) * m <= 0
    BY <1>2
  <2> QED
    BY <2>1
<1> QED
  BY <1>1, <1>2

\* Numbers less than m apart that look the same are the same.
LEMMA SameNumber ==
    ASSUME NEW a \in Int, NEW b \in Int, NEW m \in Nat \ {0}, a % m = b % m,
           a - b < m, b - a < m
    PROVE  a = b
<1> DEFINE qa == a \div m
<1> DEFINE qb == b \div m
<1> DEFINE t == qa - qb
<1>1. /\ a = qa * m + (a % m) /\ b = qb * m + (b % m)
      /\ qa \in Int /\ qb \in Int /\ a % m \in 0 .. m - 1
  OBVIOUS
<1>2. t \in Int /\ t * m = qa * m - qb * m
  BY <1>1
<1>3. qa * m \in Int /\ qb * m \in Int
  BY <1>1
<1> HIDE DEF qa, qb, t
<1>4. t * m = a - b
  BY <1>1, <1>2, <1>3
<1>5. t = 0
  BY <1>2, <1>4, SmallMultiple
<1>6. 0 * m = 0
  OBVIOUS
<1> QED
  BY <1>4, <1>5, <1>6

\* A remainder may be taken before a number is added.
LEMMA ModAdd ==
    ASSUME NEW a \in Int, NEW b \in Int, NEW m \in Nat \ {0}
    PROVE  ((a % m) + b) % m = (a + b) % m
<1> DEFINE q == a \div m
<1> DEFINE r == (a + b) % m
<1> DEFINE s == ((a % m) + b) % m
<1> DEFINE u == (a + b) \div m
<1> DEFINE v == ((a % m) + b) \div m
<1>1. /\ a = q * m + (a % m) /\ q \in Int /\ a % m \in Int
      /\ a + b = u * m + r /\ u \in Int /\ r \in 0 .. m - 1
      /\ (a % m) + b = v * m + s /\ v \in Int /\ s \in 0 .. m - 1
  OBVIOUS
<1>2. q * m \in Int /\ u * m \in Int /\ v * m \in Int
  BY <1>1
<1>3. (q + v - u) * m = q * m + v * m - u * m
  BY <1>1
<1> HIDE DEF q, r, s, u, v
<1>4. (q + v - u) * m = r - s
  BY <1>1, <1>2, <1>3
<1>5. q + v - u = 0
  <2>1. q + v - u \in Int /\ 0 - m < (q + v - u) * m /\ (q + v - u) * m < m
    BY <1>1, <1>4
  <2> QED
    BY <2>1, SmallMultiple
<1>6. 0 * m = 0
  OBVIOUS
<1>7. r = s
  BY <1>1, <1>4, <1>5, <1>6
<1> QED
  BY <1>7 DEF r, s

\* A packet with the number the receiver expects is the one it awaits.
LEMMA AwaitedPacket ==
    ASSUME LossVisible, NEW n \in Radio, NEW k \in Int, -MaxLate <= k, k <= MaxLost,
           k < 0 => ~n.late, NEW x, Awaits(n, (n.seq + k) % SeqMod, x)
    PROVE  n.at + k * Len = x
<1> USE ConstantsAssumption
<1>1. PICK j \in -MaxLate .. 0 :
        /\ j = 0 \/ (n.late /\ -MaxLate < j)
        /\ (n.seq + k) % SeqMod = (n.seq + j) % SeqMod
        /\ x = n.at + j * Len
  BY DEF Awaits
<1>2. k - j < SeqMod /\ j - k < SeqMod
  BY <1>1 DEF LossVisible
<1>3. n.seq + k \in Int /\ n.seq + j \in Int /\ n.seq \in Int
  BY DEF Radio
<1>4. n.seq + k = n.seq + j
  BY <1>1, <1>2, <1>3, SameNumber
<1>5. k = j
  BY <1>3, <1>4
<1> QED
  BY <1>1, <1>5

\* What a packet of channel c does to its radio.
LEMMA ArrivalMoves ==
    ASSUME TypeOK, NEW c \in Chan, NEW p \in Arrivals(c), net[c].from <= net[c].at
    PROVE  /\ p.after \in Radio
           /\ p.after.from = net[c].from /\ p.after.from <= p.after.at
           /\ p.kind = "data" =>
                /\ p.after.up = net[c].up
                /\ net[c].from <= p.at
                /\ Awaits(p.after, (p.seq + 1) % SeqMod, p.at + Len)
                /\ LossVisible => \A x : Awaits(net[c], p.seq, x) => p.at = x
           /\ p.kind # "data" =>
                /\ p.after.up = (p.kind # "overflow")
                /\ net[c].at = p.after.at
                /\ \A e, x : Awaits(net[c], e, x) => Awaits(p.after, e, x)
<1> USE ConstantsAssumption
<1> DEFINE n == net[c]
<1>1. /\ n \in Radio /\ n.seq \in Nat /\ n.at \in Nat /\ n.from \in Nat
      /\ n.seq \in 0 .. SeqMod - 1 /\ n.late \in BOOLEAN /\ n.up \in BOOLEAN
  BY DEF TypeOK, Radio
<1>2. PacketOK(p)
  BY ArrivalsOK
<1> HIDE DEF n
<1>3. CASE p \in DataArrivals(c)
  <2>1. PICK k \in 0 .. MaxLost :
          p = Arrival("data", (n.seq + k) % SeqMod, n.at + k * Len,
                [n EXCEPT !.seq = (n.seq + k + 1) % SeqMod,
                          !.at = n.at + (k + 1) * Len, !.late = FALSE])
    BY <1>3 DEF DataArrivals, n
  <2>2. /\ p.kind = "data" /\ p.seq = (n.seq + k) % SeqMod /\ p.at = n.at + k * Len
        /\ p.after = [n EXCEPT !.seq = (n.seq + k + 1) % SeqMod,
                               !.at = n.at + (k + 1) * Len, !.late = FALSE]
    BY <2>1 DEF Arrival
  <2>3. /\ p.after.seq = (n.seq + k + 1) % SeqMod /\ p.after.at = n.at + (k + 1) * Len
        /\ p.after.from = n.from /\ p.after.up = n.up
    BY <1>1, <2>2 DEF Radio
  <2>4. /\ k * Len \in Nat /\ (k + 1) * Len = k * Len + Len /\ 0 * Len = 0 /\ 0 \in -MaxLate .. 0
    OBVIOUS
  <2>5. (p.seq + 1) % SeqMod = p.after.seq
    <3>1. PICK i \in Int : i = n.seq + k
      BY <1>1
    <3>2. ((i % SeqMod) + 1) % SeqMod = (i + 1) % SeqMod
      <4>1. SeqMod \in Nat \ {0} /\ 1 \in Int
        OBVIOUS
      <4> QED
        BY <4>1, ModAdd, Zenon
    <3> QED
      BY <2>2, <2>3, <3>1, <3>2
  <2>6. p.after.seq \in 0 .. SeqMod - 1
    BY <1>2 DEF PacketOK, Radio
  <2>7. (p.after.seq + 0) % SeqMod = p.after.seq
    BY <2>6
  <2>8. p.at + Len = p.after.at + 0 * Len
    BY <1>1, <2>2, <2>3, <2>4
  <2>9. Awaits(p.after, (p.seq + 1) % SeqMod, p.at + Len)
    BY <2>4, <2>5, <2>7, <2>8 DEF Awaits
  <2>10. ASSUME LossVisible, NEW x, Awaits(n, p.seq, x)
         PROVE  p.at = x
    <3>1. Awaits(n, (n.seq + k) % SeqMod, x)
      BY <2>2, <2>10
    <3>2. /\ k \in Int /\ -MaxLate <= k /\ k <= MaxLost
          /\ k < 0 => ~n.late
      BY <2>1, <2>2
    <3>3. n.at + k * Len = x
      BY <1>1, <2>10, <3>1, <3>2, AwaitedPacket
    <3> QED
      BY <2>2, <3>3
  <2>11. n.from <= p.at /\ p.after.from <= p.after.at
    <3>1. n.from <= n.at
      BY DEF n
    <3> QED
      BY <1>1, <2>2, <2>3, <2>4, <3>1
  <2> QED
    BY <1>2, <2>2, <2>3, <2>9, <2>10, <2>11 DEF PacketOK, n
<1>4. CASE p \in LateArrivals(c)
  <2>1. PICK k \in 1 .. MaxLate :
          /\ ~n.late /\ n.at - k * Len >= n.from
          /\ p = Arrival("data", (n.seq - k) % SeqMod, n.at - k * Len, [n EXCEPT !.late = TRUE])
    BY <1>4 DEF LateArrivals, n
  <2>2. PICK j \in Int : j = -k
    OBVIOUS
  <2>3. k * Len \in Nat /\ j * Len = -(k * Len) /\ (j + 1) * Len = j * Len + Len
    BY <2>2
  <2>4. /\ p.kind = "data" /\ p.seq = (n.seq + j) % SeqMod /\ p.at = n.at + j * Len
        /\ p.after = [n EXCEPT !.late = TRUE]
    <3>1. n.seq - k = n.seq + j /\ n.at - k * Len = n.at + j * Len
      BY <1>1, <2>2, <2>3
    <3> QED
      BY <2>1, <3>1 DEF Arrival
  <2>5. /\ p.after.seq = n.seq /\ p.after.at = n.at
        /\ p.after.from = n.from /\ p.after.up = n.up /\ p.after.late
    BY <1>1, <2>4 DEF Radio
  <2>6. (p.seq + 1) % SeqMod = (n.seq + (j + 1)) % SeqMod
    <3>1. PICK i \in Int : i = n.seq + j
      BY <1>1
    <3>2. ((i % SeqMod) + 1) % SeqMod = (i + 1) % SeqMod
      <4>1. SeqMod \in Nat \ {0} /\ 1 \in Int
        OBVIOUS
      <4> QED
        BY <4>1, ModAdd, Zenon
    <3>3. n.seq + j + 1 = n.seq + (j + 1)
      BY <1>1
    <3> QED
      BY <2>4, <3>1, <3>2, <3>3
  <2>7. p.at + Len = n.at + (j + 1) * Len
    BY <1>1, <2>3, <2>4
  <2>8. j + 1 \in -MaxLate .. 0 /\ -MaxLate < j + 1
    BY <2>2
  <2>9. Awaits(p.after, (p.seq + 1) % SeqMod, p.at + Len)
    BY <2>5, <2>6, <2>7, <2>8 DEF Awaits
  <2>10. ASSUME LossVisible, NEW x, Awaits(n, p.seq, x)
         PROVE  p.at = x
    <3>1. Awaits(n, (n.seq + j) % SeqMod, x)
      BY <2>4, <2>10
    <3>2. /\ j \in Int /\ -MaxLate <= j /\ j <= MaxLost
          /\ j < 0 => ~n.late
      BY <2>1, <2>2
    <3>3. n.at + j * Len = x
      BY <1>1, <2>10, <3>1, <3>2, AwaitedPacket
    <3> QED
      BY <2>4, <3>3
  <2>11. n.from <= p.at /\ p.after.from <= p.after.at
    <3>1. n.from <= n.at
      BY DEF n
    <3> QED
      BY <1>1, <2>1, <2>3, <2>4, <2>5, <3>1
  <2> QED
    BY <1>2, <2>4, <2>5, <2>9, <2>10, <2>11 DEF PacketOK, n
<1>5. CASE p \in MessageArrivals(c)
  <2>1. PICK m \in Messages :
          p = Arrival(m, 0, n.at, [n EXCEPT !.up = m # "overflow"])
    BY <1>5 DEF MessageArrivals, n
  <2>2. p.kind = m /\ m # "data" /\ p.after = [n EXCEPT !.up = m # "overflow"]
    BY <2>1 DEF Arrival
  <2>3. /\ p.after.seq = n.seq /\ p.after.at = n.at /\ p.after.late = n.late
        /\ p.after.from = n.from /\ p.after.up = (m # "overflow")
    BY <1>1, <2>2 DEF Radio
  <2>4. \A e, x : Awaits(n, e, x) => Awaits(p.after, e, x)
    BY <2>3 DEF Awaits
  <2>5. n.from <= n.at
    BY DEF n
  <2> QED
    BY <1>2, <2>2, <2>3, <2>4, <2>5 DEF PacketOK, n
<1> QED
  BY <1>3, <1>4, <1>5 DEF Arrivals

\* The channels not aligned may move on, as long as they do not move back.
LEMMA KeptElsewhere ==
    ASSUME NEW s, NEW t, NEW N, NEW M, NEW E, Kept(s, N, E),
           t.todo = s.todo, t.atime = s.atime, s.atime \in Nat, s.todo \subseteq Chan,
           \A d \in Chan \ s.todo : M[d] = N[d],
           \A d \in s.todo : N[d].from \in Nat /\ M[d].from \in Nat /\ N[d].from <= M[d].from
    PROVE  Kept(t, M, E)
<1>1. CASE Doomed(s, N)
  BY <1>1 DEF Doomed, Kept
<1>2. CASE \A c \in Chan \ s.todo : Awaits(N[c], E[c], s.atime + Len)
  <2>1. \A c \in Chan \ t.todo : Awaits(M[c], E[c], t.atime + Len)
    BY <1>2
  <2> QED
    BY <2>1 DEF Kept
<1> QED
  BY <1>1, <1>2 DEF Kept

LEMMA BecameKept ==
    ASSUME NEW s, NEW c \in Chan, c \in s.todo, s.todo \subseteq Chan, s.atime \in Nat,
           NEW at \in Nat, NEW r, Became(s, c, at, r),
           NEW N, DOMAIN N = Chan, NEW E, DOMAIN E = Chan, Kept(s, N, E),
           NEW a, a.from = N[c].from, N[c].from \in Nat, N[c].from <= at,
           NEW e, Awaits(a, e, at + Len)
    PROVE  Kept(r, [N EXCEPT ![c] = a], [E EXCEPT ![c] = e])
<1> DEFINE M == [N EXCEPT ![c] = a]
<1> DEFINE F == [E EXCEPT ![c] = e]
<1>1. /\ M[c] = a /\ F[c] = e
      /\ \A d \in Chan \ {c} : M[d] = N[d] /\ F[d] = E[d]
  OBVIOUS
<1> HIDE DEF M, F
<1>2. CASE r.atime = at /\ r.todo = Chan \ {c}
  <2>1. \A d \in Chan \ r.todo : Awaits(M[d], F[d], r.atime + Len)
    BY <1>1, <1>2
  <2> QED
    BY <2>1 DEF Kept, M, F
<1>3. CASE s.atime = at /\ r.atime = at /\ r.todo = s.todo \ {c}
  <2>1. CASE Doomed(s, N)
    <3>1. PICK d \in s.todo : N[d].from > s.atime
      BY <2>1 DEF Doomed
    <3>2. d # c
      BY <1>3, <3>1
    <3>3. d \in r.todo /\ M[d].from > r.atime
      BY <1>1, <1>3, <3>1, <3>2
    <3> QED
      BY <3>3 DEF Kept, Doomed, M, F
  <2>2. CASE \A d \in Chan \ s.todo : Awaits(N[d], E[d], s.atime + Len)
    <3>1. \A d \in Chan \ r.todo : Awaits(M[d], F[d], r.atime + Len)
      BY <1>1, <1>3, <2>2
    <3> QED
      BY <3>1 DEF Kept, M, F
  <2> QED
    BY <2>1, <2>2 DEF Kept
<1>4. CASE r.atime = s.atime /\ r.todo = s.todo
  <2>1. CASE Doomed(s, N)
    <3>1. PICK d \in s.todo : N[d].from > s.atime
      BY <2>1 DEF Doomed
    <3>2. M[d].from = N[d].from
      BY <1>1, <3>1
    <3> QED
      BY <1>4, <3>1, <3>2 DEF Kept, Doomed, M, F
  <2>2. CASE \A d \in Chan \ s.todo : Awaits(N[d], E[d], s.atime + Len)
    <3>1. \A d \in Chan \ r.todo : Awaits(M[d], F[d], r.atime + Len)
      BY <1>1, <1>4, <2>2
    <3> QED
      BY <3>1 DEF Kept, M, F
  <2> QED
    BY <2>1, <2>2 DEF Kept
<1> QED
  BY <1>2, <1>3, <1>4 DEF Became

\* When the packet is the one awaited, everything still follows what the
\* application has.
LEMMA BecameFollows ==
    ASSUME NEW s, NEW c \in Chan, c \in s.todo, s.todo \subseteq Chan,
           Forming(s), s.left \in Nat, NEW at, NEW r, Became(s, c, at, r),
           s.valid /\ s.atime = at => r.todo = s.todo \ {c} /\ r.atime = at,
           NEW N, DOMAIN N = Chan, NEW E, DOMAIN E = Chan,
           NEW next, \A d, f \in Chan : next[d] = next[f], at = next[c],
           Follows(s, N, E, next), NEW a, NEW e
    PROVE  Follows(r, [N EXCEPT ![c] = a], [E EXCEPT ![c] = e], next)
<1> DEFINE M == [N EXCEPT ![c] = a]
<1> DEFINE F == [E EXCEPT ![c] = e]
<1>1. \A d \in Chan \ {c} : M[d] = N[d] /\ F[d] = E[d]
  OBVIOUS
<1> HIDE DEF M, F
<1>2. CASE s.valid
  <2>1. s.left > 0
    BY <1>2 DEF Forming, Fresh
  <2>2. PICK d \in Chan : d \notin s.todo
    BY <2>1 DEF Forming
  <2>3. s.atime = at
    BY <2>2 DEF Follows
  <2>4. r.todo = s.todo \ {c} /\ r.atime = at
    BY <1>2, <2>3
  <2> QED
    BY <1>1, <2>3, <2>4 DEF Follows, M, F
<1>3. CASE ~s.valid
  <2>1. s.todo = Chan
    BY <1>3 DEF Forming, Fresh
  <2>2. r.atime = at /\ r.todo = Chan \ {c}
    BY <1>3 DEF Became
  <2> QED
    BY <1>1, <2>1, <2>2 DEF Follows, M, F
<1> QED
  BY <1>2, <1>3

\* What an overflow handler does to the radios never takes one back in time.
LEMMA HandleOverflowMoves ==
    ASSUME NEW c \in Chan, NEW n \in [Chan -> Radio], NEW e \in [Chan -> 0 .. SeqMod - 1],
           \A d \in Chan : n[d].from <= n[d].at, HandleOverflow(c, n, e)
    PROVE  /\ \A d \in Chan : net'[d].from <= net'[d].at /\ n[d].from <= net'[d].from
           /\ Recovery # "restart" => \A d, f \in Chan : n[f].at <= net'[d].from
           /\ Recovery # "flush" => expected' = e
           /\ Recovery = "restart" =>
                /\ \A d \in Chan \ {c} : net'[d] = n[d]
                /\ net'[c].up
                /\ n[c].up => net' = n
<1> USE ConstantsAssumption
<1>1. \A d \in Chan : n[d].at \in Nat /\ n[d].from \in Nat /\ n[d].up \in BOOLEAN
  BY DEF Radio
<1>2. CASE Recovery = "restart"
  <2>1. RestartRadio(c, n, e)
    BY <1>2 DEF HandleOverflow
  <2>2. expected' = e
    BY <2>1 DEF RestartRadio
  <2>3. CASE n[c].up /\ net' = n
    BY <1>1, <1>2, <2>2, <2>3
  <2>4. CASE ~n[c].up
    <3>1. PICK g \in Gaps :
            net' = [n EXCEPT ![c] = [n[c] EXCEPT !.at = n[c].at + g, !.from = n[c].at + g,
                                                 !.up = TRUE]]
      BY <2>1, <2>4 DEF RestartRadio
    <3>2. /\ net'[c].at = n[c].at + g /\ net'[c].from = n[c].at + g /\ net'[c].up
          /\ \A d \in Chan \ {c} : net'[d] = n[d]
      BY <3>1 DEF Radio
    <3>3. n[c].from <= n[c].at + g
      BY <1>1
    <3> QED
      BY <1>1, <1>2, <2>2, <2>4, <3>2, <3>3
  <2> QED
    BY <2>1, <2>3, <2>4 DEF RestartRadio
<1>3. CASE Recovery # "restart"
  <2>1. PICK f \in [Chan -> 0 .. MaxDrain], g \in Gaps, last \in Chan :
          /\ \A d \in Chan : StopAt(n, f, d) <= StopAt(n, f, last)
          /\ net' = [d \in Chan |-> [seq |-> StopSeq(n, f, d),
                                     at |-> StopAt(n, f, last) + g,
                                     from |-> StopAt(n, f, last) + g,
                                     up |-> TRUE, late |-> FALSE]]
          /\ expected' = [d \in Chan |-> IF Recovery = "flush" /\ Drained(n, f, d) > 0
                                         THEN StopSeq(n, f, d) ELSE e[d]]
    BY <1>3 DEF HandleOverflow, RestartAll
  <2>2. \A d \in Chan : StopAt(n, f, d) \in Nat /\ n[d].at <= StopAt(n, f, d)
    <3> TAKE d \in Chan
    <3>1. Drained(n, f, d) \in Nat
      BY DEF Drained
    <3>2. Drained(n, f, d) * Len \in Nat
      BY <3>1
    <3> QED
      BY <1>1, <3>2 DEF StopAt
  <2>3. \A d \in Chan : /\ net'[d].from = StopAt(n, f, last) + g
                        /\ net'[d].at = StopAt(n, f, last) + g
    BY <2>1
  <2>4. \A d \in Chan : n[d].at <= StopAt(n, f, last) + g
    BY <1>1, <2>1, <2>2
  <2>5. Recovery # "flush" => expected' = e
    BY <2>1
  <2>6. \A d \in Chan : /\ net'[d].from <= net'[d].at
                        /\ n[d].from <= net'[d].from
    BY <1>1, <2>2, <2>3, <2>4
  <2> QED
    BY <1>3, <2>3, <2>4, <2>5, <2>6
<1> QED
  BY <1>2, <1>3

LEMMA NegatedNat == \A j \in Int : j <= 0 => \E k \in Nat : j = -k
OBVIOUS

\* The progress is kept, or will be thrown away.
LEMMA HandleOverflowKept ==
    ASSUME NEW c \in Chan, NEW n \in [Chan -> Radio], NEW e \in [Chan -> 0 .. SeqMod - 1],
           \A d \in Chan : n[d].from <= n[d].at, HandleOverflow(c, n, e), Recovery # "flush",
           NEW s, Forming(s), s.left \in Nat, s.atime \in Nat, s.todo \subseteq Chan,
           c \in s.todo, Kept(s, n, e), net' \in [Chan -> Radio]
    PROVE  Kept(s, net', expected')
<1> USE ConstantsAssumption
<1>1. \A d \in Chan : /\ n[d].at \in Nat /\ n[d].from \in Nat /\ net'[d].from \in Nat
                      /\ n[d].from <= net'[d].from
  BY HandleOverflowMoves DEF Radio
<1>2. expected' = e
  BY HandleOverflowMoves
<1>3. CASE Recovery = "restart"
  <2>1. \A d \in Chan \ s.todo : net'[d] = n[d]
    BY <1>3, HandleOverflowMoves
  <2> QED
    BY <1>1, <1>2, <2>1, KeptElsewhere
<1>4. CASE Recovery # "restart"
  <2>1. \A d, f \in Chan : n[f].at <= net'[d].from
    BY <1>4, HandleOverflowMoves
  <2>2. CASE s.left = 0
    <3>1. s.todo = Chan
      BY <2>2 DEF Forming, Fresh
    <3> QED
      BY <3>1 DEF Kept
  <2>3. CASE s.left > 0 /\ Doomed(s, n)
    <3>1. PICK d \in s.todo : n[d].from > s.atime
      BY <2>3 DEF Doomed
    <3>2. net'[d].from > s.atime
      BY <1>1, <3>1
    <3> QED
      BY <3>2 DEF Kept, Doomed
  <2>4. CASE s.left > 0 /\ \A d \in Chan \ s.todo : Awaits(n[d], e[d], s.atime + Len)
    <3>1. PICK d \in Chan : d \notin s.todo
      BY <2>4 DEF Forming
    <3>2. PICK j \in -MaxLate .. 0 : s.atime + Len = n[d].at + j * Len
      BY <2>4, <3>1 DEF Awaits
    <3>3. j * Len <= 0 /\ j * Len \in Int
      <4>1. PICK k \in Nat : j = -k
        <5>1. j \in Int /\ j <= 0
          OBVIOUS
        <5> QED
          BY <5>1, NegatedNat, Zenon
      <4>2. k * Len \in Nat /\ j * Len = -(k * Len)
        BY <4>1
      <4> QED
        BY <4>2
    <3>4. s.atime < n[d].at
      <4>1. PICK m \in Int : m = j * Len /\ m <= 0 /\ s.atime + Len = n[d].at + m
        BY <3>2, <3>3
      <4>2. n[d].at \in Nat
        BY <1>1
      <4> QED
        BY <4>1, <4>2
    <3>5. net'[c].from > s.atime
      BY <1>1, <2>1, <3>4
    <3> QED
      BY <3>5 DEF Kept, Doomed
  <2> QED
    BY <2>2, <2>3, <2>4 DEF Kept
<1> QED
  BY <1>3, <1>4

\* An alignment may fail only where the handler of the device leaves the
\* aligned channels alone: it restarts the others, or throws out slots, without
\* a further error (see AlignmentFailure).
AlignmentLasts == Recovery # "restart" \/ Faulty => iters <= Threshold + 1

\* An early return: a loss is reported, or nothing has been lost.
LEMMA EarlyReturnGap ==
    ASSUME IInv, SlotsInv, GapInv, pc = "align", pc' = "copy", UNCHANGED <<idx, queue, app>>,
           Returned(slots', idx),
           \A d \in Chan : net'[d].from <= net'[d].at,
           Recovery = "restart" /\ ~Faulty => \A d \in Chan : net'[d].up,
           Kept(slots'[Next4(idx)], net', expected'),
           \/ slots'[idx].md.code \in LossCodes
           \/ app.told
           \/ Follows(slots'[Next4(idx)], net', expected', app.next)
    PROVE  GapInv'
<1>1. Active' = slots'[Next4(idx)] /\ Curr' = slots'[idx] /\ Curr'.left = 0
  BY DEF Active, Curr, Returned
<1>2. Told => app.told
  BY DEF Told, SlotsInv
<1>3. ~Told' => ~app.told /\ slots'[idx].md.code \notin LossCodes
  BY <1>1 DEF Told
<1>4. ~Told' => /\ \A d, f \in Chan : app'.next[d] = app'.next[f]
                /\ Follows(slots'[Next4(idx)], net', expected', app'.next)
  BY <1>2, <1>3 DEF GapInv
<1> QED
  BY <1>1, <1>4 DEF GapInv

LEMMA AlignStepGap ==
    ASSUME LossVisible, IInv, IInv', SlotsInv, GapInv, AlignmentLasts', NEW c \in Chan, AlignStep(c)
    PROVE  GapInv'
<1> USE ConstantsAssumption
<1>1. /\ TypeOK /\ pc = "align" /\ c \in Curr.todo /\ clock.back = 0
      /\ idx \in Slots /\ slots \in [Slots -> Slot] /\ Curr \in Slot
      /\ Forming(Curr) /\ Curr = slots[idx]
      /\ net \in [Chan -> Radio] /\ expected \in [Chan -> 0 .. SeqMod - 1]
      /\ UNCHANGED <<idx, queue, app>>
  BY DEF AlignStep, AlignData, AlignmentFailure, InlineMessage, SequenceError,
         Timeout, BadPacket, NextTodo, IInv, TypeOK, SlotsInv, Active, Curr
<1>2. Curr.todo \subseteq Chan /\ Curr.left \in Nat /\ Curr.atime \in Nat
  BY <1>1 DEF Slot
<1>3. /\ Kept(Curr, net, expected)
      /\ ~app.told => /\ Follows(Curr, net, expected, app.next)
                      /\ \A d, f \in Chan : app.next[d] = app.next[f]
      /\ \A d \in Chan : net[d].from <= net[d].at
      /\ Recovery = "restart" /\ ~Faulty => \A d \in Chan : net[d].up
  BY <1>1 DEF GapInv, SlotsInv, Active, Told
<1>4. net' \in [Chan -> Radio] /\ expected' \in [Chan -> 0 .. SeqMod - 1]
  BY DEF IInv, TypeOK
\* A data packet.
<1>5. ASSUME NEW p \in Arrivals(c), p.kind = "data"
      PROVE  /\ Kept(AlignmentCheck(c, WithPacket(c, p)), [net EXCEPT ![c] = p.after], Counted(c, p))
             /\ Kept(Checked(c, p), [net EXCEPT ![c] = p.after], Counted(c, p))
             /\ ~app.told /\ p.seq = expected[c] =>
                  Follows(Checked(c, p), [net EXCEPT ![c] = p.after], Counted(c, p), app.next)
             /\ Forming(Checked(c, p)) /\ Checked(c, p).todo \subseteq Chan
  <2>1. PacketOK(p) /\ p.at \in Nat
    BY <1>1, ArrivalsOK DEF PacketOK
  <2>2. /\ Became(Curr, c, p.at, AlignmentCheck(c, WithPacket(c, p)))
        /\ Became(Curr, c, p.at, Checked(c, p))
        /\ Curr.valid /\ Curr.atime = p.at =>
             Checked(c, p).todo = Curr.todo \ {c} /\ Checked(c, p).atime = p.at
    BY <1>1, <1>5, <2>1, DataBecomes
  <2>3. Counted(c, p) = [expected EXCEPT ![c] = (p.seq + 1) % SeqMod]
    BY <1>5 DEF Counted
  <2>4. /\ p.after.from = net[c].from /\ net[c].from <= p.at /\ net[c].from \in Nat
        /\ Awaits(p.after, (p.seq + 1) % SeqMod, p.at + Len)
        /\ \A x : Awaits(net[c], p.seq, x) => p.at = x
    BY <1>1, <1>3, <1>5, ArrivalMoves DEF Radio
  <2>5. DOMAIN net = Chan /\ DOMAIN expected = Chan
    BY <1>1
  <2>6. ASSUME NEW r, Became(Curr, c, p.at, r)
        PROVE  Kept(r, [net EXCEPT ![c] = p.after], Counted(c, p))
    <3>1. PICK s : s = Curr
      OBVIOUS
    <3>2. /\ c \in s.todo /\ s.todo \subseteq Chan /\ s.atime \in Nat
          /\ Became(s, c, p.at, r) /\ Kept(s, net, expected)
      BY <1>1, <1>2, <1>3, <2>6, <3>1
    <3>3. PICK a, e : a = p.after /\ e = (p.seq + 1) % SeqMod
      OBVIOUS
    <3>4. a.from = net[c].from /\ net[c].from \in Nat /\ net[c].from <= p.at /\ Awaits(a, e, p.at + Len)
      BY <2>4, <3>3
    <3>5. Kept(r, [net EXCEPT ![c] = a], [expected EXCEPT ![c] = e])
      BY <2>1, <2>5, <3>2, <3>4, BecameKept
    <3> QED
      BY <2>3, <3>3, <3>5
  <2>7. ASSUME ~app.told, p.seq = expected[c]
        PROVE  Follows(Checked(c, p), [net EXCEPT ![c] = p.after], Counted(c, p), app.next)
    <3>1. p.at = app.next[c]
      BY <1>1, <1>3, <2>4, <2>7 DEF Follows
    <3>2. PICK s, r : s = Curr /\ r = Checked(c, p)
      OBVIOUS
    <3>3. /\ c \in s.todo /\ s.todo \subseteq Chan /\ Forming(s) /\ s.left \in Nat
          /\ Became(s, c, p.at, r) /\ Follows(s, net, expected, app.next)
          /\ s.valid /\ s.atime = p.at => r.todo = s.todo \ {c} /\ r.atime = p.at
          /\ \A d, f \in Chan : app.next[d] = app.next[f]
      BY <1>1, <1>2, <1>3, <2>2, <2>7, <3>2
    <3>4. \A a, e : Follows(r, [net EXCEPT ![c] = a], [expected EXCEPT ![c] = e], app.next)
      BY <2>5, <3>1, <3>3, BecameFollows
    <3> QED
      BY <2>3, <3>2, <3>4
  <2> QED
    BY <1>1, <1>2, <2>2, <2>6, <2>7, BecameForming
<1>6. ASSUME NEW p, PacketType(c, p) \in {"IF_DATA", "TIMESTAMP_ERROR", "SEQUENCE_ERROR"}
      PROVE  p.kind = "data" /\ (PacketType(c, p) # "SEQUENCE_ERROR" => p.seq = expected[c])
  BY <1>6 DEF PacketType
\* The radios after a packet.
<1>7. ASSUME NEW p \in Arrivals(c), NEW N, N = [net EXCEPT ![c] = p.after]
      PROVE  /\ N \in [Chan -> Radio]
             /\ \A d \in Chan : N[d].from <= N[d].at
             /\ Recovery = "restart" /\ ~Faulty => \A d \in Chan \ {c} : N[d].up
             /\ Recovery = "restart" /\ ~Faulty /\ p.kind # "overflow" => N[c].up
             /\ \A d \in Chan : N[d].from = net[d].from
  <2>1. N[c] = p.after /\ \A d \in Chan \ {c} : N[d] = net[d]
    BY <1>1, <1>7
  <2>2. /\ p.after \in Radio /\ p.after.from = net[c].from /\ p.after.from <= p.after.at
        /\ p.kind = "data" => p.after.up = net[c].up
        /\ p.kind # "data" => p.after.up = (p.kind # "overflow")
    BY <1>1, <1>3, ArrivalMoves
  <2> QED
    BY <1>1, <1>3, <1>7, <2>1, <2>2
\* Progress that the packet of channel c does not enter.
<1>8. ASSUME NEW p \in Arrivals(c), NEW x
      PROVE  /\ Kept([Curr EXCEPT !.per[c] = x], [net EXCEPT ![c] = p.after], expected)
             /\ Forming([Curr EXCEPT !.per[c] = x])
             /\ [Curr EXCEPT !.per[c] = x].todo = Curr.todo
             /\ [Curr EXCEPT !.per[c] = x].atime = Curr.atime
             /\ [Curr EXCEPT !.per[c] = x].left = Curr.left
             /\ ~app.told /\ p.kind # "data" =>
                  Follows([Curr EXCEPT !.per[c] = x], [net EXCEPT ![c] = p.after],
                          expected, app.next)
  <2> DEFINE s == [Curr EXCEPT !.per[c] = x]
  <2> DEFINE N == [net EXCEPT ![c] = p.after]
  <2>1. Forming(s) /\ s.todo = Curr.todo /\ s.atime = Curr.atime /\ s.left = Curr.left
    BY <1>1, WithPacketForming DEF Slot
  <2>2. N[c] = p.after /\ \A d \in Chan \ {c} : N[d] = net[d]
    BY <1>1
  <2>3. \A d \in Chan : N[d].from = net[d].from /\ net[d].from \in Nat
    <3>1. \A d \in Chan : N[d].from = net[d].from
      BY <1>7
    <3>2. \A d \in Chan : net[d].from \in Nat
      BY <1>1 DEF Radio
    <3> QED
      BY <3>1, <3>2, Zenon
  <2>4. ~app.told /\ p.kind # "data" => Awaits(N[c], expected[c], app.next[c])
    BY <1>1, <1>3, <2>2, ArrivalMoves DEF Follows
  <2> HIDE DEF s, N
  <2>5. Kept(s, N, expected)
    <3>1. PICK r : r = Curr
      OBVIOUS
    <3>2. /\ Kept(r, net, expected) /\ s.todo = r.todo /\ s.atime = r.atime
          /\ r.atime \in Nat /\ r.todo \subseteq Chan /\ c \in r.todo
      BY <1>1, <1>2, <1>3, <2>1, <3>1
    <3>3. \A d \in Chan \ r.todo : N[d] = net[d]
      BY <2>2, <3>2
    <3>4. \A d \in r.todo : /\ net[d].from \in Nat /\ N[d].from \in Nat
                            /\ net[d].from <= N[d].from
      BY <2>3, <3>2
    <3> QED
      BY <3>2, <3>3, <3>4, KeptElsewhere
  <2>6. ~app.told /\ p.kind # "data" => Follows(s, N, expected, app.next)
    <3>1. ASSUME ~app.told, p.kind # "data"
          PROVE  /\ \A d \in s.todo : Awaits(N[d], expected[d], app.next[d])
                 /\ \A d \in Chan \ s.todo : s.atime = app.next[d]
      BY <1>2, <1>3, <2>1, <2>2, <2>4, <3>1 DEF Follows
    <3> QED
      BY <3>1 DEF Follows
  <2> QED
    BY <2>1, <2>5, <2>6 DEF s, N
<1>9. ASSUME NEW s, NEW md
      PROVE  GiveUp(s, md)[idx].md = md /\ GiveUp(s, md)[Next4(idx)] = s
  BY <1>1, GiveUpReturns
<1>10. ASSUME NEW code \in Codes
       PROVE  Error(code) \in Metadata /\ Error(code).code = code
  <2>1. slots[Next4(idx)].md \in Metadata
    BY <1>1, RingIndices DEF Slot
  <2> QED
    BY <1>10, <2>1 DEF Error, Metadata
<1>11. CASE AlignData(c)
  <2>1. PICK p \in Arrivals(c) :
          /\ PacketType(c, p) \in {"IF_DATA", "TIMESTAMP_ERROR"}
          /\ net' = [net EXCEPT ![c] = p.after]
          /\ expected' = Counted(c, p)
          /\ slots' = [slots EXCEPT ![idx] = Checked(c, p)]
          /\ UNCHANGED <<clock, idx, queue, pc, call, ret, app>>
    BY <1>11 DEF AlignData
  <2>2. p.kind = "data" /\ p.seq = expected[c]
    BY <1>6, <2>1
  <2>3. Curr' = Checked(c, p) /\ Active' = Checked(c, p)
    BY <1>1, <2>1 DEF Curr, Active
  <2>4. /\ Kept(Active', net', expected')
        /\ ~app.told => Follows(Active', net', expected', app.next)
    BY <1>5, <2>1, <2>2, <2>3
  <2>5. /\ \A d \in Chan : net'[d].from <= net'[d].at
        /\ Recovery = "restart" /\ ~Faulty => \A d \in Chan : net'[d].up
    BY <1>7, <2>1, <2>2
  <2>6. ~Told' => ~app.told
    BY <2>1 DEF Told
  <2> QED
    BY <1>1, <1>3, <2>1, <2>4, <2>5, <2>6 DEF GapInv
<1>12. CASE AlignmentFailure(c)
  <2>1. PICK p \in Arrivals(c) :
          /\ PacketType(c, p) \in {"IF_DATA", "TIMESTAMP_ERROR"}
          /\ iters > Threshold /\ iters' = iters + 1 /\ pc' = "copy"
          /\ HandleOverflow(c, [net EXCEPT ![c] = p.after], Counted(c, p))
          /\ slots' = AfterOverflow(GiveUp(Checked(c, p), Error("ALIGNMENT")))
    BY <1>12 DEF AlignmentFailure
  <2>2. Recovery = "restart" /\ ~Faulty
    BY <1>1, <2>1 DEF AlignmentLasts, TypeOK
  <2>3. p.kind = "data"
    BY <1>6, <2>1
  <2>4. slots' = GiveUp(Checked(c, p), Error("ALIGNMENT"))
    BY <2>1, <2>2 DEF AfterOverflow
  <2>5. PICK N \in [Chan -> Radio] : N = [net EXCEPT ![c] = p.after]
    BY <1>7
  <2>6. (\A d \in Chan : N[d].up) /\ (\A d \in Chan : N[d].from <= N[d].at)
    BY <1>7, <2>2, <2>3, <2>5
  <2>7. net' = N /\ expected' = Counted(c, p)
    <3>1. RestartRadio(c, N, Counted(c, p))
      BY <2>1, <2>2, <2>5 DEF HandleOverflow
    <3> QED
      BY <2>6, <3>1 DEF RestartRadio
  <2>8. Kept(slots'[Next4(idx)], net', expected')
    <3>1. slots'[Next4(idx)] = Checked(c, p)
      BY <1>9, <2>4
    <3>2. Kept(Checked(c, p), [net EXCEPT ![c] = p.after], Counted(c, p))
      BY <1>5, <2>3
    <3> QED
      BY <2>5, <2>7, <3>1, <3>2
  <2>9. slots'[idx].md.code \in LossCodes
    BY <1>9, <1>10, <2>4 DEF LossCodes, Codes
  <2>10. Returned(slots', idx)
    BY <1>1, <2>1, AlignStepReturns
  <2> QED
    BY <1>1, <2>1, <2>6, <2>7, <2>8, <2>9, <2>10, EarlyReturnGap
<1>13. CASE InlineMessage(c)
  <2>1. PICK p \in Arrivals(c) :
          LET n == [net EXCEPT ![c] = p.after]
              md == MessageMetadata(c, p)
              S == GiveUp(WithPacket(c, p), md)
          IN /\ PacketType(c, p) = "INLINE_MESSAGE"
             /\ \/ /\ md.code = "OVERFLOW"
                   /\ HandleOverflow(c, n, expected)
                   /\ slots' = [AfterOverflow(S) EXCEPT ![idx].md = md]
                \/ /\ md.code # "OVERFLOW"
                   /\ net' = n
                   /\ slots' = S
                   /\ UNCHANGED expected
    BY <1>13 DEF InlineMessage
  <2>2. PICK N \in [Chan -> Radio] : N = [net EXCEPT ![c] = p.after]
    BY <1>7
  <2>3. PICK md : md = MessageMetadata(c, p)
    OBVIOUS
  <2>4. PICK s : s = WithPacket(c, p)
    OBVIOUS
  <2>5. p.kind # "data" /\ (md.code # "OVERFLOW" => p.kind # "overflow")
    <3>1. p.kind # "data"
      BY <2>1 DEF PacketType
    <3>2. Error("OVERFLOW").code = "OVERFLOW" /\ Error("OVERFLOW") \in Metadata
      BY <1>10 DEF Codes
    <3>3. p.kind = "overflow" => md.code = "OVERFLOW"
      BY <2>3, <3>2 DEF MessageMetadata, Metadata
    <3> QED
      BY <3>1, <3>3
  <2>6. pc' = "copy"
    BY <1>13 DEF InlineMessage
  <2>7. Returned(slots', idx)
    BY <1>1, <2>6, AlignStepReturns
  <2>8. /\ Kept(s, N, expected) /\ Forming(s)
        /\ s.todo = Curr.todo /\ s.atime = Curr.atime /\ s.left = Curr.left
        /\ ~app.told => Follows(s, N, expected, app.next)
    BY <1>8, <2>2, <2>4, <2>5 DEF WithPacket
  <2>9. /\ \A d \in Chan : N[d].from <= N[d].at
        /\ Recovery = "restart" /\ ~Faulty => \A d \in Chan \ {c} : N[d].up
        /\ Recovery = "restart" /\ ~Faulty /\ p.kind # "overflow" => N[c].up
    BY <1>7, <2>2
  <2>10. CASE /\ md.code = "OVERFLOW"
              /\ HandleOverflow(c, N, expected)
              /\ slots' = [AfterOverflow(GiveUp(s, md)) EXCEPT ![idx].md = md]
    <3> DEFINE A == AfterOverflow(GiveUp(s, md))
    <3>1. Returned(GiveUp(s, md), idx) /\ DOMAIN GiveUp(s, md) = Slots /\ GiveUp(s, md)[Next4(idx)] = s
      BY <1>1, <2>8, GiveUpReturns DEF Returned
    <3>2. /\ DOMAIN A = Slots
          /\ Recovery # "flush" => A[Next4(idx)] = s
          /\ Recovery = "flush" => Fresh(A[Next4(idx)])
      BY <1>1, <3>1, AfterOverflowReturns DEF AfterOverflow
    <3> HIDE DEF A
    <3>3. slots'[idx] = [A[idx] EXCEPT !.md = md] /\ slots'[Next4(idx)] = A[Next4(idx)]
      BY <1>1, <2>10, <3>2, RingIndices DEF A
    <3>4. slots'[idx].md.code \in LossCodes
      <4>1. slots' \in [Slots -> Slot]
        BY DEF IInv, TypeOK
      <4>2. slots'[idx].md = md
        BY <1>1, <3>3, <4>1 DEF Slot
      <4> QED
        BY <2>10, <4>2 DEF LossCodes
    <3>5. Kept(slots'[Next4(idx)], net', expected')
      <4>1. CASE Recovery = "flush"
        BY <3>2, <3>3, <4>1 DEF Fresh, Kept
      <4>2. CASE Recovery # "flush"
        <5>1. Kept(s, net', expected')
          BY <1>1, <1>2, <1>4, <2>8, <2>9, <2>10, <4>2, HandleOverflowKept
        <5> QED
          BY <3>2, <3>3, <4>2, <5>1
      <4> QED
        BY <4>1, <4>2
    <3>6. /\ \A d \in Chan : net'[d].from <= net'[d].at
          /\ Recovery = "restart" /\ ~Faulty => \A d \in Chan : net'[d].up
      BY <1>1, <2>9, <2>10, HandleOverflowMoves
    <3> QED
      BY <1>1, <2>6, <2>7, <3>4, <3>5, <3>6, EarlyReturnGap
  <2>11. CASE md.code # "OVERFLOW" /\ net' = N /\ slots' = GiveUp(s, md) /\ UNCHANGED expected
    <3>1. slots'[Next4(idx)] = s
      BY <1>9, <2>11
    <3>2. \A d \in Chan : net'[d].from <= net'[d].at
      BY <2>9, <2>11
    <3>3. Recovery = "restart" /\ ~Faulty => \A d \in Chan : net'[d].up
      BY <2>5, <2>9, <2>11
    <3> QED
      BY <1>1, <2>6, <2>7, <2>8, <2>11, <3>1, <3>2, <3>3, EarlyReturnGap
  <2> QED
    BY <2>1, <2>2, <2>3, <2>4, <2>10, <2>11
<1>14. CASE SequenceError(c)
  <2>1. PICK p \in Arrivals(c) :
          /\ PacketType(c, p) = "SEQUENCE_ERROR"
          /\ net' = [net EXCEPT ![c] = p.after]
          /\ expected' = Counted(c, p)
          /\ slots' = GiveUp(AlignmentCheck(c, WithPacket(c, p)), SequenceMetadata(c))
          /\ pc' = "copy"
    BY <1>14 DEF SequenceError
  <2>2. p.kind = "data"
    BY <1>6, <2>1
  <2>3. Kept(slots'[Next4(idx)], net', expected')
    <3>1. slots'[Next4(idx)] = AlignmentCheck(c, WithPacket(c, p))
      BY <1>9, <2>1
    <3>2. Kept(AlignmentCheck(c, WithPacket(c, p)), [net EXCEPT ![c] = p.after], Counted(c, p))
      BY <1>5, <2>2
    <3> QED
      BY <2>1, <3>1, <3>2
  <2>4. SequenceMetadata(c).code = "OVERFLOW"
    <3>1. Error("OVERFLOW").code = "OVERFLOW" /\ Error("OVERFLOW") \in Metadata
      BY <1>10 DEF Codes
    <3> QED
      BY <3>1 DEF SequenceMetadata, Metadata
  <2>5. slots'[idx].md.code \in LossCodes
    BY <1>9, <2>1, <2>4 DEF LossCodes
  <2>6. /\ \A d \in Chan : net'[d].from <= net'[d].at
        /\ Recovery = "restart" /\ ~Faulty => \A d \in Chan : net'[d].up
    BY <1>7, <2>1, <2>2
  <2>7. Returned(slots', idx)
    BY <1>1, <2>1, AlignStepReturns
  <2> QED
    BY <1>1, <2>1, <2>3, <2>5, <2>6, <2>7, EarlyReturnGap
<1>15. CASE Timeout(c)
  <2> DEFINE s == [Curr EXCEPT !.per[c].buff = FALSE]
  <2>1. slots' = GiveUp(s, Error("TIMEOUT")) /\ pc' = "copy" /\ UNCHANGED <<net, expected>>
    BY <1>15 DEF Timeout
  <2>2. s.todo = Curr.todo /\ s.atime = Curr.atime
    BY <1>1 DEF Slot
  <2> HIDE DEF s
  <2>3. slots'[Next4(idx)] = s
    BY <1>9, <2>1
  <2>4. /\ Kept(s, net, expected)
        /\ ~app.told => Follows(s, net, expected, app.next)
    <3>1. Kept(s, net, expected)
      BY <1>3, <2>2 DEF Kept, Doomed
    <3>2. ~app.told => Follows(s, net, expected, app.next)
      BY <1>3, <2>2 DEF Follows
    <3> QED
      BY <3>1, <3>2
  <2>5. Returned(slots', idx)
    BY <1>1, <2>1, AlignStepReturns
  <2> QED
    BY <1>1, <1>3, <2>1, <2>3, <2>4, <2>5, EarlyReturnGap
<1>16. CASE BadPacket(c)
  <2>1. PICK p \in Arrivals(c), parsed \in BOOLEAN :
          /\ net' = [net EXCEPT ![c] = p.after]
          /\ slots' = GiveUp(IF parsed THEN WithPacket(c, p)
                             ELSE [Curr EXCEPT !.per[c].buff = TRUE], Error("BAD_PACKET"))
          /\ Faulty /\ pc' = "copy" /\ UNCHANGED expected
    BY <1>16 DEF BadPacket
  <2>2. /\ Kept(WithPacket(c, p), [net EXCEPT ![c] = p.after], expected)
        /\ Kept([Curr EXCEPT !.per[c].buff = TRUE], [net EXCEPT ![c] = p.after], expected)
    BY <1>8 DEF WithPacket
  <2>3. Kept(slots'[Next4(idx)], net', expected')
    BY <1>9, <2>1, <2>2
  <2>4. slots'[idx].md.code \in LossCodes
    BY <1>9, <1>10, <2>1 DEF LossCodes, Codes
  <2>5. /\ \A d \in Chan : net'[d].from <= net'[d].at
        /\ Recovery = "restart" /\ ~Faulty => \A d \in Chan : net'[d].up
    BY <1>7, <2>1
  <2>6. Returned(slots', idx)
    BY <1>1, <2>1, AlignStepReturns
  <2> QED
    BY <1>1, <2>1, <2>3, <2>4, <2>5, <2>6, EarlyReturnGap
<1> QED
  BY <1>11, <1>12, <1>13, <1>14, <1>15, <1>16 DEF AlignStep

LEMMA CopyGap ==
    ASSUME IInv, SlotsInv, GapInv, Copy
    PROVE  GapInv'
<1> USE ConstantsAssumption
<1>1. /\ pc = "copy" /\ idx' = idx /\ pc' \in {"idle", "fetch"} /\ idx \in Slots
      /\ UNCHANGED <<net, expected>>
      /\ slots' = [slots EXCEPT ![idx] = AfterCopy(slots[idx], ItemsToCopy, SamplesToCopy)]
      /\ queue = {} /\ slots \in [Slots -> Slot]
      /\ Curr.left \in Nat /\ Curr = slots[idx]
  BY DEF Copy, ReturnFromRecv, IInv, TypeOK, SlotsInv, Curr, Slot
<1>2. PICK t : t = AfterCopy(Curr, ItemsToCopy, SamplesToCopy)
  OBVIOUS
<1>3. Curr' = t /\ slots'[Next4(idx)] = slots[Next4(idx)]
  BY <1>1, <1>2, RingIndices DEF Curr
<1>4. Active' = slots[Next4(idx)]
  BY <1>1, <1>3 DEF Active
<1>5. CASE Curr.left = 0
  <2>1. SamplesToCopy = 0 /\ t.left = 0
    BY <1>1, <1>2, <1>5, CopyTakes
  <2>2. /\ app'.next = app.next
        /\ app.told => app'.told
        /\ Curr.md.code \in LossCodes => app'.told \/ \E md \in queue' : md.code \in LossCodes
    <3>1. FragmentMetadata.code = Curr.md.code
      BY <1>1 DEF FragmentMetadata, Slot, Metadata
    <3>2. /\ app \in [next : [Chan -> Nat], told : BOOLEAN]
          /\ Curr.md.code \in LossCodes => Curr.md.code # "NONE"
      BY DEF IInv, TypeOK, LossCodes
    <3>3. \/ \E md : \/ app' = [app EXCEPT !.told = @ \/ md.code \in LossCodes]
                        /\ (Curr.md.code \in LossCodes =>
                              md = FragmentMetadata \/ queue' = {FragmentMetadata})
          \/ app' = app /\ Curr.md.code = "NONE"
      <4>1. \/ /\ call.first
               /\ call.one \/ FragmentMetadata.code # "NONE"
               /\ app' = [app EXCEPT !.told = @ \/ FragmentMetadata.code \in LossCodes]
            \/ /\ ~call.first /\ FragmentMetadata.code # "NONE"
               /\ queue' = {FragmentMetadata}
               /\ app' = [app EXCEPT !.told = @ \/ call.md.code \in LossCodes]
            \/ /\ FragmentMetadata.code = "NONE"
               /\ \E md : app' = [app EXCEPT !.told = @ \/ md.code \in LossCodes]
            \/ /\ FragmentMetadata.code = "NONE"
               /\ app' = app
        BY <2>1 DEF Copy, ReturnFromRecv
      <4> QED
        BY <3>1, <3>2, <4>1
    <3> QED
      BY <3>1, <3>2, <3>3
  <2>3. ~Told' => ~Told
    BY <1>1, <2>2 DEF Told
  <2>4. /\ Kept(slots[Next4(idx)], net, expected)
        /\ ~Told => Follows(slots[Next4(idx)], net, expected, app.next)
        /\ ~Told => \A d, f \in Chan : app.next[d] = app.next[f]
    BY <1>1, <1>5 DEF GapInv, Active
  <2> QED
    BY <1>1, <1>3, <1>4, <2>1, <2>2, <2>3, <2>4 DEF GapInv
<1>6. CASE Curr.left > 0
  <2>1. /\ SamplesToCopy > 0 /\ SamplesToCopy \in Nat
        /\ t.left \in Nat /\ t.atime = Curr.atime
        /\ t.left = 0 => \A c \in Chan : t.per[c].at = t.atime + Len
        /\ \A c \in Chan : t.per[c].at = Curr.per[c].at + SamplesToCopy
    BY <1>1, <1>2, <1>6, CopyTakes
  <2>2. \A c \in Chan : app'.next[c] = t.per[c].at
    <3> DEFINE h == [next |-> [c \in Chan |-> Curr.per[c].at + SamplesToCopy], told |-> FALSE]
    <3>1. app' = h \/ \E md : app' = [h EXCEPT !.told = @ \/ md.code \in LossCodes]
      BY <2>1 DEF Copy, ReturnFromRecv
    <3>2. PICK f : f = [c \in Chan |-> Curr.per[c].at + SamplesToCopy]
      OBVIOUS
    <3>3. h = [next |-> f, told |-> FALSE]
      BY <3>2
    <3> HIDE DEF h
    <3>4. app'.next = f
      BY <3>1, <3>3
    <3> QED
      BY <2>1, <3>2, <3>4
  <2>3. /\ \A c \in Chan : Awaits(net[c], expected[c], Curr.atime + Len)
        /\ Whole(Curr) /\ Fresh(slots[Next4(idx)])
    BY <1>1, <1>6 DEF GapInv, SlotsInv
  <2>4. \A c, d \in Chan : t.per[c].at = t.per[d].at
    <3>1. Curr.atime \in Nat /\ \A c \in Chan : Curr.per[c].at \in Nat
      BY <1>1 DEF Slot, PerBuffer
    <3>2. ASSUME NEW c \in Chan, NEW d \in Chan
          PROVE  Curr.per[c].at = Curr.per[d].at
      <4>1. PICK a \in Int : a = Curr.per[c].at - Curr.atime
        BY <3>1
      <4>2. PICK b \in Int : b = Curr.per[d].at - Curr.atime
        BY <3>1
      <4>3. a * NumOutputs = b * NumOutputs
        BY <2>3, <4>1, <4>2 DEF Whole
      <4>4. (a - b) * NumOutputs = 0
        BY <4>3, Distributes
      <4>5. a - b = 0
        BY <4>4, CancelFactor
      <4> QED
        BY <3>1, <4>1, <4>2, <4>5
    <3> QED
      BY <2>1, <3>2
  <2>5. \A c, d \in Chan : app'.next[c] = app'.next[d]
    BY <2>2, <2>4
  <2>6. CASE t.left > 0
    <3>1. \A c \in Chan : Awaits(net'[c], expected'[c], Curr'.atime + Len)
      BY <1>1, <1>3, <2>1, <2>3
    <3>2. \A c \in Chan : Curr'.per[c].at = app'.next[c]
      BY <1>3, <2>2
    <3>3. Curr'.left > 0 /\ pc' # "align"
      BY <1>1, <1>3, <2>6
    <3> QED
      BY <1>1, <2>5, <3>1, <3>2, <3>3 DEF GapInv
  <2>7. CASE t.left = 0
    <3>1. Kept(Active', net', expected')
      BY <1>4, <2>3 DEF Fresh, Kept
    <3>2. Follows(Active', net', expected', app'.next)
      BY <1>1, <1>4, <2>1, <2>2, <2>3, <2>7 DEF Fresh, Follows
    <3>3. Curr'.left = 0 /\ pc' # "align"
      BY <1>1, <1>3, <2>7
    <3> QED
      BY <1>1, <2>5, <3>1, <3>2, <3>3 DEF GapInv
  <2> QED
    BY <2>1, <2>6, <2>7
<1> QED
  BY <1>1, <1>5, <1>6

LEMMA GapInvNext ==
    ASSUME LossVisible, SetBack = 0, IInv, SlotsInv, GapInv, AlignmentLasts', [Next]_vars
    PROVE  GapInv'
<1>1. /\ TypeOK /\ idx \in Slots /\ slots \in [Slots -> Slot] /\ Curr = slots[idx]
      /\ Curr.left \in Nat
  BY DEF IInv, TypeOK, Curr, Slot
<1>2. CASE UNCHANGED vars
  BY <1>2 DEF vars, GapInv, Active, Curr, Told
<1>3. ASSUME NEW c \in Chan, AlignStep(c)
      PROVE  GapInv'
  BY <1>3, StepIInv, AlignStepGap
<1>4. CASE Aligned
  <2>1. /\ pc = "align" /\ Curr.todo = {} /\ pc' = "copy"
        /\ UNCHANGED <<net, clock, expected, idx, queue, app>>
    BY <1>4 DEF Aligned
  <2>2. /\ Curr'.left > 0 /\ Curr'.atime = Curr.atime /\ Curr.left > 0
        /\ \A c \in Chan : Curr'.per[c].at = Curr.atime
    BY <1>4, AlignedSlots
  <2>3. /\ Kept(Curr, net, expected)
        /\ ~Told => /\ Follows(Curr, net, expected, app.next)
                    /\ \A d, f \in Chan : app.next[d] = app.next[f]
    BY <2>1 DEF GapInv, Active
  <2>4. \A c \in Chan : Awaits(net'[c], expected'[c], Curr'.atime + Len)
    BY <2>1, <2>2, <2>3 DEF Kept, Doomed
  <2>5. ~Told' => ~Told
    BY <2>1 DEF Told
  <2>6. ~Told' => /\ \A d, f \in Chan : app'.next[d] = app'.next[f]
                  /\ \A c \in Chan : Curr'.per[c].at = app'.next[c]
    BY <2>1, <2>2, <2>3, <2>5 DEF Follows
  <2>7. ~(pc' = "align" \/ Curr'.left = 0)
    BY <1>1, <2>1, <2>2, ConstantsAssumption
  <2> QED
    BY <2>1, <2>4, <2>6, <2>7 DEF GapInv
<1>5. CASE UseFragment
  <2>1. /\ pc = "fetch" /\ Curr.left # 0 /\ pc' = "copy"
        /\ UNCHANGED <<net, clock, expected, slots, idx, iters, queue, call, ret, app>>
    BY <1>5 DEF UseFragment
  <2>2. Curr' = Curr /\ Active' = Active
    BY <2>1 DEF Curr, Active
  <2>3. ~Told' => ~Told
    BY <2>1 DEF Told
  <2> QED
    BY <2>1, <2>2, <2>3 DEF GapInv
<1>6. CASE NextBuffers
  <2>1. /\ pc = "fetch" /\ Curr.left = 0 /\ idx' = Next4(idx) /\ pc' = "align"
        /\ slots' = [slots EXCEPT ![Prev(idx)] = Reset(slots[Prev(idx)])]
        /\ UNCHANGED <<net, expected, queue, app>>
    BY <1>6 DEF NextBuffers
  <2>2. slots'[Next4(idx)] = slots[Next4(idx)]
    BY <1>1, <2>1, RingIndices
  <2>3. Active' = Active
    BY <2>1, <2>2 DEF Curr, Active
  <2>4. ~Told' => ~Told
    BY <2>1 DEF Told
  <2> QED
    BY <2>1, <2>3, <2>4 DEF GapInv
<1>7. CASE Copy
  BY <1>7, CopyGap
<1>8. CASE RecvQueuedError
  <2>1. /\ pc = "idle" /\ pc' = "idle" /\ UNCHANGED <<net, clock, expected, slots, idx, iters>>
        /\ \E md \in queue : app' = [app EXCEPT !.told = @ \/ md.code \in LossCodes]
        /\ \A md, me \in queue : md = me
    BY <1>8 DEF RecvQueuedError, ReturnFromRecv, SlotsInv
  <2>2. app \in [next : [Chan -> Nat], told : BOOLEAN]
    BY <1>1 DEF TypeOK
  <2>3. app'.next = app.next /\ (~Told' => ~Told)
    BY <2>1, <2>2 DEF Told
  <2>4. Curr' = Curr /\ Active' = Active
    BY <2>1 DEF Curr, Active
  <2> QED
    BY <2>1, <2>3, <2>4 DEF GapInv
<1>9. ASSUME NEW want \in Wants, NEW one \in BOOLEAN, RecvCall(want, one)
      PROVE  GapInv'
  <2>1. /\ pc = "idle" /\ pc' = "fetch" /\ \A md \in queue : md.code = "TIMEOUT"
        /\ UNCHANGED <<net, clock, expected, slots, idx, iters, app>>
    BY <1>9 DEF RecvCall
  <2>2. ~Told' => ~Told
    BY <2>1 DEF Told, LossCodes
  <2>3. Curr' = Curr /\ Active' = Active
    BY <2>1 DEF Curr, Active
  <2> QED
    BY <2>1, <2>2, <2>3 DEF GapInv
<1>10. CASE SetDeviceTime
  BY <1>10, ConstantsAssumption DEF SetDeviceTime
<1> QED
  BY <1>2, <1>3, <1>4, <1>5, <1>6, <1>7, <1>8, <1>9, <1>10 DEF Next, RecvStep

LEMMA InitGapInv == Init => GapInv
<1> SUFFICES ASSUME Init PROVE GapInv
  OBVIOUS
<1>1. PICK start \in [Chan -> StartAt] :
        net = [c \in Chan |-> [seq |-> 0, at |-> start[c], from |-> start[c],
                               up |-> TRUE, late |-> FALSE]]
  BY DEF Init
<1>2. \A c \in Chan : net[c].from <= net[c].at /\ net[c].up
  <2>1. \A c \in Chan : start[c] \in Nat
    BY ConstantsAssumption
  <2>2. \A c \in Chan : net[c].from = start[c] /\ net[c].at = start[c] /\ net[c].up
    BY <1>1
  <2>3. \A i \in Nat : i <= i
    OBVIOUS
  <2> QED
    BY <2>1, <2>2, <2>3
<1>3. idx \in Slots /\ Next4(idx) \in Slots
  BY DEF Init, Slots, Next4
<1>4. slots[Next4(idx)].todo = Chan /\ Curr.left = 0
  BY <1>3 DEF Init, Blank, Curr
<1>5. Kept(Active, net, expected)
  BY <1>4 DEF Init, Active, Kept
<1>6. Told
  BY DEF Init, Told
<1> QED
  BY <1>2, <1>4, <1>5, <1>6 DEF GapInv, Init

-----------------------------------------------------------------------------
\* The slots keep the shape that the loop of get_aligned_buffs relies on.
LEMMA SlotsAlways ==
    ASSUME SetBack = 0
    PROVE  Spec => []SlotsInv
<1>1. IInv /\ SlotsInv /\ [Next]_vars => SlotsInv'
  BY SlotsInvNext
<1> QED
  BY <1>1, InitSlotsInv, Invariant, PTL DEF Spec

\* The application is never handed samples that do not follow those it was
\* handed before without a code for a loss in between, for any number of
\* channels, any threshold, and under losses, repetitions, exceptions and
\* overflows: as long as sequence numbers tell the packets apart, the device
\* time is not set back, and no alignment fails on a device whose handler stops
\* all radios (nor on one that missed an overflow, see AlignmentLasts).
THEOREM NothingLostSilently ==
    ASSUME SetBack = 0, LossVisible
    PROVE  Spec /\ []AlignmentLasts => []NoSilentGap
<1>1. IInv /\ SlotsInv /\ GapInv /\ AlignmentLasts' /\ [Next]_vars => GapInv'
  BY GapInvNext
<1>2. SlotsInv /\ GapInv => NoSilentGap
  <2> SUFFICES ASSUME SlotsInv, GapInv, pc = "copy", Curr.left > 0, ~app.told
               PROVE  \A c \in Chan : Curr.per[c].at = app.next[c]
    BY DEF NoSilentGap
  <2>1. ~Told
    BY DEF Told, SlotsInv
  <2> QED
    BY <2>1 DEF GapInv
<1>3. Spec => []SlotsInv
  BY SlotsAlways
<1> QED
  BY <1>1, <1>2, <1>3, InitGapInv, Invariant, PTL DEF Spec

-----------------------------------------------------------------------------
(* The time of the metadata.                                               *)

\* The metadata of an alignment error stays in its slot: the handler of the
\* device does not flush it away.
ErrorsLast == Recovery = "flush" => iters <= Threshold + 1

\* An early return from get_aligned_buffs has an error code.
LEMMA EarlyReturnCode ==
    ASSUME IInv, IInv', SlotsInv, ErrorsLast', NEW c \in Chan, AlignStep(c), pc' = "copy"
    PROVE  slots'[idx].md.code # "NONE"
<1>1. /\ TypeOK /\ pc = "align" /\ idx \in Slots /\ Next4(idx) \in Slots
      /\ slots \in [Slots -> Slot] /\ slots' \in [Slots -> Slot] /\ iters \in Nat
  BY RingIndices DEF AlignStep, AlignData, AlignmentFailure, InlineMessage, SequenceError,
         Timeout, BadPacket, IInv, TypeOK
<1>2. ASSUME NEW code \in Codes
      PROVE  Error(code) \in Metadata /\ Error(code).code = code
  <2>1. slots[Next4(idx)].md \in Metadata
    BY <1>1 DEF Slot
  <2> QED
    BY <1>2, <2>1 DEF Error, Metadata
<1>3. ASSUME NEW s, NEW md
      PROVE  GiveUp(s, md)[idx].md = md
  BY <1>1, GiveUpReturns
<1>4. CASE AlignData(c)
  BY <1>1, <1>4 DEF AlignData
<1>5. CASE AlignmentFailure(c)
  <2>1. PICK p :
          /\ iters > Threshold /\ iters' = iters + 1
          /\ slots' = AfterOverflow(GiveUp(Checked(c, p), Error("ALIGNMENT")))
    BY <1>5 DEF AlignmentFailure
  <2>2. Recovery # "flush"
    BY <1>1, <2>1, ConstantsAssumption DEF ErrorsLast
  <2>3. slots'[idx].md = Error("ALIGNMENT")
    BY <1>3, <2>1, <2>2 DEF AfterOverflow
  <2> QED
    BY <1>2, <2>3 DEF Codes
<1>6. CASE InlineMessage(c)
  <2>1. PICK p :
          LET md == MessageMetadata(c, p)
              S == GiveUp(WithPacket(c, p), md)
          IN \/ slots' = [AfterOverflow(S) EXCEPT ![idx].md = md]
             \/ slots' = S
    BY <1>6 DEF InlineMessage
  <2>2. PICK md : md = MessageMetadata(c, p)
    OBVIOUS
  <2>3. PICK s : s = WithPacket(c, p)
    OBVIOUS
  <2>4. \/ slots' = [AfterOverflow(GiveUp(s, md)) EXCEPT ![idx].md = md]
        \/ slots' = GiveUp(s, md)
    BY <2>1, <2>2, <2>3
  <2>5. md.code \in {"OVERFLOW", "LATE_COMMAND"}
    <3>1. /\ Error("OVERFLOW") \in Metadata /\ Error("OVERFLOW").code = "OVERFLOW"
          /\ Error("LATE_COMMAND") \in Metadata /\ Error("LATE_COMMAND").code = "LATE_COMMAND"
      BY <1>2 DEF Codes
    <3> QED
      BY <2>2, <3>1 DEF MessageMetadata, Metadata
  <2>6. slots'[idx].md = md
    <3>1. CASE slots' = GiveUp(s, md)
      BY <1>3, <3>1
    <3>2. CASE slots' = [AfterOverflow(GiveUp(s, md)) EXCEPT ![idx].md = md]
      <4>1. DOMAIN GiveUp(s, md) = Slots
        BY <1>1, GiveUpReturns
      <4>2. PICK A : A = AfterOverflow(GiveUp(s, md))
        OBVIOUS
      <4>3. DOMAIN A = Slots
        BY <4>1, <4>2 DEF AfterOverflow
      <4>4. slots'[idx] = [A[idx] EXCEPT !.md = md]
        BY <1>1, <3>2, <4>2, <4>3
      <4> QED
        BY <1>1, <4>4 DEF Slot
    <3> QED
      BY <2>4, <3>1, <3>2
  <2> QED
    BY <2>5, <2>6
<1>7. CASE SequenceError(c)
  <2>1. PICK p : slots' = GiveUp(AlignmentCheck(c, WithPacket(c, p)), SequenceMetadata(c))
    BY <1>7 DEF SequenceError
  <2>2. Error("OVERFLOW") \in Metadata /\ Error("OVERFLOW").code = "OVERFLOW"
    BY <1>2 DEF Codes
  <2>3. SequenceMetadata(c).code = "OVERFLOW"
    BY <2>2 DEF SequenceMetadata, Metadata
  <2> QED
    BY <1>3, <2>1, <2>3
<1>8. CASE Timeout(c)
  <2>1. slots'[idx].md = Error("TIMEOUT")
    BY <1>3, <1>8 DEF Timeout
  <2> QED
    BY <1>2, <2>1 DEF Codes
<1>9. CASE BadPacket(c)
  <2>1. slots'[idx].md = Error("BAD_PACKET")
    BY <1>3, <1>9 DEF BadPacket
  <2> QED
    BY <1>2, <2>1 DEF Codes
<1> QED
  BY <1>4, <1>5, <1>6, <1>7, <1>8, <1>9 DEF AlignStep

LEMMA NoCallTime == NoCall.first /\ NoCall.accum = 0 /\ NoReturn.n = 0
  BY DEF NoCall, NoReturn

LEMMA CopyTime ==
    ASSUME NumOutputs = 1, IInv, SlotsInv, TimeInv, Copy
    PROVE  TimeInv'
<1> USE ConstantsAssumption
<1> DEFINE from == IF call.accum = 0 THEN [c \in Chan |-> Curr.per[c].at] ELSE call.from
<1> DEFINE accum == call.accum + SamplesToCopy
<1>1. /\ pc = "copy" /\ pc' \in {"idle", "fetch"} /\ Curr \in Slot /\ call \in Call
      /\ Curr.left \in Nat /\ call.accum \in Nat
  BY DEF Copy, ReturnFromRecv, IInv, TypeOK, Curr, Slot, Call
<1>2. FragmentMetadata.code = Curr.md.code
  BY <1>1 DEF FragmentMetadata, Slot, Metadata
<1>3. CASE Curr.left = 0
  <2>1. SamplesToCopy = 0 /\ FragmentMetadata.code # "NONE"
    BY <1>1, <1>2, <1>3, CopyTakes DEF TimeInv
  <2>2. CASE call.first
    <3>1. call.accum = 0 /\ accum = 0
      BY <1>1, <2>1, <2>2 DEF TimeInv
    <3>2. ret'.n = accum /\ call' = NoCall /\ pc' = "idle"
      BY <2>1, <2>2 DEF Copy, ReturnFromRecv
    <3> QED
      BY <3>1, <3>2, NoCallTime DEF TimeInv
  <2>3. CASE ~call.first
    <3>1. ret'.md = call.md /\ ret'.from = call.from /\ call' = NoCall /\ pc' = "idle"
      BY <2>1, <2>3 DEF Copy, ReturnFromRecv
    <3> QED
      BY <2>3, <3>1, NoCallTime DEF TimeInv
  <2> QED
    BY <2>2, <2>3
<1>4. CASE Curr.left > 0
  <2>1. Whole(Curr) /\ SamplesToCopy > 0 /\ SamplesToCopy \in Nat
    BY <1>1, <1>4, CopyTakes DEF SlotsInv
  <2>2. FragmentMetadata.code = "NONE"
    BY <1>2, <2>1 DEF Whole
  <2>3. GoodTime(FragmentMetadata, [c \in Chan |-> Curr.per[c].at])
    <3>1. /\ FragmentMetadata.has_time_spec = Curr.md.has_time_spec
          /\ FragmentMetadata.time_spec = Curr.md.time_spec + Curr.frag
      BY <1>1 DEF FragmentMetadata, Slot, Metadata
    <3>2. Curr.md.has_time_spec /\ Curr.md.time_spec = Curr.atime
      BY <2>1 DEF Whole
    <3>3. ASSUME NEW c \in Chan
          PROVE  Curr.per[c].at = Curr.md.time_spec + Curr.frag
      <4>1. Curr.per[c].at \in Nat /\ Curr.atime \in Nat /\ Curr.frag \in Nat
        BY <1>1 DEF Slot, PerBuffer
      <4>2. (Curr.per[c].at - Curr.atime) * 1 = Curr.frag
        BY <2>1 DEF Whole
      <4> QED
        BY <3>2, <4>1, <4>2
    <3> QED
      BY <2>2, <3>1, <3>2, <3>3 DEF GoodTime
  <2> DEFINE md == IF call.first THEN FragmentMetadata ELSE call.md
  <2>4. GoodTime(md, from) /\ accum > 0 /\ accum \in Nat
    <3>1. CASE call.first
      BY <1>1, <2>1, <2>3, <3>1 DEF TimeInv
    <3>2. CASE ~call.first
      BY <1>1, <2>1, <3>2 DEF TimeInv
    <3> QED
      BY <3>1, <3>2
  <2>5. \/ pc' = "idle" /\ call' = NoCall /\ ret' = [n |-> accum, md |-> md, from |-> from]
        \/ /\ pc' = "fetch" /\ ret' = ret
           /\ call' = [call EXCEPT !.accum = accum, !.from = from, !.first = FALSE, !.md = md]
    BY <2>2 DEF Copy, ReturnFromRecv
  <2> HIDE DEF md, from, accum
  <2>6. CASE pc' = "idle" /\ call' = NoCall /\ ret' = [n |-> accum, md |-> md, from |-> from]
    BY <2>4, <2>6, NoCallTime DEF TimeInv
  <2>7. CASE /\ pc' = "fetch" /\ ret' = ret
             /\ call' = [call EXCEPT !.accum = accum, !.from = from, !.first = FALSE, !.md = md]
    <3>1. call'.accum = accum /\ call'.from = from /\ ~call'.first /\ call'.md = md
      BY <1>1, <2>7 DEF Call
    <3> QED
      BY <2>4, <2>7, <3>1 DEF TimeInv
  <2> QED
    BY <2>5, <2>6, <2>7
<1> QED
  BY <1>1, <1>3, <1>4

LEMMA TimeInvNext ==
    ASSUME NumOutputs = 1, SetBack = 0, IInv, SlotsInv, TimeInv, ErrorsLast', [Next]_vars
    PROVE  TimeInv'
<1>1. CASE UNCHANGED vars
  BY <1>1 DEF vars, TimeInv, Curr
<1>2. ASSUME NEW c \in Chan, AlignStep(c)
      PROVE  TimeInv'
  <2>1. UNCHANGED <<idx, call, ret>>
    BY <1>2 DEF AlignStep, AlignData, AlignmentFailure, InlineMessage, SequenceError,
                Timeout, BadPacket
  <2>2. IInv'
    BY StepIInv
  <2>3. pc' = "copy" => Curr'.md.code # "NONE"
    BY <1>2, <2>1, <2>2, EarlyReturnCode DEF Curr
  <2> QED
    BY <2>1, <2>3 DEF TimeInv
<1>3. CASE Aligned
  <2>1. UNCHANGED <<call, ret>>
    BY <1>3 DEF Aligned
  <2>2. Curr'.left # 0
    BY <1>3, AlignedSlots
  <2> QED
    BY <2>1, <2>2 DEF TimeInv
<1>4. CASE UseFragment
  BY <1>4 DEF UseFragment, TimeInv, Curr
<1>5. CASE NextBuffers
  BY <1>5 DEF NextBuffers, TimeInv
<1>6. CASE Copy
  BY <1>6, CopyTime
<1>7. CASE RecvQueuedError
  BY <1>7, NoCallTime DEF RecvQueuedError, ReturnFromRecv, TimeInv
<1>8. ASSUME NEW want \in Wants, NEW one \in BOOLEAN, RecvCall(want, one)
      PROVE  TimeInv'
  <2>1. call' = [NoCall EXCEPT !.want = want, !.one = one] /\ ret' = NoReturn /\ pc' = "fetch"
    BY <1>8 DEF RecvCall
  <2>2. call'.first /\ call'.accum = 0 /\ ret'.n = 0
    BY <2>1 DEF NoCall, NoReturn
  <2> QED
    BY <2>1, <2>2 DEF TimeInv
<1>9. CASE SetDeviceTime
  BY <1>9, ConstantsAssumption DEF SetDeviceTime
<1> QED
  BY <1>1, <1>2, <1>3, <1>4, <1>5, <1>6, <1>7, <1>8, <1>9 DEF Next, RecvStep

LEMMA InitTimeInv == Init => TimeInv
  BY NoCallTime DEF Init, TimeInv

\* The time of the metadata is that of the first sample handed out, on every
\* channel, for samples that are not interleaved: as long as the device time is
\* not set back, and no alignment fails on a device that flushes its slots.
THEOREM TimeSpecAlwaysTrue ==
    ASSUME NumOutputs = 1, SetBack = 0
    PROVE  Spec /\ []ErrorsLast => []TimeSpecTrue
<1>1. IInv /\ SlotsInv /\ TimeInv /\ ErrorsLast' /\ [Next]_vars => TimeInv'
  BY TimeInvNext
<1>2. IInv /\ SlotsInv /\ TimeInv => TimeSpecTrue
  <2> SUFFICES ASSUME IInv, SlotsInv, TimeInv, ret.n > 0
               PROVE  /\ ret.md.code = "NONE" /\ ret.md.has_time_spec
                      /\ \A c \in Chan : Stamp(ret.from[c]) = ret.md.time_spec
    BY DEF TimeSpecTrue
  <2>1. GoodTime(ret.md, ret.from)
    BY DEF TimeInv
  <2>2. \A c \in Chan : ret.from[c] \in Nat
    BY DEF IInv, TypeOK, Return
  <2>3. \A c \in Chan : Stamp(ret.from[c]) = ret.from[c]
    BY <2>2 DEF Stamp, SlotsInv
  <2> QED
    BY <2>1, <2>3 DEF GoodTime
<1>3. Spec => []SlotsInv
  BY SlotsAlways
<1> QED
  BY <1>1, <1>2, <1>3, InitTimeInv, Invariant, PTL DEF Spec

-----------------------------------------------------------------------------
\* The alignment throws a packet away only for one taken later on another
\* channel, for any number of channels, losses, repetitions and restarts.
THEOREM OnlyOlderDiscarded ==
    ASSUME SetBack = 0
    PROVE  Spec => DiscardsOnlyOlder
<1> DEFINE Older == \A c \in Chan :
      NextTodo(c) /\ pc' = "align" /\ iters' > iters /\ c \in Curr'.todo
        => \E d \in Chan \ Curr'.todo : Curr'.per[c].at < Curr'.per[d].at
<1>1. IInv /\ SlotsInv /\ [Next]_vars => [Older]_vars
  <2> SUFFICES ASSUME IInv, SlotsInv, Next, NEW c \in Chan,
                      NextTodo(c), pc' = "align", iters' > iters, c \in Curr'.todo
               PROVE  \E d \in Chan \ Curr'.todo : Curr'.per[c].at < Curr'.per[d].at
    OBVIOUS
  <2>1. iters \in Nat
    BY DEF IInv, TypeOK
  <2>2. PICK e \in Chan : AlignStep(e)
    BY <2>1 DEF Next, RecvStep, Aligned, UseFragment, NextBuffers, Copy, ReturnFromRecv,
                RecvQueuedError, RecvCall, SetDeviceTime, rxvars
  <2>3. NextTodo(e)
    BY <2>2 DEF AlignStep, AlignData, AlignmentFailure, InlineMessage, SequenceError,
                Timeout, BadPacket
  <2>4. e = c
    BY <2>3 DEF NextTodo, Chan
  <2> QED
    BY <2>2, <2>4, AlignStepReturns
<1>2. Spec => []SlotsInv
  BY SlotsAlways
<1> QED
  BY <1>1, <1>2, Invariant, PTL DEF Spec, DiscardsOnlyOlder
=============================================================================
