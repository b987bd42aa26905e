------------------------ MODULE PacketDemuxer_proofs ------------------------
(***************************************************************************)
(* Proofs about PacketDemuxer, for every number of frames and streams,     *)
(* however threads share the streams and however far the device is ahead   *)
(* with one of them: every frame is in one place, and there once; and to a *)
(* single reader every stream is handed out in the order of the device.    *)
(***************************************************************************)
EXTENDS PacketDemuxer, SequenceTheorems, TLAPS

-----------------------------------------------------------------------------
(* Sequences of frames.                                                    *)

LEMMA FramesOfTail ==
  ASSUME NEW q \in Seq(Frame), q # <<>>, Distinct(q)
  PROVE  /\ Head(q) \in Frames(q)
         /\ Frames(Tail(q)) = Frames(q) \ {Head(q)}
         /\ Distinct(Tail(q))
<1>1. Len(Tail(q)) = Len(q) - 1 /\ Len(q) \in Nat \ {0}
  OBVIOUS
<1>2. \A i \in 1 .. Len(Tail(q)) : Tail(q)[i] = q[i + 1]
  OBVIOUS
<1>3. Head(q) = q[1]
  OBVIOUS
<1>4. Head(q) \in Frames(q)
  BY <1>1, <1>3 DEF Frames
<1>5. Distinct(Tail(q))
  BY <1>1, <1>2 DEF Distinct
<1>6. Frames(Tail(q)) \subseteq Frames(q) \ {Head(q)}
  <2>. SUFFICES ASSUME NEW i \in 1 .. Len(Tail(q))
                PROVE  Tail(q)[i] \in Frames(q) /\ Tail(q)[i] # Head(q)
    BY DEF Frames
  <2>1. i + 1 \in 1 .. Len(q) /\ 1 \in 1 .. Len(q) /\ i + 1 # 1
    BY <1>1
  <2>. QED
    BY <2>1, <1>2, <1>3 DEF Frames, Distinct
<1>7. Frames(q) \ {Head(q)} \subseteq Frames(Tail(q))
  <2>. SUFFICES ASSUME NEW i \in 1 .. Len(q), q[i] # Head(q)
                PROVE  q[i] \in Frames(Tail(q))
    BY DEF Frames
  <2>1. i - 1 \in 1 .. Len(Tail(q)) /\ i = (i - 1) + 1
    BY <1>1, <1>3
  <2>2. Tail(q)[i - 1] = q[i]
    BY <2>1, <1>2
  <2>. QED
    BY <2>1, <2>2 DEF Frames
<1>. QED
  BY <1>4, <1>5, <1>6, <1>7

LEMMA FramesOfConcat ==
  ASSUME NEW q \in Seq(Frame), NEW w \in Seq(Frame), Distinct(q), Distinct(w),
         Frames(q) \cap Frames(w) = {}
  PROVE  /\ Frames(q \o w) = Frames(q) \cup Frames(w)
         /\ Distinct(q \o w)
<1>1. Len(q \o w) = Len(q) + Len(w) /\ Len(q) \in Nat /\ Len(w) \in Nat
  OBVIOUS
<1>2. \A i \in 1 .. Len(q) : (q \o w)[i] = q[i]
  OBVIOUS
<1>3. \A i \in 1 .. Len(w) : (q \o w)[Len(q) + i] = w[i]
  OBVIOUS
<1>4. \A i \in 1 .. Len(q \o w) :
        i \in 1 .. Len(q) \/ (i - Len(q) \in 1 .. Len(w) /\ i = Len(q) + (i - Len(q)))
  BY <1>1
<1>5. Frames(q \o w) \subseteq Frames(q) \cup Frames(w)
  BY <1>2, <1>3, <1>4 DEF Frames
<1>6. Frames(q) \cup Frames(w) \subseteq Frames(q \o w)
  <2>1. \A i \in 1 .. Len(q) : i \in 1 .. Len(q \o w)
    BY <1>1
  <2>2. \A i \in 1 .. Len(w) : Len(q) + i \in 1 .. Len(q \o w)
    BY <1>1
  <2>. QED
    BY <2>1, <2>2, <1>2, <1>3 DEF Frames
<1>7. Distinct(q \o w)
  <2>. SUFFICES ASSUME NEW i \in 1 .. Len(q \o w), NEW j \in 1 .. Len(q \o w),
                       (q \o w)[i] = (q \o w)[j]
                PROVE  i = j
    BY DEF Distinct
  <2>1. CASE i \in 1 .. Len(q) /\ j \in 1 .. Len(q)
    BY <2>1, <1>2 DEF Distinct
  <2>2. CASE i - Len(q) \in 1 .. Len(w) /\ j - Len(q) \in 1 .. Len(w)
    <3>1. w[i - Len(q)] = w[j - Len(q)]
      BY <2>2, <1>1, <1>3
    <3>2. i - Len(q) = j - Len(q)
      BY <3>1, <2>2 DEF Distinct
    <3>. QED
      BY <3>2, <1>1
  <2>3. CASE i \in 1 .. Len(q) /\ j - Len(q) \in 1 .. Len(w)
    <3>1. q[i] = w[j - Len(q)]
      BY <2>3, <1>1, <1>2, <1>3
    <3>. QED
      BY <3>1, <2>3 DEF Frames
  <2>4. CASE j \in 1 .. Len(q) /\ i - Len(q) \in 1 .. Len(w)
    <3>1. q[j] = w[i - Len(q)]
      BY <2>4, <1>1, <1>2, <1>3
    <3>. QED
      BY <3>1, <2>4 DEF Frames
  <2>. QED
    BY <2>1, <2>2, <2>3, <2>4, <1>4
<1>. QED
  BY <1>5, <1>6, <1>7

LEMMA FramesOfOne ==
  ASSUME NEW f \in Frame
  PROVE  <<f>> \in Seq(Frame) /\ Frames(<<f>>) = {f} /\ Distinct(<<f>>)
BY DEF Frames, Distinct

LEMMA FramesOfAppend ==
  ASSUME NEW q \in Seq(Frame), NEW f \in Frame, Distinct(q), f \notin Frames(q)
  PROVE  Frames(Append(q, f)) = Frames(q) \cup {f} /\ Distinct(Append(q, f))
<1>1. Append(q, f) = q \o <<f>>
  OBVIOUS
<1>2. <<f>> \in Seq(Frame) /\ Frames(<<f>>) = {f} /\ Distinct(<<f>>)
  BY FramesOfOne
<1>3. Frames(q) \cap Frames(<<f>>) = {}
  BY <1>2
<1>4. Frames(q \o <<f>>) = Frames(q) \cup Frames(<<f>>) /\ Distinct(q \o <<f>>)
  BY <1>2, <1>3, FramesOfConcat
<1>. QED
  BY <1>1, <1>2, <1>4

LEMMA FramesOfNone == Frames(<<>>) = {} /\ Distinct(<<>>)
BY DEF Frames, Distinct

-----------------------------------------------------------------------------
(* Types.                                                                  *)

\* A reader has got a frame from the transport exactly while it sorts it.
HandHolds == \A r \in Reader : pc[r] = "sort" <=> buff[r] # NoFrame

IInv == TypeOK /\ HandHolds

LEMMA InitIInv == Init => IInv
<1>. SUFFICES ASSUME Init PROVE IInv
  OBVIOUS
<1>1. enqueued \in Seq(Frame) /\ Len(enqueued) = NumFrames
  BY ConstantsAssumption DEF Init, Frame
<1>2. wire \in Seq(Packet) /\ queues \in [Stream -> Seq(Frame)]
  BY DEF Init
<1>3. content \in [Frame -> Packet]
  BY DEF Init, Packet
<1>4. reads \in [Stream -> Reader]
  BY ConstantsAssumption DEF Init
<1>5. HandHolds
  BY DEF Init, HandHolds
<1>. QED
  BY <1>1, <1>2, <1>3, <1>4, <1>5, ConstantsAssumption DEF Init, IInv, TypeOK

LEMMA GiveTypes ==
  ASSUME IInv, NEW r \in Reader, NEW s \in Stream, NEW f \in Frame, Give(r, s, f)
  PROVE  /\ held' \in [Stream -> Frame \cup {NoFrame}]
         /\ \E to \in {"check", "release"} : pc' = [pc EXCEPT ![r] = to]
         /\ handed' \in [Stream -> Nat]
         /\ outOfTurn' \in SUBSET Stream
<1>1. held' \in [Stream -> Frame \cup {NoFrame}] /\ handed' \in [Stream -> Nat]
  BY DEF Give, IInv, TypeOK
<1>2. \E to \in {"check", "release"} : pc' = [pc EXCEPT ![r] = to]
  <2>1. CASE \E u \in StreamsOf(r) \ {s} : held[u] = NoFrame
    BY <2>1 DEF Give
  <2>2. CASE ~(\E u \in StreamsOf(r) \ {s} : held[u] = NoFrame)
    BY <2>2 DEF Give
  <2>. QED
    BY <2>1, <2>2
<1>3. outOfTurn' \in SUBSET Stream
  BY DEF Give, IInv, TypeOK
<1>. QED
  BY <1>1, <1>2, <1>3

LEMMA IInvNext == IInv /\ [Next]_vars => IInv'
<1>. SUFFICES ASSUME IInv, [Next]_vars PROVE IInv'
  OBVIOUS
<1>. USE DEF IInv, TypeOK, HandHolds
<1>1. CASE UNCHANGED vars
  BY <1>1 DEF vars, radio, ring, history
<1>2. ASSUME NEW s \in Stream, Send(s) PROVE IInv'
  <2>1. [sid |-> s, n |-> sent[s]] \in Packet
    BY DEF Packet
  <2>2. wire' \in Seq(Packet)
    BY <2>1, <1>2 DEF Send
  <2>. QED
    BY <1>2, <2>2 DEF Send, ring, history
<1>3. ASSUME NEW s \in Stream, Realloc(s) PROVE IInv'
  <2>1. enqueued' \in Seq(Frame) /\ Len(enqueued') = Len(enqueued) + Len(queues[s])
    BY <1>3 DEF Realloc, Submit
  <2>2. queues' \in [Stream -> Seq(Frame)]
    BY <1>3 DEF Realloc
  <2>3. handed' \in [Stream -> Nat]
    BY <1>3 DEF Realloc
  <2>. QED
    BY <1>3, <2>1, <2>2, <2>3 DEF Realloc, Submit, radio
<1>4. CASE SendStray
  <2>1. [sid |-> Stray, n |-> 0] \in Packet
    BY DEF Packet
  <2>2. wire' \in Seq(Packet)
    BY <2>1, <1>4 DEF SendStray
  <2>. QED
    BY <1>4, <2>2 DEF SendStray, ring, history
<1>5. CASE Complete
  <2>1. Head(wire) \in Packet /\ wire' \in Seq(Packet)
    BY <1>5 DEF Complete
  <2>2. content' \in [Frame -> Packet]
    BY <1>5, <2>1 DEF Complete
  <2>3. ready' \in Nat /\ ready' <= Len(enqueued)
    BY <1>5 DEF Complete
  <2>. QED
    BY <1>5, <2>1, <2>2, <2>3 DEF Complete, history
<1>6. ASSUME NEW r \in Reader, TakeParked(r) PROVE IInv'
  <2>1. PICK s \in Stream : /\ queues[s] # <<>>
                             /\ Give(r, s, Head(queues[s]))
                             /\ queues' = [queues EXCEPT ![s] = Tail(@)]
    BY <1>6 DEF TakeParked, Rest
  <2>2. Head(queues[s]) \in Frame /\ Tail(queues[s]) \in Seq(Frame)
    BY <2>1
  <2>3. queues' \in [Stream -> Seq(Frame)]
    BY <2>1, <2>2
  <2>4. /\ held' \in [Stream -> Frame \cup {NoFrame}]
        /\ \E to \in {"check", "release"} : pc' = [pc EXCEPT ![r] = to]
        /\ handed' \in [Stream -> Nat] /\ outOfTurn' \in SUBSET Stream
    BY <2>1, <2>2, GiveTypes DEF IInv
  <2>. QED
    BY <1>6, <2>3, <2>4 DEF TakeParked, radio, ring
<1>7. ASSUME NEW r \in Reader, CheckInVain(r) PROVE IInv'
  BY <1>7 DEF CheckInVain, Goto, radio, ring, history
<1>8. ASSUME NEW r \in Reader, LockTransport(r) PROVE IInv'
  BY <1>8 DEF LockTransport, Goto, radio, ring, history
<1>9. ASSUME NEW r \in Reader, TakeFrame(r) PROVE IInv'
  <2>1. enqueued # <<>>
    BY <1>9 DEF TakeFrame
  <2>2. /\ Head(enqueued) \in Frame /\ Tail(enqueued) \in Seq(Frame)
        /\ Len(Tail(enqueued)) = Len(enqueued) - 1
    BY <2>1
  <2>3. Head(enqueued) # NoFrame
    BY <2>2 DEF Frame, NoFrame
  <2>. QED
    BY <1>9, <2>2, <2>3 DEF TakeFrame, Goto, radio, history
<1>10. ASSUME NEW r \in Reader, TimeOut(r) PROVE IInv'
  BY <1>10 DEF TimeOut, Goto, radio, ring, history
<1>11. ASSUME NEW r \in Reader, SortOwn(r) PROVE IInv'
  <2>1. buff[r] \in Frame
    BY <1>11 DEF SortOwn
  <2>2. PICK s \in Stream : Give(r, s, buff[r])
    BY <1>11 DEF SortOwn
  <2>3. /\ held' \in [Stream -> Frame \cup {NoFrame}]
        /\ \E to \in {"check", "release"} : pc' = [pc EXCEPT ![r] = to]
        /\ handed' \in [Stream -> Nat] /\ outOfTurn' \in SUBSET Stream
    BY <2>1, <2>2, GiveTypes
  <2>. QED
    BY <1>11, <2>3 DEF SortOwn, radio, ring
<1>12. ASSUME NEW r \in Reader, SortOther(r) PROVE IInv'
  <2>1. buff[r] \in Frame
    BY <1>12 DEF SortOther, Goto
  <2>2. PICK s \in Stream : queues' = [queues EXCEPT ![s] = Append(@, buff[r])]
    BY <1>12 DEF SortOther
  <2>3. queues' \in [Stream -> Seq(Frame)]
    BY <2>1, <2>2
  <2>. QED
    BY <1>12, <2>3 DEF SortOther, Goto, radio, ring, history
<1>13. ASSUME NEW r \in Reader, SortStray(r) PROVE IInv'
  <2>1. buff[r] \in Frame
    BY <1>13 DEF SortStray, Goto
  <2>2. enqueued' \in Seq(Frame) /\ Len(enqueued') = Len(enqueued) + 1
    BY <1>13, <2>1 DEF SortStray, Submit
  <2>. QED
    BY <1>13, <2>2 DEF SortStray, Submit, Goto, radio, history
<1>14. ASSUME NEW r \in Reader, Release(r) PROVE IInv'
  <2>1. PICK s \in Stream : /\ held[s] # NoFrame
                             /\ Submit(<<held[s]>>)
                             /\ held' = [held EXCEPT ![s] = NoFrame]
                             /\ \E to \in {"check", "release"} :
                                  pc' = [pc EXCEPT ![r] = to]
    BY <1>14 DEF Release, StreamsOf
  <2>2. enqueued' \in Seq(Frame) /\ Len(enqueued') = Len(enqueued) + 1
    BY <2>1 DEF Submit
  <2>. QED
    BY <1>14, <2>1, <2>2 DEF Release, Submit, radio, history
<1>. QED
  BY <1>1, <1>2, <1>3, <1>4, <1>5, <1>6, <1>7, <1>8, <1>9, <1>10, <1>11, <1>12,
     <1>13, <1>14 DEF Next, ReaderStep

\* Whatever the streams send, the ring, the queues and the readers hold frames.
THEOREM DemuxerTypeCorrect == Spec => []IInv
BY InitIInv, IInvNext, PTL DEF Spec

-----------------------------------------------------------------------------
(* Frames are kept.                                                        *)

\* The two halves of FramesKept.
NoneTwice == Distinct(enqueued) /\ \A s \in Stream : Distinct(queues[s])

OnePlace == \A f \in Frame : \E p \in Place : \A q \in Place : At(f, q) <=> q = p

\* The frames F are in the place `to' after the step, the others where they were.
Moves(F, to) ==
    \A f \in Frame :
      /\ f \in Frames(enqueued') <=>
           IF f \in F THEN to = <<"ring", 0>> ELSE f \in Frames(enqueued)
      /\ \A s \in Stream :
           /\ f \in Frames(queues'[s]) <=>
                IF f \in F THEN to = <<"parked", s>> ELSE f \in Frames(queues[s])
           /\ held'[s] = f <=> IF f \in F THEN to = <<"held", s>> ELSE held[s] = f
      /\ \A r \in Reader :
           buff'[r] = f <=> IF f \in F THEN to = <<"buff", r>> ELSE buff[r] = f

LEMMA MovesOnePlace ==
  ASSUME OnePlace, NEW F, NEW to \in Place, Moves(F, to)
  PROVE  OnePlace'
<1>. SUFFICES ASSUME NEW f \in Frame
              PROVE  \E p \in Place : \A q \in Place : At(f, q)' <=> q = p
  BY DEF OnePlace
<1>1. \A q \in Place : At(f, q)' <=> IF f \in F THEN q = to ELSE At(f, q)
  <2>. SUFFICES ASSUME NEW q \in Place
                PROVE  At(f, q)' <=> IF f \in F THEN q = to ELSE At(f, q)
    OBVIOUS
  <2>1. CASE q = <<"ring", 0>>
    BY <2>1 DEF Moves, At
  <2>2. ASSUME NEW s \in Stream, q = <<"parked", s>>
        PROVE  At(f, q)' <=> IF f \in F THEN q = to ELSE At(f, q)
    BY <2>2 DEF Moves, At
  <2>3. ASSUME NEW s \in Stream, q = <<"held", s>>
        PROVE  At(f, q)' <=> IF f \in F THEN q = to ELSE At(f, q)
    BY <2>3 DEF Moves, At
  <2>4. ASSUME NEW r \in Reader, q = <<"buff", r>>
        PROVE  At(f, q)' <=> IF f \in F THEN q = to ELSE At(f, q)
    BY <2>4 DEF Moves, At
  <2>. QED
    BY <2>1, <2>2, <2>3, <2>4 DEF Place
<1>2. CASE f \in F
  BY <1>1, <1>2
<1>3. CASE f \notin F
  BY <1>1, <1>3 DEF OnePlace
<1>. QED
  BY <1>2, <1>3

\* A frame that is in one place is not in another.
LEMMA Elsewhere ==
  ASSUME OnePlace, NEW f \in Frame, NEW p \in Place, At(f, p), NEW q \in Place, q # p
  PROVE  ~At(f, q)
BY DEF OnePlace

LEMMA RingPlace ==
  ASSUME OnePlace, NEW f \in Frame, f \in Frames(enqueued)
  PROVE  /\ \A s \in Stream : f \notin Frames(queues[s]) /\ held[s] # f
         /\ \A r \in Reader : buff[r] # f
<1>1. <<"ring", 0>> \in Place /\ At(f, <<"ring", 0>>)
  BY DEF Place, At
<1>2. ASSUME NEW s \in Stream PROVE f \notin Frames(queues[s]) /\ held[s] # f
  <2>1. <<"parked", s>> \in Place /\ <<"held", s>> \in Place
    BY DEF Place
  <2>2. ~At(f, <<"parked", s>>) /\ ~At(f, <<"held", s>>)
    BY <1>1, <2>1, Elsewhere
  <2>. QED
    BY <2>2 DEF At
<1>3. ASSUME NEW r \in Reader PROVE buff[r] # f
  <2>1. <<"buff", r>> \in Place
    BY DEF Place
  <2>2. ~At(f, <<"buff", r>>)
    BY <1>1, <2>1, Elsewhere
  <2>. QED
    BY <2>2 DEF At
<1>. QED
  BY <1>2, <1>3

LEMMA ParkedPlace ==
  ASSUME OnePlace, NEW f \in Frame, NEW s \in Stream, f \in Frames(queues[s])
  PROVE  /\ f \notin Frames(enqueued)
         /\ \A u \in Stream : (u # s => f \notin Frames(queues[u])) /\ held[u] # f
         /\ \A r \in Reader : buff[r] # f
<1>1. <<"parked", s>> \in Place /\ At(f, <<"parked", s>>)
  BY DEF Place, At
<1>2. f \notin Frames(enqueued)
  <2>1. <<"ring", 0>> \in Place
    BY DEF Place
  <2>2. ~At(f, <<"ring", 0>>)
    BY <1>1, <2>1, Elsewhere
  <2>. QED
    BY <2>2 DEF At
<1>3. ASSUME NEW u \in Stream
      PROVE  (u # s => f \notin Frames(queues[u])) /\ held[u] # f
  <2>1. <<"parked", u>> \in Place /\ <<"held", u>> \in Place
    BY DEF Place
  <2>2. (u # s => ~At(f, <<"parked", u>>)) /\ ~At(f, <<"held", u>>)
    BY <1>1, <2>1, Elsewhere
  <2>. QED
    BY <2>2 DEF At
<1>4. ASSUME NEW r \in Reader PROVE buff[r] # f
  <2>1. <<"buff", r>> \in Place
    BY DEF Place
  <2>2. ~At(f, <<"buff", r>>)
    BY <1>1, <2>1, Elsewhere
  <2>. QED
    BY <2>2 DEF At
<1>. QED
  BY <1>2, <1>3, <1>4

LEMMA HeldPlace ==
  ASSUME OnePlace, NEW s \in Stream, held[s] \in Frame
  PROVE  /\ held[s] \notin Frames(enqueued)
         /\ \A u \in Stream :
              held[s] \notin Frames(queues[u]) /\ (u # s => held[u] # held[s])
         /\ \A r \in Reader : buff[r] # held[s]
<1>1. <<"held", s>> \in Place /\ At(held[s], <<"held", s>>)
  BY DEF Place, At
<1>2. held[s] \notin Frames(enqueued)
  <2>1. <<"ring", 0>> \in Place
    BY DEF Place
  <2>2. ~At(held[s], <<"ring", 0>>)
    BY <1>1, <2>1, Elsewhere
  <2>. QED
    BY <2>2 DEF At
<1>3. ASSUME NEW u \in Stream
      PROVE  held[s] \notin Frames(queues[u]) /\ (u # s => held[u] # held[s])
  <2>1. <<"parked", u>> \in Place /\ <<"held", u>> \in Place
    BY DEF Place
  <2>2. ~At(held[s], <<"parked", u>>) /\ (u # s => ~At(held[s], <<"held", u>>))
    BY <1>1, <2>1, Elsewhere
  <2>. QED
    BY <2>2 DEF At
<1>4. ASSUME NEW r \in Reader PROVE buff[r] # held[s]
  <2>1. <<"buff", r>> \in Place
    BY DEF Place
  <2>2. ~At(held[s], <<"buff", r>>)
    BY <1>1, <2>1, Elsewhere
  <2>. QED
    BY <2>2 DEF At
<1>. QED
  BY <1>2, <1>3, <1>4

LEMMA BuffPlace ==
  ASSUME OnePlace, NEW r \in Reader, buff[r] \in Frame
  PROVE  /\ buff[r] \notin Frames(enqueued)
         /\ \A u \in Stream : buff[r] \notin Frames(queues[u]) /\ held[u] # buff[r]
         /\ \A v \in Reader : v # r => buff[v] # buff[r]
<1>1. <<"buff", r>> \in Place /\ At(buff[r], <<"buff", r>>)
  BY DEF Place, At
<1>2. buff[r] \notin Frames(enqueued)
  <2>1. <<"ring", 0>> \in Place
    BY DEF Place
  <2>2. ~At(buff[r], <<"ring", 0>>)
    BY <1>1, <2>1, Elsewhere
  <2>. QED
    BY <2>2 DEF At
<1>3. ASSUME NEW u \in Stream
      PROVE  buff[r] \notin Frames(queues[u]) /\ held[u] # buff[r]
  <2>1. <<"parked", u>> \in Place /\ <<"held", u>> \in Place
    BY DEF Place
  <2>2. ~At(buff[r], <<"parked", u>>) /\ ~At(buff[r], <<"held", u>>)
    BY <1>1, <2>1, Elsewhere
  <2>. QED
    BY <2>2 DEF At
<1>4. ASSUME NEW v \in Reader, v # r PROVE buff[v] # buff[r]
  <2>1. <<"buff", v>> \in Place
    BY DEF Place
  <2>2. ~At(buff[r], <<"buff", v>>)
    BY <1>1, <1>4, <2>1, Elsewhere
  <2>. QED
    BY <2>2 DEF At
<1>. QED
  BY <1>2, <1>3, <1>4

LEMMA TakeParkedKept ==
  ASSUME IInv, NoneTwice, OnePlace, NEW r \in Reader, TakeParked(r)
  PROVE  NoneTwice' /\ OnePlace'
<1>1. PICK s \in Stream : /\ Wants(r, s) /\ queues[s] # <<>>
                           /\ held' = [held EXCEPT ![s] = Head(queues[s])]
                           /\ queues' = [queues EXCEPT ![s] = Tail(@)]
  BY DEF TakeParked, Give, Rest
<1>2. queues[s] \in Seq(Frame) /\ held[s] = NoFrame
  BY <1>1 DEF Wants, IInv, TypeOK
<1>3. PICK f \in Frame : f = Head(queues[s])
  BY <1>1, <1>2
<1>4. /\ f \in Frames(queues[s]) /\ Distinct(Tail(queues[s]))
      /\ Frames(Tail(queues[s])) = Frames(queues[s]) \ {f}
  BY <1>1, <1>2, <1>3, FramesOfTail DEF NoneTwice
<1>5. queues'[s] = Tail(queues[s]) /\ \A u \in Stream \ {s} : queues'[u] = queues[u]
  BY <1>1 DEF IInv, TypeOK
<1>6. held'[s] = f /\ \A u \in Stream \ {s} : held'[u] = held[u]
  BY <1>1, <1>3 DEF IInv, TypeOK
<1>7. enqueued' = enqueued /\ buff' = buff
  BY DEF TakeParked, ring
<1>8. NoneTwice'
  BY <1>4, <1>5, <1>7 DEF NoneTwice
<1>9. Moves({f}, <<"held", s>>)
  <2>1. /\ f \notin Frames(enqueued) /\ \A v \in Reader : buff[v] # f
        /\ \A u \in Stream : (u # s => f \notin Frames(queues[u])) /\ held[u] # f
    BY <1>4, ParkedPlace
  <2>2. \A g \in Frame : g # NoFrame
    BY DEF Frame, NoFrame
  <2>. QED
    BY <1>2, <1>4, <1>5, <1>6, <1>7, <2>1, <2>2 DEF Moves
<1>10. <<"held", s>> \in Place
  BY DEF Place
<1>. QED
  BY <1>8, <1>9, <1>10, MovesOnePlace

LEMMA TakeFrameKept ==
  ASSUME IInv, NoneTwice, OnePlace, NEW r \in Reader, TakeFrame(r)
  PROVE  NoneTwice' /\ OnePlace'
<1>1. /\ enqueued # <<>> /\ enqueued \in Seq(Frame) /\ enqueued' = Tail(enqueued)
      /\ buff' = [buff EXCEPT ![r] = Head(enqueued)] /\ buff[r] = NoFrame
  BY DEF TakeFrame, Goto, IInv, TypeOK, HandHolds
<1>2. PICK f \in Frame : f = Head(enqueued)
  BY <1>1
<1>3. /\ f \in Frames(enqueued) /\ Distinct(enqueued')
      /\ Frames(enqueued') = Frames(enqueued) \ {f}
  BY <1>1, <1>2, FramesOfTail DEF NoneTwice
<1>4. buff'[r] = f /\ \A v \in Reader \ {r} : buff'[v] = buff[v]
  BY <1>1, <1>2 DEF IInv, TypeOK
<1>5. queues' = queues /\ held' = held
  BY DEF TakeFrame
<1>6. NoneTwice'
  BY <1>3, <1>5 DEF NoneTwice
<1>7. Moves({f}, <<"buff", r>>)
  <2>1. /\ \A s \in Stream : f \notin Frames(queues[s]) /\ held[s] # f
        /\ \A v \in Reader : buff[v] # f
    BY <1>3, RingPlace
  <2>2. \A g \in Frame : g # NoFrame
    BY DEF Frame, NoFrame
  <2>. QED
    BY <1>1, <1>3, <1>4, <1>5, <2>1, <2>2 DEF Moves
<1>8. <<"buff", r>> \in Place
  BY DEF Place
<1>. QED
  BY <1>6, <1>7, <1>8, MovesOnePlace

\* What the three ways to sort a frame have in common.
LEMMA SortedFrame ==
  ASSUME IInv, OnePlace, NEW r \in Reader, pc[r] = "sort",
         buff' = [buff EXCEPT ![r] = NoFrame]
  PROVE  /\ buff[r] \in Frame
         /\ buff[r] \notin Frames(enqueued)
         /\ \A u \in Stream : buff[r] \notin Frames(queues[u]) /\ held[u] # buff[r]
         /\ \A f \in Frame : \A v \in Reader :
              buff'[v] = f <=> f # buff[r] /\ buff[v] = f
<1>1. buff[r] \in Frame
  BY DEF IInv, TypeOK, HandHolds
<1>2. \A v \in Reader : v # r => buff[v] # buff[r]
  BY <1>1, BuffPlace
<1>3. buff'[r] = NoFrame /\ \A v \in Reader \ {r} : buff'[v] = buff[v]
  BY DEF IInv, TypeOK
<1>4. \A f \in Frame : f # NoFrame
  BY DEF Frame, NoFrame
<1>. QED
  BY <1>1, <1>2, <1>3, <1>4, BuffPlace

LEMMA SortOwnKept ==
  ASSUME IInv, NoneTwice, OnePlace, NEW r \in Reader, SortOwn(r)
  PROVE  NoneTwice' /\ OnePlace'
<1>1. PICK s \in Stream : Wants(r, s) /\ held' = [held EXCEPT ![s] = buff[r]]
  BY DEF SortOwn, Give
<1>2. pc[r] = "sort" /\ buff' = [buff EXCEPT ![r] = NoFrame]
  BY DEF SortOwn
<1>3. PICK f \in Frame : f = buff[r]
  BY <1>2, SortedFrame
<1>4. held[s] = NoFrame /\ held'[s] = f /\ \A u \in Stream \ {s} : held'[u] = held[u]
  BY <1>1, <1>3 DEF Wants, IInv, TypeOK
<1>5. enqueued' = enqueued /\ queues' = queues
  BY DEF SortOwn, ring
<1>6. NoneTwice'
  BY <1>5 DEF NoneTwice
<1>7. Moves({f}, <<"held", s>>)
  <2>1. /\ f \notin Frames(enqueued)
        /\ \A u \in Stream : f \notin Frames(queues[u]) /\ held[u] # f
        /\ \A g \in Frame : \A v \in Reader : buff'[v] = g <=> g # f /\ buff[v] = g
    BY <1>2, <1>3, SortedFrame
  <2>2. \A g \in Frame : g # NoFrame
    BY DEF Frame, NoFrame
  <2>. QED
    BY <1>4, <1>5, <2>1, <2>2 DEF Moves
<1>8. <<"held", s>> \in Place
  BY DEF Place
<1>. QED
  BY <1>6, <1>7, <1>8, MovesOnePlace

LEMMA SortOtherKept ==
  ASSUME IInv, NoneTwice, OnePlace, NEW r \in Reader, SortOther(r)
  PROVE  NoneTwice' /\ OnePlace'
<1>1. PICK s \in Stream : queues' = [queues EXCEPT ![s] = Append(@, buff[r])]
  BY DEF SortOther
<1>2. pc[r] = "sort" /\ buff' = [buff EXCEPT ![r] = NoFrame]
  BY DEF SortOther, Goto
<1>3. PICK f \in Frame : f = buff[r]
  BY <1>2, SortedFrame
<1>4. /\ f \notin Frames(enqueued)
      /\ \A u \in Stream : f \notin Frames(queues[u]) /\ held[u] # f
      /\ \A g \in Frame : \A v \in Reader : buff'[v] = g <=> g # f /\ buff[v] = g
  BY <1>2, <1>3, SortedFrame
<1>5. queues'[s] = Append(queues[s], f) /\ \A u \in Stream \ {s} : queues'[u] = queues[u]
  BY <1>1, <1>3 DEF IInv, TypeOK
<1>6. queues[s] \in Seq(Frame) /\ Distinct(queues[s])
  BY DEF IInv, TypeOK, NoneTwice
<1>7. Frames(queues'[s]) = Frames(queues[s]) \cup {f} /\ Distinct(queues'[s])
  BY <1>4, <1>5, <1>6, FramesOfAppend
<1>8. enqueued' = enqueued /\ held' = held
  BY DEF SortOther, ring
<1>9. NoneTwice'
  BY <1>5, <1>7, <1>8 DEF NoneTwice
<1>10. Moves({f}, <<"parked", s>>)
  BY <1>4, <1>5, <1>7, <1>8 DEF Moves
<1>11. <<"parked", s>> \in Place
  BY DEF Place
<1>. QED
  BY <1>9, <1>10, <1>11, MovesOnePlace

LEMMA SortStrayKept ==
  ASSUME IInv, NoneTwice, OnePlace, NEW r \in Reader, SortStray(r)
  PROVE  NoneTwice' /\ OnePlace'
<1>1. pc[r] = "sort" /\ buff' = [buff EXCEPT ![r] = NoFrame]
  BY DEF SortStray, Goto
<1>2. PICK f \in Frame : f = buff[r]
  BY <1>1, SortedFrame
<1>3. /\ f \notin Frames(enqueued)
      /\ \A u \in Stream : f \notin Frames(queues[u]) /\ held[u] # f
      /\ \A g \in Frame : \A v \in Reader : buff'[v] = g <=> g # f /\ buff[v] = g
  BY <1>1, <1>2, SortedFrame
<1>4. <<f>> \in Seq(Frame) /\ Frames(<<f>>) = {f} /\ Distinct(<<f>>)
  BY FramesOfOne
<1>5. enqueued \in Seq(Frame) /\ Distinct(enqueued) /\ enqueued' = enqueued \o <<f>>
  BY <1>2 DEF SortStray, Submit, IInv, TypeOK, NoneTwice
<1>6. Frames(enqueued) \cap Frames(<<f>>) = {}
  BY <1>3, <1>4
<1>7. Frames(enqueued') = Frames(enqueued) \cup {f} /\ Distinct(enqueued')
  BY <1>4, <1>5, <1>6, FramesOfConcat
<1>8. queues' = queues /\ held' = held
  BY DEF SortStray
<1>9. NoneTwice'
  BY <1>7, <1>8 DEF NoneTwice
<1>10. Moves({f}, <<"ring", 0>>)
  BY <1>3, <1>7, <1>8 DEF Moves
<1>11. <<"ring", 0>> \in Place
  BY DEF Place
<1>. QED
  BY <1>9, <1>10, <1>11, MovesOnePlace

LEMMA ReleaseKept ==
  ASSUME IInv, NoneTwice, OnePlace, NEW r \in Reader, Release(r)
  PROVE  NoneTwice' /\ OnePlace'
<1>1. PICK s \in Stream : /\ held[s] # NoFrame /\ enqueued' = enqueued \o <<held[s]>>
                           /\ held' = [held EXCEPT ![s] = NoFrame]
  BY DEF Release, StreamsOf, Submit
<1>2. PICK f \in Frame : f = held[s]
  BY <1>1 DEF IInv, TypeOK
<1>3. /\ f \notin Frames(enqueued)
      /\ \A u \in Stream : f \notin Frames(queues[u]) /\ (u # s => held[u] # f)
      /\ \A v \in Reader : buff[v] # f
  BY <1>2, HeldPlace
<1>4. <<f>> \in Seq(Frame) /\ Frames(<<f>>) = {f} /\ Distinct(<<f>>)
  BY FramesOfOne
<1>5. enqueued \in Seq(Frame) /\ Distinct(enqueued) /\ enqueued' = enqueued \o <<f>>
  BY <1>1, <1>2 DEF IInv, TypeOK, NoneTwice
<1>6. Frames(enqueued) \cap Frames(<<f>>) = {}
  BY <1>3, <1>4
<1>7. Frames(enqueued') = Frames(enqueued) \cup {f} /\ Distinct(enqueued')
  BY <1>4, <1>5, <1>6, FramesOfConcat
<1>8. held'[s] = NoFrame /\ \A u \in Stream \ {s} : held'[u] = held[u]
  BY <1>1 DEF IInv, TypeOK
<1>9. queues' = queues /\ buff' = buff
  BY DEF Release
<1>10. NoneTwice'
  BY <1>7, <1>9 DEF NoneTwice
<1>11. Moves({f}, <<"ring", 0>>)
  <2>1. \A g \in Frame : g # NoFrame
    BY DEF Frame, NoFrame
  <2>. QED
    BY <1>2, <1>3, <1>7, <1>8, <1>9, <2>1 DEF Moves
<1>12. <<"ring", 0>> \in Place
  BY DEF Place
<1>. QED
  BY <1>10, <1>11, <1>12, MovesOnePlace

LEMMA ReallocKept ==
  ASSUME IInv, NoneTwice, OnePlace, NEW s \in Stream, Realloc(s)
  PROVE  NoneTwice' /\ OnePlace'
<1>1. /\ enqueued' = enqueued \o queues[s] /\ queues' = [queues EXCEPT ![s] = <<>>]
      /\ held' = held /\ buff' = buff
  BY DEF Realloc, Submit
<1>2. /\ enqueued \in Seq(Frame) /\ Distinct(enqueued)
      /\ queues[s] \in Seq(Frame) /\ Distinct(queues[s])
  BY DEF IInv, TypeOK, NoneTwice
<1>3. \A f \in Frame : f \in Frames(queues[s]) =>
        /\ f \notin Frames(enqueued)
        /\ \A u \in Stream : (u # s => f \notin Frames(queues[u])) /\ held[u] # f
        /\ \A r \in Reader : buff[r] # f
  BY ParkedPlace
<1>4. Frames(queues[s]) \subseteq Frame
  BY <1>2 DEF Frames
<1>5. Frames(enqueued) \cap Frames(queues[s]) = {}
  BY <1>3, <1>4
<1>6. /\ Frames(enqueued') = Frames(enqueued) \cup Frames(queues[s])
      /\ Distinct(enqueued')
  BY <1>1, <1>2, <1>5, FramesOfConcat
<1>7. queues'[s] = <<>> /\ \A u \in Stream \ {s} : queues'[u] = queues[u]
  BY <1>1 DEF IInv, TypeOK
<1>8. Frames(queues'[s]) = {} /\ Distinct(queues'[s])
  BY <1>7, FramesOfNone
<1>9. NoneTwice'
  BY <1>6, <1>7, <1>8 DEF NoneTwice
<1>10. Moves(Frames(queues[s]), <<"ring", 0>>)
  BY <1>1, <1>3, <1>6, <1>7, <1>8 DEF Moves
<1>11. <<"ring", 0>> \in Place
  BY DEF Place
<1>. QED
  BY <1>9, <1>10, <1>11, MovesOnePlace

LEMMA InitKept == Init => NoneTwice /\ OnePlace
<1>. SUFFICES ASSUME Init PROVE NoneTwice /\ OnePlace
  OBVIOUS
<1>1. enqueued = [i \in 1 .. NumFrames |-> i] /\ Len(enqueued) = NumFrames
  BY ConstantsAssumption DEF Init
<1>2. Distinct(enqueued) /\ Frames(enqueued) = Frame
  BY <1>1, ConstantsAssumption DEF Distinct, Frames, Frame
<1>3. NoneTwice
  BY <1>2, FramesOfNone DEF Init, NoneTwice
<1>4. OnePlace
  <2>. SUFFICES ASSUME NEW f \in Frame
                PROVE  \A q \in Place : At(f, q) <=> q = <<"ring", 0>>
    BY DEF OnePlace, Place
  <2>. SUFFICES ASSUME NEW q \in Place PROVE At(f, q) <=> q = <<"ring", 0>>
    OBVIOUS
  <2>1. f # NoFrame
    BY DEF Frame, NoFrame
  <2>2. CASE q = <<"ring", 0>>
    BY <1>2, <2>2 DEF At
  <2>3. ASSUME NEW s \in Stream, q = <<"parked", s>> PROVE ~At(f, q)
    BY <2>3, FramesOfNone DEF At, Init
  <2>4. ASSUME NEW s \in Stream, q = <<"held", s>> PROVE ~At(f, q)
    BY <2>4, <2>1 DEF At, Init
  <2>5. ASSUME NEW r \in Reader, q = <<"buff", r>> PROVE ~At(f, q)
    BY <2>5, <2>1 DEF At, Init
  <2>. QED
    BY <2>2, <2>3, <2>4, <2>5 DEF Place
<1>. QED
  BY <1>3, <1>4

LEMMA NextKept == IInv /\ NoneTwice /\ OnePlace /\ [Next]_vars => NoneTwice' /\ OnePlace'
<1>. SUFFICES ASSUME IInv, NoneTwice, OnePlace, [Next]_vars
              PROVE  NoneTwice' /\ OnePlace'
  OBVIOUS
<1>1. CASE UNCHANGED <<enqueued, queues, held, buff>>
  BY <1>1 DEF NoneTwice, OnePlace, At
<1>2. CASE UNCHANGED vars
  BY <1>1, <1>2 DEF vars, ring
<1>3. ASSUME NEW s \in Stream, Send(s) PROVE NoneTwice' /\ OnePlace'
  BY <1>1, <1>3 DEF Send, ring
<1>4. CASE SendStray
  BY <1>1, <1>4 DEF SendStray, ring
<1>5. CASE Complete
  BY <1>1, <1>5 DEF Complete
<1>6. ASSUME NEW r \in Reader, CheckInVain(r) \/ LockTransport(r) \/ TimeOut(r)
      PROVE  NoneTwice' /\ OnePlace'
  BY <1>1, <1>6 DEF CheckInVain, LockTransport, TimeOut, ring
<1>. QED
  BY <1>2, <1>3, <1>4, <1>5, <1>6, ReallocKept, TakeParkedKept, TakeFrameKept,
     SortOwnKept, SortOtherKept, SortStrayKept, ReleaseKept DEF Next, ReaderStep

\* No frame is lost to the transport and none is filled again while it is read,
\* parked or sorted (enqueue_buffer, get_recv_buff, realloc_sid).
THEOREM NoFrameLost == Spec => []FramesKept
<1>1. IInv /\ NoneTwice /\ OnePlace => FramesKept
  BY DEF NoneTwice, OnePlace, FramesKept
<1>. QED
  BY <1>1, InitIInv, IInvNext, InitKept, NextKept, PTL DEF Spec

-----------------------------------------------------------------------------
(* Order.  To a single reader, the packets of a stream that are parked, in its *)
(* hand, complete in the ring or on the wire are the next ones of the stream,  *)
(* in this order.                                                              *)

\* What has been received in the first k frames of q, and the wire behind them.
Line(c, q, k, w) == [i \in 1 .. k |-> c[q[i]]] \o w

\* The packets of stream s in the line are the numbers from a to below b, in turn.
InTurn(line, s, a, b) ==
    /\ a <= b
    /\ \A i \in 1 .. Len(line) : line[i].sid = s => line[i].n \in a .. b - 1
    /\ \A n \in a .. b - 1 : \E i \in 1 .. Len(line) : line[i] = [sid |-> s, n |-> n]
    /\ \A i, j \in 1 .. Len(line) :
         i < j /\ line[i].sid = s /\ line[j].sid = s => line[i].n < line[j].n

LEMMA InTurnSent ==
  ASSUME NEW line \in Seq(Packet), NEW s \in Stream, NEW a \in Int, NEW b \in Nat,
         InTurn(line, s, a, b)
  PROVE  InTurn(Append(line, [sid |-> s, n |-> b]), s, a, b + 1)
<1>. DEFINE p == [sid |-> s, n |-> b]
            new == Append(line, p)
<1>1. p \in Packet /\ p.sid = s /\ p.n = b
  BY DEF Packet
<1>2. /\ Len(new) = Len(line) + 1 /\ Len(line) \in Nat /\ new[Len(line) + 1] = p
      /\ \A i \in 1 .. Len(line) : new[i] = line[i]
  BY <1>1
<1>. HIDE DEF p, new
<1>3. \A i \in 1 .. Len(new) : new[i].sid = s => new[i].n \in a .. b
  <2>. SUFFICES ASSUME NEW i \in 1 .. Len(new), new[i].sid = s PROVE new[i].n \in a .. b
    OBVIOUS
  <2>1. CASE i = Len(line) + 1
    BY <1>1, <1>2, <2>1 DEF InTurn
  <2>2. CASE i \in 1 .. Len(line)
    BY <1>2, <2>2 DEF InTurn
  <2>. QED
    BY <1>2, <2>1, <2>2
<1>4. \A n \in a .. b : \E i \in 1 .. Len(new) : new[i] = [sid |-> s, n |-> n]
  <2>. SUFFICES ASSUME NEW n \in a .. b
                PROVE  \E i \in 1 .. Len(new) : new[i] = [sid |-> s, n |-> n]
    OBVIOUS
  <2>1. CASE n = b
    BY <1>2, <2>1 DEF p
  <2>2. CASE n \in a .. b - 1
    <3>1. PICK i \in 1 .. Len(line) : line[i] = [sid |-> s, n |-> n]
      BY <2>2 DEF InTurn
    <3>2. i \in 1 .. Len(new) /\ new[i] = line[i]
      BY <1>2
    <3>. QED
      BY <3>1, <3>2
  <2>. QED
    BY <2>1, <2>2
<1>5. \A i, j \in 1 .. Len(new) :
        i < j /\ new[i].sid = s /\ new[j].sid = s => new[i].n < new[j].n
  <2>. SUFFICES ASSUME NEW i \in 1 .. Len(new), NEW j \in 1 .. Len(new),
                       i < j, new[i].sid = s, new[j].sid = s
                PROVE  new[i].n < new[j].n
    OBVIOUS
  <2>1. i \in 1 .. Len(line) /\ new[i] = line[i] /\ line[i].n \in a .. b - 1
    BY <1>2 DEF InTurn
  <2>2. CASE j = Len(line) + 1
    BY <1>1, <1>2, <2>1, <2>2
  <2>3. CASE j \in 1 .. Len(line)
    BY <1>2, <2>1, <2>3 DEF InTurn
  <2>. QED
    BY <1>2, <2>2, <2>3
<1>6. b + 1 - 1 = b /\ a <= b + 1
  BY DEF InTurn
<1>7. InTurn(new, s, a, b + 1)
  BY <1>3, <1>4, <1>5, <1>6 DEF InTurn
<1>. QED
  BY <1>7 DEF new, p

LEMMA InTurnOtherSent ==
  ASSUME NEW line \in Seq(Packet), NEW p \in Packet, NEW s, p.sid # s,
         NEW a \in Int, NEW b \in Int, InTurn(line, s, a, b)
  PROVE  InTurn(Append(line, p), s, a, b)
<1>. DEFINE new == Append(line, p)
<1>2. /\ Len(new) = Len(line) + 1 /\ Len(line) \in Nat /\ new[Len(line) + 1] = p
      /\ \A i \in 1 .. Len(line) : new[i] = line[i]
  OBVIOUS
<1>. HIDE DEF new
<1>3. \A i \in 1 .. Len(new) : new[i].sid = s => i \in 1 .. Len(line) /\ new[i] = line[i]
  BY <1>2
<1>4. \A n \in a .. b - 1 : \E i \in 1 .. Len(new) : new[i] = [sid |-> s, n |-> n]
  <2>. SUFFICES ASSUME NEW n \in a .. b - 1
                PROVE  \E i \in 1 .. Len(new) : new[i] = [sid |-> s, n |-> n]
    OBVIOUS
  <2>1. PICK i \in 1 .. Len(line) : line[i] = [sid |-> s, n |-> n]
    BY DEF InTurn
  <2>2. i \in 1 .. Len(new) /\ new[i] = line[i]
    BY <1>2
  <2>. QED
    BY <2>1, <2>2
<1>5. InTurn(new, s, a, b)
  BY <1>3, <1>4 DEF InTurn
<1>. QED
  BY <1>5 DEF new

LEMMA TailFacts ==
  ASSUME NEW line \in Seq(Packet), line # <<>>
  PROVE  /\ Len(line) \in Nat \ {0} /\ Len(Tail(line)) = Len(line) - 1
         /\ Tail(line) \in Seq(Packet) /\ Head(line) = line[1]
         /\ \A i \in 1 .. Len(line) - 1 : i + 1 \in 1 .. Len(line) /\ Tail(line)[i] = line[i + 1]
OBVIOUS

LEMMA InTurnTaken ==
  ASSUME NEW line \in Seq(Packet), line # <<>>, NEW s \in Stream, Head(line).sid = s,
         NEW a \in Int, NEW b \in Int, InTurn(line, s, a, b)
  PROVE  Head(line).n = a /\ InTurn(Tail(line), s, a + 1, b)
<1>. DEFINE new == Tail(line)
<1>1. /\ Len(line) \in Nat \ {0} /\ Len(new) = Len(line) - 1 /\ Head(line) = line[1]
      /\ \A i \in 1 .. Len(line) - 1 : i + 1 \in 1 .. Len(line) /\ new[i] = line[i + 1]
  BY TailFacts
<1>. HIDE DEF new
<1>2. line[1].n \in a .. b - 1 /\ 1 \in 1 .. Len(line)
  BY <1>1 DEF InTurn
<1>3. line[1].n = a
  <2>1. PICK i \in 1 .. Len(line) : line[i] = [sid |-> s, n |-> a]
    BY <1>2 DEF InTurn
  <2>2. line[i].sid = s /\ line[i].n = a
    BY <2>1
  <2>3. CASE i = 1
    BY <2>2, <2>3
  <2>4. CASE 1 < i
    <3>1. line[1].n < line[i].n
      BY <1>1, <1>2, <2>2, <2>4 DEF InTurn
    <3>. QED
      BY <1>2, <2>2, <3>1
  <2>. QED
    BY <2>3, <2>4
<1>4. \A i \in 1 .. Len(new) : new[i].sid = s => new[i].n \in a + 1 .. b - 1
  <2>. SUFFICES ASSUME NEW i \in 1 .. Len(new), new[i].sid = s
                PROVE  new[i].n \in a + 1 .. b - 1
    OBVIOUS
  <2>1. i + 1 \in 1 .. Len(line) /\ new[i] = line[i + 1] /\ 1 < i + 1
    BY <1>1
  <2>2. line[i + 1].n \in a .. b - 1
    BY <2>1 DEF InTurn
  <2>3. line[1].n < line[i + 1].n
    BY <1>1, <1>2, <2>1 DEF InTurn
  <2>. QED
    BY <1>3, <2>1, <2>2, <2>3
<1>5. \A n \in a + 1 .. b - 1 : \E i \in 1 .. Len(new) : new[i] = [sid |-> s, n |-> n]
  <2>. SUFFICES ASSUME NEW n \in a + 1 .. b - 1
                PROVE  \E i \in 1 .. Len(new) : new[i] = [sid |-> s, n |-> n]
    OBVIOUS
  <2>1. PICK i \in 1 .. Len(line) : line[i] = [sid |-> s, n |-> n]
    BY DEF InTurn
  <2>2. line[i].n = n
    BY <2>1
  <2>3. i # 1
    BY <1>3, <2>2
  <2>4. i - 1 \in 1 .. Len(new) /\ new[i - 1] = line[(i - 1) + 1] /\ (i - 1) + 1 = i
    BY <1>1, <2>3
  <2>. QED
    BY <2>1, <2>4
<1>6. \A i, j \in 1 .. Len(new) :
        i < j /\ new[i].sid = s /\ new[j].sid = s => new[i].n < new[j].n
  <2>. SUFFICES ASSUME NEW i \in 1 .. Len(new), NEW j \in 1 .. Len(new),
                       i < j, new[i].sid = s, new[j].sid = s
                PROVE  new[i].n < new[j].n
    OBVIOUS
  <2>1. /\ i + 1 \in 1 .. Len(line) /\ new[i] = line[i + 1]
        /\ j + 1 \in 1 .. Len(line) /\ new[j] = line[j + 1] /\ i + 1 < j + 1
    BY <1>1
  <2>. QED
    BY <2>1 DEF InTurn
<1>7. a + 1 <= b
  BY <1>2
<1>8. InTurn(new, s, a + 1, b)
  BY <1>4, <1>5, <1>6, <1>7 DEF InTurn
<1>. QED
  BY <1>1, <1>3, <1>8 DEF new

LEMMA InTurnOtherTaken ==
  ASSUME NEW line \in Seq(Packet), line # <<>>, NEW s \in Stream, Head(line).sid # s,
         NEW a \in Int, NEW b \in Int, InTurn(line, s, a, b)
  PROVE  InTurn(Tail(line), s, a, b)
<1>. DEFINE new == Tail(line)
<1>1. /\ Len(line) \in Nat \ {0} /\ Len(new) = Len(line) - 1 /\ Head(line) = line[1]
      /\ \A i \in 1 .. Len(line) - 1 : i + 1 \in 1 .. Len(line) /\ new[i] = line[i + 1]
  BY TailFacts
<1>. HIDE DEF new
<1>4. \A i \in 1 .. Len(new) : new[i].sid = s => new[i].n \in a .. b - 1
  BY <1>1 DEF InTurn
<1>5. \A n \in a .. b - 1 : \E i \in 1 .. Len(new) : new[i] = [sid |-> s, n |-> n]
  <2>. SUFFICES ASSUME NEW n \in a .. b - 1
                PROVE  \E i \in 1 .. Len(new) : new[i] = [sid |-> s, n |-> n]
    OBVIOUS
  <2>1. PICK i \in 1 .. Len(line) : line[i] = [sid |-> s, n |-> n]
    BY DEF InTurn
  <2>2. line[i].sid = s
    BY <2>1
  <2>3. i # 1
    BY <1>1, <2>2
  <2>4. i - 1 \in 1 .. Len(new) /\ new[i - 1] = line[(i - 1) + 1] /\ (i - 1) + 1 = i
    BY <1>1, <2>3
  <2>. QED
    BY <2>1, <2>4
<1>6. \A i, j \in 1 .. Len(new) :
        i < j /\ new[i].sid = s /\ new[j].sid = s => new[i].n < new[j].n
  <2>. SUFFICES ASSUME NEW i \in 1 .. Len(new), NEW j \in 1 .. Len(new),
                       i < j, new[i].sid = s, new[j].sid = s
                PROVE  new[i].n < new[j].n
    OBVIOUS
  <2>1. /\ i + 1 \in 1 .. Len(line) /\ new[i] = line[i + 1]
        /\ j + 1 \in 1 .. Len(line) /\ new[j] = line[j + 1] /\ i + 1 < j + 1
    BY <1>1
  <2>. QED
    BY <2>1 DEF InTurn
<1>8. InTurn(new, s, a, b)
  BY <1>4, <1>5, <1>6 DEF InTurn
<1>. QED
  BY <1>8 DEF new

\* l is such a line.
IsLine(l, c, q, k, w) ==
    /\ l \in Seq(Packet) /\ Len(l) = k + Len(w)
    /\ \A i \in 1 .. k : q[i] \in Frame /\ l[i] = c[q[i]]
    /\ \A i \in 1 .. Len(w) : l[k + i] = w[i]

LEMMA LineFacts ==
  ASSUME NEW c \in [Frame -> Packet], NEW q \in Seq(Frame), NEW k \in Nat, k <= Len(q),
         NEW w \in Seq(Packet)
  PROVE  IsLine(Line(c, q, k, w), c, q, k, w)
<1>. DEFINE done == [i \in 1 .. k |-> c[q[i]]]
<1>1. \A i \in 1 .. k : q[i] \in Frame /\ c[q[i]] \in Packet
  OBVIOUS
<1>2. done \in Seq(Packet) /\ Len(done) = k /\ \A i \in 1 .. k : done[i] = c[q[i]]
  BY <1>1
<1>. HIDE DEF done
<1>3. done \o w \in Seq(Packet) /\ Len(done \o w) = Len(done) + Len(w)
  BY <1>2
<1>4. \A i \in 1 .. Len(done) : (done \o w)[i] = done[i]
  BY <1>2
<1>5. \A i \in 1 .. Len(w) : (done \o w)[Len(done) + i] = w[i]
  BY <1>2
<1>. QED
  BY <1>1, <1>2, <1>3, <1>4, <1>5 DEF IsLine, Line, done

LEMMA LineSent ==
  ASSUME NEW c \in [Frame -> Packet], NEW q \in Seq(Frame), NEW k \in Nat, k <= Len(q),
         NEW w \in Seq(Packet), NEW p \in Packet
  PROVE  Line(c, q, k, Append(w, p)) = Append(Line(c, q, k, w), p)
<1>. DEFINE done == [i \in 1 .. k |-> c[q[i]]]
<1>1. \A i \in 1 .. k : q[i] \in Frame /\ c[q[i]] \in Packet
  OBVIOUS
<1>2. done \in Seq(Packet)
  BY <1>1
<1>. HIDE DEF done
<1>3. done \o Append(w, p) = Append(done \o w, p)
  BY <1>2
<1>. QED
  BY <1>3 DEF Line, done

LEMMA LineCompleted ==
  ASSUME NEW c \in [Frame -> Packet], NEW q \in Seq(Frame), NEW k \in Nat, k < Len(q),
         NEW w \in Seq(Packet), w # <<>>, Distinct(q), NEW d,
         d = [c EXCEPT ![q[k + 1]] = Head(w)]
  PROVE  Line(d, q, k + 1, Tail(w)) = Line(c, q, k, w)
<1>1. /\ Len(w) \in Nat \ {0} /\ Len(Tail(w)) = Len(w) - 1 /\ Tail(w) \in Seq(Packet)
      /\ Head(w) = w[1] /\ Head(w) \in Packet
      /\ \A i \in 1 .. Len(w) - 1 : i + 1 \in 1 .. Len(w) /\ Tail(w)[i] = w[i + 1]
  OBVIOUS
<1>2. k + 1 \in 1 .. Len(q) /\ q[k + 1] \in Frame /\ d \in [Frame -> Packet]
  BY <1>1
<1>3. /\ d[q[k + 1]] = w[1]
      /\ \A i \in 1 .. k : q[i] \in Frame /\ d[q[i]] = c[q[i]]
  BY <1>1, <1>2 DEF Distinct
<1>. DEFINE l == Line(c, q, k, w)
            m == Line(d, q, k + 1, Tail(w))
<1>4. /\ l \in Seq(Packet) /\ Len(l) = k + Len(w)
      /\ \A i \in 1 .. k : l[i] = c[q[i]]
      /\ \A i \in 1 .. Len(w) : l[k + i] = w[i]
  <2>1. k <= Len(q)
    OBVIOUS
  <2>2. IsLine(l, c, q, k, w)
    BY <2>1, LineFacts
  <2>. QED
    BY <2>2 DEF IsLine
<1>5. /\ m \in Seq(Packet) /\ Len(m) = k + Len(w)
      /\ \A i \in 1 .. k + 1 : m[i] = d[q[i]]
      /\ \A i \in 1 .. Len(w) - 1 : m[k + 1 + i] = w[i + 1]
  <2>1. k + 1 \in Nat /\ k + 1 <= Len(q)
    BY <1>2
  <2>2. /\ m \in Seq(Packet) /\ Len(m) = k + 1 + Len(Tail(w))
        /\ \A i \in 1 .. k + 1 : q[i] \in Frame /\ m[i] = d[q[i]]
        /\ \A i \in 1 .. Len(Tail(w)) : m[k + 1 + i] = Tail(w)[i]
    <3>1. PICK h \in Nat, t \in Seq(Packet), e \in [Frame -> Packet] :
            h = k + 1 /\ t = Tail(w) /\ e = d
      BY <1>1, <1>2, <2>1
    <3>2. h <= Len(q)
      BY <2>1, <3>1
    <3>3. IsLine(Line(e, q, h, t), e, q, h, t)
      BY <3>2, LineFacts
    <3>4. Line(e, q, h, t) = m
      BY <3>1
    <3>. HIDE DEF m
    <3>. QED
      BY <3>1, <3>3, <3>4 DEF IsLine
  <2>. HIDE DEF m
  <2>. QED
    BY <1>1, <2>2
<1>. HIDE DEF l, m
<1>6. \A i \in 1 .. Len(l) : m[i] = l[i]
  <2>. SUFFICES ASSUME NEW i \in 1 .. Len(l) PROVE m[i] = l[i]
    OBVIOUS
  <2>1. CASE i \in 1 .. k
    BY <1>3, <1>4, <1>5, <2>1
  <2>2. CASE i = k + 1
    <3>1. m[i] = w[1]
      BY <1>3, <1>5, <2>2
    <3>2. l[k + 1] = w[1]
      BY <1>1, <1>4
    <3>. QED
      BY <2>2, <3>1, <3>2
  <2>3. CASE i > k + 1
    <3>1. PICK j \in 1 .. Len(w) - 1 : i = k + 1 + j
      <4>1. i - (k + 1) \in 1 .. Len(w) - 1 /\ i = k + 1 + (i - (k + 1))
        BY <1>1, <1>4, <2>3
      <4>. QED
        BY <4>1
    <3>2. m[i] = w[j + 1]
      BY <1>5, <3>1
    <3>3. j + 1 \in 1 .. Len(w) /\ i = k + (j + 1)
      BY <1>1, <3>1
    <3>4. l[k + (j + 1)] = w[j + 1]
      BY <1>4, <3>3
    <3>. QED
      BY <3>2, <3>3, <3>4
  <2>. QED
    BY <1>4, <2>1, <2>2, <2>3
<1>7. m = l
  BY <1>4, <1>5, <1>6, SeqEqual
<1>. QED
  BY <1>7 DEF l, m

LEMMA LineSubmitted ==
  ASSUME NEW c, NEW q \in Seq(Frame), NEW f \in Seq(Frame), NEW k \in Nat, k <= Len(q),
         NEW w
  PROVE  Line(c, q \o f, k, w) = Line(c, q, k, w)
<1>1. \A i \in 1 .. k : (q \o f)[i] = q[i]
  OBVIOUS
<1>2. [i \in 1 .. k |-> c[(q \o f)[i]]] = [i \in 1 .. k |-> c[q[i]]]
  BY <1>1
<1>. QED
  BY <1>2 DEF Line

LEMMA LineTaken ==
  ASSUME NEW c \in [Frame -> Packet], NEW q \in Seq(Frame), NEW k \in Nat \ {0},
         k <= Len(q), NEW w \in Seq(Packet)
  PROVE  /\ Line(c, q, k, w) # <<>> /\ Head(q) \in Frame
         /\ Head(Line(c, q, k, w)) = c[Head(q)]
         /\ Line(c, Tail(q), k - 1, w) = Tail(Line(c, q, k, w))
<1>1. /\ q # <<>> /\ Tail(q) \in Seq(Frame) /\ Len(Tail(q)) = Len(q) - 1
      /\ Head(q) = q[1] /\ Head(q) \in Frame /\ k - 1 \in Nat /\ k - 1 <= Len(Tail(q))
      /\ \A i \in 1 .. Len(q) - 1 : Tail(q)[i] = q[i + 1]
  OBVIOUS
<1>. DEFINE l == Line(c, q, k, w)
            m == Line(c, Tail(q), k - 1, w)
<1>2. /\ l \in Seq(Packet) /\ Len(l) = k + Len(w)
      /\ \A i \in 1 .. k : l[i] = c[q[i]]
      /\ \A i \in 1 .. Len(w) : l[k + i] = w[i]
  <2>1. k <= Len(q)
    OBVIOUS
  <2>2. IsLine(l, c, q, k, w)
    BY <2>1, LineFacts
  <2>. QED
    BY <2>2 DEF IsLine
<1>3. /\ m \in Seq(Packet) /\ Len(m) = k - 1 + Len(w)
      /\ \A i \in 1 .. k - 1 : Tail(q)[i] \in Frame /\ m[i] = c[Tail(q)[i]]
      /\ \A i \in 1 .. Len(w) : m[k - 1 + i] = w[i]
  <2>1. PICK h \in Nat, t \in Seq(Frame) : h = k - 1 /\ t = Tail(q)
    BY <1>1
  <2>2. h <= Len(t)
    BY <1>1, <2>1
  <2>3. IsLine(Line(c, t, h, w), c, t, h, w)
    BY <2>2, LineFacts
  <2>4. Line(c, t, h, w) = m
    BY <2>1
  <2>. HIDE DEF m
  <2>. QED
    BY <2>1, <2>3, <2>4 DEF IsLine
<1>. HIDE DEF l, m
<1>4. /\ l # <<>> /\ Head(l) = c[Head(q)]
      /\ Tail(l) \in Seq(Packet) /\ Len(Tail(l)) = k + Len(w) - 1
      /\ \A i \in 1 .. k + Len(w) - 1 : Tail(l)[i] = l[i + 1]
  <2>1. Len(w) \in Nat /\ Len(l) # 0 /\ l # <<>>
    BY <1>2
  <2>2. /\ Len(Tail(l)) = Len(l) - 1 /\ Tail(l) \in Seq(Packet) /\ Head(l) = l[1]
        /\ \A i \in 1 .. Len(l) - 1 : Tail(l)[i] = l[i + 1]
    BY <1>2, <2>1, TailFacts
  <2>3. l[1] = c[q[1]]
    BY <1>2
  <2>. QED
    BY <1>1, <1>2, <2>1, <2>2, <2>3
<1>5. \A i \in 1 .. Len(m) : m[i] = Tail(l)[i]
  <2>. SUFFICES ASSUME NEW i \in 1 .. Len(m) PROVE m[i] = Tail(l)[i]
    OBVIOUS
  <2>1. /\ i \in 1 .. k + Len(w) - 1 /\ Tail(l)[i] = l[i + 1]
        /\ i \in 1 .. k - 1 \/ i > k - 1
    BY <1>3, <1>4
  <2>2. CASE i \in 1 .. k - 1
    <3>1. m[i] = c[q[i + 1]]
      BY <1>1, <1>3, <2>2
    <3>2. l[i + 1] = c[q[i + 1]]
      BY <1>2, <2>2
    <3>. QED
      BY <2>1, <3>1, <3>2
  <2>3. CASE i > k - 1
    <3>1. PICK j \in 1 .. Len(w) : i = k - 1 + j
      <4>1. i - (k - 1) \in 1 .. Len(w) /\ i = k - 1 + (i - (k - 1))
        BY <2>1, <2>3
      <4>. QED
        BY <4>1
    <3>2. m[i] = w[j]
      BY <1>3, <3>1
    <3>3. i + 1 = k + j /\ l[k + j] = w[j]
      BY <1>2, <3>1
    <3>. QED
      BY <2>1, <3>2, <3>3
  <2>. QED
    BY <2>1, <2>2, <2>3
<1>6. m = Tail(l)
  BY <1>3, <1>4, <1>5, SeqEqual
<1>. QED
  BY <1>1, <1>4, <1>6 DEF l, m

Coming == Line(content, enqueued, ready, wire)

\* The one reader, and the stream of the packet that it has in hand.
One == reads[1]
Sorts(s) == buff[One] # NoFrame /\ content[buff[One]].sid = s

\* The number that the packet after the parked ones has, and after that in hand.
Unparked(s) == handed[s] + Len(queues[s])
First(s) == Unparked(s) + (IF Sorts(s) THEN 1 ELSE 0)

OthersIdle == \A r \in Reader : r # One => pc[r] = "check"

ParkedInTurn ==
    \A s \in Stream : \A i \in 1 .. Len(queues[s]) :
      content[queues[s][i]] = [sid |-> s, n |-> handed[s] + i - 1]

HeldInTurn ==
    \A s \in Stream :
      held[s] # NoFrame => content[held[s]] = [sid |-> s, n |-> handed[s] - 1]

SortedInTurn == \A s \in Stream : Sorts(s) => content[buff[One]].n = Unparked(s)

\* The reader has found nothing parked for the stream that it wants.
NoneParked ==
    pc[One] \in {"lock", "xport", "sort"} =>
      \A s \in Stream : Wants(One, s) => queues[s] = <<>>

ComingInTurn == \A s \in Stream : InTurn(Coming, s, First(s), sent[s])

OrderInv ==
    /\ OthersIdle /\ ParkedInTurn /\ HeldInTurn /\ SortedInTurn
    /\ NoneParked /\ ComingInTurn /\ outOfTurn = {}

LEMMA OneIsReader == IInv => 1 \in Stream /\ One \in Reader
BY ConstantsAssumption DEF IInv, TypeOK, Stream, Reader, One

LEMMA Types ==
  IInv => /\ wire \in Seq(Packet) /\ sent \in [Stream -> Nat]
          /\ enqueued \in Seq(Frame) /\ ready \in Nat /\ ready <= Len(enqueued)
          /\ content \in [Frame -> Packet]
          /\ queues \in [Stream -> Seq(Frame)]
          /\ buff \in [Reader -> Frame \cup {NoFrame}]
          /\ held \in [Stream -> Frame \cup {NoFrame}]
          /\ handed \in [Stream -> Nat]
BY DEF IInv, TypeOK

LEMMA FirstTypes ==
  ASSUME IInv, NEW s \in Stream
  PROVE  Unparked(s) \in Nat /\ First(s) \in Nat
<1>1. handed[s] \in Nat /\ Len(queues[s]) \in Nat
  BY Types
<1>. QED
  BY <1>1 DEF Unparked, First

\* What does not touch the packets keeps them in turn.
LEMMA SameOrder ==
  ASSUME OrderInv,
         UNCHANGED <<content, queues, held, handed, sent, outOfTurn>>,
         Coming' = Coming, One' = One, buff'[One] = buff[One],
         OthersIdle', NoneParked'
  PROVE  OrderInv'
<1>1. \A s \in Stream : /\ Sorts(s)' <=> Sorts(s)
                        /\ Unparked(s)' = Unparked(s) /\ First(s)' = First(s)
  BY DEF Sorts, Unparked, First
<1>2. ParkedInTurn' /\ HeldInTurn'
  BY DEF OrderInv, ParkedInTurn, HeldInTurn
<1>3. SortedInTurn'
  BY <1>1 DEF OrderInv, SortedInTurn
<1>4. ComingInTurn'
  BY <1>1 DEF OrderInv, ComingInTurn
<1>. QED
  BY <1>2, <1>3, <1>4 DEF OrderInv

LEMMA SendOrder ==
  ASSUME IInv, OrderInv, NEW s \in Stream, Send(s)
  PROVE  OrderInv'
<1>. DEFINE p == [sid |-> s, n |-> sent[s]]
<1>1. /\ wire' = Append(wire, p) /\ sent' = [sent EXCEPT ![s] = @ + 1]
      /\ UNCHANGED <<reads, enqueued, ready, content, queues, pc, buff, held, handed,
                     outOfTurn>>
  BY DEF Send, ring, history
<1>2. p \in Packet /\ p.sid = s
  BY Types DEF Packet
<1>3. Coming' = Append(Coming, p) /\ Coming \in Seq(Packet)
  <2>1. Line(content, enqueued, ready, Append(wire, p)) =
          Append(Line(content, enqueued, ready, wire), p)
    <3>1. /\ content \in [Frame -> Packet] /\ enqueued \in Seq(Frame)
          /\ ready \in Nat /\ ready <= Len(enqueued) /\ wire \in Seq(Packet)
      BY Types
    <3>. HIDE DEF p
    <3>. QED
      BY <1>2, <3>1, LineSent, Zenon
  <2>2. Line(content, enqueued, ready, wire) \in Seq(Packet)
    BY Types, LineFacts DEF IsLine
  <2>. QED
    BY <1>1, <2>1, <2>2 DEF Coming
<1>4. \A u \in Stream : /\ Sorts(u)' <=> Sorts(u)
                        /\ Unparked(u)' = Unparked(u) /\ First(u)' = First(u)
  BY <1>1 DEF Sorts, Unparked, First, One
<1>5. One' = One
  BY <1>1 DEF One
<1>6. OthersIdle' /\ NoneParked' /\ ParkedInTurn' /\ HeldInTurn'
  BY <1>1, <1>5 DEF OrderInv, OthersIdle, NoneParked, ParkedInTurn, HeldInTurn, Wants,
     StreamsOf
<1>7. SortedInTurn'
  BY <1>1, <1>4, <1>5 DEF OrderInv, SortedInTurn
<1>8. ASSUME NEW u \in Stream PROVE InTurn(Coming', u, First(u)', sent'[u])
  <2>1. First(u) \in Nat /\ sent[u] \in Nat /\ InTurn(Coming, u, First(u), sent[u])
    BY FirstTypes, Types DEF OrderInv, ComingInTurn
  <2>2. CASE u = s
    <3>1. sent'[s] = sent[s] + 1
      BY <1>1, Types
    <3>2. InTurn(Append(Coming, [sid |-> s, n |-> sent[s]]), s, First(s), sent[s] + 1)
      BY <1>3, <2>1, <2>2, InTurnSent
    <3>. QED
      BY <1>3, <1>4, <2>2, <3>1, <3>2
  <2>3. CASE u # s
    <3>1. sent'[u] = sent[u] /\ p.sid # u
      BY <1>1, <1>2, <2>3, Types
    <3>. HIDE DEF p
    <3>2. InTurn(Append(Coming, p), u, First(u), sent[u])
      BY <1>2, <1>3, <2>1, <3>1, InTurnOtherSent
    <3>. QED
      BY <1>3, <1>4, <3>1, <3>2
  <2>. QED
    BY <2>2, <2>3
<1>9. ComingInTurn'
  BY <1>8 DEF ComingInTurn
<1>. QED
  BY <1>1, <1>6, <1>7, <1>9 DEF OrderInv

LEMMA SendStrayOrder ==
  ASSUME IInv, OrderInv, SendStray
  PROVE  OrderInv'
<1>. DEFINE p == [sid |-> Stray, n |-> 0]
<1>1. /\ wire' = Append(wire, p)
      /\ UNCHANGED <<reads, sent, enqueued, ready, content, queues, pc, buff, held,
                     handed, outOfTurn>>
  BY DEF SendStray, ring, history
<1>2. p \in Packet /\ \A u \in Stream : p.sid # u
  BY DEF Packet, Stray, Stream
<1>. HIDE DEF p
<1>3. Coming' = Append(Coming, p) /\ Coming \in Seq(Packet)
  <2>1. Line(content, enqueued, ready, Append(wire, p)) =
          Append(Line(content, enqueued, ready, wire), p)
    <3>1. /\ content \in [Frame -> Packet] /\ enqueued \in Seq(Frame)
          /\ ready \in Nat /\ ready <= Len(enqueued) /\ wire \in Seq(Packet)
      BY Types
    <3>. HIDE DEF p
    <3>. QED
      BY <1>2, <3>1, LineSent, Zenon
  <2>2. Line(content, enqueued, ready, wire) \in Seq(Packet)
    BY Types, LineFacts DEF IsLine
  <2>. QED
    BY <1>1, <2>1, <2>2 DEF Coming
<1>4. \A u \in Stream : /\ Sorts(u)' <=> Sorts(u)
                        /\ Unparked(u)' = Unparked(u) /\ First(u)' = First(u)
  BY <1>1 DEF Sorts, Unparked, First, One
<1>5. One' = One
  BY <1>1 DEF One
<1>6. OthersIdle' /\ NoneParked' /\ ParkedInTurn' /\ HeldInTurn'
  BY <1>1, <1>5 DEF OrderInv, OthersIdle, NoneParked, ParkedInTurn, HeldInTurn, Wants,
     StreamsOf
<1>7. SortedInTurn'
  BY <1>1, <1>4, <1>5 DEF OrderInv, SortedInTurn
<1>8. ASSUME NEW u \in Stream PROVE InTurn(Coming', u, First(u)', sent'[u])
  <2>1. First(u) \in Nat /\ sent[u] \in Nat /\ InTurn(Coming, u, First(u), sent[u])
    BY FirstTypes, Types DEF OrderInv, ComingInTurn
  <2>2. p.sid # u
    BY <1>2
  <2>3. InTurn(Append(Coming, p), u, First(u), sent[u])
    BY <1>2, <1>3, <2>1, <2>2, InTurnOtherSent
  <2>. QED
    BY <1>1, <1>3, <1>4, <2>3
<1>9. ComingInTurn'
  BY <1>8 DEF ComingInTurn
<1>. QED
  BY <1>1, <1>6, <1>7, <1>9 DEF OrderInv

\* A frame that is filled is in the ring, and so nowhere else.
LEMMA CompleteOrder ==
  ASSUME IInv, NoneTwice, OnePlace, OrderInv, Complete
  PROVE  OrderInv'
<1>. DEFINE f == enqueued[ready + 1]
<1>1. /\ wire # <<>> /\ ready < Len(enqueued) /\ ready' = ready + 1
      /\ content' = [content EXCEPT ![f] = Head(wire)] /\ wire' = Tail(wire)
      /\ UNCHANGED <<reads, sent, enqueued, queues, pc, buff, held, handed, outOfTurn>>
  BY DEF Complete, history
<1>2. f \in Frame /\ f \in Frames(enqueued)
  <2>1. ready + 1 \in 1 .. Len(enqueued)
    BY <1>1, Types
  <2>. QED
    BY <2>1, Types DEF Frames
<1>3. Coming' = Coming
  <2>1. Line(content', enqueued, ready + 1, Tail(wire)) =
          Line(content, enqueued, ready, wire)
    BY <1>1, Types, LineCompleted DEF NoneTwice
  <2>. QED
    BY <1>1, <2>1 DEF Coming
<1>4. /\ \A u \in Stream : f \notin Frames(queues[u]) /\ held[u] # f
      /\ \A r \in Reader : buff[r] # f
  BY <1>2, RingPlace
<1>. HIDE DEF f
<1>5. \A g \in Frame : g # f => content'[g] = content[g]
  BY <1>1, Types
<1>6. One' = One /\ One \in Reader
  BY <1>1, OneIsReader DEF One
<1>7. OthersIdle' /\ NoneParked'
  BY <1>1, <1>6 DEF OrderInv, OthersIdle, NoneParked, Wants, StreamsOf
<1>8. ASSUME NEW u \in Stream, NEW i \in 1 .. Len(queues[u])
      PROVE  content'[queues[u][i]] = content[queues[u][i]]
  <2>1. queues[u][i] \in Frame /\ queues[u][i] \in Frames(queues[u])
    BY Types DEF Frames
  <2>. QED
    BY <1>4, <1>5, <2>1
<1>9. ParkedInTurn'
  BY <1>1, <1>8 DEF OrderInv, ParkedInTurn
<1>10. HeldInTurn'
  <2>. SUFFICES ASSUME NEW u \in Stream, held[u] # NoFrame
                PROVE  content'[held[u]] = [sid |-> u, n |-> handed[u] - 1]
    BY <1>1 DEF HeldInTurn
  <2>1. held[u] \in Frame /\ held[u] # f
    BY <1>4, Types
  <2>. QED
    BY <1>5, <2>1 DEF OrderInv, HeldInTurn
<1>11. buff[One] # NoFrame => content'[buff[One]] = content[buff[One]]
  <2>. SUFFICES ASSUME buff[One] # NoFrame PROVE content'[buff[One]] = content[buff[One]]
    OBVIOUS
  <2>1. buff[One] \in Frame /\ buff[One] # f
    BY <1>4, <1>6, Types
  <2>. QED
    BY <1>5, <2>1
<1>12. \A u \in Stream : Sorts(u)' <=> Sorts(u)
  BY <1>1, <1>6, <1>11 DEF Sorts
<1>13. \A u \in Stream : Unparked(u)' = Unparked(u) /\ First(u)' = First(u)
  BY <1>1, <1>12 DEF Unparked, First
<1>14. SortedInTurn'
  BY <1>1, <1>6, <1>11, <1>12, <1>13 DEF OrderInv, SortedInTurn, Sorts
<1>15. ComingInTurn'
  BY <1>1, <1>3, <1>13 DEF OrderInv, ComingInTurn
<1>. QED
  BY <1>1, <1>7, <1>9, <1>10, <1>14, <1>15 DEF OrderInv

LEMMA SubmitComing ==
  ASSUME IInv, NEW frames \in Seq(Frame), Submit(frames), wire' = wire
  PROVE  Coming' = Coming
<1>1. Line(content, enqueued \o frames, ready, wire) = Line(content, enqueued, ready, wire)
  BY Types, LineSubmitted
<1>. QED
  BY <1>1 DEF Coming, Submit

\* Who wants a packet, or is in the middle of getting one, is the one reader.
LEMMA OnlyOne ==
  ASSUME IInv, Serialised, OrderInv, NEW r \in Reader
  PROVE  /\ pc[r] # "check" => r = One
         /\ \A s \in Stream : reads[s] = One
         /\ \A s \in Stream : Wants(r, s) => r = One
<1>1. \A s \in Stream : reads[s] = One
  BY OneIsReader DEF Serialised, One
<1>2. \A s \in Stream : Wants(r, s) => reads[s] = r
  BY DEF Wants, StreamsOf
<1>. QED
  BY <1>1, <1>2 DEF OrderInv, OthersIdle

LEMMA TakeParkedOrder ==
  ASSUME IInv, Serialised, OrderInv, NEW r \in Reader, TakeParked(r)
  PROVE  OrderInv'
<1>1. PICK s \in Stream : /\ Wants(r, s) /\ queues[s] # <<>>
                           /\ Give(r, s, Head(queues[s]))
                           /\ queues' = [queues EXCEPT ![s] = Tail(@)]
  BY DEF TakeParked, Rest
<1>2. /\ pc[r] = "check" /\ r = One
      /\ UNCHANGED <<reads, wire, sent, enqueued, ready, content, buff>>
  BY <1>1, OnlyOne DEF TakeParked, radio, ring
<1>3. PICK f \in Frame : f = Head(queues[s])
  BY <1>1, Types
<1>4. /\ Len(queues[s]) \in Nat \ {0} /\ queues[s][1] = f
      /\ Len(Tail(queues[s])) = Len(queues[s]) - 1
      /\ \A i \in 1 .. Len(queues[s]) - 1 :
           i + 1 \in 1 .. Len(queues[s]) /\ Tail(queues[s])[i] = queues[s][i + 1]
  BY <1>1, <1>3, Types
<1>5. /\ queues'[s] = Tail(queues[s]) /\ \A u \in Stream : u # s => queues'[u] = queues[u]
      /\ handed'[s] = handed[s] + 1 /\ \A u \in Stream : u # s => handed'[u] = handed[u]
      /\ held'[s] = f /\ \A u \in Stream : u # s => held'[u] = held[u]
  BY <1>1, <1>3, Types DEF Give
<1>6. One' = One /\ Coming' = Coming
  BY <1>2 DEF One, Coming
<1>7. content[f] = [sid |-> s, n |-> handed[s]]
  <2>1. content[queues[s][1]] = [sid |-> s, n |-> handed[s] + 1 - 1]
    BY <1>4 DEF OrderInv, ParkedInTurn
  <2>2. handed[s] + 1 - 1 = handed[s]
    BY Types
  <2>. QED
    BY <1>4, <2>1, <2>2
<1>8. outOfTurn' = {}
  BY <1>1, <1>3, <1>7 DEF Give, OrderInv
<1>9. OthersIdle' /\ NoneParked'
  <2>1. \E to \in {"check", "release"} : pc' = [pc EXCEPT ![r] = to]
    BY <1>1 DEF Give
  <2>2. pc'[One] \in {"check", "release"} /\ \A v \in Reader : v # r => pc'[v] = pc[v]
    BY <1>2, <2>1 DEF IInv, TypeOK
  <2>. QED
    BY <1>2, <1>6, <2>2 DEF OrderInv, OthersIdle, NoneParked
<1>10. ParkedInTurn'
  <2>. SUFFICES ASSUME NEW u \in Stream, NEW i \in 1 .. Len(queues'[u])
                PROVE  content[queues'[u][i]] = [sid |-> u, n |-> handed'[u] + i - 1]
    BY <1>2 DEF ParkedInTurn
  <2>1. CASE u # s
    BY <1>5, <2>1 DEF OrderInv, ParkedInTurn
  <2>2. CASE u = s
    <3>1. i + 1 \in 1 .. Len(queues[s]) /\ queues'[s][i] = queues[s][i + 1]
      BY <1>4, <1>5, <2>2
    <3>2. content[queues[s][i + 1]] = [sid |-> s, n |-> handed[s] + (i + 1) - 1]
      BY <3>1 DEF OrderInv, ParkedInTurn
    <3>3. handed[s] + (i + 1) - 1 = handed'[s] + i - 1
      BY <1>4, <1>5, <2>2, Types
    <3>. QED
      BY <2>2, <3>1, <3>2, <3>3
  <2>. QED
    BY <2>1, <2>2
<1>11. HeldInTurn'
  <2>. SUFFICES ASSUME NEW u \in Stream, held'[u] # NoFrame
                PROVE  content[held'[u]] = [sid |-> u, n |-> handed'[u] - 1]
    BY <1>2 DEF HeldInTurn
  <2>1. CASE u # s
    BY <1>5, <2>1 DEF OrderInv, HeldInTurn
  <2>2. CASE u = s
    <3>1. handed'[s] - 1 = handed[s]
      BY <1>5, Types
    <3>. QED
      BY <1>5, <1>7, <2>2, <3>1
  <2>. QED
    BY <2>1, <2>2
<1>12. \A u \in Stream : Sorts(u)' <=> Sorts(u)
  BY <1>2, <1>6 DEF Sorts
<1>13. ASSUME NEW u \in Stream PROVE Unparked(u)' = Unparked(u)
  <2>1. CASE u # s
    BY <1>5, <2>1 DEF Unparked
  <2>2. CASE u = s
    <3>1. handed[s] + 1 + (Len(queues[s]) - 1) = handed[s] + Len(queues[s])
      BY <1>4, Types
    <3>. QED
      BY <1>4, <1>5, <2>2, <3>1 DEF Unparked
  <2>. QED
    BY <2>1, <2>2
<1>14. \A u \in Stream : First(u)' = First(u)
  BY <1>12, <1>13 DEF First
<1>15. SortedInTurn'
  BY <1>2, <1>6, <1>12, <1>13 DEF OrderInv, SortedInTurn
<1>16. ComingInTurn'
  BY <1>2, <1>6, <1>14 DEF OrderInv, ComingInTurn
<1>. QED
  BY <1>8, <1>9, <1>10, <1>11, <1>15, <1>16 DEF OrderInv

\* The first stream without a frame is the only one that a reader wants.
LEMMA WantsOne ==
  ASSUME NEW r, NEW s \in Stream, NEW u \in Stream, Wants(r, s), Wants(r, u)
  PROVE  s = u
BY ConstantsAssumption DEF Wants, Stream

LEMMA WaitOrder ==
  ASSUME IInv, Serialised, OrderInv, NEW r \in Reader,
         CheckInVain(r) \/ LockTransport(r) \/ TimeOut(r)
  PROVE  OrderInv'
<1>1. UNCHANGED <<reads, wire, sent, enqueued, ready, content, queues, buff, held,
                  handed, outOfTurn>>
  BY DEF CheckInVain, LockTransport, TimeOut, radio, ring, history
<1>2. r = One
  <2>1. CASE CheckInVain(r)
    BY <2>1, OnlyOne DEF CheckInVain
  <2>2. CASE LockTransport(r) \/ TimeOut(r)
    <3>1. pc[r] # "check"
      BY <2>2 DEF LockTransport, TimeOut, Goto
    <3>. QED
      BY <3>1, OnlyOne
  <2>. QED
    BY <2>1, <2>2
<1>3. One' = One /\ Coming' = Coming /\ buff'[One] = buff[One]
  BY <1>1 DEF One, Coming
<1>4. \E to \in {"check", "lock", "xport"} : pc' = [pc EXCEPT ![r] = to]
  BY DEF CheckInVain, LockTransport, TimeOut, Goto
<1>5. OthersIdle'
  BY <1>2, <1>3, <1>4 DEF OrderInv, OthersIdle, IInv, TypeOK
<1>6. \A s \in Stream : Wants(One, s)' <=> Wants(One, s)
  BY <1>1, <1>3 DEF Wants, StreamsOf
<1>7. NoneParked'
  <2>. SUFFICES ASSUME pc'[One] \in {"lock", "xport", "sort"},
                       NEW u \in Stream, Wants(One, u)
                PROVE  queues[u] = <<>>
    BY <1>1, <1>3, <1>6 DEF NoneParked
  <2>1. CASE CheckInVain(r)
    <3>1. PICK s \in Stream : Wants(r, s) /\ queues[s] = <<>>
      BY <2>1 DEF CheckInVain
    <3>2. s = u
      BY <1>2, <3>1, WantsOne
    <3>. QED
      BY <3>1, <3>2
  <2>2. CASE LockTransport(r)
    BY <1>2, <2>2 DEF LockTransport, Goto, OrderInv, NoneParked
  <2>3. CASE TimeOut(r)
    <3>1. pc'[One] = "check"
      BY <1>2, <2>3 DEF TimeOut, Goto, IInv, TypeOK
    <3>. QED
      BY <3>1
  <2>. QED
    BY <2>1, <2>2, <2>3
<1>. QED
  BY <1>1, <1>3, <1>5, <1>7, SameOrder

LEMMA TakeFrameOrder ==
  ASSUME IInv, Serialised, OrderInv, NEW r \in Reader, TakeFrame(r)
  PROVE  OrderInv'
<1>1. /\ pc[r] = "xport" /\ pc' = [pc EXCEPT ![r] = "sort"] /\ ready > 0
      /\ buff' = [buff EXCEPT ![r] = Head(enqueued)] /\ enqueued' = Tail(enqueued)
      /\ ready' = ready - 1
      /\ UNCHANGED <<reads, wire, sent, content, queues, held, handed, outOfTurn>>
  BY DEF TakeFrame, Goto, radio, history
<1>2. r = One /\ buff[r] = NoFrame
  BY <1>1, OnlyOne DEF IInv, HandHolds
<1>3. PICK f \in Frame : f = Head(enqueued)
  BY <1>1, Types
<1>4. /\ Coming \in Seq(Packet) /\ Coming # <<>> /\ Head(Coming) = content[f]
      /\ Coming' = Tail(Coming)
  <2>1. /\ content \in [Frame -> Packet] /\ enqueued \in Seq(Frame)
        /\ ready \in Nat \ {0} /\ ready \in Nat /\ ready <= Len(enqueued)
        /\ wire \in Seq(Packet)
    BY <1>1, Types
  <2>2. IsLine(Coming, content, enqueued, ready, wire)
    BY <2>1, LineFacts, Zenon DEF Coming
  <2>3. /\ Line(content, enqueued, ready, wire) # <<>>
        /\ Head(Line(content, enqueued, ready, wire)) = content[Head(enqueued)]
        /\ Line(content, Tail(enqueued), ready - 1, wire) =
             Tail(Line(content, enqueued, ready, wire))
    BY <2>1, LineTaken, Zenon
  <2>. QED
    BY <1>1, <1>3, <2>2, <2>3 DEF Coming, IsLine
<1>5. One' = One /\ buff'[One] = f /\ f # NoFrame
  BY <1>1, <1>2, <1>3, Types DEF One, Frame, NoFrame
<1>6. OthersIdle' /\ NoneParked'
  BY <1>1, <1>2, <1>5 DEF OrderInv, OthersIdle, NoneParked, Wants, StreamsOf, IInv, TypeOK
<1>7. ParkedInTurn' /\ HeldInTurn'
  BY <1>1 DEF OrderInv, ParkedInTurn, HeldInTurn
<1>8. ASSUME NEW u \in Stream
      PROVE  /\ ~Sorts(u) /\ (Sorts(u)' <=> content[f].sid = u)
             /\ Unparked(u)' = Unparked(u) /\ First(u) = Unparked(u)
             /\ First(u)' = Unparked(u) + (IF content[f].sid = u THEN 1 ELSE 0)
  <2>1. ~Sorts(u)
    BY <1>2 DEF Sorts
  <2>2. Sorts(u)' <=> content[f].sid = u
    BY <1>1, <1>5 DEF Sorts
  <2>3. Unparked(u)' = Unparked(u)
    BY <1>1 DEF Unparked
  <2>4. First(u) = Unparked(u)
    BY <2>1, FirstTypes DEF First
  <2>. QED
    BY <2>1, <2>2, <2>3, <2>4 DEF First
<1>9. ASSUME NEW u \in Stream
      PROVE  /\ content[f].sid = u => content[f].n = Unparked(u)
             /\ InTurn(Tail(Coming), u, First(u)', sent[u])
  <2>1. /\ Unparked(u) \in Nat /\ sent[u] \in Nat
        /\ InTurn(Coming, u, Unparked(u), sent[u])
    BY <1>8, FirstTypes, Types DEF OrderInv, ComingInTurn
  <2>2. CASE content[f].sid = u
    <3>1. Head(Coming).n = Unparked(u) /\ InTurn(Tail(Coming), u, Unparked(u) + 1, sent[u])
      BY <1>4, <2>1, <2>2, InTurnTaken
    <3>. QED
      BY <1>4, <1>8, <2>2, <3>1
  <2>3. CASE content[f].sid # u
    <3>1. InTurn(Tail(Coming), u, Unparked(u), sent[u])
      BY <1>4, <2>1, <2>3, InTurnOtherTaken
    <3>2. First(u)' = Unparked(u)
      BY <1>8, <2>1, <2>3
    <3>. QED
      BY <2>3, <3>1, <3>2
  <2>. QED
    BY <2>2, <2>3
<1>10. SortedInTurn'
  BY <1>1, <1>5, <1>8, <1>9 DEF SortedInTurn
<1>11. ComingInTurn'
  BY <1>1, <1>4, <1>9 DEF ComingInTurn
<1>. QED
  BY <1>1, <1>6, <1>7, <1>10, <1>11 DEF OrderInv

LEMMA SortOwnOrder ==
  ASSUME IInv, Serialised, OrderInv, NEW r \in Reader, SortOwn(r)
  PROVE  OrderInv'
<1>1. PICK s \in Stream : Wants(r, s) /\ content[buff[r]].sid = s /\ Give(r, s, buff[r])
  BY DEF SortOwn
<1>2. /\ pc[r] = "sort" /\ buff' = [buff EXCEPT ![r] = NoFrame] /\ r = One
      /\ UNCHANGED <<reads, wire, sent, enqueued, ready, content, queues>>
  BY <1>1, OnlyOne DEF SortOwn, radio, ring
<1>3. PICK f \in Frame : f = buff[One] /\ f # NoFrame
  BY <1>2, Types DEF IInv, HandHolds
<1>4. /\ handed'[s] = handed[s] + 1 /\ \A u \in Stream : u # s => handed'[u] = handed[u]
      /\ held'[s] = f /\ \A u \in Stream : u # s => held'[u] = held[u]
  BY <1>1, <1>2, <1>3, Types DEF Give
<1>5. One' = One /\ Coming' = Coming /\ buff'[One] = NoFrame
  BY <1>2, Types DEF One, Coming
<1>6. queues[s] = <<>> /\ Len(queues[s]) = 0
  BY <1>1, <1>2 DEF OrderInv, NoneParked
<1>7. content[f] \in Packet /\ content[f].sid = s /\ content[f].n = handed[s]
  <2>1. Sorts(s)
    BY <1>1, <1>2, <1>3 DEF Sorts
  <2>2. content[f].n = Unparked(s) /\ Unparked(s) = handed[s]
    BY <1>3, <1>6, <2>1, Types DEF OrderInv, SortedInTurn, Unparked
  <2>. QED
    BY <1>1, <1>2, <1>3, <2>2, Types
<1>8. content[f] = [sid |-> s, n |-> handed[s]]
  BY <1>7 DEF Packet
<1>9. outOfTurn' = {}
  BY <1>1, <1>2, <1>3, <1>7 DEF Give, OrderInv
<1>10. OthersIdle' /\ NoneParked'
  <2>1. \E to \in {"check", "release"} : pc' = [pc EXCEPT ![r] = to]
    BY <1>1 DEF Give
  <2>2. pc'[One] \in {"check", "release"} /\ \A v \in Reader : v # r => pc'[v] = pc[v]
    BY <1>2, <2>1 DEF IInv, TypeOK
  <2>. QED
    BY <1>2, <1>5, <2>2 DEF OrderInv, OthersIdle, NoneParked
<1>11. ParkedInTurn'
  <2>. SUFFICES ASSUME NEW u \in Stream, NEW i \in 1 .. Len(queues[u])
                PROVE  content[queues[u][i]] = [sid |-> u, n |-> handed'[u] + i - 1]
    BY <1>2 DEF ParkedInTurn
  <2>1. u # s
    BY <1>6
  <2>. QED
    BY <1>4, <2>1 DEF OrderInv, ParkedInTurn
<1>12. HeldInTurn'
  <2>. SUFFICES ASSUME NEW u \in Stream, held'[u] # NoFrame
                PROVE  content[held'[u]] = [sid |-> u, n |-> handed'[u] - 1]
    BY <1>2 DEF HeldInTurn
  <2>1. CASE u # s
    BY <1>4, <2>1 DEF OrderInv, HeldInTurn
  <2>2. CASE u = s
    <3>1. handed'[s] - 1 = handed[s]
      BY <1>4, Types
    <3>. QED
      BY <1>4, <1>8, <2>2, <3>1
  <2>. QED
    BY <2>1, <2>2
<1>13. \A u \in Stream : ~Sorts(u)'
  BY <1>5 DEF Sorts
<1>14. ASSUME NEW u \in Stream PROVE First(u)' = First(u)
  <2>1. First(u)' = Unparked(u)'
    <3>1. Unparked(u)' \in Nat
      <4>1. /\ Len(queues[u]) \in Nat /\ handed[u] \in Nat /\ handed[s] \in Nat
            /\ handed'[u] = handed[u] \/ handed'[u] = handed[s] + 1
        BY <1>4, Types
      <4>2. Unparked(u)' = handed'[u] + Len(queues[u])
        BY <1>2 DEF Unparked
      <4>. QED
        BY <4>1, <4>2
    <3>. QED
      BY <1>13, <3>1 DEF First
  <2>2. CASE u # s
    <3>1. ~Sorts(u)
      BY <1>3, <1>7, <2>2 DEF Sorts
    <3>2. First(u) = Unparked(u)
      BY <3>1, FirstTypes DEF First
    <3>3. Unparked(u)' = Unparked(u)
      BY <1>2, <1>4, <2>2 DEF Unparked
    <3>. QED
      BY <2>1, <3>2, <3>3
  <2>3. CASE u = s
    <3>1. Sorts(s)
      BY <1>3, <1>7 DEF Sorts
    <3>2. First(s) = handed[s] + 1
      BY <1>6, <3>1, Types DEF First, Unparked
    <3>3. Unparked(s)' = handed[s] + 1
      BY <1>2, <1>4, <1>6, Types DEF Unparked
    <3>. QED
      BY <2>1, <2>3, <3>2, <3>3
  <2>. QED
    BY <2>2, <2>3
<1>15. SortedInTurn'
  BY <1>13 DEF SortedInTurn
<1>16. ComingInTurn'
  BY <1>2, <1>5, <1>14 DEF OrderInv, ComingInTurn
<1>. QED
  BY <1>9, <1>10, <1>11, <1>12, <1>15, <1>16 DEF OrderInv

LEMMA SortOtherOrder ==
  ASSUME IInv, Serialised, OrderInv, NEW r \in Reader, SortOther(r)
  PROVE  OrderInv'
<1>1. PICK s \in Stream : /\ content[buff[r]].sid = s
                           /\ queues' = [queues EXCEPT ![s] = Append(@, buff[r])]
  BY DEF SortOther
<1>2. /\ pc[r] = "sort" /\ pc' = [pc EXCEPT ![r] = "check"]
      /\ buff' = [buff EXCEPT ![r] = NoFrame]
      /\ UNCHANGED <<reads, wire, sent, enqueued, ready, content, held, handed, outOfTurn>>
  BY DEF SortOther, Goto, radio, ring, history
<1>3. r = One
  BY <1>2, OnlyOne
<1>4. PICK f \in Frame : f = buff[One] /\ f # NoFrame
  BY <1>2, <1>3, Types DEF IInv, HandHolds
<1>5. /\ queues'[s] = Append(queues[s], f)
      /\ \A u \in Stream : u # s => queues'[u] = queues[u]
  BY <1>1, <1>3, <1>4, Types
<1>6. /\ Len(queues[s]) \in Nat /\ Len(queues'[s]) = Len(queues[s]) + 1
      /\ queues'[s][Len(queues[s]) + 1] = f
      /\ \A i \in 1 .. Len(queues[s]) : queues'[s][i] = queues[s][i]
  BY <1>5, Types
<1>7. One' = One /\ Coming' = Coming /\ buff'[One] = NoFrame
  BY <1>2, <1>3, Types DEF One, Coming
<1>8. Sorts(s) /\ content[f] = [sid |-> s, n |-> handed[s] + Len(queues[s])]
  <2>1. Sorts(s)
    BY <1>1, <1>3, <1>4 DEF Sorts
  <2>2. content[f].n = handed[s] + Len(queues[s])
    BY <1>4, <2>1 DEF OrderInv, SortedInTurn, Unparked
  <2>3. content[f] \in Packet /\ content[f].sid = s
    BY <1>1, <1>3, <1>4, Types
  <2>. QED
    BY <2>1, <2>2, <2>3 DEF Packet
<1>9. OthersIdle' /\ NoneParked'
  BY <1>2, <1>3, <1>7 DEF OrderInv, OthersIdle, NoneParked, IInv, TypeOK
<1>10. HeldInTurn'
  BY <1>2 DEF OrderInv, HeldInTurn
<1>11. ParkedInTurn'
  <2>. SUFFICES ASSUME NEW u \in Stream, NEW i \in 1 .. Len(queues'[u])
                PROVE  content[queues'[u][i]] = [sid |-> u, n |-> handed[u] + i - 1]
    BY <1>2 DEF ParkedInTurn
  <2>1. CASE u # s
    BY <1>5, <2>1 DEF OrderInv, ParkedInTurn
  <2>2. CASE u = s /\ i \in 1 .. Len(queues[s])
    BY <1>6, <2>2 DEF OrderInv, ParkedInTurn
  <2>3. CASE u = s /\ i = Len(queues[s]) + 1
    <3>1. handed[s] + i - 1 = handed[s] + Len(queues[s])
      BY <1>6, <2>3, Types
    <3>. QED
      BY <1>6, <1>8, <2>3, <3>1
  <2>. QED
    BY <1>6, <2>1, <2>2, <2>3
<1>12. \A u \in Stream : ~Sorts(u)'
  BY <1>7 DEF Sorts
<1>13. ASSUME NEW u \in Stream PROVE First(u)' = First(u)
  <2>1. First(u)' = Unparked(u)'
    <3>1. Unparked(u)' \in Nat
      <4>1. Len(queues'[u]) \in Nat /\ handed[u] \in Nat
        BY <1>5, <1>6, Types
      <4>. QED
        BY <1>2, <4>1 DEF Unparked
    <3>. QED
      BY <1>12, <3>1 DEF First
  <2>2. CASE u # s
    <3>1. ~Sorts(u)
      BY <1>8, <2>2 DEF Sorts
    <3>2. First(u) = Unparked(u)
      BY <3>1, FirstTypes DEF First
    <3>3. Unparked(u)' = Unparked(u)
      BY <1>2, <1>5, <2>2 DEF Unparked
    <3>. QED
      BY <2>1, <3>2, <3>3
  <2>3. CASE u = s
    <3>1. First(s) = handed[s] + Len(queues[s]) + 1
      BY <1>8 DEF First, Unparked
    <3>2. Unparked(s)' = handed[s] + (Len(queues[s]) + 1)
      BY <1>2, <1>6 DEF Unparked
    <3>. QED
      BY <1>6, <2>1, <2>3, <3>1, <3>2, Types
  <2>. QED
    BY <2>2, <2>3
<1>14. SortedInTurn'
  BY <1>12 DEF SortedInTurn
<1>15. ComingInTurn'
  BY <1>2, <1>7, <1>13 DEF OrderInv, ComingInTurn
<1>. QED
  BY <1>2, <1>9, <1>10, <1>11, <1>14, <1>15 DEF OrderInv

LEMMA SortStrayOrder ==
  ASSUME IInv, Serialised, OrderInv, NEW r \in Reader, SortStray(r)
  PROVE  OrderInv'
<1>2. /\ pc[r] = "sort" /\ pc' = [pc EXCEPT ![r] = "check"]
      /\ content[buff[r]].sid \notin Stream
      /\ buff' = [buff EXCEPT ![r] = NoFrame] /\ Submit(<<buff[r]>>)
      /\ UNCHANGED <<reads, wire, sent, content, queues, held, handed, outOfTurn>>
  BY DEF SortStray, Goto, Submit, radio, history
<1>3. r = One /\ buff[r] \in Frame
  BY <1>2, OnlyOne, Types DEF IInv, HandHolds
<1>4. Coming' = Coming
  <2>1. <<buff[r]>> \in Seq(Frame)
    BY <1>3
  <2>. QED
    BY <1>2, <2>1, SubmitComing
<1>5. One' = One /\ buff'[One] = NoFrame
  BY <1>2, <1>3, Types DEF One
<1>6. OthersIdle' /\ NoneParked'
  BY <1>2, <1>3, <1>5 DEF OrderInv, OthersIdle, NoneParked, IInv, TypeOK
<1>7. \A u \in Stream : ~Sorts(u)' /\ ~Sorts(u)
  BY <1>2, <1>3, <1>5 DEF Sorts
<1>8. \A u \in Stream : First(u)' = First(u)
  BY <1>2, <1>7 DEF First, Unparked
<1>9. SortedInTurn'
  BY <1>7 DEF SortedInTurn
<1>10. ComingInTurn'
  BY <1>2, <1>4, <1>8 DEF OrderInv, ComingInTurn
<1>11. ParkedInTurn' /\ HeldInTurn'
  BY <1>2 DEF OrderInv, ParkedInTurn, HeldInTurn
<1>. QED
  BY <1>2, <1>6, <1>9, <1>10, <1>11 DEF OrderInv

LEMMA ReleaseOrder ==
  ASSUME IInv, Serialised, OrderInv, NEW r \in Reader, Release(r)
  PROVE  OrderInv'
<1>1. PICK s \in Stream : /\ held[s] # NoFrame /\ Submit(<<held[s]>>)
                           /\ held' = [held EXCEPT ![s] = NoFrame]
                           /\ \E to \in {"check", "release"} : pc' = [pc EXCEPT ![r] = to]
  BY DEF Release, StreamsOf
<1>2. /\ pc[r] = "release"
      /\ UNCHANGED <<reads, wire, sent, content, queues, buff, handed, outOfTurn>>
  BY <1>1 DEF Release, Submit, radio, history
<1>3. r = One
  BY <1>2, OnlyOne
<1>4. Coming' = Coming
  <2>1. <<held[s]>> \in Seq(Frame)
    BY <1>1, Types
  <2>. QED
    BY <1>1, <1>2, <2>1, SubmitComing
<1>5. One' = One
  BY <1>2 DEF One
<1>6. OthersIdle' /\ NoneParked'
  <2>1. pc'[One] \in {"check", "release"} /\ \A v \in Reader : v # r => pc'[v] = pc[v]
    BY <1>1, <1>3 DEF IInv, TypeOK
  <2>. QED
    BY <1>3, <1>5, <2>1 DEF OrderInv, OthersIdle, NoneParked
<1>7. \A u \in Stream : /\ Sorts(u)' <=> Sorts(u)
                        /\ Unparked(u)' = Unparked(u) /\ First(u)' = First(u)
  BY <1>2, <1>5 DEF Sorts, Unparked, First
<1>8. HeldInTurn'
  <2>1. \A u \in Stream : held'[u] # NoFrame => held'[u] = held[u]
    BY <1>1, Types
  <2>. QED
    BY <1>2, <2>1 DEF OrderInv, HeldInTurn
<1>9. ParkedInTurn'
  BY <1>2 DEF OrderInv, ParkedInTurn
<1>10. SortedInTurn'
  BY <1>2, <1>5, <1>7 DEF OrderInv, SortedInTurn
<1>11. ComingInTurn'
  BY <1>2, <1>4, <1>7 DEF OrderInv, ComingInTurn
<1>. QED
  BY <1>2, <1>6, <1>8, <1>9, <1>10, <1>11 DEF OrderInv

LEMMA ReallocOrder ==
  ASSUME IInv, Serialised, OrderInv, NEW s \in Stream, Realloc(s)
  PROVE  OrderInv'
<1>1. /\ pc[One] = "check" /\ \A u \in Stream : held[u] = NoFrame
  BY OneIsReader, OnlyOne DEF Realloc, StreamsOf
<1>2. /\ Submit(queues[s]) /\ queues' = [queues EXCEPT ![s] = <<>>]
      /\ handed' = [handed EXCEPT ![s] = @ + Len(queues[s])]
      /\ UNCHANGED <<reads, wire, sent, content, pc, buff, held, outOfTurn>>
  BY DEF Realloc, Submit, radio
<1>3. /\ queues'[s] = <<>> /\ \A u \in Stream : u # s => queues'[u] = queues[u]
      /\ handed'[s] = handed[s] + Len(queues[s])
      /\ \A u \in Stream : u # s => handed'[u] = handed[u]
  BY <1>2, Types
<1>4. Coming' = Coming
  BY <1>2, Types, SubmitComing
<1>5. One' = One /\ buff[One] = NoFrame
  BY <1>1, <1>2, OneIsReader DEF One, IInv, HandHolds
<1>6. OthersIdle' /\ NoneParked'
  BY <1>1, <1>2, <1>5 DEF OrderInv, OthersIdle, NoneParked
<1>7. \A u \in Stream : ~Sorts(u)' /\ ~Sorts(u)
  BY <1>2, <1>5 DEF Sorts
<1>8. ASSUME NEW u \in Stream PROVE Unparked(u)' = Unparked(u)
  <2>1. CASE u # s
    BY <1>3, <2>1 DEF Unparked
  <2>2. CASE u = s
    <3>1. Len(queues'[s]) = 0 /\ handed'[s] \in Nat
      BY <1>3, Types
    <3>. QED
      BY <1>3, <2>2, <3>1 DEF Unparked
  <2>. QED
    BY <2>1, <2>2
<1>9. \A u \in Stream : First(u)' = First(u)
  BY <1>7, <1>8 DEF First
<1>10. ParkedInTurn'
  <2>. SUFFICES ASSUME NEW u \in Stream, NEW i \in 1 .. Len(queues'[u])
                PROVE  content[queues'[u][i]] = [sid |-> u, n |-> handed'[u] + i - 1]
    BY <1>2 DEF ParkedInTurn
  <2>1. u # s
    BY <1>3
  <2>. QED
    BY <1>3, <2>1 DEF OrderInv, ParkedInTurn
<1>11. HeldInTurn'
  BY <1>1, <1>2 DEF HeldInTurn
<1>12. SortedInTurn'
  BY <1>7 DEF SortedInTurn
<1>13. ComingInTurn'
  BY <1>2, <1>4, <1>9 DEF OrderInv, ComingInTurn
<1>. QED
  BY <1>2, <1>6, <1>10, <1>11, <1>12, <1>13 DEF OrderInv

LEMMA InitOrder == Init => OrderInv
<1>. SUFFICES ASSUME Init PROVE OrderInv
  OBVIOUS
<1>1. IInv
  BY InitIInv
<1>2. /\ ready = 0 /\ wire = <<>> /\ outOfTurn = {}
      /\ \A s \in Stream : /\ queues[s] = <<>> /\ Len(queues[s]) = 0 /\ held[s] = NoFrame
                           /\ handed[s] = 0 /\ sent[s] = 0
      /\ \A r \in Reader : pc[r] = "check" /\ buff[r] = NoFrame
  BY DEF Init
<1>3. Coming = <<>> /\ Len(Coming) = 0
  BY <1>2 DEF Coming, Line
<1>4. buff[One] = NoFrame /\ pc[One] = "check"
  BY <1>1, <1>2, OneIsReader
<1>5. \A s \in Stream : ~Sorts(s) /\ First(s) = 0
  BY <1>2, <1>4 DEF Sorts, First, Unparked
<1>6. ComingInTurn
  <2>. SUFFICES ASSUME NEW s \in Stream PROVE InTurn(<<>>, s, 0, 0)
    BY <1>2, <1>3, <1>5 DEF ComingInTurn
  <2>. QED
    BY DEF InTurn
<1>7. ParkedInTurn /\ HeldInTurn /\ SortedInTurn
  BY <1>2, <1>5 DEF ParkedInTurn, HeldInTurn, SortedInTurn
<1>. QED
  BY <1>2, <1>4, <1>6, <1>7 DEF OrderInv, OthersIdle, NoneParked

LEMMA NextOrder ==
  ASSUME IInv, NoneTwice, OnePlace, [Next]_vars, Serialised, OrderInv
  PROVE  OrderInv'
<1>1. CASE UNCHANGED vars
  <2>1. UNCHANGED <<reads, wire, sent, enqueued, ready, content, queues, pc, buff, held,
                    handed, outOfTurn>>
    BY <1>1 DEF vars, radio, ring, history
  <2>2. One' = One /\ Coming' = Coming
    BY <2>1 DEF One, Coming
  <2>3. OthersIdle' /\ NoneParked'
    BY <2>1, <2>2 DEF OrderInv, OthersIdle, NoneParked, Wants, StreamsOf
  <2>. QED
    BY <2>1, <2>2, <2>3, SameOrder
<1>. QED
  BY <1>1, SendOrder, SendStrayOrder, CompleteOrder, ReallocOrder, TakeParkedOrder,
     WaitOrder, TakeFrameOrder, SortOwnOrder, SortOtherOrder, SortStrayOrder,
     ReleaseOrder DEF Next, ReaderStep

\* Who reads which stream is settled at the start.
LEMMA ReadersStay == [Next]_vars => reads' = reads
BY DEF Next, ReaderStep, vars, Send, SendStray, Complete, Realloc, TakeParked,
   CheckInVain, LockTransport, TakeFrame, TimeOut, SortOwn, SortOther, SortStray, Release

\* A single reader is handed every stream packet by packet, in the order of the
\* device, however the streams are mixed on the wire and whatever is parked
\* (get_recv_buff, realloc_sid).
THEOREM StreamsInOrder == Spec => []InOrder
<1>1. Init => NoneTwice /\ OnePlace /\ (Serialised => OrderInv)
  BY InitKept, InitOrder
<1>2. IInv /\ NoneTwice /\ OnePlace /\ (Serialised => OrderInv) /\ [Next]_vars
        => (Serialised => OrderInv)'
  <2>1. [Next]_vars => (Serialised' <=> Serialised)
    BY ReadersStay DEF Serialised
  <2>. QED
    BY <2>1, NextOrder
<1>3. (Serialised => OrderInv) => InOrder
  BY DEF InOrder, OrderInv, HeldInTurn
<1>. QED
  BY <1>1, <1>2, <1>3, InitIInv, IInvNext, InitKept, NextKept, PTL DEF Spec

=============================================================================
