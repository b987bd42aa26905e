------------------------ MODULE BoundedBuffer_proofs ------------------------
(***************************************************************************)
(* Proofs about BoundedBuffer, for every set of threads, capacity and      *)
(* choice of operations: no wake-up is lost, and the buffer implements the *)
(* abstract queue of BoundedFifo.                                          *)
(***************************************************************************)
EXTENDS BoundedBuffer, FiniteSetTheorems, TLAPS

-----------------------------------------------------------------------------
(* Types, and what a call knows of itself.                                 *)

\* A thread that is not outside a call is in one of the calls; a call that has
\* not had its effect has no result; only calls with a time run out of it.
InCall ==
    \A t \in Thread :
      /\ pc[t] # "idle" => call[t] \in Calls
      /\ pc[t] # "notify" => result[t] = FALSE
      /\ pc[t] = "late" => call[t].op \in Timed

IInv == TypeOK /\ InCall

LEMMA InitIInv == Init => IInv
BY ConstantsAssumption DEF Init, IInv, TypeOK, InCall, Places, NoCall

\* Elements that are transferred come from the buffer or from a push.
LEMMA TransferIInv ==
  ASSUME IInv, NEW t \in Thread, NEW from \in {"haste", "wait", "woken", "late"},
         Transfer(t, from)
  PROVE  IInv'
<1> USE DEF IInv, TypeOK
<1>1. call[t] \in Calls /\ call' = call
  BY DEF Transfer, Goto, InCall
<1>2. pc' = [pc EXCEPT ![t] = "notify"] /\ pc' \in [Thread -> Places]
  BY DEF Transfer, Goto, Places
<1>3. result' = [result EXCEPT ![t] = TRUE] /\ result' \in [Thread -> BOOLEAN]
  BY DEF Transfer
<1>4. InCall'
  BY <1>1, <1>2, <1>3 DEF InCall
<1>5. CASE Pushing(t)
  <2>1. call[t].elem \in Elem
    BY <1>1, <1>5 DEF Calls, Pushing, Pushes, Pops
  <2>2. buffer' = Append(buffer, call[t].elem) /\ Len(buffer) < Capacity /\ got' = got
    BY <1>5 DEF Transfer, Ready
  <2>3. buffer' \in Seq(Elem) /\ Len(buffer') = Len(buffer) + 1
    BY <2>1, <2>2
  <2>. QED
    BY <1>1, <1>2, <1>3, <1>4, <2>2, <2>3, ConstantsAssumption
<1>6. CASE ~Pushing(t)
  <2>1. buffer # <<>> /\ buffer' = Tail(buffer)
        /\ got' = [got EXCEPT ![t] = Head(buffer)]
    BY <1>6 DEF Transfer, Ready
  <2>2. buffer' \in Seq(Elem) /\ Len(buffer') = Len(buffer) - 1 /\ Head(buffer) \in Elem
    BY <2>1
  <2>. QED
    BY <1>1, <1>2, <1>3, <1>4, <2>1, <2>2, ConstantsAssumption
<1>. QED
  BY <1>5, <1>6

LEMMA IInvNext == IInv /\ [Next]_vars => IInv'
<1>. SUFFICES ASSUME IInv, [Next]_vars PROVE IInv'
  OBVIOUS
<1>1. CASE UNCHANGED vars
  BY <1>1 DEF vars, IInv, TypeOK, InCall
<1>2. ASSUME NEW t \in Thread, Begin(t) PROVE IInv'
  BY <1>2 DEF Begin, Goto, IInv, TypeOK, InCall, Places
<1>3. ASSUME NEW t \in Thread, Haste(t) PROVE IInv'
  <2>1. CASE Transfer(t, "haste")
    BY <2>1, TransferIInv
  <2>2. CASE ~Transfer(t, "haste")
    BY <1>3, <2>2 DEF Haste, Goto, IInv, TypeOK, InCall, Places
  <2>. QED
    BY <2>1, <2>2
<1>4. ASSUME NEW t \in Thread, PopOnFull(t) PROVE IInv'
  <2>1. call[t] \in Calls /\ call[t].op \in Pushes
    BY <1>4 DEF PopOnFull, Goto, IInv, InCall, Pushes
  <2>2. call[t].elem \in Elem
    BY <2>1 DEF Calls, Pushes, Pops
  <2>3. Len(buffer) = Capacity /\ buffer # <<>>
    BY <1>4, <2>1, ConstantsAssumption DEF PopOnFull, Ready, Pushing, IInv, TypeOK
  <2>4. buffer' \in Seq(Elem) /\ Len(buffer') = Len(buffer)
    BY <1>4, <2>2, <2>3 DEF PopOnFull, IInv, TypeOK
  <2>. QED
    BY <1>4, <2>4 DEF PopOnFull, Goto, IInv, TypeOK, InCall, Places
<1>5. ASSUME NEW t \in Thread, Wait(t) PROVE IInv'
  <2>1. CASE Transfer(t, "wait") \/ Transfer(t, "woken")
    BY <2>1, TransferIInv
  <2>2. CASE ~(Transfer(t, "wait") \/ Transfer(t, "woken"))
    BY <1>5, <2>2 DEF Wait, Goto, IInv, TypeOK, InCall, Places
  <2>. QED
    BY <2>1, <2>2
<1>6. ASSUME NEW t \in Thread, Late(t) PROVE IInv'
  <2>1. CASE Transfer(t, "late")
    BY <2>1, TransferIInv
  <2>2. CASE ~Transfer(t, "late")
    BY <1>6, <2>2 DEF Late, Goto, IInv, TypeOK, InCall, Places
  <2>. QED
    BY <2>1, <2>2
<1>7. ASSUME NEW t \in Thread, Expire(t) PROVE IInv'
  BY <1>7 DEF Expire, Goto, IInv, TypeOK, InCall, Places
<1>8. ASSUME NEW t \in Thread, WakeUp(t) PROVE IInv'
  BY <1>8 DEF WakeUp, Goto, IInv, TypeOK, InCall, Places
<1>9. ASSUME NEW t \in Thread, Notify(t) PROVE IInv'
  <2>1. \E u \in Thread : pc' = [pc EXCEPT ![t] = "idle"]
          \/ (pc[u] = "sleep" /\ pc' = [pc EXCEPT ![t] = "idle", ![u] = "woken"])
    BY <1>9 DEF Notify, Sleepers
  <2>. QED
    BY <1>9, <2>1 DEF Notify, End, IInv, TypeOK, InCall, Places
<1>10. ASSUME NEW t \in Thread, Return(t) PROVE IInv'
  BY <1>10 DEF Return, End, Goto, IInv, TypeOK, InCall, Places
<1>. QED
  BY <1>1, <1>2, <1>3, <1>4, <1>5, <1>6, <1>7, <1>8, <1>9, <1>10 DEF Next, Step

\* The buffer never holds more than its capacity, and every thread is in a
\* legal place of a legal call.
THEOREM BufferTypeCorrect == Spec => []IInv
BY InitIInv, IInvNext, PTL DEF Spec

-----------------------------------------------------------------------------
(* No wake-up is lost.                                                     *)

\* What is there for the threads that push, or for those that pop.
Supply(pushing) == IF pushing THEN Capacity - Len(buffer) ELSE Len(buffer)

\* NoLostWakeup, for one of the two conditions.
Enough(pushing) ==
    (\E t \in Thread : pc[t] = "sleep" /\ Pushing(t) = pushing) =>
      Cardinality(Waking(pushing)) >= Supply(pushing)

LEMMA WakingFinite ==
  ASSUME NEW p \in BOOLEAN
  PROVE  IsFiniteSet(Waking(p)) /\ Cardinality(Waking(p)) \in Nat
<1>1. Waking(p) \subseteq Thread
  BY DEF Waking
<1>2. IsFiniteSet(Waking(p))
  BY <1>1, FS_Subset, ConstantsAssumption
<1>. QED
  BY <1>2, FS_CardinalityType

LEMMA EnoughIsNoLostWakeup == NoLostWakeup <=> Enough(TRUE) /\ Enough(FALSE)
<1>1. \A t \in Thread : Pushing(t) \in BOOLEAN
  BY DEF Pushing
<1>. QED
  BY <1>1 DEF NoLostWakeup, Enough, Supply

\* A step that leaves the buffer alone, puts nobody to sleep, and makes nobody
\* that is on its way forget it.
LEMMA EnoughKept ==
  ASSUME IInv, NEW p \in BOOLEAN, Enough(p), buffer' = buffer,
         \A t \in Thread : pc'[t] = "sleep" /\ Pushing(t)' = p =>
                             pc[t] = "sleep" /\ Pushing(t) = p,
         Waking(p) \subseteq Waking(p)'
  PROVE  Enough(p)'
<1>1. Waking(p)' \subseteq Thread
  BY DEF Waking
<1>2. IsFiniteSet(Waking(p)')
  BY <1>1, FS_Subset, ConstantsAssumption
<1>3. Cardinality(Waking(p)) <= Cardinality(Waking(p)')
  BY <1>2, FS_Subset
<1>4. Cardinality(Waking(p)') \in Nat
  BY <1>2, FS_CardinalityType
<1>5. Supply(p)' = Supply(p)
  BY DEF Supply
<1>. QED
  <2>. SUFFICES ASSUME \E t \in Thread : pc'[t] = "sleep" /\ Pushing(t)' = p
                PROVE  Cardinality(Waking(p)') >= Supply(p)'
    BY DEF Enough
  <2>1. Cardinality(Waking(p)) >= Supply(p)
    BY DEF Enough
  <2>2. Supply(p) \in Int
    BY ConstantsAssumption DEF Supply, IInv, TypeOK
  <2>. QED
    BY <1>3, <1>4, <1>5, <2>1, <2>2, WakingFinite

\* A step after which there is nothing for those who sleep.
LEMMA EnoughOfNothing ==
  ASSUME NEW p \in BOOLEAN, Supply(p)' = 0
  PROVE  Enough(p)'
<1>1. Waking(p)' \subseteq Thread
  BY DEF Waking
<1>2. IsFiniteSet(Waking(p)')
  BY <1>1, FS_Subset, ConstantsAssumption
<1>3. Cardinality(Waking(p)') \in Nat
  BY <1>2, FS_CardinalityType
<1>. QED
  BY <1>3 DEF Enough

\* A thread moves an element, and will notify the threads at the other end.
LEMMA EnoughTransfer ==
  ASSUME IInv, NEW p \in BOOLEAN, Enough(p), NEW t \in Thread,
         NEW from \in {"haste", "wait", "woken", "late"}, Transfer(t, from)
  PROVE  Enough(p)'
<1>1. pc[t] = from /\ pc' = [pc EXCEPT ![t] = "notify"] /\ call' = call
  BY DEF Transfer, Goto
<1>2. pc \in [Thread -> Places] /\ buffer \in Seq(Elem) /\ Len(buffer) \in Nat
  BY DEF IInv, TypeOK
<1>3. \A u \in Thread : Pushing(u)' = Pushing(u) /\ Pushing(u) \in BOOLEAN
  BY <1>1 DEF Pushing
<1>4. pc'[t] = "notify" /\ \A u \in Thread \ {t} : pc'[u] = pc[u]
  BY <1>1, <1>2
<1>5. \A u \in Thread : pc'[u] = "sleep" /\ Pushing(u)' = p =>
                          pc[u] = "sleep" /\ Pushing(u) = p
  BY <1>3, <1>4
<1>. SUFFICES ASSUME Cardinality(Waking(p)) >= Supply(p)
              PROVE  Cardinality(Waking(p)') >= Supply(p)'
  BY <1>5 DEF Enough
<1>6. CASE Pushing(t) = p
  <2>1. Waking(p)' = Waking(p) \ {t}
    BY <1>1, <1>3, <1>4, <1>6 DEF Waking
  <2>2. Cardinality(Waking(p)') >= Cardinality(Waking(p)) - 1
        /\ Cardinality(Waking(p)') \in Nat
    <3>1. Cardinality(Waking(p) \ {t}) =
            IF t \in Waking(p) THEN Cardinality(Waking(p)) - 1
            ELSE Cardinality(Waking(p))
      BY WakingFinite, FS_RemoveElement
    <3>2. IsFiniteSet(Waking(p) \ {t})
      BY WakingFinite, FS_RemoveElement
    <3>3. Cardinality(Waking(p) \ {t}) \in Nat
      BY <3>2, FS_CardinalityType
    <3>. QED
      BY <2>1, <3>1, <3>3, WakingFinite
  <2>3. Supply(p)' = Supply(p) - 1 /\ Supply(p) \in Int
    <3>1. CASE p = TRUE
      <4>1. buffer' = Append(buffer, call[t].elem)
        BY <1>6, <3>1 DEF Transfer
      <4>2. Len(buffer') = Len(buffer) + 1
        BY <1>2, <4>1
      <4>. QED
        BY <1>2, <3>1, <4>2, ConstantsAssumption DEF Supply
    <3>2. CASE p = FALSE
      <4>1. buffer # <<>> /\ buffer' = Tail(buffer)
        BY <1>6, <3>2 DEF Transfer, Ready
      <4>2. Len(buffer') = Len(buffer) - 1
        BY <1>2, <4>1
      <4>. QED
        BY <1>2, <3>2, <4>2 DEF Supply
    <3>. QED
      BY <3>1, <3>2
  <2>. QED
    BY <2>2, <2>3, WakingFinite
<1>7. CASE Pushing(t) # p
  <2>1. Waking(p)' = Waking(p) \cup {t} /\ t \notin Waking(p)
    BY <1>1, <1>3, <1>4, <1>7 DEF Waking
  <2>2. Cardinality(Waking(p)') = Cardinality(Waking(p)) + 1
    BY <2>1, WakingFinite, FS_AddElement
  <2>3. Supply(p)' = Supply(p) + 1 /\ Supply(p) \in Int
    <3>1. CASE p = FALSE
      <4>0. Pushing(t)
        BY <1>3, <1>7, <3>1
      <4>1. buffer' = Append(buffer, call[t].elem)
        BY <4>0 DEF Transfer
      <4>2. Len(buffer') = Len(buffer) + 1
        BY <1>2, <4>1
      <4>. QED
        BY <1>2, <3>1, <4>2 DEF Supply
    <3>2. CASE p = TRUE
      <4>0. ~Pushing(t)
        BY <1>3, <1>7, <3>2
      <4>1. buffer # <<>> /\ buffer' = Tail(buffer)
        BY <4>0 DEF Transfer, Ready
      <4>2. Len(buffer') = Len(buffer) - 1
        BY <1>2, <4>1
      <4>. QED
        BY <1>2, <3>2, <4>2, ConstantsAssumption DEF Supply
    <3>. QED
      BY <3>1, <3>2
  <2>. QED
    BY <2>2, <2>3, WakingFinite
<1>. QED
  BY <1>6, <1>7

LEMMA EnoughNext ==
  ASSUME IInv, IInv', [Next]_vars, NEW p \in BOOLEAN, Enough(p)
  PROVE  Enough(p)'
<1>. USE DEF IInv, TypeOK
<1>0. \A u \in Thread : Pushing(u) \in BOOLEAN
  BY DEF Pushing
<1>1. CASE UNCHANGED vars
  <2>1. Waking(p)' = Waking(p)
        /\ \A u \in Thread : Pushing(u)' = Pushing(u) /\ pc'[u] = pc[u]
    BY <1>1 DEF vars, Waking, Pushing
  <2>. QED
    BY <1>1, <2>1, EnoughKept DEF vars
<1>2. ASSUME NEW t \in Thread, Begin(t) PROVE Enough(p)'
  <2>1. pc[t] = "idle" /\ pc'[t] = "haste" /\ buffer' = buffer
        /\ \A u \in Thread \ {t} : pc'[u] = pc[u] /\ call'[u] = call[u]
    BY <1>2 DEF Begin, Goto
  <2>2. \A u \in Thread \ {t} : Pushing(u)' = Pushing(u)
    BY <2>1 DEF Pushing
  <2>3. Waking(p) \subseteq Waking(p)'
    BY <2>1, <2>2 DEF Waking
  <2>. QED
    BY <2>1, <2>2, <2>3, EnoughKept
<1>3. ASSUME NEW t \in Thread, NEW from \in {"haste", "wait", "woken", "late"},
             Transfer(t, from)
      PROVE  Enough(p)'
  BY <1>3, EnoughTransfer
\* A thread that can do nothing goes to sleep, or returns.
<1>4. ASSUME NEW t \in Thread, NEW from \in {"wait", "woken", "late"},
             NEW to \in {"sleep", "return"},
             ~Ready(t), Goto(t, from, to), UNCHANGED <<buffer, call, got, result>>
      PROVE  Enough(p)'
  <2>1. pc[t] = from /\ pc'[t] = to /\ \A u \in Thread \ {t} : pc'[u] = pc[u]
    BY <1>4 DEF Goto
  <2>2. \A u \in Thread : Pushing(u)' = Pushing(u)
    BY <1>4 DEF Pushing
  <2>3. CASE Pushing(t) = p
    <3>1. Supply(p)' = 0
      BY <1>4, <2>3, ConstantsAssumption DEF Supply, Ready
    <3>. QED
      BY <3>1, EnoughOfNothing
  <2>4. CASE Pushing(t) # p
    <3>1. Waking(p) \subseteq Waking(p)'
      BY <2>1, <2>2, <2>4 DEF Waking
    <3>. QED
      BY <1>4, <2>1, <2>2, <2>4, <3>1, EnoughKept
  <2>. QED
    BY <2>3, <2>4
\* A thread moves on that was not on its way, nor going to sleep.
<1>5. ASSUME NEW t \in Thread, NEW from \in {"haste", "sleep"},
             NEW to \in {"wait", "woken", "late", "return"},
             Goto(t, from, to), UNCHANGED <<buffer, call, got, result>>
      PROVE  Enough(p)'
  <2>1. pc[t] = from /\ pc'[t] = to /\ \A u \in Thread \ {t} : pc'[u] = pc[u]
    BY <1>5 DEF Goto
  <2>2. \A u \in Thread : Pushing(u)' = Pushing(u)
    BY <1>5 DEF Pushing
  <2>3. Waking(p) \subseteq Waking(p)'
    BY <2>1, <2>2 DEF Waking
  <2>. QED
    BY <1>5, <2>1, <2>2, <2>3, EnoughKept
<1>6. ASSUME NEW t \in Thread, PopOnFull(t) PROVE Enough(p)'
  <2>1. pc[t] = "haste" /\ pc'[t] = "notify" /\ call' = call
        /\ \A u \in Thread \ {t} : pc'[u] = pc[u]
    BY <1>6 DEF PopOnFull, Goto
  <2>2. \A u \in Thread : Pushing(u)' = Pushing(u)
    BY <2>1 DEF Pushing
  <2>3. Pushing(t)
    BY <1>6 DEF PopOnFull, Pushing, Pushes
  <2>4. CASE p = TRUE
    <3>1. Len(buffer) = Capacity /\ buffer # <<>>
      BY <1>6, <2>3, ConstantsAssumption DEF PopOnFull, Ready
    <3>2. Len(buffer') = Capacity
      BY <1>6, <3>1 DEF PopOnFull
    <3>3. Supply(p)' = 0
      BY <2>4, <3>2, ConstantsAssumption DEF Supply
    <3>. QED
      BY <3>3, EnoughOfNothing
  <2>5. CASE p = FALSE
    <3>1. t \notin Waking(p) /\ Waking(p)' = Waking(p) \cup {t}
      BY <2>1, <2>2, <2>3, <2>5 DEF Waking
    <3>2. Cardinality(Waking(p)') = Cardinality(Waking(p)) + 1
      BY <3>1, WakingFinite, FS_AddElement
    <3>3. Len(buffer) = Capacity /\ buffer # <<>>
      BY <1>6, <2>3, ConstantsAssumption DEF PopOnFull, Ready
    <3>4. Len(buffer') = Len(buffer)
      BY <1>6, <3>3 DEF PopOnFull
    <3>5. Supply(p)' = Supply(p) /\ Supply(p) \in Int
      BY <2>5, <3>4 DEF Supply
    <3>. QED
      BY <2>1, <2>2, <3>2, <3>5, WakingFinite DEF Enough
  <2>. QED
    BY <2>4, <2>5
<1>7. ASSUME NEW t \in Thread, Notify(t) PROVE Enough(p)'
  <2>1. buffer' = buffer /\ pc[t] = "notify" /\ pc'[t] = "idle"
        /\ \A u \in Thread \ {t} : Pushing(u)' = Pushing(u)
    BY <1>7 DEF Notify, End, Pushing, Sleepers
  <2>2. CASE Pushing(t) = p
    <3>1. t \notin Waking(p)
      BY <2>1, <2>2 DEF Waking
    <3>2. \A u \in Thread \ {t} : pc'[u] = pc[u] \/ (pc[u] = "sleep" /\ pc'[u] = "woken")
      BY <1>7 DEF Notify, Sleepers
    <3>3. Waking(p) \subseteq Waking(p)'
      BY <2>1, <3>1, <3>2 DEF Waking
    <3>. QED
      BY <2>1, <3>2, <3>3, EnoughKept
  <2>3. CASE Pushing(t) # p /\ Sleepers(t) = {}
    <3>1. \A u \in Thread \ {t} : pc'[u] = pc[u]
      BY <1>7, <2>3 DEF Notify
    <3>2. \A u \in Thread : pc'[u] = "sleep" => Pushing(u)' # p
      BY <1>0, <2>1, <2>3, <3>1 DEF Sleepers
    <3>. QED
      BY <3>2 DEF Enough
  <2>4. CASE Pushing(t) # p /\ Sleepers(t) # {}
    <3>1. PICK u \in Sleepers(t) : pc' = [pc EXCEPT ![t] = "idle", ![u] = "woken"]
      BY <1>7, <2>4 DEF Notify
    <3>2. u \in Thread /\ u # t /\ pc[u] = "sleep" /\ Pushing(u) = p /\ pc'[u] = "woken"
          /\ \A w \in Thread \ {t, u} : pc'[w] = pc[w]
      BY <1>0, <2>1, <2>4, <3>1 DEF Sleepers
    <3>3. t \in Waking(p) /\ u \notin Waking(p)
          /\ Waking(p)' = (Waking(p) \ {t}) \cup {u}
      BY <1>0, <2>1, <2>4, <3>2 DEF Waking
    <3>4. IsFiniteSet(Waking(p) \ {t})
          /\ Cardinality(Waking(p) \ {t}) = Cardinality(Waking(p)) - 1
      BY <3>3, WakingFinite, FS_RemoveElement
    <3>5. Cardinality(Waking(p)') = Cardinality(Waking(p) \ {t}) + 1
      BY <3>3, <3>4, FS_AddElement
    <3>6. Cardinality(Waking(p)') = Cardinality(Waking(p))
      BY <3>4, <3>5, WakingFinite
    <3>. QED
      BY <2>1, <3>2, <3>6 DEF Enough, Supply
  <2>. QED
    BY <2>2, <2>3, <2>4
<1>8. ASSUME NEW t \in Thread, Return(t) PROVE Enough(p)'
  <2>1. buffer' = buffer /\ pc[t] = "return" /\ pc'[t] = "idle"
        /\ \A u \in Thread \ {t} : Pushing(u)' = Pushing(u) /\ pc'[u] = pc[u]
    BY <1>8 DEF Return, Goto, End, Pushing
  <2>2. Waking(p) \subseteq Waking(p)'
    BY <2>1 DEF Waking
  <2>. QED
    BY <2>1, <2>2, EnoughKept
<1>9. ASSUME NEW t \in Thread, Haste(t) PROVE Enough(p)'
  BY <1>3, <1>5, <1>9 DEF Haste
<1>10. ASSUME NEW t \in Thread, Wait(t) \/ Late(t) PROVE Enough(p)'
  BY <1>3, <1>4, <1>10 DEF Wait, Late
<1>11. ASSUME NEW t \in Thread, Expire(t) \/ WakeUp(t) PROVE Enough(p)'
  BY <1>5, <1>11 DEF Expire, WakeUp
<1>. QED
  BY <1>1, <1>2, <1>6, <1>7, <1>8, <1>9, <1>10, <1>11 DEF Next, Step

\* Whatever the number of threads and the capacity, and whichever operations they
\* mix, no thread waits to pop while there are elements that nobody is on the way
\* to, nor to push while there is such room.
THEOREM NoWakeupLost == Spec => []NoLostWakeup
<1>1. Init => Enough(TRUE) /\ Enough(FALSE)
  BY DEF Init, Enough
<1>2. IInv /\ IInv' /\ Enough(TRUE) /\ Enough(FALSE) /\ [Next]_vars
        => Enough(TRUE)' /\ Enough(FALSE)'
  BY EnoughNext
<1>3. Enough(TRUE) /\ Enough(FALSE) => NoLostWakeup
  BY EnoughIsNoLostWakeup
<1>. QED
  BY <1>1, <1>2, <1>3, BufferTypeCorrect, PTL DEF Spec

-----------------------------------------------------------------------------
(* The buffer implements the queue.                                        *)

LEMMA FifoInit == Init => Fifo!Init
BY DEF Init, Fifo!Init, Phase, NoCall, Fifo!NoCall

LEMMA FifoTransfer ==
  ASSUME IInv, NEW t \in Thread, NEW from \in {"haste", "wait", "woken", "late"},
         Transfer(t, from)
  PROVE  Fifo!Push(t) \/ Fifo!Pop(t)
<1>. USE DEF IInv, TypeOK
<1>1. pc[t] = from /\ pc' = [pc EXCEPT ![t] = "notify"] /\ call[t] \in Calls
  BY DEF Transfer, Goto, InCall
<1>2. Phase[t] = "called" /\ Phase' = [Phase EXCEPT ![t] = "finished"]
  BY <1>1 DEF Phase
<1>3. Fifo!Finish(t, TRUE)
  BY <1>2 DEF Fifo!Finish, Transfer
<1>4. CASE Pushing(t)
  BY <1>3, <1>4 DEF Fifo!Push, Transfer, Ready, Pushing, Pushes, Fifo!Pushes
<1>5. CASE ~Pushing(t)
  <2>1. call[t].op \in Fifo!Pops
    BY <1>1, <1>5 DEF Calls, Pushing, Pushes, Pops, Fifo!Pops
  <2>. QED
    BY <1>3, <1>5, <2>1 DEF Fifo!Pop, Transfer, Ready
<1>. QED
  BY <1>4, <1>5

\* A call that gives up had nothing it could do at that instant.
LEMMA FifoRefuse ==
  ASSUME IInv, NEW t \in Thread, NEW from \in {"haste", "late"},
         call[t].op \in Hasty \cup Timed, ~Ready(t), Goto(t, from, "return"),
         UNCHANGED <<buffer, call, got, result>>
  PROVE  Fifo!Refuse(t)
<1>. USE DEF IInv, TypeOK
<1>1. pc[t] = from /\ pc' = [pc EXCEPT ![t] = "return"]
  BY DEF Goto
<1>2. Phase[t] = "called" /\ Phase' = [Phase EXCEPT ![t] = "finished"]
  BY <1>1 DEF Phase
<1>3. result' = [result EXCEPT ![t] = FALSE]
  BY <1>1 DEF InCall
<1>4. Fifo!Finish(t, FALSE)
  BY <1>2, <1>3 DEF Fifo!Finish
<1>5. call[t].op \in Fifo!Refusable
  BY DEF Hasty, Timed, Fifo!Refusable
<1>6. IF call[t].op \in Fifo!Pushes THEN Len(buffer) = Capacity ELSE buffer = <<>>
  BY ConstantsAssumption DEF Ready, Pushing, Pushes, Fifo!Pushes
<1>. QED
  BY <1>4, <1>5, <1>6 DEF Fifo!Refuse

\* A step that the caller of no thread can tell.
LEMMA FifoStutter ==
  ASSUME IInv, NEW t \in Thread, NEW from \in {"haste", "wait", "sleep", "woken"},
         NEW to \in {"wait", "sleep", "woken", "late"}, Goto(t, from, to),
         UNCHANGED <<buffer, call, got, result>>
  PROVE  UNCHANGED Fifo!vars
<1>1. Phase' = Phase
  BY DEF Goto, Phase, IInv, TypeOK
<1>. QED
  BY <1>1 DEF Fifo!vars

LEMMA FifoNext == IInv /\ [Next]_vars => [Fifo!Next]_Fifo!vars
<1>. SUFFICES ASSUME IInv, [Next]_vars PROVE [Fifo!Next]_Fifo!vars
  OBVIOUS
<1>. USE DEF IInv, TypeOK
<1>0. \A t \in Thread : Fifo!Effect(t) => Fifo!Next
  BY DEF Fifo!Next
<1>1. CASE UNCHANGED vars
  <2>1. Phase' = Phase
    BY <1>1 DEF vars, Phase
  <2>. QED
    BY <1>1, <2>1 DEF vars, Fifo!vars
<1>2. ASSUME NEW t \in Thread, Begin(t) PROVE Fifo!Begin(t)
  <2>1. Phase[t] = "idle" /\ Phase' = [Phase EXCEPT ![t] = "called"]
    BY <1>2 DEF Begin, Goto, Phase
  <2>2. \E c \in Fifo!Calls : call' = [call EXCEPT ![t] = c]
    BY <1>2 DEF Begin, Calls, Pushes, Pops, Fifo!Calls, Fifo!Pushes, Fifo!Pops
  <2>. QED
    BY <1>2, <2>1, <2>2 DEF Begin, Fifo!Begin
<1>3. ASSUME NEW t \in Thread, NEW from \in {"haste", "wait", "woken", "late"},
             Transfer(t, from)
      PROVE  Fifo!Next
  BY <1>0, <1>3, FifoTransfer DEF Fifo!Effect
<1>4. ASSUME NEW t \in Thread, Haste(t) PROVE [Fifo!Next]_Fifo!vars
  <2>1. CASE Transfer(t, "haste")
    BY <1>3, <2>1
  <2>2. CASE ~Transfer(t, "haste") /\ call[t].op \in Hasty
    <3>1. Fifo!Refuse(t)
      BY <1>4, <2>2, FifoRefuse DEF Haste
    <3>. QED
      BY <1>0, <3>1 DEF Fifo!Effect
  <2>3. CASE ~Transfer(t, "haste") /\ call[t].op \notin Hasty
    BY <1>4, <2>3, FifoStutter DEF Haste
  <2>. QED
    BY <2>1, <2>2, <2>3
<1>5. ASSUME NEW t \in Thread, PopOnFull(t) PROVE Fifo!Displace(t)
  <2>1. pc[t] = "haste" /\ pc' = [pc EXCEPT ![t] = "notify"]
    BY <1>5 DEF PopOnFull, Goto
  <2>2. Phase[t] = "called" /\ Phase' = [Phase EXCEPT ![t] = "finished"]
    BY <2>1 DEF Phase
  <2>3. result' = [result EXCEPT ![t] = FALSE]
    BY <1>5, <2>1 DEF PopOnFull, InCall
  <2>4. Fifo!Finish(t, FALSE)
    BY <1>5, <2>2, <2>3 DEF PopOnFull, Fifo!Finish
  <2>5. Len(buffer) = Capacity
    BY <1>5, ConstantsAssumption DEF PopOnFull, Ready, Pushing, Pushes
  <2>. QED
    BY <1>5, <2>4, <2>5 DEF PopOnFull, Fifo!Displace
<1>6. ASSUME NEW t \in Thread, Wait(t) PROVE [Fifo!Next]_Fifo!vars
  <2>1. CASE Transfer(t, "wait") \/ Transfer(t, "woken")
    BY <1>3, <2>1
  <2>2. CASE ~(Transfer(t, "wait") \/ Transfer(t, "woken"))
    BY <1>6, <2>2, FifoStutter DEF Wait
  <2>. QED
    BY <2>1, <2>2
<1>7. ASSUME NEW t \in Thread, Late(t) PROVE [Fifo!Next]_Fifo!vars
  <2>1. CASE Transfer(t, "late")
    BY <1>3, <2>1
  <2>2. CASE ~Transfer(t, "late")
    <3>1. ~Ready(t) /\ Goto(t, "late", "return")
          /\ UNCHANGED <<buffer, call, got, result>>
      BY <1>7, <2>2 DEF Late
    <3>2. call[t].op \in Timed
      BY <3>1 DEF Goto, InCall
    <3>3. Fifo!Refuse(t)
      BY <3>1, <3>2, FifoRefuse
    <3>. QED
      BY <1>0, <3>3 DEF Fifo!Effect
  <2>. QED
    BY <2>1, <2>2
<1>8. ASSUME NEW t \in Thread, Expire(t) \/ WakeUp(t) PROVE UNCHANGED Fifo!vars
  BY <1>8, FifoStutter DEF Expire, WakeUp
<1>9. ASSUME NEW t \in Thread, Notify(t) \/ Return(t) PROVE Fifo!Return(t)
  <2>1. pc[t] \in {"notify", "return"} /\ pc'[t] = "idle" /\ End(t)
        /\ pc' \in [Thread -> Places]
        /\ \A u \in Thread \ {t} :
              pc'[u] = pc[u] \/ (pc[u] = "sleep" /\ pc'[u] = "woken")
    BY <1>9 DEF Notify, Return, Goto, Sleepers, Places
  <2>2. Phase[t] = "finished" /\ Phase' = [Phase EXCEPT ![t] = "idle"]
    BY <2>1 DEF Phase
  <2>. QED
    BY <2>1, <2>2 DEF End, Fifo!Return, NoCall, Fifo!NoCall
<1>. QED
  BY <1>0, <1>1, <1>2, <1>4, <1>5, <1>6, <1>7, <1>8, <1>9
     DEF Next, Step, Fifo!Next, Fifo!Effect

\* Every step of the buffer is a step of the abstract queue, or one that no
\* caller can tell.
THEOREM BufferImplementsFifo == Spec => ImplementsFifo
<1>1. Spec => []IInv
  BY BufferTypeCorrect
<1>. QED
  BY <1>1, FifoInit, FifoNext, PTL DEF Spec, ImplementsFifo, Fifo!Spec
=============================================================================
