------------------------ MODULE ConverterTasks_proofs ------------------------
(***************************************************************************)
(* For every number of channels: the barrier keeps the converter threads   *)
(* in step with the application's thread, and nobody laps anybody.         *)
(***************************************************************************)
EXTENDS ConverterTasks, FiniteSetTheorems, TLAPS

-----------------------------------------------------------------------------
(* The invariant.                                                          *)

\* Entered and not yet left.
InPc == {"cas", "lock", "test", "sleep"}

\* Left, and at the exit.
OutPc == {"xcas", "spin"}

Inside == {t \in Thread : pc[t] \in InPc}
Outgoing == {t \in Thread : pc[t] \in OutPc}
Ended == {t \in Thread : pc[t] = "ended"}

\* The workers are with the application's thread at what it has published last.
Caught(w) == pc[w] \in {"loop", "enter", "ended"} \cup InPc /\ work[w] = job

\* ... or have not begun with it.
Behind(w) == pc[w] \in {"loop", "enter"} \cup InPc /\ work[w] + 1 = job

\* ... or are about to.
Ready(w) == pc[w] \in OutPc \cup {"convert"} /\ work[w] + 1 = job

\* The application's thread is outside, for good perhaps.
AllCaught ==
    /\ pc[0] \in {"idle", "destroy", "join", "gone"} /\ work[0] = job
    /\ \A w \in Worker : Caught(w)

\* It comes with a job.
AllBehind ==
    /\ pc[0] \in {"enter"} \cup InPc /\ work[0] + 1 = job
    /\ \A w \in Worker : Behind(w)

\* It converts, or waits for the others to.
AllBusy ==
    /\ \/ pc[0] \in OutPc \cup {"convert"} /\ work[0] + 1 = job
       \/ pc[0] = "others" /\ work[0] = job
    /\ \A w \in Worker : Caught(w) \/ Ready(w)

\* The barrier counts who comes in.  Those that were thrown out stay counted, but
\* those that ended in the loop never were.
Counting ==
    /\ exit = 0
    /\ Cardinality(Inside) <= entry
    /\ entry <= Cardinality(Inside \cup Ended)

Gathering == Counting /\ (AllCaught \/ AllBehind \/ AllBusy)

\* All have been in, and it lets them out.
Exiting ==
    /\ entry = 0
    /\ exit = Cardinality(Outgoing)
    /\ \A t \in Thread : pc[t] \in InPc \cup {"leave"} \cup OutPc /\ work[t] + 1 = job

\* A worker only ends after the barrier is interrupted, which is when the
\* application's thread has begun to destroy the handler.
EndsLate ==
    /\ done <=> pc[0] \in {"destroy", "join", "gone"}
    /\ ~done => /\ Ended = {}
                /\ \A w \in Worker : running[w] /\ ~interrupted[w]
    /\ pc[0] = "join" => victim \in Worker

IInv == TypeOK /\ EndsLate /\ (Gathering \/ Exiting)

-----------------------------------------------------------------------------
(* Counting threads.                                                       *)

LEMMA Threads ==
    /\ N \in Nat \ {0} /\ 0 \in Thread /\ Worker \subseteq Thread
    /\ IsFiniteSet(Thread) /\ Cardinality(Thread) = N
    /\ IsFiniteSet(Worker) /\ Cardinality(Worker) = N - 1
<1>1. N \in Nat \ {0} /\ 0 \in Int /\ 1 \in Int /\ N - 1 \in Int
  BY ConstantsAssumption
<1>2. IsFiniteSet(Thread) /\ Cardinality(Thread) = N
  BY <1>1, FS_Interval DEF Thread
<1>3. IsFiniteSet(Worker) /\ Cardinality(Worker) = N - 1
  BY <1>1, FS_Interval DEF Worker
<1> QED
  BY <1>1, <1>2, <1>3 DEF Thread, Worker

\* A set of threads has a number, and the one with N threads is that of all.
LEMMA Counted ==
    ASSUME NEW S \in SUBSET Thread
    PROVE  /\ IsFiniteSet(S) /\ Cardinality(S) \in Nat /\ Cardinality(S) <= N
           /\ Cardinality(S) = N => S = Thread
           /\ Cardinality(S) = 0 <=> S = {}
<1>1. IsFiniteSet(S) /\ Cardinality(S) \in Nat /\ Cardinality(Thread) \in Nat
  BY Threads, FS_Subset, FS_CardinalityType
<1> QED
  BY <1>1, Threads, FS_Subset, FS_EmptySet

\* N - 1 threads without the application's are the workers.
LEMMA AllWorkers ==
    ASSUME NEW S \in SUBSET Thread, 0 \notin S, Cardinality(S) = N - 1
    PROVE  S = Worker
<1>1. S \subseteq Worker
  BY DEF Thread, Worker
<1> QED
  BY <1>1, Threads, FS_Subset

LEMMA OneMore ==
    ASSUME NEW S \in SUBSET Thread, NEW t \in Thread, t \notin S
    PROVE  Cardinality(S \cup {t}) = Cardinality(S) + 1
BY Counted, FS_AddElement

\* A step within the barrier, or outside, changes none of the numbers.
LEMMA SameSets ==
    ASSUME NEW t \in Thread, NEW from, NEW to, Goto(t, from, to), TypeOK,
           from \in InPc <=> to \in InPc,
           from \in OutPc <=> to \in OutPc,
           from = "ended" <=> to = "ended"
    PROVE  Inside' = Inside /\ Outgoing' = Outgoing /\ Ended' = Ended
BY DEF Goto, TypeOK, Inside, Outgoing, Ended

\* Nobody at the exit or in a conversion before the application's thread is.
LEMMA WhoIsOut ==
    ASSUME IInv, Gathering, NEW t \in Thread
    PROVE  /\ pc[t] # "leave"
           /\ pc[t] \in OutPc \cup {"convert"} =>
                /\ work[t] + 1 = job
                /\ pc[0] \in OutPc \cup {"convert", "others"}
<1>1. t = 0 \/ t \in Worker
  BY DEF Thread, Worker
<1> USE DEF InPc, OutPc
<1>2. CASE AllCaught
  BY <1>1, <1>2 DEF AllCaught, Caught, Thread
<1>3. CASE AllBehind
  BY <1>1, <1>3 DEF AllBehind, Behind
<1>4. CASE AllBusy
  BY <1>1, <1>4 DEF AllBusy, Caught, Ready
<1> QED
  BY <1>2, <1>3, <1>4 DEF Gathering

LEMMA InitIInv == Init => IInv
<1> SUFFICES ASSUME Init PROVE IInv
  OBVIOUS
<1>1. TypeOK
  <2>1. /\ pc \in [Thread -> CallerPc \cup WorkerPc]
        /\ pc[0] \in CallerPc /\ \A w \in Worker : pc[w] \in WorkerPc
    <3>1. /\ \A t \in Thread : pc[t] = IF t = 0 THEN "idle" ELSE "loop"
          /\ pc \in [Thread -> {"idle", "loop"}]
      BY DEF Init
    <3>2. \A w \in Worker : w \in Thread /\ w # 0
      BY Threads DEF Worker
    <3>3. "idle" \in CallerPc /\ "loop" \in WorkerPc
      BY DEF CallerPc, WorkerPc
    <3> QED
      BY <3>1, <3>2, <3>3, Threads
  <2>2. running \in [Worker -> BOOLEAN] /\ interrupted \in [Worker -> BOOLEAN]
        /\ work \in [Thread -> Nat]
    BY DEF Init
  <2>3. entry \in 0 .. N /\ exit \in 0 .. N /\ victim \in 1 .. N
    BY Threads DEF Init
  <2> QED
    BY <2>1, <2>2, <2>3 DEF Init, TypeOK
<1>2. Inside = {} /\ Ended = {}
  BY DEF Init, Inside, Ended, InPc
<1>3. Cardinality(Inside) = 0 /\ Cardinality(Inside \cup Ended) = 0
  BY <1>2, FS_EmptySet
<1>4. Gathering
  <2>1. \A w \in Worker : w \in Thread /\ w # 0
    BY Threads DEF Worker
  <2>2. pc[0] = "idle" /\ work[0] = job /\ \A w \in Worker : Caught(w)
    BY <2>1, Threads DEF Init, Caught
  <2> QED
    BY <1>3, <2>2 DEF Init, Gathering, Counting, AllCaught
<1> QED
  BY <1>1, <1>2, <1>4, Threads DEF Init, IInv, EndsLate

-----------------------------------------------------------------------------
(* Types.                                                                  *)

LEMMA GotoTyped ==
    ASSUME TypeOK, NEW t \in Thread, NEW from, NEW to, Goto(t, from, to),
           to \in IF t = 0 THEN CallerPc ELSE WorkerPc
    PROVE  /\ pc' \in [Thread -> CallerPc \cup WorkerPc]
           /\ pc'[0] \in CallerPc /\ \A w \in Worker : pc'[w] \in WorkerPc
BY Threads DEF TypeOK, Goto, Thread, Worker

LEMMA WaitTyped ==
    ASSUME IInv, NEW t \in Thread, Wait(t)
    PROVE  TypeOK'
<1>1. TypeOK /\ (Gathering \/ Exiting) /\ EndsLate /\ N \in Nat \ {0}
  BY Threads DEF IInv
<1> USE DEF InBarrier, CallerPc, WorkerPc
<1>2. CASE Enter(t)
  <2>1. entry' \in 0 .. N
    <3>1. CASE Gathering /\ N # 1
      <4>1. t \notin Inside \cup Ended /\ Inside \cup Ended \in SUBSET Thread
        BY <1>2 DEF Enter, Goto, Inside, Ended, InPc
      <4>2. Cardinality((Inside \cup Ended) \cup {t}) <= N
        BY <4>1, Counted
      <4> QED
        BY <1>1, <1>2, <3>1, <4>1, <4>2, OneMore, Counted DEF Enter, Gathering, Counting, TypeOK
    <3>2. CASE Exiting \/ N = 1
      BY <1>1, <1>2, <3>2 DEF Enter, Exiting, InPc, OutPc, TypeOK, Goto
    <3> QED
      BY <1>1, <3>1, <3>2
  <2>2. Goto(t, "enter", "convert") \/ Goto(t, "enter", "cas")
    BY <1>2 DEF Enter
  <2>3. /\ pc' \in [Thread -> CallerPc \cup WorkerPc]
        /\ pc'[0] \in CallerPc /\ \A w \in Worker : pc'[w] \in WorkerPc
    BY <1>1, <2>2, GotoTyped
  <2> QED
    BY <1>1, <1>2, <2>1, <2>3 DEF Enter, TypeOK, tasks
<1>3. CASE ResetEntry(t)
  BY <1>1, <1>3, GotoTyped DEF ResetEntry, TypeOK, tasks
<1>4. CASE Lock(t)
  BY <1>1, <1>4, GotoTyped DEF Lock, TypeOK, tasks
<1>5. CASE Open(t)
  BY <1>1, <1>5, GotoTyped DEF Open, TypeOK, tasks
<1>6. CASE Sleep(t)
  BY <1>1, <1>6, GotoTyped DEF Sleep, TypeOK, tasks
<1>7. CASE Leave(t)
  <2>1. exit' \in 0 .. N
    <3>1. Exiting
      BY <1>7, WhoIsOut DEF Leave, Goto, IInv
    <3>2. t \notin Outgoing /\ Outgoing \in SUBSET Thread
      BY <1>7 DEF Leave, Goto, Outgoing, OutPc
    <3>3. Cardinality(Outgoing \cup {t}) <= N
      BY <3>2, Counted
    <3> QED
      BY <1>1, <1>7, <3>1, <3>2, <3>3, OneMore, Counted DEF Leave, Exiting
  <2> QED
    BY <1>1, <1>7, <2>1, GotoTyped DEF Leave, TypeOK, tasks
<1>8. CASE ResetExit(t)
  BY <1>1, <1>8, GotoTyped DEF ResetExit, TypeOK, tasks
<1>9. CASE Spun(t)
  BY <1>1, <1>9, GotoTyped DEF Spun, TypeOK, tasks, barrier
<1> QED
  BY <1>2, <1>3, <1>4, <1>5, <1>6, <1>7, <1>8, <1>9 DEF Wait

LEMMA TypeStep == IInv /\ [Next]_vars => TypeOK'
<1> SUFFICES ASSUME IInv, [Next]_vars PROVE TypeOK'
  OBVIOUS
<1>1. TypeOK /\ EndsLate /\ N \in Nat \ {0} /\ 0 \in Thread
  BY Threads DEF IInv
<1> USE DEF InBarrier, CallerPc, WorkerPc
<1>2. ASSUME NEW t \in Thread, Wait(t) PROVE TypeOK'
  BY <1>2, WaitTyped
<1>3. ASSUME NEW t \in Thread, Convert(t) PROVE TypeOK'
  <2>1. Goto(t, "convert", IF t = 0 THEN "others" ELSE "loop")
    BY <1>3 DEF Convert
  <2>2. /\ pc' \in [Thread -> CallerPc \cup WorkerPc]
        /\ pc'[0] \in CallerPc /\ \A w \in Worker : pc'[w] \in WorkerPc
    BY <1>1, <2>1, GotoTyped
  <2>3. work' \in [Thread -> Nat]
    BY <1>1, <1>3 DEF Convert, TypeOK
  <2> QED
    BY <1>1, <1>3, <2>2, <2>3 DEF Convert, TypeOK, barrier, tasks
<1>4. ASSUME NEW w \in Worker, TaskLoop(w) \/ ThrownOut(w) PROVE TypeOK'
  <2>1. w \in Thread /\ w # 0
    BY DEF Thread, Worker
  <2>2. \E from, to \in WorkerPc : Goto(w, from, to)
    BY <1>4 DEF TaskLoop, ThrownOut
  <2>3. /\ pc' \in [Thread -> CallerPc \cup WorkerPc]
        /\ pc'[0] \in CallerPc /\ \A u \in Worker : pc'[u] \in WorkerPc
    BY <1>1, <2>1, <2>2, GotoTyped
  <2> QED
    BY <1>1, <1>4, <2>3 DEF TaskLoop, ThrownOut, TypeOK, barrier, tasks
<1>5. CASE WaitOthers \/ Publish \/ Destroy \/ Interrupt \/ Join
  <2>1. \E from, to \in CallerPc : Goto(0, from, to)
    BY <1>5 DEF WaitOthers, Publish, Destroy, Interrupt, Join
  <2>2. /\ pc' \in [Thread -> CallerPc \cup WorkerPc]
        /\ pc'[0] \in CallerPc /\ \A w \in Worker : pc'[w] \in WorkerPc
    BY <1>1, <2>1, GotoTyped
  <2>3. victim' \in 1 .. N
    <3>1. CASE Join
      BY <1>1, <3>1 DEF Join, Goto, TypeOK, EndsLate, Worker
    <3>2. CASE ~Join
      BY <1>1, <1>5, <3>2 DEF WaitOthers, Publish, Destroy, Interrupt, TypeOK, tasks
    <3> QED
      BY <3>1, <3>2
  <2>4. CASE WaitOthers \/ Destroy
    BY <1>1, <2>2, <2>3, <2>4 DEF WaitOthers, Destroy, TypeOK, barrier, tasks
  <2>6. CASE Publish
    <3>1. job' \in Nat /\ UNCHANGED <<barrier, tasks, work>>
      BY <1>1, <2>6 DEF Publish, TypeOK
    <3> QED
      BY <1>1, <2>2, <2>3, <3>1 DEF TypeOK, barrier, tasks
  <2>5. CASE Interrupt \/ Join
    BY <1>1, <2>2, <2>3, <2>5 DEF Interrupt, Join, TypeOK, barrier
  <2> QED
    BY <1>5, <2>4, <2>5, <2>6
<1>6. CASE UNCHANGED vars
  BY <1>1, <1>6 DEF vars, TypeOK
<1> QED
  BY <1>1, <1>2, <1>3, <1>4, <1>5, <1>6, Threads
  DEF Next, CallerStep, WorkerStep, Gone

-----------------------------------------------------------------------------
(* The phases of the barrier.                                              *)

\* The parts that the threads have in the gathering stay what they are when a thread
\* moves on within its part.
LEMMA SameParts ==
    ASSUME IInv, NEW t \in Thread, NEW from, NEW to, Goto(t, from, to),
           Gathering, UNCHANGED <<job, work>>,
           \/ from \in {"enter"} \cup InPc /\ to \in InPc
           \/ from \in OutPc /\ to \in OutPc \cup {"convert"}
    PROVE  (AllCaught \/ AllBehind \/ AllBusy)'
<1>1. pc' = [pc EXCEPT ![t] = to] /\ pc[t] = from /\ pc \in [Thread -> CallerPc \cup WorkerPc]
      /\ 0 \in Thread /\ Worker \subseteq Thread
  BY Threads DEF Goto, IInv, TypeOK
<1>2. \A u \in Thread : \/ pc'[u] = pc[u]
                        \/ pc[u] \in {"enter"} \cup InPc /\ pc'[u] \in InPc
                        \/ pc[u] \in OutPc /\ pc'[u] \in OutPc \cup {"convert"}
  BY <1>1
<1>3. CASE AllCaught
  <2>1. AllCaught'
    BY <1>1, <1>2, <1>3 DEF AllCaught, Caught, InPc, OutPc
  <2> QED
    BY <2>1
<1>4. CASE AllBehind
  <2>1. AllBehind'
    BY <1>1, <1>2, <1>4 DEF AllBehind, Behind, InPc, OutPc
  <2> QED
    BY <2>1
<1>5. CASE AllBusy
  <2>1. AllBusy'
    BY <1>1, <1>2, <1>5 DEF AllBusy, Caught, Ready, InPc, OutPc
  <2> QED
    BY <2>1
<1> QED
  BY <1>3, <1>4, <1>5 DEF Gathering

\* A step from one place in the barrier to another.
LEMMA InsideStep ==
    ASSUME IInv, TypeOK', NEW t \in Thread, NEW from \in InPc, NEW to \in InPc,
           Goto(t, from, to), UNCHANGED <<entry, exit, done, tasks, job, work>>
    PROVE  IInv'
<1>1. Inside' = Inside /\ Outgoing' = Outgoing /\ Ended' = Ended
  BY SameSets DEF IInv, InPc, OutPc
<1>2. pc' = [pc EXCEPT ![t] = to] /\ pc[t] = from /\ 0 \in Thread /\ Worker \subseteq Thread
      /\ TypeOK
  BY Threads DEF Goto, IInv
<1>3. EndsLate'
  BY <1>1, <1>2 DEF IInv, EndsLate, TypeOK, InPc, tasks
<1>4. CASE Gathering
  <2>1. (AllCaught \/ AllBehind \/ AllBusy)'
    BY <1>4, SameParts
  <2>2. Counting'
    BY <1>1, <1>4 DEF Gathering, Counting
  <2> QED
    BY <1>3, <2>1, <2>2 DEF IInv, Gathering
<1>5. CASE Exiting
  <2>1. Exiting'
    BY <1>1, <1>2, <1>5 DEF Exiting, InPc, TypeOK
  <2> QED
    BY <1>3, <2>1 DEF IInv
<1> QED
  BY <1>4, <1>5 DEF IInv

LEMMA EnterStep ==
    ASSUME IInv, TypeOK', NEW t \in Thread, Enter(t)
    PROVE  IInv'
<1>1. /\ pc[t] = "enter" /\ 0 \in Thread /\ Worker \subseteq Thread /\ TypeOK /\ TypeOK'
      /\ N \in Nat
  BY Threads DEF Enter, Goto, IInv
<1>2. Gathering
  BY <1>1 DEF IInv, Exiting, InPc, OutPc
<1>3. EndsLate' /\ Ended' = Ended
  <2>1. Ended' = Ended
    BY <1>1 DEF Enter, Goto, Ended, TypeOK
  <2> QED
    BY <1>1, <2>1 DEF IInv, EndsLate, TypeOK, Enter, Goto, tasks
<1>4. CASE N = 1
  <2>1. t = 0 /\ Worker = {} /\ pc' = [pc EXCEPT ![0] = "convert"] /\ UNCHANGED entry
    BY <1>4 DEF Enter, Goto, Thread, Worker
  <2>2. Inside' = Inside
    BY <1>1, <2>1 DEF Inside, InPc, TypeOK
  <2>3. pc'[0] = "convert" /\ work[0] + 1 = job
    BY <1>1, <1>2, <2>1 DEF Gathering, AllCaught, AllBehind, AllBusy, InPc, OutPc, TypeOK
  <2>4. Gathering'
    BY <1>2, <1>3, <2>1, <2>2, <2>3 DEF Enter, Gathering, Counting, AllBusy
  <2> QED
    BY <1>3, <2>4 DEF IInv
<1>5. CASE N # 1
  <2>0. Goto(t, "enter", "cas")
    BY <1>5 DEF Enter
  <2>1. /\ pc' = [pc EXCEPT ![t] = "cas"] /\ entry' = entry + 1
        /\ UNCHANGED <<exit, job, work>>
    BY <1>5 DEF Enter, Goto
  <2>2. Inside' = Inside \cup {t} /\ t \notin Inside \cup Ended
    BY <1>1, <2>1 DEF Inside, Ended, InPc, TypeOK
  <2>3. /\ Cardinality(Inside') = Cardinality(Inside) + 1
        /\ Cardinality((Inside \cup Ended)') = Cardinality(Inside \cup Ended) + 1
    <3>1. Inside \in SUBSET Thread /\ Inside \cup Ended \in SUBSET Thread
      BY DEF Inside, Ended
    <3>2. (Inside \cup Ended)' = (Inside \cup Ended) \cup {t}
      BY <1>3, <2>2
    <3> QED
      BY <2>2, <3>1, <3>2, OneMore
  <2>4. Cardinality(Inside) \in Nat /\ Cardinality(Inside \cup Ended) \in Nat
    BY Counted DEF Inside, Ended
  <2>5. (AllCaught \/ AllBehind \/ AllBusy)'
    BY <1>2, <2>1, <2>0, SameParts DEF InPc
  <2>6. Counting'
    BY <1>1, <1>2, <2>1, <2>3, <2>4 DEF Gathering, Counting, TypeOK
  <2> QED
    BY <1>3, <2>5, <2>6 DEF IInv, Gathering
<1> QED
  BY <1>4, <1>5

\* The last one to come lets all in: nobody has ended, or the application's thread
\* would not have come.
LEMMA ResetEntryStep ==
    ASSUME IInv, TypeOK', NEW t \in Thread, ResetEntry(t)
    PROVE  IInv'
<1>1. CASE entry # N
  BY <1>1, InsideStep DEF ResetEntry, InPc
<1>2. CASE entry = N
  <2>1. /\ pc[t] = "cas" /\ pc' = [pc EXCEPT ![t] = "lock"] /\ entry' = 0 /\ N \in Nat \ {0}
        /\ UNCHANGED <<exit, done, tasks, job, work>> /\ TypeOK
    BY <1>2, Threads DEF ResetEntry, Goto, IInv
  <2>2. Gathering
    BY <1>2, <2>1 DEF IInv, Exiting
  <2>3. Inside \cup Ended = Thread
    <3>1. Cardinality(Inside \cup Ended) \in Nat /\ Cardinality(Inside \cup Ended) <= N
      BY Counted DEF Inside, Ended
    <3>2. Cardinality(Inside \cup Ended) = N
      BY <1>2, <2>1, <2>2, <3>1 DEF Gathering, Counting
    <3> QED
      BY <3>2, Counted DEF Inside, Ended
  <2>4. pc[0] \in InPc /\ ~done
    <3>1. pc[0] \in InPc \cup {"ended"}
      BY <2>3, Threads DEF Inside, Ended
    <3>2. pc[0] # "ended"
      BY <2>1 DEF TypeOK, CallerPc, InBarrier
    <3> QED
      BY <3>1, <3>2 DEF IInv, EndsLate, InPc
  <2>5. Inside = Thread /\ Ended = {}
    BY <2>3, <2>4 DEF IInv, EndsLate
  <2>6. \A u \in Thread : pc[u] \in InPc /\ work[u] + 1 = job
    <3>1. \A u \in Thread : pc[u] \in InPc /\ (u = 0 \/ u \in Worker)
      BY <2>5 DEF Inside, Thread, Worker
    <3> QED
      BY <2>2, <2>4, <3>1 DEF Gathering, AllCaught, AllBehind, AllBusy, Behind, InPc, OutPc
  <2>7. Outgoing' = {} /\ Ended' = {}
    BY <2>1, <2>6 DEF Outgoing, Ended, OutPc, InPc, TypeOK
  <2>8. Exiting'
    BY <2>1, <2>2, <2>6, <2>7, FS_EmptySet DEF Exiting, Gathering, Counting, InPc, TypeOK
  <2>9. EndsLate'
    BY <2>1, <2>4, <2>7, Threads DEF IInv, EndsLate, TypeOK, tasks, InPc
  <2> QED
    BY <2>8, <2>9 DEF IInv
<1> QED
  BY <1>1, <1>2

\* The entry counts whoever is inside, so that it is only open once all have come.
LEMMA OpensForAll ==
    ASSUME IInv, NEW t \in Thread, pc[t] \in InPc, entry = 0
    PROVE  Exiting
<1>1. t \in Inside /\ Inside \in SUBSET Thread
  BY DEF Inside
<1>2. Cardinality(Inside) \in Nat /\ Cardinality(Inside) # 0
  BY <1>1, Counted
<1> QED
  BY <1>2 DEF IInv, Gathering, Counting, TypeOK

LEMMA OpenStep ==
    ASSUME IInv, TypeOK', NEW t \in Thread, Open(t)
    PROVE  IInv'
<1>1. /\ pc[t] = "test" /\ pc' = [pc EXCEPT ![t] = "leave"] /\ entry = 0 /\ TypeOK
      /\ UNCHANGED <<entry, exit, done, tasks, job, work>>
  BY DEF Open, Goto, IInv
<1>2. Exiting
  BY <1>1, OpensForAll DEF InPc
<1>3. Outgoing' = Outgoing /\ Ended' = Ended
  BY <1>1 DEF Outgoing, Ended, OutPc, TypeOK
<1>4. Exiting'
  BY <1>1, <1>2, <1>3 DEF Exiting, TypeOK
<1>5. EndsLate'
  BY <1>1, <1>3, Threads DEF IInv, EndsLate, TypeOK, tasks
<1> QED
  BY <1>4, <1>5 DEF IInv

LEMMA LeaveStep ==
    ASSUME IInv, TypeOK', NEW t \in Thread, Leave(t)
    PROVE  IInv'
<1>1. /\ pc[t] = "leave" /\ pc' = [pc EXCEPT ![t] = "xcas"] /\ exit' = exit + 1 /\ TypeOK
      /\ UNCHANGED <<entry, done, tasks, job, work>>
  BY DEF Leave, Goto, IInv
<1>2. Exiting
  BY <1>1, WhoIsOut DEF IInv
<1>3. Outgoing' = Outgoing \cup {t} /\ t \notin Outgoing /\ Ended' = Ended
      /\ Outgoing \in SUBSET Thread
  BY <1>1 DEF Outgoing, Ended, OutPc, TypeOK
<1>4. Cardinality(Outgoing') = Cardinality(Outgoing) + 1
  BY <1>3, OneMore
<1>5. Exiting'
  BY <1>1, <1>2, <1>4 DEF Exiting, OutPc, TypeOK
<1>6. EndsLate'
  BY <1>1, <1>3, Threads DEF IInv, EndsLate, TypeOK, tasks
<1> QED
  BY <1>5, <1>6 DEF IInv

\* The last one to leave lets all go on, and the barrier takes them in again.
LEMMA ResetExitStep ==
    ASSUME IInv, TypeOK', NEW t \in Thread, ResetExit(t)
    PROVE  IInv'
<1>1. /\ pc[t] = "xcas" /\ pc' = [pc EXCEPT ![t] = "spin"] /\ N \in Nat \ {0} /\ TypeOK
      /\ exit' = (IF exit = N THEN 0 ELSE exit) /\ 0 \in Thread /\ Worker \subseteq Thread
      /\ UNCHANGED <<entry, done, tasks, job, work>>
  BY Threads DEF ResetExit, Goto, IInv
<1>2. Inside' = Inside /\ Outgoing' = Outgoing /\ Ended' = Ended
  BY SameSets DEF ResetExit, IInv, InPc, OutPc
<1>3. EndsLate'
  BY <1>1, <1>2 DEF IInv, EndsLate, TypeOK, tasks
<1>4. CASE Gathering
  <2>1. exit' = exit
    BY <1>1, <1>4 DEF Gathering, Counting
  <2>2. (AllCaught \/ AllBehind \/ AllBusy)'
    BY <1>1, <1>4, SameParts DEF ResetExit, OutPc
  <2>3. Counting'
    BY <1>1, <1>2, <1>4, <2>1 DEF Gathering, Counting
  <2> QED
    BY <1>3, <2>2, <2>3 DEF IInv, Gathering
<1>5. CASE Exiting /\ exit # N
  <2>1. Exiting'
    BY <1>1, <1>2, <1>5 DEF Exiting, OutPc, TypeOK
  <2> QED
    BY <1>3, <2>1 DEF IInv
<1>6. CASE Exiting /\ exit = N
  <2>1. Outgoing = Thread
    BY <1>6, Counted DEF Exiting, Outgoing
  <2>2. Inside = {} /\ Ended = {} /\ \A u \in Thread : pc'[u] \in OutPc /\ work'[u] + 1 = job'
    BY <1>1, <1>6, <2>1 DEF Outgoing, Inside, Ended, InPc, OutPc, Exiting, TypeOK
  <2>3. Gathering'
    BY <1>1, <1>2, <1>6, <2>2, FS_EmptySet DEF Gathering, Counting, AllBusy, Exiting, Ready
  <2> QED
    BY <1>3, <2>3 DEF IInv
<1> QED
  BY <1>4, <1>5, <1>6 DEF IInv

\* The application's thread is let through in the gathering alone.
LEMMA SpunStep ==
    ASSUME IInv, TypeOK', NEW t \in Thread, Spun(t)
    PROVE  IInv'
<1>1. /\ pc[t] = "spin" /\ Goto(t, "spin", "convert") /\ exit = 0 /\ TypeOK
      /\ UNCHANGED <<entry, exit, done, mutex, tasks, job, work>>
      /\ pc' = [pc EXCEPT ![t] = "convert"]
  BY DEF Spun, Goto, IInv, barrier
<1>2. Gathering
  <2>1. t \in Outgoing /\ Outgoing \in SUBSET Thread
    BY <1>1 DEF Outgoing, OutPc
  <2>2. Cardinality(Outgoing) # 0
    BY <2>1, Counted
  <2> QED
    BY <1>1, <2>2 DEF IInv, Exiting
<1>3. Inside' = Inside /\ Ended' = Ended
  BY <1>1 DEF Inside, Ended, InPc, TypeOK
<1>4. (AllCaught \/ AllBehind \/ AllBusy)'
  BY <1>1, <1>2, SameParts DEF OutPc
<1>5. Counting'
  BY <1>1, <1>2, <1>3 DEF Gathering, Counting
<1>6. EndsLate'
  BY <1>1, <1>3, Threads DEF IInv, EndsLate, TypeOK, tasks
<1> QED
  BY <1>4, <1>5, <1>6 DEF IInv, Gathering

LEMMA WaitStep ==
    ASSUME IInv, TypeOK', NEW t \in Thread, Wait(t)
    PROVE  IInv'
<1>1. CASE Lock(t)
  <2>1. PICK from \in {"lock", "sleep"} : Goto(t, from, "test")
    BY <1>1 DEF Lock
  <2>2. UNCHANGED <<entry, exit, done, tasks, job, work>>
    BY <1>1 DEF Lock
  <2> QED
    BY <2>1, <2>2, InsideStep DEF InPc
<1>2. CASE Sleep(t)
  BY <1>2, InsideStep DEF Sleep, InPc
<1> QED
  BY <1>1, <1>2, EnterStep, ResetEntryStep, OpenStep, LeaveStep, ResetExitStep, SpunStep
  DEF Wait

LEMMA ConvertStep ==
    ASSUME IInv, TypeOK', NEW t \in Thread, Convert(t)
    PROVE  IInv' /\ work[t] + 1 = job
<1>1. /\ pc[t] = "convert" /\ pc' = [pc EXCEPT ![t] = IF t = 0 THEN "others" ELSE "loop"]
      /\ work' = [work EXCEPT ![t] = @ + 1] /\ TypeOK /\ 0 \in Thread /\ Worker \subseteq Thread
      /\ UNCHANGED <<entry, exit, done, mutex, tasks, job>>
  BY Threads DEF Convert, Goto, IInv, barrier
<1>2. Gathering
  BY <1>1 DEF IInv, Exiting, InPc, OutPc
<1>3. work[t] + 1 = job /\ pc[0] \in OutPc \cup {"convert", "others"}
  BY <1>1, <1>2, WhoIsOut
<1>4. AllBusy
  BY <1>2, <1>3 DEF Gathering, AllCaught, AllBehind, InPc, OutPc
<1>5. Inside' = Inside /\ Ended' = Ended
  BY <1>1 DEF Inside, Ended, InPc, TypeOK
<1>6. /\ work' \in [Thread -> Nat] /\ work'[t] = job
      /\ \A u \in Thread \ {t} : pc'[u] = pc[u] /\ work'[u] = work[u]
      /\ pc'[t] = IF t = 0 THEN "others" ELSE "loop"
  BY <1>1, <1>3 DEF TypeOK
<1>7. AllBusy'
  <2>1. \/ pc'[0] \in OutPc \cup {"convert"} /\ work'[0] + 1 = job
        \/ pc'[0] = "others" /\ work'[0] = job
    BY <1>1, <1>4, <1>6 DEF AllBusy
  <2>2. ASSUME NEW w \in Worker PROVE (Caught(w) \/ Ready(w))'
    <3>1. CASE w = t
      <4>1. Caught(w)'
        BY <1>1, <1>6, <3>1 DEF Caught, Worker
      <4> QED
        BY <4>1
    <3>2. CASE w # t /\ Caught(w)
      <4>1. Caught(w)'
        BY <1>1, <1>6, <3>2 DEF Caught
      <4> QED
        BY <4>1
    <3>3. CASE w # t /\ Ready(w)
      <4>1. Ready(w)'
        BY <1>1, <1>6, <3>3 DEF Ready
      <4> QED
        BY <4>1
    <3> QED
      BY <1>4, <3>1, <3>2, <3>3 DEF AllBusy
  <2> QED
    BY <1>1, <2>1, <2>2 DEF AllBusy
<1>8. Counting'
  BY <1>1, <1>2, <1>5 DEF Gathering, Counting
<1>9. EndsLate'
  BY <1>1, <1>5 DEF IInv, EndsLate, TypeOK, tasks
<1> QED
  BY <1>3, <1>7, <1>8, <1>9 DEF IInv, Gathering

\* All others are inside, with the job done.
LEMMA OthersAreIn ==
    ASSUME IInv, pc[0] = "others", entry = N - 1
    PROVE  Gathering /\ \A w \in Worker : Caught(w)
<1>1. Gathering /\ ~done /\ Ended = {} /\ AllBusy /\ N \in Nat
  BY Threads DEF IInv, EndsLate, Exiting, Gathering, AllCaught, AllBehind, InPc, OutPc
<1>2. Inside \in SUBSET Thread /\ 0 \notin Inside /\ Cardinality(Inside) \in Nat
  BY Counted DEF Inside, InPc
<1>3. Cardinality(Inside) = N - 1
  <2>1. Inside \cup Ended = Inside
    BY <1>1
  <2> QED
    BY <1>1, <1>2, <2>1 DEF Gathering, Counting
<1>4. \A w \in Worker : w \in Inside
  BY <1>2, <1>3, AllWorkers
<1> QED
  BY <1>1, <1>4 DEF AllBusy, Inside, Ready, InPc, OutPc

\* The application's thread outside the barrier.
LEMMA CallerStepKeeps ==
    ASSUME IInv, TypeOK', WaitOthers \/ Publish \/ Destroy \/ Interrupt \/ Join
    PROVE  IInv'
<1>1. /\ 0 \in Thread /\ Worker \subseteq Thread /\ TypeOK /\ EndsLate
      /\ \A w \in Worker : w # 0 /\ pc'[w] = pc[w]
      /\ UNCHANGED <<entry, exit, work>>
  <2>1. \A w \in Worker : w # 0 /\ w \in Thread
    BY Threads DEF Worker
  <2> QED
    BY <2>1, Threads DEF IInv, WaitOthers, Publish, Destroy, Interrupt, Join, Goto, TypeOK,
                         barrier
<1>2. /\ pc[0] \in {"others", "idle", "destroy", "join"}
      /\ pc'[0] \in {"idle", "enter", "destroy", "join", "gone"}
      /\ \A u \in Thread : u # 0 => pc'[u] = pc[u]
  BY <1>1 DEF WaitOthers, Publish, Destroy, Interrupt, Join, Goto, TypeOK
<1>3. Inside' = Inside /\ Ended' = Ended
  BY <1>2 DEF Inside, Ended, InPc
<1>4. Gathering
  BY <1>1, <1>2 DEF IInv, Exiting, InPc, OutPc
<1>5. Counting'
  BY <1>1, <1>3, <1>4 DEF Gathering, Counting
<1>6. CASE WaitOthers
  <2>1. /\ pc[0] = "others" /\ pc'[0] = "idle" /\ entry = N - 1
        /\ UNCHANGED <<done, tasks, job, work>>
    BY <1>1, <1>6 DEF WaitOthers, Goto, TypeOK, barrier
  <2>2. work[0] = job /\ \A w \in Worker : Caught(w)
    BY <1>4, <2>1, OthersAreIn DEF Gathering, AllBusy, AllCaught, AllBehind, InPc, OutPc
  <2>3. AllCaught'
    BY <1>1, <2>1, <2>2 DEF AllCaught, Caught
  <2>4. EndsLate'
    BY <1>1, <1>3, <2>1 DEF EndsLate, tasks
  <2> QED
    BY <1>5, <2>3, <2>4 DEF IInv, Gathering
<1>7. CASE Publish
  <2>1. /\ pc[0] = "idle" /\ pc'[0] = "enter" /\ job' = job + 1
        /\ UNCHANGED <<done, tasks, work>>
    BY <1>1, <1>7 DEF Publish, Goto, TypeOK, barrier
  <2>2. work[0] = job /\ \A w \in Worker : Caught(w) /\ pc[w] # "ended"
    BY <1>1, <1>4, <2>1 DEF Gathering, AllBusy, AllCaught, AllBehind, InPc, OutPc, EndsLate, Ended
  <2>3. AllBehind'
    BY <1>1, <2>1, <2>2 DEF AllBehind, Behind, Caught, TypeOK
  <2>4. EndsLate'
    BY <1>1, <1>3, <2>1 DEF EndsLate, tasks
  <2> QED
    BY <1>5, <2>3, <2>4 DEF IInv, Gathering
<1>8. CASE Destroy \/ Interrupt \/ Join
  <2>1. /\ pc[0] \in {"idle", "destroy", "join"} /\ pc'[0] \in {"destroy", "join", "gone"}
        /\ done' /\ UNCHANGED job
    BY <1>1, <1>8 DEF Destroy, Interrupt, Join, Goto, EndsLate, TypeOK, barrier
  <2>2. AllCaught
    BY <1>4, <2>1 DEF Gathering, AllBusy, AllBehind, InPc, OutPc
  <2>3. AllCaught'
    BY <1>1, <2>1, <2>2 DEF AllCaught, Caught
  <2>4. pc'[0] = "join" => victim' \in Worker
    BY <1>1, <1>8 DEF Destroy, Interrupt, Join, Goto, TypeOK
  <2>5. EndsLate'
    BY <2>1, <2>4 DEF EndsLate
  <2> QED
    BY <1>5, <2>3, <2>5 DEF IInv, Gathering
<1> QED
  BY <1>6, <1>7, <1>8

\* A worker goes around the loop of its task, or out of it.
LEMMA TaskLoopStep ==
    ASSUME IInv, TypeOK', NEW w \in Worker, TaskLoop(w)
    PROVE  IInv'
<1>1. /\ w \in Thread /\ w # 0 /\ TypeOK /\ 0 \in Thread /\ Worker \subseteq Thread /\ N \in Nat
      /\ pc[w] = "loop" /\ pc' = [pc EXCEPT ![w] = IF running[w] THEN "enter" ELSE "ended"]
      /\ UNCHANGED <<entry, exit, done, mutex, tasks, job, work>>
  BY Threads DEF TaskLoop, Goto, IInv, barrier, Worker
<1>2. Gathering
  BY <1>1 DEF IInv, Exiting, InPc, OutPc
<1>3. Inside' = Inside /\ Ended \subseteq Ended' /\ Ended' \in SUBSET Thread
  BY <1>1 DEF Inside, Ended, InPc, TypeOK
<1>4. Counting'
  <2>1. Cardinality(Inside \cup Ended) <= Cardinality(Inside \cup Ended')
    <3>1. Inside \cup Ended' \in SUBSET Thread
      BY <1>3 DEF Inside
    <3>2. IsFiniteSet(Inside \cup Ended')
      BY <3>1, Counted
    <3> QED
      BY <1>3, <3>2, FS_Subset
  <2>2. /\ Cardinality(Inside \cup Ended) \in Nat /\ Cardinality(Inside \cup Ended') \in Nat
        /\ Cardinality(Inside) \in Nat
    BY <1>3, Counted DEF Inside, Ended
  <2>3. Inside' = Inside /\ (Inside \cup Ended)' = Inside \cup Ended'
    BY <1>3
  <2> QED
    BY <1>1, <1>2, <2>1, <2>2, <2>3 DEF Gathering, Counting, TypeOK
<1>5. CASE running[w]
  <2>1. Ended' = Ended
    BY <1>1, <1>5 DEF Ended, TypeOK
  <2>2. EndsLate'
    BY <1>1, <2>1 DEF IInv, EndsLate, TypeOK, tasks
  <2>3. \A u \in Thread : \/ pc'[u] = pc[u]
                          \/ u # 0 /\ pc[u] = "loop" /\ pc'[u] = "enter"
    BY <1>1, <1>5 DEF TypeOK
  <2>4. (AllCaught \/ AllBehind \/ AllBusy)'
    <3>1. CASE AllCaught
      <4>1. AllCaught'
        BY <1>1, <2>3, <3>1 DEF AllCaught, Caught
      <4> QED
        BY <4>1
    <3>2. CASE AllBehind
      <4>1. AllBehind'
        BY <1>1, <2>3, <3>2 DEF AllBehind, Behind
      <4> QED
        BY <4>1
    <3>3. CASE AllBusy
      <4>1. AllBusy'
        BY <1>1, <2>3, <3>3 DEF AllBusy, Caught, Ready, OutPc
      <4> QED
        BY <4>1
    <3> QED
      BY <1>2, <3>1, <3>2, <3>3 DEF Gathering
  <2> QED
    BY <1>4, <2>2, <2>4 DEF IInv, Gathering
<1>6. CASE ~running[w]
  <2>1. done /\ pc[0] \in {"destroy", "join", "gone"} /\ done' /\ pc'[0] = pc[0]
    BY <1>1, <1>6 DEF IInv, EndsLate, TypeOK
  <2>2. EndsLate'
    BY <1>1, <2>1 DEF IInv, EndsLate, tasks
  <2>3. AllCaught
    BY <1>2, <2>1 DEF Gathering, AllBehind, AllBusy, InPc, OutPc
  <2>4. AllCaught'
    BY <1>1, <1>6, <2>1, <2>3 DEF AllCaught, Caught, TypeOK
  <2> QED
    BY <1>4, <2>2, <2>4 DEF IInv, Gathering
<1> QED
  BY <1>5, <1>6

\* A worker is thrown out, and stays counted: only when the barrier has been
\* interrupted, and never at the exit.
LEMMA ThrownOutStep ==
    ASSUME IInv, TypeOK', NEW w \in Worker, ThrownOut(w)
    PROVE  IInv'
<1>1. /\ w \in Thread /\ w # 0 /\ TypeOK /\ 0 \in Thread /\ Worker \subseteq Thread /\ N \in Nat
      /\ pc[w] \in {"test", "sleep", "spin"} /\ pc' = [pc EXCEPT ![w] = "ended"]
      /\ UNCHANGED <<entry, exit, done, tasks, job, work>>
      /\ done \/ interrupted[w]
  BY Threads DEF ThrownOut, Goto, IInv, MayThrow, Worker
<1>2. done /\ pc[0] \in {"destroy", "join", "gone"} /\ pc'[0] = pc[0]
  BY <1>1 DEF IInv, EndsLate, TypeOK
<1>3. Gathering /\ AllCaught
  BY <1>1, <1>2 DEF IInv, Exiting, Gathering, AllBehind, AllBusy, InPc, OutPc
<1>4. w \in Inside
  BY <1>1, <1>3 DEF AllCaught, Caught, Inside, InPc
<1>5. Inside' = Inside \ {w} /\ (Inside \cup Ended)' = Inside \cup Ended
  BY <1>1, <1>4 DEF Inside, Ended, InPc, TypeOK
<1>6. Counting'
  <2>1. IsFiniteSet(Inside) /\ Inside \ {w} \subseteq Inside
    BY Counted DEF Inside
  <2>2. Cardinality(Inside \ {w}) <= Cardinality(Inside)
    BY <2>1, FS_Subset
  <2>3. Cardinality(Inside) \in Nat /\ Cardinality(Inside \ {w}) \in Nat
    BY Counted DEF Inside
  <2> QED
    BY <1>1, <1>3, <1>5, <2>2, <2>3 DEF Gathering, Counting, TypeOK
<1>7. AllCaught'
  BY <1>1, <1>2, <1>3 DEF AllCaught, Caught, TypeOK
<1>8. EndsLate'
  BY <1>1, <1>2 DEF IInv, EndsLate, tasks
<1> QED
  BY <1>6, <1>7, <1>8 DEF IInv, Gathering

LEMMA IInvStep == IInv /\ [Next]_vars => IInv'
<1> SUFFICES ASSUME IInv, [Next]_vars PROVE IInv'
  OBVIOUS
<1>1. TypeOK'
  BY TypeStep
<1>2. CASE UNCHANGED vars
  BY <1>2 DEF vars, IInv, TypeOK, EndsLate, Gathering, Exiting, Counting, AllCaught, AllBehind,
              AllBusy, Caught, Behind, Ready, Inside, Outgoing, Ended
<1>3. CASE CallerStep \/ Publish \/ Destroy
  BY <1>1, <1>3, Threads, WaitStep, ConvertStep, CallerStepKeeps DEF CallerStep
<1>4. ASSUME NEW w \in Worker, WorkerStep(w) PROVE IInv'
  BY <1>1, <1>4, Threads, WaitStep, ConvertStep, TaskLoopStep, ThrownOutStep DEF WorkerStep
<1> QED
  BY <1>2, <1>3, <1>4 DEF Next, Gone

-----------------------------------------------------------------------------
(* The theorems.                                                           *)

\* The counters of the barrier never pass the number of threads, and every thread
\* is in a legal place.
THEOREM TasksTypeCorrect == Spec => []TypeOK
<1>1. IInv => TypeOK
  BY DEF IInv
<1> QED
  BY <1>1, InitIInv, IInvStep, PTL DEF Spec

\* While the application's thread is outside the conversion every channel has
\* converted every job and nobody reads what the thread may now change.
THEOREM CallerIsAlone == Spec => []CallerAlone
<1>1. IInv => CallerAlone
  <2> SUFFICES ASSUME IInv, pc[0] \in {"idle", "destroy", "join", "gone"}, NEW w \in Worker
               PROVE  /\ work[w] = job
                      /\ pc[w] \notin {"leave", "xcas", "spin", "convert"}
    BY DEF CallerAlone
  <2>1. AllCaught
    BY Threads DEF IInv, Exiting, Gathering, AllBehind, AllBusy, InPc, OutPc
  <2> QED
    BY <2>1 DEF AllCaught, Caught, InPc
<1> QED
  BY <1>1, InitIInv, IInvStep, PTL DEF Spec

\* A thread that comes around again is not counted for a slow one.
THEOREM NobodyLapped == Spec => []NoLapping
<1>1. IInv => NoLapping
  <2> SUFFICES ASSUME IInv, NEW t \in Thread, NEW u \in Thread,
                      pc[t] = "convert", work[t] = work[u]
               PROVE  pc[u] \in {"xcas", "spin", "convert"}
    BY DEF NoLapping
  <2>1. Gathering /\ TypeOK
    BY DEF IInv, Exiting, InPc, OutPc
  <2>2. work[t] + 1 = job /\ pc[0] \in OutPc \cup {"convert", "others"}
    BY <2>1, WhoIsOut
  <2>3. AllBusy
    BY <2>1, <2>2 DEF Gathering, AllCaught, AllBehind, InPc, OutPc
  <2>4. work[u] # job /\ (u = 0 \/ u \in Worker)
    BY <2>1, <2>2 DEF TypeOK, Thread, Worker
  <2> QED
    BY <2>3, <2>4 DEF AllBusy, Caught, Ready, OutPc
<1> QED
  BY <1>1, InitIInv, IInvStep, PTL DEF Spec

\* The threads only hand out and convert jobs as ForkJoin lets them: the safety part
\* of ImplementsForkJoin.
THEOREM TasksImplementForkJoin == Spec => Abstract!Init /\ [][Abstract!Next]_(Abstract!vars)
<1>1. Init => Abstract!Init
  BY DEF Init, Abstract!Init
<1>2. IInv /\ [Next]_vars => [Abstract!Next]_(Abstract!vars)
  <2> SUFFICES ASSUME IInv, [Next]_vars PROVE [Abstract!Next]_(Abstract!vars)
    OBVIOUS
  <2> USE DEF Abstract!Next, Abstract!vars
  <2>1. TypeOK' /\ TypeOK
    BY TypeStep DEF IInv
  <2>2. ASSUME NEW t \in Thread, Convert(t) PROVE Abstract!Convert(t)
    <3>1. work[t] + 1 = job
      BY <2>1, <2>2, ConvertStep
    <3> QED
      BY <2>1, <2>2, <3>1 DEF Convert, barrier, Abstract!Convert, TypeOK
  <2>3. CASE Publish
    <3>1. AllCaught
      BY <2>3, Threads DEF Publish, Goto, IInv, Exiting, Gathering, AllBehind, AllBusy, InPc, OutPc
    <3>2. \A t \in Thread : work[t] = job
      BY <3>1 DEF AllCaught, Caught, Thread, Worker
    <3> QED
      BY <2>3, <3>2 DEF Publish, Abstract!HandOut
  <2>4. ASSUME NEW t \in Thread, Wait(t) PROVE UNCHANGED <<job, work>>
    BY <2>4 DEF Wait, Enter, ResetEntry, Lock, Open, Sleep, Leave, ResetExit, Spun
  <2>5. ASSUME NEW w \in Worker, TaskLoop(w) \/ ThrownOut(w) PROVE UNCHANGED <<job, work>>
    BY <2>5 DEF TaskLoop, ThrownOut
  <2>6. CASE WaitOthers \/ Interrupt \/ Join \/ Destroy \/ Gone \/ UNCHANGED vars
    BY <2>6 DEF WaitOthers, Interrupt, Join, Destroy, Gone, vars
  <2> QED
    BY <2>2, <2>3, <2>4, <2>5, <2>6, Threads DEF Next, CallerStep, WorkerStep
<1> QED
  BY <1>1, <1>2, InitIInv, IInvStep, PTL DEF Spec
=============================================================================
