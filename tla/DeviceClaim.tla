------------------------------ MODULE DeviceClaim ------------------------------
(***************************************************************************)
(* Claims of an X300 by the processes of its hosts: is_claimed(),          *)
(* claimer_loop() and the destructor in host/lib/usrp/x300/x300_impl.cpp,  *)
(* and handle_claim() in firmware/x300/x300/x300_main.c.                   *)
(*                                                                         *)
(* A claim is two words in the memory of the firmware: a time, written     *)
(* every second, and the hash of the process.  Every millisecond the       *)
(* firmware derives a third word from the time: whether the device is      *)
(* claimed.  Peeks and pokes are steps of their own: claimer_mutex does    *)
(* not exclude them, since boost::mutex::scoped_lock(claimer_mutex)        *)
(* declares a lock of that name, without a mutex.                          *)
(*                                                                         *)
(* A tick is the firmware's, and stands for as many milliseconds as one    *)
(* likes; a claimer thread is late by no more than Slack ticks.            *)
(*                                                                         *)
(* Operators named Bug* are faults that the properties are there to catch; *)
(* no behaviour of Spec uses them.                                         *)
(***************************************************************************)
EXTENDS Integers

CONSTANTS
    Processes,  \* by their hash
    Nobody,     \* the hash 0
    Second,     \* ticks in a second, the period of a claimer
    Timeout,    \* ticks after which a claim has timed out: two seconds
    Slack,      \* ticks that a claimer may be late
    MaxTime,    \* bound: ticks
    MaxOpens    \* bound: how often the device is opened

ConstantsAssumption ==
    /\ {Second, Timeout, MaxTime} \subseteq Nat \ {0}
    /\ {Slack, MaxOpens} \subseteq Nat
    /\ Second + 2 * Slack <= Timeout
    /\ Nobody \notin Processes

VARIABLES
    now,         \* ticks since the device was switched on
    claimTime,   \* shmem[X300_FW_SHMEM_CLAIM_TIME]
    claimSrc,    \* shmem[X300_FW_SHMEM_CLAIM_SRC]
    claimed,     \* shmem[X300_FW_SHMEM_CLAIM_STATUS] # 0
    lastTime,    \* last_time of handle_claim()
    timeout,     \* timeout of handle_claim(), not beyond Timeout + 1
    claimer,     \* of each process: "off", "time" or "src" (its next poke), "closing"
    wake,        \* when it writes again
    check,       \* is_claimed() in each process: "idle", or "src" after the first peek
    free,        \* whether the process has found the device unclaimed
    opens,       \* how often the device has been opened
    quiet,       \* history: ticks since each process claimed, or another one wrote
    idle         \* history: ticks since there was a claimer

firmware == <<now, claimed, lastTime, timeout>>
history == <<quiet, idle>>
vars == <<now, claimTime, claimSrc, claimed, lastTime, timeout, claimer, wake,
          check, free, opens, history>>

\* By then a claimer has written twice, and the firmware has seen it.  A first time
\* that is the same second as another process's leaves the firmware's count as it is.
Settled == 2 * (Second + Slack)

Init ==
    /\ now = 0
    /\ claimTime = 0 /\ claimSrc = Nobody /\ claimed = FALSE
    /\ lastTime = 0 /\ timeout = 0
    /\ claimer = [p \in Processes |-> "off"] /\ wake = [p \in Processes |-> 0]
    /\ check = [p \in Processes |-> "idle"] /\ free = [p \in Processes |-> FALSE]
    /\ opens = 0
    /\ quiet = [p \in Processes |-> 0] /\ idle = 0

-----------------------------------------------------------------------------
(* The firmware.                                                           *)

\* Any time but 0 is a claim, also one that has timed out.
BugHandleClaim ==
    /\ claimed' = (claimTime # 0)
    /\ timeout' = 0
    /\ lastTime' = claimTime

\* A renewed claim does not start the count anew.
BugRenewals ==
    /\ timeout' = IF claimTime = lastTime /\ timeout <= Timeout THEN timeout + 1 ELSE timeout
    /\ claimed' = (claimTime # 0 /\ timeout' <= Timeout)
    /\ lastTime' = claimTime

\* handle_claim()
HandleClaim ==
    /\ timeout' = CASE claimTime = 0        -> timeout
                    [] claimTime = lastTime -> IF timeout > Timeout THEN timeout ELSE timeout + 1
                    [] OTHER                -> 0
    /\ claimed' = /\ claimTime # 0
                  /\ claimed \/ claimTime # lastTime
                  /\ timeout' <= Timeout
    /\ lastTime' = claimTime

Off == \A p \in Processes : claimer[p] = "off"

Tick ==
    /\ now < MaxTime
    /\ \A p \in Processes : claimer[p] \in {"time", "src"} => now < wake[p] + Slack
    /\ now' = now + 1
    /\ HandleClaim
    /\ quiet' = [p \in Processes |->
                    IF claimer[p] \in {"time", "src"} /\ quiet[p] < Settled
                    THEN quiet[p] + 1 ELSE quiet[p]]
    /\ idle' = IF Off /\ idle <= Timeout + 1 THEN idle + 1 ELSE idle
    /\ UNCHANGED <<claimTime, claimSrc, claimer, wake, check, free, opens>>

-----------------------------------------------------------------------------
(* The processes.                                                          *)

\* What a write of p is to the claims of the others
Disturbed(p) == [q \in Processes |-> IF q = p THEN quiet[q] ELSE 0]

\* The first peek of is_claimed(); a process that has the device open learns nothing.
CheckStatus(p) ==
    /\ claimer[p] = "off" /\ check[p] = "idle" /\ ~free[p]
    /\ IF claimed
       THEN check' = [check EXCEPT ![p] = "src"] /\ UNCHANGED free
       ELSE free' = [free EXCEPT ![p] = TRUE] /\ UNCHANGED check
    /\ UNCHANGED <<firmware, claimTime, claimSrc, claimer, wake, opens, history>>

\* The second one: the process itself may have claimed the device.
CheckSource(p) ==
    /\ check[p] = "src"
    /\ check' = [check EXCEPT ![p] = "idle"]
    /\ free' = [free EXCEPT ![p] = claimSrc = p]
    /\ UNCHANGED <<firmware, claimTime, claimSrc, claimer, wake, opens, history>>

\* setup_mb() starts the claimer of a device that has been found unclaimed.
Open(p) ==
    /\ claimer[p] = "off" /\ free[p] /\ opens < MaxOpens
    /\ claimer' = [claimer EXCEPT ![p] = "time"]
    /\ wake' = [wake EXCEPT ![p] = now]
    /\ opens' = opens + 1
    /\ quiet' = [quiet EXCEPT ![p] = 0]
    /\ idle' = 0
    /\ UNCHANGED <<firmware, claimTime, claimSrc, check, free>>

\* claimer_loop(): the time is in whole seconds.
ClaimTime(p) ==
    /\ claimer[p] = "time" /\ wake[p] <= now
    /\ claimTime' = (now \div Second) + 1
    /\ claimer' = [claimer EXCEPT ![p] = "src"]
    /\ quiet' = Disturbed(p)
    /\ UNCHANGED <<firmware, claimSrc, wake, check, free, opens, idle>>

ClaimSource(p) ==
    /\ claimer[p] = "src"
    /\ claimSrc' = p
    /\ claimer' = [claimer EXCEPT ![p] = "time"]
    /\ wake' = [wake EXCEPT ![p] = now + Second]
    /\ quiet' = Disturbed(p)
    /\ UNCHANGED <<firmware, claimTime, check, free, opens, idle>>

\* The destructor ends the claimer in its sleep, and gives up a claim that may have
\* become another process's.
CloseTime(p) ==
    /\ claimer[p] = "time"
    /\ claimTime' = 0
    /\ claimer' = [claimer EXCEPT ![p] = "closing"]
    /\ quiet' = Disturbed(p)
    /\ UNCHANGED <<firmware, claimSrc, wake, check, free, opens, idle>>

CloseSource(p) ==
    /\ claimer[p] = "closing"
    /\ claimSrc' = Nobody
    /\ claimer' = [claimer EXCEPT ![p] = "off"]
    /\ wake' = [wake EXCEPT ![p] = 0]
    /\ free' = [free EXCEPT ![p] = FALSE]
    /\ quiet' = [Disturbed(p) EXCEPT ![p] = 0]
    /\ UNCHANGED <<firmware, claimTime, check, opens, idle>>

\* The process is killed, or a poke fails three times and the task ends.
Crash(p) ==
    /\ claimer[p] # "off"
    /\ claimer' = [claimer EXCEPT ![p] = "off"]
    /\ wake' = [wake EXCEPT ![p] = 0]
    /\ check' = [check EXCEPT ![p] = "idle"]
    /\ free' = [free EXCEPT ![p] = FALSE]
    /\ quiet' = [quiet EXCEPT ![p] = 0]
    /\ UNCHANGED <<firmware, claimTime, claimSrc, opens, idle>>

Next ==
    \/ Tick
    \/ \E p \in Processes :
           \/ CheckStatus(p) \/ CheckSource(p)
           \/ Open(p) \/ ClaimTime(p) \/ ClaimSource(p)
           \/ CloseTime(p) \/ CloseSource(p) \/ Crash(p)

Spec == Init /\ [][Next]_vars

-----------------------------------------------------------------------------
(* Properties.                                                             *)

\* A process whose claimer runs and whom no other process disturbs holds the claim:
\* it is renewed before it times out, although the time is in whole seconds and the
\* firmware's count may have begun before, with another process's claim.
ClaimHeld ==
    \A p \in Processes :
        claimer[p] \in {"time", "src"} /\ quiet[p] >= Settled => claimed /\ claimSrc = p

\* A device that nobody uses becomes free, also after a crash between two pokes.
Expires == Off /\ idle > Timeout + 1 => ~claimed
=============================================================================
