----------------------------- MODULE CreditWindow -----------------------------
(***************************************************************************)
(* What flow control promises, in either direction of a stream: a sender   *)
(* numbers what it sends, a receiver takes it in or the network loses it,  *)
(* and at no moment is more than Room under way.  TxFlowControl and        *)
(* RxFlowControl implement it.                                             *)
(***************************************************************************)
EXTENDS Integers

CONSTANT Room

VARIABLES
    sent,   \* packets sent
    gone    \* packets taken in or lost

Init == sent = 0 /\ gone = 0

Send == sent - gone < Room /\ sent' = sent + 1 /\ UNCHANGED gone

Leave == gone < sent /\ gone' = gone + 1 /\ UNCHANGED sent

Next == Send \/ Leave

Spec == Init /\ [][Next]_<<sent, gone>>
===============================================================================
