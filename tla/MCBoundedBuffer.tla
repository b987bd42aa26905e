-------------------------- MODULE MCBoundedBuffer --------------------------
(***************************************************************************)
(* A small instance of BoundedBuffer for TLC: every operation, with two    *)
(* threads at each end of the buffer.                                      *)
(***************************************************************************)
EXTENDS BoundedBuffer, TLC

MayCall ==
    (1 :> {"pop_with_wait", "push_with_wait"} @@
     2 :> {"pop_with_timed_wait", "pop_with_haste", "push_with_timed_wait"} @@
     3 :> {"push_with_haste", "push_with_pop_on_full", "push_with_wait", "pop_with_wait"})
============================================================================
