----------------------------- MODULE WorkQueueMC -----------------------------
(* Three threads and calls of two, two and no items: more items than threads*)
(* (a call finds threads asleep, busy or awake and on their way), two calls  *)
(* whose items mix in the deque, and the call that has nothing to do.       *)
EXTENDS WorkQueue, TLC

CONSTANTS w1, w2, w3, b1, b2, b3

MCWorkers == {w1, w2, w3}
MCBatches == {b1, b2, b3}
MCNumItems == (b1 :> 2) @@ (b2 :> 2) @@ (b3 :> 0)
==============================================================================
