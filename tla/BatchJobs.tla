------------------------------ MODULE BatchJobs ------------------------------
(***************************************************************************)
(* What klib/WorkQueue.h promises its callers: a call of run_batch_job has *)
(* each of its items run exactly once, in any order and by anybody, and    *)
(* returns when, and only when, the last of them has been run.             *)
(* WorkQueue.tla, the thread pool that does it, is shown to implement this.*)
(***************************************************************************)
EXTENDS Naturals

CONSTANTS Batches,   (* the calls of run_batch_job                        *)
          NumItems   (* NumItems[b] is the argument num of the call b     *)

VARIABLES called,    (* called[b]: where the call b is                    *)
          executed   (* executed[b]: the items of b whose fn has returned *)

vars == <<called, executed>>

Items(b) == 0 .. NumItems[b] - 1

Init == /\ called = [b \in Batches |-> "no"]
        /\ executed = [b \in Batches |-> {}]

Call(b) == /\ called[b] = "no"
           /\ called' = [called EXCEPT ![b] = "active"]
           /\ UNCHANGED executed

Execute(b) == /\ called[b] = "active"
              /\ \E i \in Items(b) \ executed[b] :
                    executed' = [executed EXCEPT ![b] = @ \cup {i}]
              /\ UNCHANGED called

Return(b) == /\ called[b] = "active"
             /\ executed[b] = Items(b)
             /\ called' = [called EXCEPT ![b] = "returned"]
             /\ UNCHANGED executed

Next == \E b \in Batches : Call(b) \/ Execute(b) \/ Return(b)

Spec == /\ Init /\ [][Next]_vars
        /\ \A b \in Batches : WF_vars(Execute(b) \/ Return(b))
==============================================================================
