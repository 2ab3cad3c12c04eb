------------------------------ MODULE WorkQueue ------------------------------
(***************************************************************************)
(* The thread pool of klib/WorkQueue.cpp: one deque of items shared by all *)
(* the calls of run_batch_job, workers that sleep on cv_ while it is       *)
(* empty, and one WorkCtl per call on which the caller sleeps until the    *)
(* last of its items has been counted.                                     *)
(*                                                                         *)
(* What the code does under mtx_ (or under the mtx of a WorkCtl) between   *)
(* two points where it lets the mutex go is one action.  A condition       *)
(* variable is the set of threads in state "waiting"; a notified thread is *)
(* "woken" and owns nothing until it gets the mutex back, and a waiting    *)
(* thread may wake up without being notified.                              *)
(***************************************************************************)
EXTENDS Integers, Sequences, FiniteSets

CONSTANTS Workers,   (* the thread ids 0 .. n_threads_ - 1                *)
          Batches,   (* the calls of run_batch_job, each made at most once*)
          NumItems   (* NumItems[b] is the argument num of the call b     *)

ASSUME WorkersAssumption == IsFiniteSet(Workers) /\ Workers # {}
ASSUME NumItemsAssumption == NumItems \in [Batches -> Nat]

VARIABLES
    owner,      (* the thread that owns the pool: is it started, or inside stop() *)
    running,    (* running_                                                       *)
    n_idle,     (* n_idle_                                                        *)
    deque,      (* deque_                                                         *)
    worker,     (* worker[w]: where the thread w is in _run                       *)
    item,       (* item[w]: the local variable `item` of _run                     *)
    caller,     (* caller[b]: where the call b is in run_batch_job                *)
    n_finished  (* n_finished[b]: n_finished of the WorkCtl of the call b         *)

queue == <<running, n_idle, deque>>
vars  == <<owner, queue, worker, item, caller, n_finished>>

Item  == [ctl : Batches, id : Nat]
NoItem == [ctl |-> "none", id |-> -1]

OwnerState  == {"stopped", "started", "joining"}
WorkerState == {"off", "ready", "waiting", "woken", "run", "count"}
CallerState == {"no", "check", "waiting", "woken", "returned"}

In(state) == {w \in Workers : worker[w] = state}

(* Threads that will evaluate the loop condition of _run as soon as they  *)
(* own mtx_.                                                              *)
Coming == In("ready") \cup In("woken")

Least(m, n) == IF m < n THEN m ELSE n

Init ==
    /\ owner = "stopped"
    /\ running = FALSE
    /\ n_idle = 0
    /\ deque = << >>
    /\ worker = [w \in Workers |-> "off"]
    /\ item = [w \in Workers |-> NoItem]
    /\ caller = [b \in Batches |-> "no"]
    /\ n_finished = [b \in Batches |-> 0]

------------------------------------------------------------------------------
(* The owner: start() and stop().                                         *)

start ==
    /\ owner = "stopped"
    /\ owner' = "started"
    /\ running' = TRUE
    /\ worker' = [w \in Workers |-> "ready"]
    /\ UNCHANGED <<n_idle, deque, item, caller, n_finished>>

(* Mutant: stop() clears running_ and notifies nobody.                    *)
stop_request_silent ==
    /\ owner = "started"
    /\ owner' = "joining"
    /\ running' = FALSE
    /\ UNCHANGED <<n_idle, deque, worker, item, caller, n_finished>>

(* The first half of stop(), under mtx_: notify_all.                      *)
stop_request ==
    /\ owner = "started"
    /\ owner' = "joining"
    /\ running' = FALSE
    /\ worker' = [w \in Workers |-> IF worker[w] = "waiting" THEN "woken" ELSE worker[w]]
    /\ UNCHANGED <<n_idle, deque, item, caller, n_finished>>

(* The second half: every thread has been joined.                         *)
stop_join ==
    /\ owner = "joining"
    /\ \A w \in Workers : worker[w] = "off"
    /\ owner' = "stopped"
    /\ UNCHANGED <<queue, worker, item, caller, n_finished>>

------------------------------------------------------------------------------
(* A worker: _run and _process.                                           *)

(* Mutant: a thread that comes back from cv_.wait does not decrement.     *)
IdleNeverDecremented(w) == n_idle

(* --n_idle_ of a thread that comes back from cv_.wait.                   *)
IdleAfterWakeup(w) == IF worker[w] = "woken" THEN n_idle - 1 ELSE n_idle

(* Mutant: ++n_idle_ before the while loop instead of inside it.          *)
wait_counted_once(w) ==
    /\ worker[w] \in {"ready", "woken"}
    /\ deque = << >>
    /\ running
    /\ n_idle' = IF worker[w] = "woken" THEN n_idle - 1 ELSE n_idle + 1
    /\ worker' = [worker EXCEPT ![w] = "waiting"]
    /\ UNCHANGED <<owner, running, deque, item, caller, n_finished>>

wait(w) ==
    /\ worker[w] \in {"ready", "woken"}
    /\ deque = << >>
    /\ running
    /\ n_idle' = IdleAfterWakeup(w) + 1
    /\ worker' = [worker EXCEPT ![w] = "waiting"]
    /\ UNCHANGED <<owner, running, deque, item, caller, n_finished>>

(* Mutant: the front is copied under mtx_ and popped by nobody.           *)
pop_copy_only(w) ==
    /\ worker[w] \in {"ready", "woken"}
    /\ deque # << >>
    /\ n_idle' = IdleAfterWakeup(w)
    /\ item' = [item EXCEPT ![w] = Head(deque)]
    /\ worker' = [worker EXCEPT ![w] = "run"]
    /\ UNCHANGED <<owner, running, deque, caller, n_finished>>

pop(w) ==
    /\ worker[w] \in {"ready", "woken"}
    /\ deque # << >>
    /\ n_idle' = IdleAfterWakeup(w)
    /\ item' = [item EXCEPT ![w] = Head(deque)]
    /\ deque' = Tail(deque)
    /\ worker' = [worker EXCEPT ![w] = "run"]
    /\ UNCHANGED <<owner, running, caller, n_finished>>

(* Mutant: a worker leaves its loop without looking at the deque.         *)
leave_at_once(w) ==
    /\ worker[w] \in {"ready", "woken"}
    /\ ~running
    /\ n_idle' = IdleAfterWakeup(w)
    /\ worker' = [worker EXCEPT ![w] = "off"]
    /\ UNCHANGED <<owner, running, deque, item, caller, n_finished>>

leave(w) ==
    /\ worker[w] \in {"ready", "woken"}
    /\ deque = << >>
    /\ ~running
    /\ n_idle' = IdleAfterWakeup(w)
    /\ worker' = [worker EXCEPT ![w] = "off"]
    /\ UNCHANGED <<owner, running, deque, item, caller, n_finished>>

spurious_wakeup(w) ==
    /\ worker[w] = "waiting"
    /\ worker' = [worker EXCEPT ![w] = "woken"]
    /\ UNCHANGED <<owner, queue, item, caller, n_finished>>

(* item.ctl->fn(tid, item.id) returns; no mutex is held.                  *)
run_fn(w) ==
    /\ worker[w] = "run"
    /\ worker' = [worker EXCEPT ![w] = "count"]
    /\ UNCHANGED <<owner, queue, item, caller, n_finished>>

(* Mutant: done() is evaluated before n_finished++.                       *)
finish_item_test_first(w) ==
    LET b == item[w].ctl
        done == n_finished[b] = NumItems[b]
    IN  /\ worker[w] = "count"
        /\ n_finished' = [n_finished EXCEPT ![b] = @ + 1]
        /\ caller' = IF done /\ caller[b] = "waiting"
                     THEN [caller EXCEPT ![b] = "woken"]
                     ELSE caller
        /\ worker' = [worker EXCEPT ![w] = "ready"]
        /\ item' = [item EXCEPT ![w] = NoItem]
        /\ UNCHANGED <<owner, queue>>

(* The rest of _process, under the mutex of the WorkCtl.                  *)
finish_item(w) ==
    LET b == item[w].ctl
        done == n_finished[b] + 1 = NumItems[b]
    IN  /\ worker[w] = "count"
        /\ n_finished' = [n_finished EXCEPT ![b] = @ + 1]
        /\ caller' = IF done /\ caller[b] = "waiting"
                     THEN [caller EXCEPT ![b] = "woken"]
                     ELSE caller
        /\ worker' = [worker EXCEPT ![w] = "ready"]
        /\ item' = [item EXCEPT ![w] = NoItem]
        /\ UNCHANGED <<owner, queue>>

------------------------------------------------------------------------------
(* A caller: run_batch_job.                                               *)

(* Mutant: the loop over the items starts at 1.                           *)
ItemsFromOne(b) == [k \in 1 .. NumItems[b] - 1 |-> [ctl |-> b, id |-> k]]

(* The items of one call, in the order in which they are pushed.          *)
ItemsOf(b) == [k \in 1 .. NumItems[b] |-> [ctl |-> b, id |-> k - 1]]

(* Mutant: one notify_one per call of run_batch_job, after the loop.      *)
submit_notify_one(b) ==
    /\ owner = "started"
    /\ caller[b] = "no"
    /\ deque' = deque \o ItemsOf(b)
    /\ \E notified \in SUBSET In("waiting") :
          /\ Cardinality(notified) =
                IF n_idle > 0 THEN Least(1, Cardinality(In("waiting"))) ELSE 0
          /\ worker' = [w \in Workers |-> IF w \in notified THEN "woken" ELSE worker[w]]
    /\ caller' = [caller EXCEPT ![b] = "check"]
    /\ UNCHANGED <<owner, running, n_idle, item, n_finished>>

(* The num calls of _add_nolock, under mtx_: each pushes its item and, if *)
(* it reads n_idle_ > 0, notifies one thread.  n_idle_ does not change    *)
(* while mtx_ is held, and the notified threads are distinct.  The callers*)
(* never call run_batch_job on a pool that stop() has been called on      *)
(* (CHECK(!threads.empty()) and the locks of ProgramRunnerMt).            *)
submit(b) ==
    /\ owner = "started"
    /\ caller[b] = "no"
    /\ deque' = deque \o ItemsOf(b)
    /\ \E notified \in SUBSET In("waiting") :
          /\ Cardinality(notified) =
                IF n_idle > 0 THEN Least(NumItems[b], Cardinality(In("waiting"))) ELSE 0
          /\ worker' = [w \in Workers |-> IF w \in notified THEN "woken" ELSE worker[w]]
    /\ caller' = [caller EXCEPT ![b] = "check"]
    /\ UNCHANGED <<owner, running, n_idle, item, n_finished>>

(* while (!ctl->done()) ctl->cv.wait(lock), under the mutex of the WorkCtl*)
wait_done(b) ==
    /\ caller[b] \in {"check", "woken"}
    /\ n_finished[b] # NumItems[b]
    /\ caller' = [caller EXCEPT ![b] = "waiting"]
    /\ UNCHANGED <<owner, queue, worker, item, n_finished>>

(* Mutant: if (!ctl->done()) ctl->cv.wait(lock), not while.               *)
return_unchecked(b) ==
    /\ \/ caller[b] = "check" /\ n_finished[b] = NumItems[b]
       \/ caller[b] = "woken"
    /\ caller' = [caller EXCEPT ![b] = "returned"]
    /\ UNCHANGED <<owner, queue, worker, item, n_finished>>

return(b) ==
    /\ caller[b] \in {"check", "woken"}
    /\ n_finished[b] = NumItems[b]
    /\ caller' = [caller EXCEPT ![b] = "returned"]
    /\ UNCHANGED <<owner, queue, worker, item, n_finished>>

spurious_wakeup_caller(b) ==
    /\ caller[b] = "waiting"
    /\ caller' = [caller EXCEPT ![b] = "woken"]
    /\ UNCHANGED <<owner, queue, worker, item, n_finished>>

------------------------------------------------------------------------------
WorkerStep(w) == wait(w) \/ pop(w) \/ leave(w) \/ run_fn(w) \/ finish_item(w)
CallerStep(b) == wait_done(b) \/ return(b)

Next ==
    \/ start \/ stop_request \/ stop_join
    \/ \E w \in Workers : WorkerStep(w) \/ spurious_wakeup(w)
    \/ \E b \in Batches : submit(b) \/ CallerStep(b) \/ spurious_wakeup_caller(b)

(* A thread that can run does run (the mutexes are free between any two   *)
(* actions), fn returns, and the owner goes on once the threads it joins  *)
(* have ended.  Nobody has to call run_batch_job, start or stop, and the  *)
(* spurious wakeups may never come.                                       *)
Fairness ==
    /\ \A w \in Workers : WF_vars(WorkerStep(w))
    /\ \A b \in Batches : WF_vars(CallerStep(b))
    /\ WF_vars(stop_join)

Spec == Init /\ [][Next]_vars /\ Fairness

------------------------------------------------------------------------------
(* Properties.                                                            *)

Busy == In("run") \cup In("count")

(* The type invariant.                                                    *)
TypeOK ==
    /\ owner \in OwnerState
    /\ running \in BOOLEAN
    /\ n_idle \in 0 .. Cardinality(Workers)
    /\ deque \in Seq(Item)
    /\ worker \in [Workers -> WorkerState]
    /\ item \in [Workers -> Item \cup {NoItem}]
    /\ caller \in [Batches -> CallerState]
    /\ n_finished \in [Batches -> Nat]

(* No item is in two places: twice in the deque, in the hands of two      *)
(* workers, or queued and in somebody's hands (WorkQueue.cpp:61-67, where *)
(* a worker copies the front, pops it and gives mtx_ back).               *)
NoItemTwice ==
    /\ \A j, k \in 1 .. Len(deque) : deque[j] = deque[k] => j = k
    /\ \A v, w \in Busy : item[v] = item[w] => v = w
    /\ \A k \in 1 .. Len(deque), w \in Busy : deque[k] # item[w]

QueuedIds(b) == {deque[k].id : k \in {j \in 1 .. Len(deque) : deque[j].ctl = b}}
HeldIds(b) == {item[w].id : w \in {v \in Busy : item[v].ctl = b}}
Outstanding(b) == QueuedIds(b) \cup HeldIds(b)

(* Nothing is lost and nothing is counted early: the items of a call that *)
(* are neither queued nor in a worker's hands are exactly as many as its  *)
(* n_finished says (the deque and the WorkCtl are guarded by different    *)
(* mutexes, WorkQueue.cpp:81-88 and 93-96).                               *)
ItemsAccounted ==
    \A b \in Batches :
        /\ Outstanding(b) \subseteq 0 .. NumItems[b] - 1
        /\ caller[b] = "no" => Outstanding(b) = {} /\ n_finished[b] = 0
        /\ caller[b] # "no" => n_finished[b] + Cardinality(Outstanding(b)) = NumItems[b]

(* When run_batch_job has returned, no worker will run fn again or touch  *)
(* its WorkCtl: fn captures the caller's locals by reference              *)
(* (ProgramRunnerMt.cpp:139-149), so a worker still at work would write   *)
(* into a dead stack frame.                                               *)
ReturnedIsOver ==
    \A b \in Batches : caller[b] = "returned" => Outstanding(b) = {}

(* n_idle_ is the number of threads inside cv_.wait, the notified ones    *)
(* that do not own mtx_ yet included.                                     *)
IdleCounted == n_idle = Cardinality(In("waiting") \cup In("woken"))

(* No lost wakeup, although _add_nolock notifies only if n_idle_ > 0 and  *)
(* may notify a set of threads that is already awake: while a worker      *)
(* sleeps, at least as many threads are on their way to the deque as it   *)
(* holds items.                                                           *)
NoSleeperNeeded ==
    In("waiting") # {} => Cardinality(Coming) >= Len(deque)

(* stop() leaves nothing behind: when it has joined the threads, every    *)
(* item that was ever added has been run and counted, so that every call  *)
(* made before stop() can return.                                         *)
StopDrains ==
    owner = "stopped" =>
        /\ deque = << >>
        /\ n_idle = 0
        /\ \A b \in Batches : caller[b] # "no" => n_finished[b] = NumItems[b]

(* stop() returns: no worker sleeps through the notify_all of stop() and  *)
(* none is stuck in its loop once running_ is FALSE.                      *)
StopReturns == owner = "joining" ~> owner = "stopped"

(* The pool keeps the promise of run_batch_job: an item counts as run when*)
(* its fn has returned.                                                   *)
Called == [b \in Batches |->
             CASE caller[b] = "no" -> "no"
               [] caller[b] = "returned" -> "returned"
               [] OTHER -> "active"]

BeingRun(b) == {item[w].id : w \in {v \in In("run") : item[v].ctl = b}}

Executed == [b \in Batches |->
               IF caller[b] = "no" THEN {}
               ELSE (0 .. NumItems[b] - 1) \ (QueuedIds(b) \cup BeingRun(b))]

Promise == INSTANCE BatchJobs WITH called <- Called, executed <- Executed

(* Each item of a call is run exactly once, and the call returns when, and*)
(* only when, all of them have been (safety and liveness).                *)
ImplementsBatchJobs == Promise!Spec
==============================================================================
