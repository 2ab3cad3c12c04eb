--------------------------- MODULE WorkQueueProofs ---------------------------
(***************************************************************************)
(* Proofs about WorkQueue for every finite set of workers, every set of    *)
(* calls and every number of items.                                        *)
(***************************************************************************)
EXTENDS WorkQueue, FiniteSetTheorems, SequenceTheorems, TLAPS

(* TypeOK without the bound on n_idle, which follows from IdleCounted.    *)
Typed ==
    /\ owner \in OwnerState
    /\ running \in BOOLEAN
    /\ n_idle \in Int
    /\ deque \in Seq(Item)
    /\ worker \in [Workers -> WorkerState]
    /\ item \in [Workers -> Item \cup {NoItem}]
    /\ caller \in [Batches -> CallerState]
    /\ n_finished \in [Batches -> Nat]

(* A worker has an item exactly while it runs or counts it.               *)
HeldIsItem == \A w \in Workers : item[w] \in Item <=> w \in Busy

Idle == In("waiting") \cup In("woken")

------------------------------------------------------------------------------
(* Facts about the sets of threads and the items of a call.               *)

LEMMA InFinite ==
    ASSUME NEW S, S \subseteq Workers
    PROVE  IsFiniteSet(S) /\ Cardinality(S) \in Nat /\ Cardinality(S) <= Cardinality(Workers)
BY WorkersAssumption, FS_Subset, FS_CardinalityType

LEMMA NoItemIsNoItem == NoItem \notin Item
BY DEF NoItem, Item

LEMMA ItemsOfType ==
    ASSUME NEW b \in Batches
    PROVE  /\ NumItems[b] \in Nat
           /\ ItemsOf(b) \in Seq(Item)
           /\ Len(ItemsOf(b)) = NumItems[b]
           /\ \A k \in 1 .. NumItems[b] : ItemsOf(b)[k] = [ctl |-> b, id |-> k - 1]
<1>1. NumItems[b] \in Nat
  BY NumItemsAssumption
<1>2. \A k \in 1 .. NumItems[b] : [ctl |-> b, id |-> k - 1] \in Item
  BY <1>1 DEF Item
<1>3. ItemsOf(b) \in Seq(Item)
  BY <1>1, <1>2, IsASeq DEF ItemsOf
<1>4. DOMAIN ItemsOf(b) = 1 .. NumItems[b]
  BY DEF ItemsOf
<1>5. Len(ItemsOf(b)) = NumItems[b]
  BY <1>1, <1>3, <1>4, LenProperties
<1> QED
  BY <1>1, <1>3, <1>5 DEF ItemsOf

------------------------------------------------------------------------------
(* Type correctness.                                                      *)

LEMMA TypedInit == Init => Typed
<1>1. << >> \in Seq(Item)
  BY EmptySeq
<1> SUFFICES ASSUME Init PROVE Typed
  OBVIOUS
<1>2. owner \in OwnerState /\ running \in BOOLEAN
  BY DEF Init, OwnerState
<1>3. n_idle \in Int
  BY DEF Init
<1>4. deque \in Seq(Item)
  BY <1>1 DEF Init
<1>5. worker \in [Workers -> WorkerState] /\ item \in [Workers -> Item \cup {NoItem}]
  BY DEF Init, WorkerState
<1>6. caller \in [Batches -> CallerState] /\ n_finished \in [Batches -> Nat]
  BY DEF Init, CallerState
<1> QED
  BY <1>2, <1>3, <1>4, <1>5, <1>6 DEF Typed

LEMMA TypedNext == Typed /\ HeldIsItem /\ [Next]_vars => Typed'
<1> SUFFICES ASSUME Typed, HeldIsItem, [Next]_vars PROVE Typed'
  OBVIOUS
<1> USE DEF Typed, OwnerState, WorkerState, CallerState
<1>1. CASE start
  BY <1>1 DEF start
<1>2. CASE stop_request
  BY <1>2 DEF stop_request
<1>3. CASE stop_join
  BY <1>3 DEF stop_join, queue
<1>4. ASSUME NEW w \in Workers, wait(w) PROVE Typed'
  BY <1>4 DEF wait, IdleAfterWakeup
<1>5. ASSUME NEW w \in Workers, pop(w) PROVE Typed'
  <2>1. Head(deque) \in Item /\ Tail(deque) \in Seq(Item)
    BY <1>5, HeadTailProperties DEF pop
  <2> QED
    BY <1>5, <2>1 DEF pop, IdleAfterWakeup
<1>6. ASSUME NEW w \in Workers, leave(w) PROVE Typed'
  BY <1>6 DEF leave, IdleAfterWakeup
<1>7. ASSUME NEW w \in Workers, spurious_wakeup(w) PROVE Typed'
  BY <1>7 DEF spurious_wakeup, queue
<1>8. ASSUME NEW w \in Workers, run_fn(w) PROVE Typed'
  BY <1>8 DEF run_fn, queue
<1>9. ASSUME NEW w \in Workers, finish_item(w) PROVE Typed'
  <2>1. item[w].ctl \in Batches
    BY <1>9 DEF finish_item, HeldIsItem, Busy, In, Item
  <2> QED
    BY <1>9, <2>1 DEF finish_item, queue
<1>10. ASSUME NEW b \in Batches, submit(b) PROVE Typed'
  <2>1. deque \o ItemsOf(b) \in Seq(Item)
    BY ItemsOfType, ConcatProperties
  <2> QED
    BY <1>10, <2>1 DEF submit
<1>11. ASSUME NEW b \in Batches, wait_done(b) PROVE Typed'
  BY <1>11 DEF wait_done, queue
<1>12. ASSUME NEW b \in Batches, return(b) PROVE Typed'
  BY <1>12 DEF return, queue
<1>13. ASSUME NEW b \in Batches, spurious_wakeup_caller(b) PROVE Typed'
  BY <1>13 DEF spurious_wakeup_caller, queue
<1>14. CASE UNCHANGED vars
  BY <1>14 DEF vars, queue
<1> QED
  BY <1>1, <1>2, <1>3, <1>4, <1>5, <1>6, <1>7, <1>8, <1>9, <1>10, <1>11, <1>12, <1>13, <1>14
     DEF Next, WorkerStep, CallerStep

------------------------------------------------------------------------------
(* The owner, and who may be asleep or gone.                              *)

OwnerInv ==
    /\ running = (owner = "started")
    /\ owner = "stopped" => \A w \in Workers : worker[w] = "off"
    /\ owner = "started" => \A w \in Workers : worker[w] # "off"
    /\ ~running => \A w \in Workers : worker[w] # "waiting"
    /\ (\E w \in Workers : worker[w] = "off") => deque = << >>

Control == Typed /\ HeldIsItem /\ OwnerInv

LEMMA ControlInit == Init => Control
<1>1. Init => HeldIsItem /\ OwnerInv
  BY NoItemIsNoItem DEF Init, HeldIsItem, OwnerInv, Busy, In
<1> QED
  BY <1>1, TypedInit DEF Control

LEMMA ControlNext == Control /\ [Next]_vars => Control'
<1> SUFFICES ASSUME Control, [Next]_vars PROVE HeldIsItem' /\ OwnerInv'
  BY TypedNext DEF Control
<1> USE NoItemIsNoItem DEF Control, Typed, HeldIsItem, OwnerInv, Busy, In,
                           OwnerState, WorkerState, CallerState
<1>1. CASE start
  BY <1>1, WorkersAssumption DEF start
<1>2. CASE stop_request
  BY <1>2 DEF stop_request
<1>3. CASE stop_join
  BY <1>3 DEF stop_join, queue
<1>4. ASSUME NEW w \in Workers, wait(w) PROVE HeldIsItem' /\ OwnerInv'
  BY <1>4 DEF wait
<1>5. ASSUME NEW w \in Workers, pop(w) PROVE HeldIsItem' /\ OwnerInv'
  <2>1. Head(deque) \in Item
    BY <1>5, HeadTailProperties DEF pop
  <2> QED
    BY <1>5, <2>1 DEF pop
<1>6. ASSUME NEW w \in Workers, leave(w) PROVE HeldIsItem' /\ OwnerInv'
  BY <1>6 DEF leave
<1>7. ASSUME NEW w \in Workers, spurious_wakeup(w) PROVE HeldIsItem' /\ OwnerInv'
  BY <1>7 DEF spurious_wakeup, queue
<1>8. ASSUME NEW w \in Workers, run_fn(w) PROVE HeldIsItem' /\ OwnerInv'
  BY <1>8 DEF run_fn, queue
<1>9. ASSUME NEW w \in Workers, finish_item(w) PROVE HeldIsItem' /\ OwnerInv'
  BY <1>9 DEF finish_item, queue
<1>10. ASSUME NEW b \in Batches, submit(b) PROVE HeldIsItem' /\ OwnerInv'
  BY <1>10 DEF submit
<1>11. ASSUME NEW b \in Batches, wait_done(b) \/ return(b) \/ spurious_wakeup_caller(b)
       PROVE HeldIsItem' /\ OwnerInv'
  BY <1>11 DEF wait_done, return, spurious_wakeup_caller, queue
<1>12. CASE UNCHANGED vars
  BY <1>12 DEF vars, queue
<1> QED
  BY <1>1, <1>2, <1>3, <1>4, <1>5, <1>6, <1>7, <1>8, <1>9, <1>10, <1>11, <1>12
     DEF Next, WorkerStep, CallerStep

------------------------------------------------------------------------------
(* n_idle_ counts the threads inside cv_.wait.                            *)

LEMMA IdleNext ==
    ASSUME Control, IdleCounted, [Next]_vars
    PROVE  IdleCounted'
<1> USE DEF Control, Typed, OwnerInv, IdleCounted, WorkerState
<1> SUFFICES n_idle' = Cardinality(Idle')
  BY DEF Idle
<1>0. IsFiniteSet(Idle) /\ Cardinality(Idle) \in Nat /\ n_idle = Cardinality(Idle)
  BY InFinite DEF Idle, In
<1>1. CASE start
  <2>1. Idle = {} /\ Idle' = {}
    BY <1>1 DEF start, Idle, In
  <2> QED
    BY <1>0, <1>1, <2>1 DEF start
<1>2. ASSUME Idle' = Idle, n_idle' = n_idle PROVE n_idle' = Cardinality(Idle')
  BY <1>0, <1>2
<1>3. ASSUME NEW w \in Workers, wait(w) PROVE n_idle' = Cardinality(Idle')
  <2>1. Idle' = Idle \cup {w}
    BY <1>3 DEF wait, Idle, In
  <2>2. w \in Idle <=> worker[w] = "woken"
    BY <1>3 DEF wait, Idle, In
  <2>3. n_idle' = IF w \in Idle THEN n_idle ELSE n_idle + 1
    BY <1>0, <1>3, <2>2 DEF wait, IdleAfterWakeup
  <2>4. Cardinality(Idle \cup {w}) =
            IF w \in Idle THEN Cardinality(Idle) ELSE Cardinality(Idle) + 1
    BY <1>0, FS_AddElement
  <2> QED
    BY <1>0, <2>1, <2>3, <2>4
<1>4. ASSUME NEW w \in Workers, pop(w) \/ leave(w) PROVE n_idle' = Cardinality(Idle')
  <2>1. Idle' = Idle \ {w}
    BY <1>4 DEF pop, leave, Idle, In
  <2>2. w \in Idle <=> worker[w] = "woken"
    BY <1>4 DEF pop, leave, Idle, In
  <2>3. n_idle' = IF w \in Idle THEN n_idle - 1 ELSE n_idle
    BY <1>4, <2>2 DEF pop, leave, IdleAfterWakeup
  <2> QED
    BY <1>0, <2>1, <2>3, FS_RemoveElement
<1>5. CASE stop_request
  BY <1>2, <1>5 DEF stop_request, Idle, In
<1>6. CASE stop_join
  BY <1>2, <1>6 DEF stop_join, Idle, In, queue
<1>7. ASSUME NEW w \in Workers, spurious_wakeup(w) PROVE n_idle' = Cardinality(Idle')
  BY <1>2, <1>7 DEF spurious_wakeup, Idle, In, queue
<1>8. ASSUME NEW w \in Workers, run_fn(w) \/ finish_item(w) PROVE n_idle' = Cardinality(Idle')
  BY <1>2, <1>8 DEF run_fn, finish_item, Idle, In, queue
<1>9. ASSUME NEW b \in Batches, submit(b) PROVE n_idle' = Cardinality(Idle')
  <2>1. Idle' = Idle
    BY <1>9 DEF submit, Idle, In
  <2> QED
    BY <1>2, <1>9, <2>1 DEF submit
<1>10. ASSUME NEW b \in Batches, wait_done(b) \/ return(b) \/ spurious_wakeup_caller(b)
       PROVE n_idle' = Cardinality(Idle')
  BY <1>2, <1>10 DEF wait_done, return, spurious_wakeup_caller, Idle, In, queue
<1>11. CASE UNCHANGED vars
  BY <1>2, <1>11 DEF vars, queue, Idle, In
<1> QED
  BY <1>1, <1>3, <1>4, <1>5, <1>6, <1>7, <1>8, <1>9, <1>10, <1>11
     DEF Next, WorkerStep, CallerStep

Base == Control /\ IdleCounted

LEMMA BaseInit == Init => Base
<1>1. Init => In("waiting") \cup In("woken") = {}
  BY DEF Init, In
<1> QED
  BY <1>1, ControlInit, FS_EmptySet DEF Init, IdleCounted, Base

LEMMA BaseNext == Base /\ [Next]_vars => Base'
BY ControlNext, IdleNext DEF Base

(* The pool keeps its types: in particular n_idle_ never leaves the range *)
(* 0 .. n_threads_, whatever wakes its threads up.                        *)
THEOREM TypeCorrect == Spec => []TypeOK
<1>1. Base => TypeOK
  <2> SUFFICES ASSUME Base PROVE n_idle \in 0 .. Cardinality(Workers)
    BY DEF Base, Control, Typed, TypeOK
  <2>1. In("waiting") \cup In("woken") \subseteq Workers
    BY DEF In
  <2> QED
    BY <2>1, InFinite DEF Base, IdleCounted
<1> QED
  BY <1>1, BaseInit, BaseNext, PTL DEF Spec

(* n_idle_ is the number of threads inside cv_.wait.                      *)
THEOREM IdleCountCorrect == Spec => []IdleCounted
<1>1. Base => IdleCounted
  BY DEF Base
<1> QED
  BY <1>1, BaseInit, BaseNext, PTL DEF Spec

------------------------------------------------------------------------------
(* Where the items are: the accounting that makes run_batch_job return    *)
(* exactly when it should.                                                *)

Places == NoItemTwice /\ ItemsAccounted

(* The invariant also knows that a call that has returned was done.       *)
ReturnedDone == \A b \in Batches : caller[b] = "returned" => n_finished[b] = NumItems[b]

Accounting == Places /\ ReturnedDone

(* i is outstanding if it is queued, or in the hands of a worker.         *)
LEMMA OutstandingMember ==
    ASSUME NEW b, NEW i
    PROVE  i \in Outstanding(b) <=>
             \/ \E k \in 1 .. Len(deque) : deque[k].ctl = b /\ deque[k].id = i
             \/ \E w \in Busy : item[w].ctl = b /\ item[w].id = i
BY DEF Outstanding, QueuedIds, HeldIds

LEMMA OutstandingFinite ==
    ASSUME NEW b \in Batches, ItemsAccounted
    PROVE  IsFiniteSet(Outstanding(b)) /\ Cardinality(Outstanding(b)) \in Nat
<1>1. IsFiniteSet(0 .. NumItems[b] - 1)
  BY NumItemsAssumption, FS_Interval
<1>2. Outstanding(b) \in SUBSET (0 .. NumItems[b] - 1)
  BY DEF ItemsAccounted
<1> QED
  BY <1>1, <1>2, FS_Subset, FS_CardinalityType

(* Steps that leave the deque, the items at work and the counts alone.    *)
LEMMA PlacesUntouched ==
    ASSUME Places,
           deque' = deque, Busy' = Busy, item' = item, n_finished' = n_finished,
           \A b \in Batches : caller'[b] = "no" <=> caller[b] = "no"
    PROVE  Places'
<1>1. NoItemTwice'
  BY DEF Places, NoItemTwice
<1>2. \A b : Outstanding(b)' = Outstanding(b)
  BY DEF Outstanding, QueuedIds, HeldIds
<1> QED
  BY <1>1, <1>2 DEF Places, ItemsAccounted

(* The front of the deque is the only item that a pop takes out of it.    *)
LEMMA PopQueued ==
    ASSUME Typed, NEW w \in Workers, pop(w), NEW b \in Batches
    PROVE  QueuedIds(b) = QueuedIds(b)' \cup {deque[k].id : k \in {j \in {1} : deque[j].ctl = b}}
<1>1. /\ Len(deque) \in Nat /\ Len(deque) >= 1
      /\ Len(deque') = Len(deque) - 1
      /\ \A k \in 1 .. Len(deque') : deque'[k] = deque[k + 1]
  BY HeadTailProperties, EmptySeq, LenProperties DEF pop, Typed
<1>2. \A k \in 1 .. Len(deque) : k = 1 \/ (k - 1 \in 1 .. Len(deque') /\ deque'[k - 1] = deque[k])
  BY <1>1
<1>3. \A k \in 1 .. Len(deque') : k + 1 \in 1 .. Len(deque) /\ deque'[k] = deque[k + 1]
  BY <1>1
<1>4. 1 \in 1 .. Len(deque)
  BY <1>1
<1>5. ASSUME NEW i \in QueuedIds(b)
      PROVE  i \in QueuedIds(b)' \cup {deque[k].id : k \in {j \in {1} : deque[j].ctl = b}}
  BY <1>2 DEF QueuedIds
<1>6. QueuedIds(b)' \subseteq QueuedIds(b)
  BY <1>3 DEF QueuedIds
<1> QED
  BY <1>4, <1>5, <1>6 DEF QueuedIds

(* A worker takes the front of the deque.                                 *)
LEMMA PlacesPop ==
    ASSUME Control, Places, NEW w \in Workers, pop(w)
    PROVE  Places'
<1> USE DEF Control, Typed
<1>1. /\ Len(deque) \in Nat /\ Len(deque) >= 1
      /\ Head(deque) = deque[1]
      /\ Len(deque') = Len(deque) - 1
      /\ \A k \in 1 .. Len(deque') : deque'[k] = deque[k + 1]
  BY HeadTailProperties, EmptySeq, LenProperties DEF pop
<1>2. /\ w \notin Busy /\ Busy' = Busy \cup {w}
      /\ item'[w] = deque[1] /\ \A v \in Workers \ {w} : item'[v] = item[v]
      /\ Busy \subseteq Workers
  BY <1>1 DEF pop, Busy, In, WorkerState
<1>3. NoItemTwice'
  <2>1. \A j, k \in 1 .. Len(deque') : deque'[j] = deque'[k] => j = k
    BY <1>1 DEF Places, NoItemTwice
  <2>2. \A u, v \in Busy' : item'[u] = item'[v] => u = v
    BY <1>1, <1>2 DEF Places, NoItemTwice
  <2>3. \A k \in 1 .. Len(deque'), v \in Busy' : deque'[k] # item'[v]
    BY <1>1, <1>2 DEF Places, NoItemTwice
  <2> QED
    BY <2>1, <2>2, <2>3 DEF NoItemTwice
<1>4. ASSUME NEW b \in Batches PROVE Outstanding(b)' = Outstanding(b)
  <2>1. QueuedIds(b) = QueuedIds(b)' \cup {deque[k].id : k \in {j \in {1} : deque[j].ctl = b}}
    BY PopQueued
  <2>2. HeldIds(b)' = HeldIds(b) \cup {deque[k].id : k \in {j \in {1} : deque[j].ctl = b}}
    BY <1>2 DEF HeldIds
  <2> QED
    BY <2>1, <2>2 DEF Outstanding
<1> QED
  BY <1>3, <1>4 DEF Places, ItemsAccounted, pop

(* A call adds its items behind the others.                               *)
LEMMA SubmitDeque ==
    ASSUME Typed, NEW b \in Batches, submit(b)
    PROVE  \E n \in Nat, len \in Nat :
              /\ n = NumItems[b] /\ len = Len(deque)
              /\ Len(deque') = len + n
              /\ \A k \in 1 .. len : deque'[k] = deque[k]
              /\ \A k \in len + 1 .. len + n : deque'[k].ctl = b /\ deque'[k].id = k - len - 1
              /\ \A k \in 1 .. len + n : k \in 1 .. len \/ k \in len + 1 .. len + n
<1>0. PICK n \in Nat, len \in Nat : n = NumItems[b] /\ len = Len(deque)
  BY NumItemsAssumption, LenProperties DEF Typed
<1>1. /\ n \in Nat /\ ItemsOf(b) \in Seq(Item) /\ Len(ItemsOf(b)) = n
      /\ \A k \in 1 .. n : ItemsOf(b)[k] = [ctl |-> b, id |-> k - 1]
  BY <1>0, ItemsOfType
<1>2. len \in Nat
  BY <1>0
<1>3. deque' = deque \o ItemsOf(b)
  BY DEF submit
<1>4. /\ Len(deque') = len + n
      /\ \A k \in 1 .. len + n :
            deque'[k] = IF k <= len THEN deque[k] ELSE ItemsOf(b)[k - len]
  <2>1. deque \in Seq(Item)
    BY DEF Typed
  <2>2. /\ Len(deque \o ItemsOf(b)) = Len(deque) + Len(ItemsOf(b))
        /\ \A k \in 1 .. Len(deque) + Len(ItemsOf(b)) :
              (deque \o ItemsOf(b))[k] =
                 IF k <= Len(deque) THEN deque[k] ELSE ItemsOf(b)[k - Len(deque)]
    BY <1>1, <2>1, ConcatProperties
  <2> QED
    BY <1>0, <1>1, <1>3, <2>2
<1>5. \A k \in 1 .. n : ItemsOf(b)[k].ctl = b /\ ItemsOf(b)[k].id = k - 1
  BY <1>1
<1>6. \A k \in len + 1 .. len + n : k - len \in 1 .. n /\ ~(k <= len) /\ k \in 1 .. len + n
  BY <1>1, <1>2
<1>7. \A k \in 1 .. len : k <= len /\ k \in 1 .. len + n
  BY <1>1, <1>2
<1>8. /\ \A k \in 1 .. len : deque'[k] = deque[k]
      /\ \A k \in len + 1 .. len + n : deque'[k].ctl = b /\ deque'[k].id = k - len - 1
  BY <1>2, <1>4, <1>5, <1>6, <1>7
<1>9. \A k \in 1 .. len + n : k \in 1 .. len \/ k \in len + 1 .. len + n
  BY <1>2
<1> QED
  BY <1>0, <1>4, <1>8, <1>9

(* What is queued after a call has been made: all of its items.           *)
LEMMA SubmitQueued ==
    ASSUME Typed, NEW b \in Batches, submit(b),
           \A k \in 1 .. Len(deque) : deque[k].ctl # b
    PROVE  /\ QueuedIds(b)' = 0 .. NumItems[b] - 1
           /\ \A c \in Batches \ {b} : QueuedIds(c)' = QueuedIds(c)
<1>a. PICK n \in Nat, len \in Nat :
         /\ n = NumItems[b] /\ len = Len(deque)
         /\ Len(deque') = len + n
         /\ \A k \in 1 .. len : deque'[k] = deque[k]
         /\ \A k \in len + 1 .. len + n : deque'[k].ctl = b /\ deque'[k].id = k - len - 1
         /\ \A k \in 1 .. len + n : k \in 1 .. len \/ k \in len + 1 .. len + n
  BY SubmitDeque
<1>0. n = NumItems[b] /\ len = Len(deque)
  BY <1>a
<1>1. /\ Len(deque') = len + n
      /\ \A k \in 1 .. len : deque'[k] = deque[k]
      /\ \A k \in len + 1 .. len + n : deque'[k].ctl = b /\ deque'[k].id = k - len - 1
      /\ \A k \in 1 .. len + n : k \in 1 .. len \/ k \in len + 1 .. len + n
  BY <1>a
<1>2. \A k \in 1 .. len : deque[k].ctl # b
  BY <1>0
<1>3. ASSUME NEW c \in Batches, c # b PROVE QueuedIds(c)' = QueuedIds(c)
  <2>1. \A k \in 1 .. Len(deque) : k \in 1 .. Len(deque') /\ deque'[k] = deque[k]
    BY <1>0, <1>1
  <2>2. \A k \in 1 .. Len(deque') : deque'[k].ctl = c => k \in 1 .. Len(deque)
    BY <1>0, <1>1, <1>3
  <2> QED
    BY <2>1, <2>2 DEF QueuedIds
<1>4. ASSUME NEW i \in QueuedIds(b)' PROVE i \in 0 .. n - 1
  <2>1. PICK k \in 1 .. len + n : deque'[k].ctl = b /\ deque'[k].id = i
    BY <1>1 DEF QueuedIds
  <2>2. k \in len + 1 .. len + n
    BY <1>1, <1>2, <2>1
  <2> QED
    BY <1>1, <2>1, <2>2
<1>5. ASSUME NEW i \in 0 .. n - 1 PROVE i \in QueuedIds(b)'
  <2>1. len + 1 + i \in len + 1 .. len + n /\ (len + 1 + i) - len - 1 = i
    BY <1>1
  <2>2. PICK k \in len + 1 .. len + n : k - len - 1 = i
    BY <2>1
  <2>3. k \in 1 .. Len(deque') /\ deque'[k].ctl = b /\ deque'[k].id = i
    BY <1>1, <2>2
  <2> QED
    BY <2>3 DEF QueuedIds
<1> QED
  BY <1>0, <1>1, <1>3, <1>4, <1>5

(* A call that is made has all of its items queued, and nobody holds one. *)
LEMMA PlacesSubmit ==
    ASSUME Control, Places, NEW b \in Batches, submit(b)
    PROVE  Places'
<1>a. PICK n \in Nat, len \in Nat :
         /\ n = NumItems[b] /\ len = Len(deque)
         /\ Len(deque') = len + n
         /\ \A k \in 1 .. len : deque'[k] = deque[k]
         /\ \A k \in len + 1 .. len + n : deque'[k].ctl = b /\ deque'[k].id = k - len - 1
         /\ \A k \in 1 .. len + n : k \in 1 .. len \/ k \in len + 1 .. len + n
  BY SubmitDeque DEF Control
<1>0. n = NumItems[b] /\ len = Len(deque)
  BY <1>a
<1>1. /\ Len(deque') = len + n
      /\ \A k \in 1 .. len : deque'[k] = deque[k]
      /\ \A k \in len + 1 .. len + n : deque'[k].ctl = b /\ deque'[k].id = k - len - 1
      /\ \A k \in 1 .. len + n : k \in 1 .. len \/ k \in len + 1 .. len + n
  BY <1>a
<1>2. Busy' = Busy /\ item' = item /\ n_finished' = n_finished
  BY DEF submit, Busy, In
<1>3. /\ \A k \in 1 .. len : deque[k].ctl # b
      /\ \A w \in Busy : item[w].ctl # b
      /\ n_finished[b] = 0
  <2>1. Outstanding(b) = {} /\ n_finished[b] = 0
    BY DEF submit, Places, ItemsAccounted
  <2> QED
    BY <1>0, <2>1 DEF Outstanding, QueuedIds, HeldIds
<1>4. /\ QueuedIds(b) = {} /\ HeldIds(b) = {}
      /\ QueuedIds(b)' = 0 .. n - 1
      /\ \A c \in Batches \ {b} : QueuedIds(c)' = QueuedIds(c)
  <2>1. Outstanding(b) = {}
    BY DEF submit, Places, ItemsAccounted
  <2> QED
    BY <1>0, <1>3, <2>1, SubmitQueued DEF Control, Outstanding
<1>5. NoItemTwice'
  <2>1. ASSUME NEW j \in 1 .. len + n, NEW k \in 1 .. len + n, deque'[j] = deque'[k]
        PROVE  j = k
    <3>1. CASE j \in 1 .. len /\ k \in 1 .. len
      BY <1>0, <1>1, <2>1, <3>1 DEF Places, NoItemTwice
    <3>2. CASE j \in len + 1 .. len + n /\ k \in len + 1 .. len + n
      BY <1>1, <2>1, <3>2
    <3>3. CASE j \in 1 .. len /\ k \in len + 1 .. len + n
      BY <1>1, <1>3, <2>1, <3>3
    <3>4. CASE k \in 1 .. len /\ j \in len + 1 .. len + n
      BY <1>1, <1>3, <2>1, <3>4
    <3> QED
      BY <1>1, <3>1, <3>2, <3>3, <3>4
  <2>2. \A u, v \in Busy' : item'[u] = item'[v] => u = v
    BY <1>2 DEF Places, NoItemTwice
  <2>3. \A k \in 1 .. len + n, v \in Busy' : deque'[k] # item'[v]
    <3>1. ASSUME NEW k \in 1 .. len, NEW v \in Busy PROVE deque'[k] # item[v]
      BY <1>0, <1>1 DEF Places, NoItemTwice
    <3>2. ASSUME NEW k \in len + 1 .. len + n, NEW v \in Busy PROVE deque'[k] # item[v]
      BY <1>1, <1>3
    <3> QED
      BY <1>1, <1>2, <3>1, <3>2
  <2> QED
    BY <1>1, <2>1, <2>2, <2>3 DEF NoItemTwice
<1>6. ASSUME NEW c \in Batches, c # b PROVE Outstanding(c)' = Outstanding(c)
  BY <1>2, <1>4, <1>6 DEF Outstanding, HeldIds
<1>7. Outstanding(b)' = 0 .. n - 1
  BY <1>2, <1>4 DEF Outstanding, HeldIds
<1>8. Cardinality(0 .. n - 1) = n
  BY FS_Interval
<1>9. ItemsAccounted'
  <2>1. \A c \in Batches : caller'[c] = IF c = b THEN "check" ELSE caller[c]
    BY DEF submit, Control, Typed
  <2>2. ASSUME NEW c \in Batches, c # b
        PROVE  /\ Outstanding(c)' \subseteq 0 .. NumItems[c] - 1
               /\ caller'[c] = "no" => Outstanding(c)' = {} /\ n_finished'[c] = 0
               /\ caller'[c] # "no" =>
                     n_finished'[c] + Cardinality(Outstanding(c)') = NumItems[c]
    BY <1>2, <1>6, <2>1, <2>2 DEF Places, ItemsAccounted
  <2>3. /\ Outstanding(b)' \subseteq 0 .. NumItems[b] - 1
        /\ caller'[b] # "no"
        /\ n_finished'[b] + Cardinality(Outstanding(b)') = NumItems[b]
    BY <1>0, <1>1, <1>2, <1>3, <1>7, <1>8, <2>1
  <2> QED
    BY <2>2, <2>3 DEF ItemsAccounted
<1> QED
  BY <1>5, <1>9 DEF Places

(* Two items of one call differ in their ids.                             *)
LEMMA ItemsDiffer ==
    ASSUME NEW r \in Item, NEW b \in Batches, NEW i \in Nat,
           r # [ctl |-> b, id |-> i], r.ctl = b
    PROVE  r.id # i
<1>1. r = [ctl |-> r.ctl, id |-> r.id]
  BY DEF Item
<1> QED
  BY <1>1

(* A worker counts its item: the item is nowhere else.                    *)
LEMMA PlacesFinish ==
    ASSUME Control, Places, NEW w \in Workers, finish_item(w)
    PROVE  Places'
<1> USE DEF Control, Typed
<1>1. w \in Busy /\ item[w] \in Item
  BY DEF finish_item, HeldIsItem, Busy, In
<1>2. PICK b \in Batches, i \in Nat : item[w] = [ctl |-> b, id |-> i]
  BY <1>1 DEF Item
<1>3. /\ Busy' = Busy \ {w} /\ Busy \subseteq Workers
      /\ deque' = deque
      /\ \A v \in Workers \ {w} : item'[v] = item[v]
  BY DEF finish_item, Busy, In, queue
<1>4. /\ n_finished'[b] = n_finished[b] + 1
      /\ \A c \in Batches \ {b} : n_finished'[c] = n_finished[c]
      /\ \A c \in Batches : caller'[c] = "no" <=> caller[c] = "no"
  BY <1>2 DEF finish_item, CallerState
<1>5. NoItemTwice'
  BY <1>3 DEF Places, NoItemTwice
<1>6. ASSUME NEW c \in Batches \ {b} PROVE Outstanding(c)' = Outstanding(c)
  BY <1>1, <1>2, <1>3 DEF Outstanding, QueuedIds, HeldIds
<1>7. Outstanding(b)' = Outstanding(b) \ {i}
  <2>1. \A k \in 1 .. Len(deque) : deque[k].ctl = b => deque[k].id # i
    <3>1. \A k \in 1 .. Len(deque) : deque[k] \in Item /\ deque[k] # item[w]
      BY <1>1, ElementOfSeq DEF Places, NoItemTwice
    <3> QED
      BY <1>2, <3>1, ItemsDiffer
  <2>2. \A v \in Busy \ {w} : item[v].ctl = b => item[v].id # i
    <3>1. \A v \in Busy \ {w} : item[v] \in Item /\ item[v] # item[w]
      BY <1>1, <1>3 DEF Places, NoItemTwice, HeldIsItem, Busy, In
    <3> QED
      BY <1>2, <3>1, ItemsDiffer
  <2>3. QueuedIds(b)' = QueuedIds(b) /\ i \notin QueuedIds(b)
    BY <1>3, <2>1 DEF QueuedIds
  <2>4. HeldIds(b)' = HeldIds(b) \ {i}
    BY <1>1, <1>2, <1>3, <2>2 DEF HeldIds
  <2> QED
    BY <2>3, <2>4 DEF Outstanding
<1>8. i \in Outstanding(b)
  BY <1>1, <1>2 DEF Outstanding, HeldIds
<1>9. ItemsAccounted'
  <2>1. /\ Outstanding(b) \subseteq 0 .. NumItems[b] - 1
        /\ caller[b] # "no"
        /\ n_finished[b] + Cardinality(Outstanding(b)) = NumItems[b]
    BY <1>8 DEF Places, ItemsAccounted
  <2>2. IsFiniteSet(Outstanding(b)) /\ Cardinality(Outstanding(b)) \in Nat
    BY OutstandingFinite DEF Places
  <2>3. Cardinality(Outstanding(b) \ {i}) = Cardinality(Outstanding(b)) - 1
    BY <1>8, <2>2, FS_RemoveElement
  <2>4. n_finished[b] \in Nat /\ NumItems[b] \in Nat
    BY NumItemsAssumption
  <2>5. n_finished'[b] + Cardinality(Outstanding(b)') = NumItems[b]
    BY <1>4, <1>7, <2>1, <2>2, <2>3, <2>4
  <2>6. Outstanding(b)' \subseteq 0 .. NumItems[b] - 1 /\ caller'[b] # "no"
    BY <1>4, <1>7, <2>1
  <2>7. ASSUME NEW c \in Batches \ {b}
        PROVE  /\ Outstanding(c)' \subseteq 0 .. NumItems[c] - 1
               /\ caller'[c] = "no" => Outstanding(c)' = {} /\ n_finished'[c] = 0
               /\ caller'[c] # "no" =>
                     n_finished'[c] + Cardinality(Outstanding(c)') = NumItems[c]
    BY <1>4, <1>6 DEF Places, ItemsAccounted
  <2> QED
    BY <2>5, <2>6, <2>7 DEF ItemsAccounted
<1> QED
  BY <1>5, <1>9 DEF Places

LEMMA AccountingInit == Init => Accounting
<1> SUFFICES ASSUME Init PROVE Accounting
  OBVIOUS
<1>1. Len(deque) = 0 /\ 1 .. Len(deque) = {} /\ Busy = {}
  BY EmptySeq DEF Init, Busy, In
<1>2. \A b \in Batches : Outstanding(b) = {}
  BY <1>1 DEF Outstanding, QueuedIds, HeldIds
<1> QED
  BY <1>1, <1>2 DEF Init, Accounting, Places, ReturnedDone, NoItemTwice, ItemsAccounted

LEMMA PlacesNext == Control /\ Places /\ [Next]_vars => Places'
<1> SUFFICES ASSUME Control, Places, [Next]_vars PROVE Places'
  OBVIOUS
<1>1. CASE start
  <2>1. Busy = {} /\ Busy' = {}
    BY <1>1 DEF start, Busy, In, Control, OwnerInv
  <2> QED
    BY <1>1, <2>1, PlacesUntouched DEF start
<1>2. CASE stop_request
  <2>1. Busy' = Busy
    BY <1>2 DEF stop_request, Busy, In
  <2> QED
    BY <1>2, <2>1, PlacesUntouched DEF stop_request
<1>3. CASE stop_join \/ UNCHANGED vars
  <2>1. Busy' = Busy
    BY <1>3 DEF stop_join, vars, Busy, In
  <2> QED
    BY <1>3, <2>1, PlacesUntouched DEF stop_join, vars, queue
<1>4. ASSUME NEW w \in Workers, wait(w) \/ leave(w) PROVE Places'
  <2>1. Busy' = Busy
    BY <1>4 DEF wait, leave, Busy, In, Control, Typed
  <2> QED
    BY <1>4, <2>1, PlacesUntouched DEF wait, leave
<1>5. ASSUME NEW w \in Workers, run_fn(w) \/ spurious_wakeup(w) PROVE Places'
  <2>1. Busy' = Busy
    BY <1>5 DEF run_fn, spurious_wakeup, Busy, In, Control, Typed
  <2> QED
    BY <1>5, <2>1, PlacesUntouched DEF run_fn, spurious_wakeup, queue
<1>6. ASSUME NEW w \in Workers, pop(w) PROVE Places'
  BY <1>6, PlacesPop
<1>7. ASSUME NEW w \in Workers, finish_item(w) PROVE Places'
  BY <1>7, PlacesFinish
<1>8. ASSUME NEW b \in Batches, submit(b) PROVE Places'
  BY <1>8, PlacesSubmit
<1>9. ASSUME NEW b \in Batches, wait_done(b) \/ return(b) \/ spurious_wakeup_caller(b)
      PROVE  Places'
  <2>1. \A c \in Batches : caller'[c] = "no" <=> caller[c] = "no"
    BY <1>9 DEF wait_done, return, spurious_wakeup_caller, Control, Typed
  <2>2. Busy' = Busy
    BY <1>9 DEF wait_done, return, spurious_wakeup_caller, Busy, In
  <2> QED
    BY <1>9, <2>1, <2>2, PlacesUntouched DEF wait_done, return, spurious_wakeup_caller, queue
<1> QED
  BY <1>1, <1>2, <1>3, <1>4, <1>5, <1>6, <1>7, <1>8, <1>9 DEF Next, WorkerStep, CallerStep

(* A call that is done has no item left anywhere.                         *)
LEMMA DoneIsEmpty ==
    ASSUME Typed, ItemsAccounted,
           NEW b \in Batches, caller[b] # "no", n_finished[b] = NumItems[b]
    PROVE  Outstanding(b) = {}
<1>1. IsFiniteSet(Outstanding(b)) /\ Cardinality(Outstanding(b)) \in Nat
  BY OutstandingFinite
<1>2. n_finished[b] \in Nat /\ NumItems[b] \in Nat
  BY NumItemsAssumption DEF Typed
<1>3. n_finished[b] + Cardinality(Outstanding(b)) = NumItems[b]
  BY DEF ItemsAccounted
<1>4. Cardinality(Outstanding(b)) = 0
  BY <1>1, <1>2, <1>3
<1> QED
  BY <1>1, <1>4, FS_EmptySet

LEMMA ReturnedDoneNext == Control /\ Accounting /\ [Next]_vars => ReturnedDone'
<1> SUFFICES ASSUME Control, Accounting, [Next]_vars PROVE ReturnedDone'
  OBVIOUS
<1> USE DEF ReturnedDone
<1>1. CASE start \/ stop_request \/ stop_join \/ UNCHANGED vars
  BY <1>1 DEF start, stop_request, stop_join, vars, Accounting
<1>2. ASSUME NEW w \in Workers,
             wait(w) \/ pop(w) \/ leave(w) \/ run_fn(w) \/ spurious_wakeup(w)
      PROVE  ReturnedDone'
  BY <1>2 DEF wait, pop, leave, run_fn, spurious_wakeup, Accounting
<1>3. ASSUME NEW w \in Workers, finish_item(w) PROVE ReturnedDone'
  <2> SUFFICES ASSUME NEW b \in Batches, caller'[b] = "returned"
               PROVE  n_finished'[b] = NumItems[b]
    OBVIOUS
  <2>1. w \in Busy /\ item[w] \in Item
    BY <1>3 DEF finish_item, Control, HeldIsItem, Busy, In
  <2>2. caller[b] = "returned" /\ n_finished[b] = NumItems[b]
    BY <1>3, <2>1 DEF finish_item, Accounting, Control, Typed, CallerState, Item
  <2>3. Outstanding(b) = {}
    BY <2>2, DoneIsEmpty DEF Accounting, Places, Control
  <2>4. item[w].ctl # b
    BY <2>1, <2>3 DEF Outstanding, HeldIds
  <2>5. n_finished'[b] = n_finished[b]
    BY <1>3, <2>1, <2>4 DEF finish_item, Control, Typed, Item
  <2> QED
    BY <2>2, <2>5
<1>4. ASSUME NEW b \in Batches, submit(b) PROVE ReturnedDone'
  BY <1>4 DEF submit, Accounting, Control, Typed
<1>5. ASSUME NEW b \in Batches, wait_done(b) \/ return(b) \/ spurious_wakeup_caller(b)
      PROVE  ReturnedDone'
  BY <1>5 DEF wait_done, return, spurious_wakeup_caller, Accounting, Control, Typed
<1> QED
  BY <1>1, <1>2, <1>3, <1>4, <1>5 DEF Next, WorkerStep, CallerStep

(* The inductive invariant of the pool.                                   *)
Inv == Base /\ Accounting

LEMMA InvInit == Init => Inv
BY BaseInit, AccountingInit DEF Inv

LEMMA InvNext == Inv /\ [Next]_vars => Inv'
<1>1. Base => Control
  BY DEF Base
<1> QED
  BY <1>1, BaseNext, PlacesNext, ReturnedDoneNext DEF Inv, Accounting

LEMMA Invariant == Spec => []Inv
BY InvInit, InvNext, PTL DEF Spec

(* No item is ever in two places, so none is run twice.                   *)
THEOREM ItemsRunOnce == Spec => []NoItemTwice
<1>1. Inv => NoItemTwice
  BY DEF Inv, Accounting, Places
<1> QED
  BY <1>1, Invariant, PTL

(* n_finished counts exactly the items that are nowhere any more.         *)
THEOREM AccountingCorrect == Spec => []ItemsAccounted
<1>1. Inv => ItemsAccounted
  BY DEF Inv, Accounting, Places
<1> QED
  BY <1>1, Invariant, PTL

(* When run_batch_job has returned nobody is at work for it any more.     *)
THEOREM ReturnIsSafe == Spec => []ReturnedIsOver
<1>1. Inv => ReturnedIsOver
  <2> SUFFICES ASSUME Inv, NEW b \in Batches, caller[b] = "returned"
               PROVE  Outstanding(b) = {}
    BY DEF ReturnedIsOver
  <2>1. caller[b] # "no" /\ n_finished[b] = NumItems[b]
    BY DEF Inv, Accounting, ReturnedDone
  <2> QED
    BY <2>1, DoneIsEmpty DEF Inv, Accounting, Places, Base, Control
<1> QED
  BY <1>1, Invariant, PTL

(* stop() has every item that was ever added run and counted.             *)
THEOREM StopIsClean == Spec => []StopDrains
<1>1. Inv => StopDrains
  <2> SUFFICES ASSUME Inv, owner = "stopped" PROVE StopDrains
    BY DEF StopDrains
  <2>1. \A w \in Workers : worker[w] = "off"
    BY DEF Inv, Base, Control, OwnerInv
  <2>2. deque = << >>
    BY <2>1, WorkersAssumption DEF Inv, Base, Control, OwnerInv
  <2>3. In("waiting") \cup In("woken") = {} /\ Busy = {}
    BY <2>1 DEF In, Busy
  <2>4. n_idle = 0
    BY <2>3, FS_EmptySet DEF Inv, Base, IdleCounted
  <2>5. ASSUME NEW b \in Batches, caller[b] # "no" PROVE n_finished[b] = NumItems[b]
    <3>1. Len(deque) = 0 /\ 1 .. Len(deque) = {}
      BY <2>2, EmptySeq
    <3>2. Outstanding(b) = {}
      BY <2>3, <3>1 DEF Outstanding, QueuedIds, HeldIds
    <3>3. Cardinality(Outstanding(b)) = 0
      BY <3>2, FS_EmptySet
    <3>4. n_finished[b] + Cardinality(Outstanding(b)) = NumItems[b] /\ n_finished[b] \in Nat
      BY <2>5 DEF Inv, Accounting, Places, ItemsAccounted, Base, Control, Typed
    <3> QED
      BY <3>3, <3>4
  <2> QED
    BY <2>2, <2>4, <2>5 DEF StopDrains
<1> QED
  BY <1>1, Invariant, PTL

------------------------------------------------------------------------------
(* No lost wakeup.                                                        *)

(* Steps after which nobody sleeps, or that take nobody off his way and   *)
(* put nothing into the deque.                                            *)
LEMMA SleepersUntouched ==
    ASSUME Typed, NoSleeperNeeded, deque' = deque, Coming \subseteq Coming',
           In("waiting")' \subseteq In("waiting")
    PROVE  NoSleeperNeeded'
<1>1. IsFiniteSet(Coming') /\ Cardinality(Coming') \in Nat
  BY InFinite DEF Coming, In
<1>2. Cardinality(Coming) <= Cardinality(Coming') /\ Cardinality(Coming) \in Nat
  BY <1>1, FS_Subset, FS_CardinalityType
<1>3. Len(deque) \in Nat /\ (In("waiting")' # {} => Cardinality(Coming) >= Len(deque))
  BY LenProperties DEF NoSleeperNeeded, Typed
<1> QED
  BY <1>1, <1>2, <1>3 DEF NoSleeperNeeded

LEMMA SleepersPop ==
    ASSUME Control, NoSleeperNeeded, NEW w \in Workers, pop(w)
    PROVE  NoSleeperNeeded'
<1>1. Coming' = Coming \ {w} /\ w \in Coming /\ In("waiting")' = In("waiting")
  BY DEF pop, Coming, In, Control, Typed
<1>2. Len(deque') = Len(deque) - 1 /\ Len(deque) \in Nat
  BY HeadTailProperties, LenProperties DEF pop, Control, Typed
<1>3. IsFiniteSet(Coming) /\ Cardinality(Coming) \in Nat
  BY InFinite DEF Coming, In
<1>4. Cardinality(Coming') = Cardinality(Coming) - 1
  BY <1>1, <1>3, FS_RemoveElement
<1> QED
  BY <1>1, <1>2, <1>3, <1>4 DEF NoSleeperNeeded

LEMMA SleepersSubmit ==
    ASSUME Base, NoSleeperNeeded, NEW b \in Batches, submit(b)
    PROVE  NoSleeperNeeded'
<1> SUFFICES ASSUME In("waiting")' # {}
             PROVE  Cardinality(Coming') >= Len(deque')
  BY DEF NoSleeperNeeded
<1>1. PICK notified \in SUBSET In("waiting") :
         /\ Cardinality(notified) =
               IF n_idle > 0 THEN Least(NumItems[b], Cardinality(In("waiting"))) ELSE 0
         /\ worker' = [w \in Workers |-> IF w \in notified THEN "woken" ELSE worker[w]]
  BY DEF submit
<1>2. /\ In("waiting")' = In("waiting") \ notified
      /\ Coming' = Coming \cup notified
      /\ Coming \cap notified = {}
  BY <1>1 DEF Coming, In
<1>3. In("waiting") # {} /\ notified # In("waiting")
  BY <1>2
<1>4. /\ IsFiniteSet(In("waiting")) /\ Cardinality(In("waiting")) \in Nat
      /\ IsFiniteSet(Coming) /\ Cardinality(Coming) \in Nat
      /\ IsFiniteSet(Idle) /\ Cardinality(Idle) \in Nat
  BY InFinite DEF Coming, Idle, In
<1>5. n_idle > 0
  <2>1. Idle # {} /\ n_idle = Cardinality(Idle)
    BY <1>3 DEF Idle, Base, IdleCounted
  <2> QED
    BY <1>4, <2>1, FS_EmptySet
<1>6. /\ IsFiniteSet(notified) /\ Cardinality(notified) \in Nat
      /\ Cardinality(notified) # Cardinality(In("waiting"))
  BY <1>3, <1>4, FS_Subset, FS_CardinalityType
<1>7. NumItems[b] \in Nat /\ Cardinality(notified) = NumItems[b]
  BY <1>1, <1>4, <1>5, <1>6, NumItemsAssumption DEF Least
<1>8. Cardinality(Coming') = Cardinality(Coming) + Cardinality(notified)
  <2>1. Cardinality(Coming \cap notified) = 0
    BY <1>2, FS_EmptySet
  <2>2. Cardinality(Coming \cup notified) =
           Cardinality(Coming) + Cardinality(notified) - Cardinality(Coming \cap notified)
    BY <1>4, <1>6, FS_Union
  <2> QED
    BY <1>2, <1>4, <1>6, <2>1, <2>2
<1>9. Len(deque') = Len(deque) + NumItems[b] /\ Len(deque) \in Nat
  <2>1. deque \in Seq(Item) /\ deque' = deque \o ItemsOf(b)
    BY DEF submit, Base, Control, Typed
  <2> QED
    BY <2>1, ItemsOfType, ConcatProperties, LenProperties
<1> QED
  BY <1>3, <1>4, <1>6, <1>7, <1>8, <1>9 DEF NoSleeperNeeded

LEMMA SleepersNext == Base /\ NoSleeperNeeded /\ [Next]_vars => NoSleeperNeeded'
<1> SUFFICES ASSUME Base, NoSleeperNeeded, [Next]_vars PROVE NoSleeperNeeded'
  OBVIOUS
<1> USE DEF Base, Control, Typed
<1>1. ASSUME In("waiting")' = {} PROVE NoSleeperNeeded'
  BY <1>1 DEF NoSleeperNeeded
<1>2. CASE start \/ stop_request
  BY <1>1, <1>2 DEF start, stop_request, In
<1>3. CASE stop_join \/ UNCHANGED vars
  BY <1>3, SleepersUntouched DEF stop_join, vars, queue, Coming, In
<1>4. ASSUME NEW w \in Workers, wait(w) PROVE NoSleeperNeeded'
  <2>1. Len(deque') = 0
    BY <1>4, EmptySeq DEF wait
  <2>2. Cardinality(Coming') \in Nat
    BY InFinite DEF Coming, In
  <2> QED
    BY <2>1, <2>2 DEF NoSleeperNeeded
<1>5. ASSUME NEW w \in Workers, pop(w) PROVE NoSleeperNeeded'
  BY <1>5, SleepersPop
<1>6. ASSUME NEW w \in Workers, leave(w) PROVE NoSleeperNeeded'
  BY <1>1, <1>6 DEF leave, In, OwnerInv
<1>7. ASSUME NEW w \in Workers, spurious_wakeup(w) \/ run_fn(w) \/ finish_item(w)
      PROVE  NoSleeperNeeded'
  <2>1. deque' = deque /\ Coming \subseteq Coming' /\ In("waiting")' \subseteq In("waiting")
    BY <1>7 DEF spurious_wakeup, run_fn, finish_item, queue, Coming, In
  <2> QED
    BY <2>1, SleepersUntouched
<1>8. ASSUME NEW b \in Batches, submit(b) PROVE NoSleeperNeeded'
  BY <1>8, SleepersSubmit
<1>9. ASSUME NEW b \in Batches, wait_done(b) \/ return(b) \/ spurious_wakeup_caller(b)
      PROVE  NoSleeperNeeded'
  BY <1>9, SleepersUntouched DEF wait_done, return, spurious_wakeup_caller, queue, Coming, In
<1> QED
  BY <1>2, <1>3, <1>4, <1>5, <1>6, <1>7, <1>8, <1>9 DEF Next, WorkerStep, CallerStep

(* A thread sleeps only if the others on their way can take every item of *)
(* the deque: no wakeup is lost, although a notification is sent only to  *)
(* as many threads as there are new items.                                *)
THEOREM NoLostWakeup == Spec => []NoSleeperNeeded
<1>1. Init => NoSleeperNeeded
  BY DEF Init, NoSleeperNeeded, In
<1> QED
  BY <1>1, BaseInit, BaseNext, SleepersNext, PTL DEF Spec

------------------------------------------------------------------------------
(* The thread pool keeps the promise of BatchJobs, for every finite set of *)
(* workers, every set of calls and every number of items: each step of     *)
(* WorkQueue is a step of BatchJobs or changes nothing that it sees.  That *)
(* the calls do return is left to the model checker.                       *)

(* What of a call b has not been run yet.                                 *)
Pending(b) == QueuedIds(b) \cup BeingRun(b)

LEMMA PendingOutstanding == \A b : Pending(b) \subseteq Outstanding(b)
BY DEF Pending, Outstanding, HeldIds, BeingRun, Busy

(* Nothing that is pending or called changes: the step is invisible.      *)
LEMMA Invisible ==
    ASSUME caller' = caller \/ (\A b \in Batches : /\ caller'[b] = "no" <=> caller[b] = "no"
                                                   /\ caller'[b] = "returned" <=> caller[b] = "returned"),
           \A b \in Batches : Pending(b)' = Pending(b)
    PROVE  UNCHANGED Promise!vars
<1>1. Called' = Called
  BY DEF Called
<1>2. Executed' = Executed
  BY DEF Executed, Pending
<1> QED
  BY <1>1, <1>2 DEF Promise!vars

(* The same for a step that leaves the deque and those at work alone.     *)
LEMMA PendingUntouched ==
    ASSUME deque' = deque, In("run")' = In("run"),
           \A w \in In("run") : item'[w] = item[w]
    PROVE  \A b \in Batches : Pending(b)' = Pending(b)
<1> SUFFICES ASSUME NEW b \in Batches PROVE Pending(b)' = Pending(b)
  OBVIOUS
<1>1. QueuedIds(b)' = QueuedIds(b)
  BY DEF QueuedIds
<1>2. BeingRun(b)' = BeingRun(b)
  BY DEF BeingRun
<1> QED
  BY <1>1, <1>2 DEF Pending

LEMMA PendingPop ==
    ASSUME Control, NEW w \in Workers, pop(w), NEW b \in Batches
    PROVE  Pending(b)' = Pending(b)
<1>1. QueuedIds(b) = QueuedIds(b)' \cup {deque[k].id : k \in {j \in {1} : deque[j].ctl = b}}
  BY PopQueued DEF Control
<1>2. Head(deque) = deque[1]
  BY HeadTailProperties DEF pop, Control, Typed
<1>3. /\ In("run")' = In("run") \cup {w} /\ w \notin In("run")
      /\ item'[w] = deque[1] /\ \A v \in Workers \ {w} : item'[v] = item[v]
      /\ In("run") \subseteq Workers
  BY <1>2 DEF pop, In, Control, Typed, WorkerState
<1>4. BeingRun(b)' = BeingRun(b) \cup {deque[k].id : k \in {j \in {1} : deque[j].ctl = b}}
  BY <1>3 DEF BeingRun
<1> QED
  BY <1>1, <1>4 DEF Pending

(* submit is Call.                                                        *)
LEMMA SubmitCalls ==
    ASSUME Inv, NEW b \in Batches, submit(b)
    PROVE  Promise!Call(b)
<1>1. Outstanding(b) = {} /\ Typed
  BY DEF submit, ItemsAccounted, Inv, Base, Control, Accounting, Places
<1>2. \A k \in 1 .. Len(deque) : deque[k].ctl # b
  <2> SUFFICES ASSUME NEW k \in 1 .. Len(deque), deque[k].ctl = b PROVE FALSE
    OBVIOUS
  <2>1. deque[k].id \in QueuedIds(b)
    BY DEF QueuedIds
  <2> QED
    BY <1>1, <2>1 DEF Outstanding
<1>3. /\ QueuedIds(b)' = 0 .. NumItems[b] - 1
      /\ \A c \in Batches \ {b} : QueuedIds(c)' = QueuedIds(c)
  BY <1>1, <1>2, SubmitQueued
<1>4. \A c \in Batches : BeingRun(c)' = BeingRun(c)
  <2>1. item' = item
    BY DEF submit
  <2>2. In("run")' = In("run")
    <3>1. \A w \in Workers : worker'[w] = "run" <=> worker[w] = "run"
      <4>1. PICK notified \in SUBSET In("waiting") :
               worker' = [w \in Workers |-> IF w \in notified THEN "woken" ELSE worker[w]]
        BY DEF submit
      <4> QED
        BY <4>1 DEF In
    <3> QED
      BY <3>1 DEF In
  <2> QED
    BY <2>1, <2>2 DEF BeingRun
<1> USE DEF Inv, Base, Control, Typed, Accounting, Places
<1>5. caller' = [caller EXCEPT ![b] = "check"] /\ caller[b] = "no"
  BY DEF submit
<1>6. Called[b] = "no" /\ Called' = [Called EXCEPT ![b] = "active"]
  BY <1>5 DEF Called
<1>7. Executed' = Executed
  <2> SUFFICES ASSUME NEW c \in Batches
               PROVE  (IF caller'[c] = "no" THEN {}
                       ELSE (0 .. NumItems[c] - 1) \ (QueuedIds(c)' \cup BeingRun(c)')) =
                      (IF caller[c] = "no" THEN {}
                       ELSE (0 .. NumItems[c] - 1) \ (QueuedIds(c) \cup BeingRun(c)))
    BY DEF Executed
  <2>1. CASE c = b
    BY <1>3, <1>5, <2>1
  <2>2. CASE c # b
    BY <1>3, <1>4, <1>5, <2>2
  <2> QED
    BY <2>1, <2>2
<1> QED
  BY <1>6, <1>7 DEF Promise!Call

(* The return of fn is Execute.                                           *)
LEMMA RunExecutes ==
    ASSUME Inv, NEW w \in Workers, run_fn(w)
    PROVE  \E b \in Batches : Promise!Execute(b)
<1>1. w \in Busy /\ item[w] \in Item
  BY DEF run_fn, Busy, In, Inv, Base, Control, HeldIsItem
<1>2. PICK b \in Batches, i \in Nat : item[w] = [ctl |-> b, id |-> i]
  BY <1>1 DEF Item
<1>3. i \in Outstanding(b)
  BY <1>1, <1>2 DEF Outstanding, HeldIds
<1>4. i \in 0 .. NumItems[b] - 1 /\ caller[b] # "no" /\ caller[b] # "returned"
  <2>1. i \in 0 .. NumItems[b] - 1 /\ caller[b] # "no"
    BY <1>3 DEF Inv, Accounting, Places, ItemsAccounted
  <2>2. caller[b] # "returned"
    BY <1>3, DoneIsEmpty DEF Inv, Base, Control, Accounting, Places, ReturnedDone
  <2> QED
    BY <2>1, <2>2
<1>5. /\ In("run")' = In("run") \ {w} /\ w \in In("run") /\ In("run") \subseteq Busy
      /\ In("run") \subseteq Workers
      /\ deque' = deque /\ item' = item /\ caller' = caller
  BY DEF run_fn, In, Busy, queue, Inv, Base, Control, Typed
<1>6. \A c \in Batches : QueuedIds(c)' = QueuedIds(c)
  BY <1>5 DEF QueuedIds
<1>7. i \notin QueuedIds(b)
  <2>1. \A k \in 1 .. Len(deque) : deque[k] \in Item /\ deque[k] # item[w]
    BY <1>1, ElementOfSeq DEF Inv, Base, Control, Typed, Accounting, Places, NoItemTwice
  <2>2. \A k \in 1 .. Len(deque) : deque[k].ctl = b => deque[k].id # i
    BY <1>2, <2>1, ItemsDiffer
  <2> QED
    BY <2>2 DEF QueuedIds
<1>8. BeingRun(b)' = BeingRun(b) \ {i} /\ i \in BeingRun(b)
  <2>1. \A v \in In("run") \ {w} : item[v] \in Item /\ item[v] # item[w]
    BY <1>1, <1>5 DEF Inv, Base, Control, HeldIsItem, Accounting, Places, NoItemTwice
  <2>2. \A v \in In("run") \ {w} : item[v].ctl = b => item[v].id # i
    BY <1>2, <2>1, ItemsDiffer
  <2>3. item[w].ctl = b /\ item[w].id = i
    BY <1>2
  <2> QED
    BY <1>5, <2>2, <2>3 DEF BeingRun
<1>9. \A c \in Batches \ {b} : BeingRun(c)' = BeingRun(c)
  BY <1>2, <1>5 DEF BeingRun
<1>10. Called' = Called /\ Called[b] = "active"
  BY <1>4, <1>5 DEF Called
<1>11. i \in (0 .. NumItems[b] - 1) \ Executed[b]
  BY <1>4, <1>8 DEF Executed
<1>12. Executed' = [Executed EXCEPT ![b] = @ \cup {i}]
  <2>1. \A c \in Batches : Executed'[c] = IF c = b THEN Executed[b] \cup {i} ELSE Executed[c]
    BY <1>4, <1>5, <1>6, <1>7, <1>8, <1>9 DEF Executed
  <2> QED
    BY <2>1 DEF Executed
<1> QED
  BY <1>10, <1>11, <1>12 DEF Promise!Execute, Promise!Items

(* return is Return.                                                      *)
LEMMA ReturnReturns ==
    ASSUME Inv, NEW b \in Batches, return(b)
    PROVE  Promise!Return(b)
<1>1. caller[b] # "no" /\ caller[b] # "returned" /\ n_finished[b] = NumItems[b]
  BY DEF return
<1>2. Outstanding(b) = {}
  BY <1>1, DoneIsEmpty DEF Inv, Base, Control, Accounting, Places
<1>3. Executed[b] = 0 .. NumItems[b] - 1
  BY <1>1, <1>2, PendingOutstanding DEF Executed, Pending
<1>4. /\ \A c \in Batches : Pending(c)' = Pending(c)
      /\ caller' = [caller EXCEPT ![b] = "returned"] /\ caller \in [Batches -> CallerState]
  BY PendingUntouched DEF return, queue, In, Inv, Base, Control, Typed
<1>5. Called[b] = "active" /\ Called' = [Called EXCEPT ![b] = "returned"]
  BY <1>1, <1>4 DEF Called
<1>6. Executed' = Executed
  BY <1>1, <1>4 DEF Executed, Pending
<1> QED
  BY <1>3, <1>5, <1>6 DEF Promise!Return, Promise!Items

LEMMA StepImplements == Inv /\ [Next]_vars => [Promise!Next]_(Promise!vars)
<1> SUFFICES ASSUME Inv, [Next]_vars PROVE Promise!Next \/ UNCHANGED Promise!vars
  OBVIOUS
<1> USE DEF Inv, Base, Control, Typed
<1>1. CASE start
  <2>1. In("run") = {} /\ In("run")' = {}
    BY <1>1 DEF start, In, OwnerInv
  <2> QED
    BY <1>1, <2>1, PendingUntouched, Invisible DEF start
<1>2. CASE stop_request \/ stop_join \/ UNCHANGED vars
  <2>1. In("run")' = In("run") /\ deque' = deque /\ item' = item /\ caller' = caller
    BY <1>2 DEF stop_request, stop_join, vars, queue, In
  <2> QED
    BY <2>1, PendingUntouched, Invisible
<1>3. ASSUME NEW w \in Workers, wait(w) \/ leave(w) \/ spurious_wakeup(w)
      PROVE  UNCHANGED Promise!vars
  <2>1. In("run")' = In("run") /\ deque' = deque /\ item' = item /\ caller' = caller
    BY <1>3 DEF wait, leave, spurious_wakeup, queue, In
  <2> QED
    BY <2>1, PendingUntouched, Invisible
<1>4. ASSUME NEW w \in Workers, pop(w) PROVE UNCHANGED Promise!vars
  <2>1. caller' = caller
    BY <1>4 DEF pop
  <2> QED
    BY <1>4, <2>1, PendingPop, Invisible
<1>5. ASSUME NEW w \in Workers, finish_item(w) PROVE UNCHANGED Promise!vars
  <2>1. /\ In("run")' = In("run") /\ deque' = deque
        /\ \A v \in In("run") : item'[v] = item[v]
    BY <1>5 DEF finish_item, queue, In
  <2>2. \A b \in Batches : /\ caller'[b] = "no" <=> caller[b] = "no"
                           /\ caller'[b] = "returned" <=> caller[b] = "returned"
    BY <1>5 DEF finish_item
  <2> QED
    BY <2>1, <2>2, PendingUntouched, Invisible
<1>6. ASSUME NEW w \in Workers, run_fn(w) PROVE Promise!Next
  BY <1>6, RunExecutes DEF Promise!Next
<1>7. ASSUME NEW b \in Batches, submit(b) PROVE Promise!Next
  BY <1>7, SubmitCalls DEF Promise!Next
<1>8. ASSUME NEW b \in Batches, return(b) PROVE Promise!Next
  BY <1>8, ReturnReturns DEF Promise!Next
<1>9. ASSUME NEW b \in Batches, wait_done(b) \/ spurious_wakeup_caller(b)
      PROVE  UNCHANGED Promise!vars
  <2>1. In("run")' = In("run") /\ deque' = deque /\ item' = item
    BY <1>9 DEF wait_done, spurious_wakeup_caller, queue, In
  <2>2. \A c \in Batches : /\ caller'[c] = "no" <=> caller[c] = "no"
                           /\ caller'[c] = "returned" <=> caller[c] = "returned"
    BY <1>9 DEF wait_done, spurious_wakeup_caller
  <2> QED
    BY <2>1, <2>2, PendingUntouched, Invisible
<1> QED
  BY <1>1, <1>2, <1>3, <1>4, <1>5, <1>6, <1>7, <1>8, <1>9 DEF Next, WorkerStep, CallerStep

(* Safety of the promise: every item of a call is run once, and the call  *)
(* returns only when all of them have been.                               *)
THEOREM PoolImplementsBatchJobs == Spec => Promise!Init /\ [][Promise!Next]_(Promise!vars)
<1>1. Init => Promise!Init
  BY DEF Init, Promise!Init, Called, Executed
<1> QED
  BY <1>1, Invariant, StepImplements, PTL DEF Spec
==============================================================================
