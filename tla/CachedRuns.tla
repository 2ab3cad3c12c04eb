------------------------------ MODULE CachedRuns ------------------------------
(***************************************************************************)
(* What igen/runner/ProgramRunnerMt.cpp promises the algorithms that share *)
(* it: a batch of configurations is answered by their coverage, whatever is*)
(* cached and whatever other threads do; and when flush_cachedb returns,   *)
(* every result that was in the cache survives the end of the process.     *)
(***************************************************************************)
EXTENDS Naturals, Sequences

CONSTANTS Threads,       (* the threads that use the runner                *)
          Configs,       (* the configurations                             *)
          Batches,       (* the batches of configurations they ask for     *)
          Locs           (* what a configuration may cover                 *)

VARIABLES right,         (* right[c]: the right answer for c, once and for all *)
          asked,         (* asked[t]: << >>, or << the batch asked for >>  *)
          answer,        (* answer[t]: << >>, or << what was answered >>   *)
          flushing,      (* the threads inside flush_cachedb               *)
          cached,        (* the configurations with a result in the cache  *)
          kept           (* those that survive a crash                     *)

vars == <<right, asked, answer, flushing, cached, kept>>

Init == /\ right \in [Configs -> SUBSET Locs]
        /\ asked = [t \in Threads |-> << >>]
        /\ answer = [t \in Threads |-> << >>]
        /\ flushing = {}
        /\ cached \in SUBSET Configs
        /\ kept = cached

Ask(t) == /\ asked[t] = << >>
          /\ \E b \in Batches : asked' = [asked EXCEPT ![t] = <<b>>]
          /\ UNCHANGED <<answer, flushing, cached, kept>>

Store(t) == /\ asked[t] # << >> /\ answer[t] = << >>
            /\ \E k \in DOMAIN asked[t][1] : cached' = cached \cup {asked[t][1][k]}
            /\ UNCHANGED <<asked, answer, flushing, kept>>

Answer(t) == /\ asked[t] # << >> /\ answer[t] = << >>
             /\ LET b == asked[t][1]
                IN  answer' = [answer EXCEPT ![t] = << [k \in DOMAIN b |-> right[b[k]]] >>]
             /\ UNCHANGED <<asked, flushing, cached, kept>>

TakeAnswer(t) == /\ answer[t] # << >>
                 /\ asked' = [asked EXCEPT ![t] = << >>]
                 /\ answer' = [answer EXCEPT ![t] = << >>]
                 /\ UNCHANGED <<flushing, cached, kept>>

StartFlush(t) == /\ t \notin flushing
                 /\ flushing' = flushing \cup {t}
                 /\ UNCHANGED <<asked, answer, cached, kept>>

FlushReturns(t) == /\ t \in flushing
                   /\ kept = cached
                   /\ flushing' = flushing \ {t}
                   /\ UNCHANGED <<asked, answer, cached, kept>>

Keep == /\ kept' = cached
        /\ UNCHANGED <<asked, answer, flushing, cached>>

(* The process dies and is started again.                                  *)
Crash == /\ asked' = [t \in Threads |-> << >>]
         /\ answer' = [t \in Threads |-> << >>]
         /\ flushing' = {}
         /\ cached' = kept
         /\ UNCHANGED kept

Next == /\ UNCHANGED right
        /\ \/ \E t \in Threads : \/ Ask(t) \/ Store(t) \/ Answer(t) \/ TakeAnswer(t)
                                 \/ StartFlush(t) \/ FlushReturns(t)
           \/ Keep \/ Crash

Spec == Init /\ [][Next]_vars
==============================================================================
