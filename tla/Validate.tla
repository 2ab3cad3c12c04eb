------------------------------- MODULE Validate -------------------------------
(***************************************************************************)
(* Analyzer::run_analyze_1 runs the program on random configurations or on *)
(* all of them, in batches, and tells for which the trees of an answer are *)
(* wrong.                                                                  *)
(*                                                                         *)
(* The runner is a symbolic execution (OtterRunner).  The objects of a     *)
(* batch are reused: a Config keeps the hash it computed last until it is  *)
(* told to compute it anew.  A hash stands for its configuration; Stale is *)
(* one not computed yet.  The order within a batch does not matter to the  *)
(* totals; the lines printed are left out.                                 *)
(***************************************************************************)
EXTENDS AnswerFile, OtterRunner, FiniteSetsExt

CONSTANTS
    n_batch,   (* --batch-size                                               *)
    RandIters, (* the values of --rand                                       *)
    Entries    (* what OtterRunner reads                                     *)

ASSUME ValidateAssumption == n_batch \in Nat \ {0} /\ RandIters \subseteq Nat \ {0}

VARIABLES
    run_full, n_iter,
    generated_full_configs,  (* those not yet put into a batch                   *)
    batch_confs, it, iter,
    all_configs, wrong_configs, wrong_configs_nig,
    wrong_locs, wrong_locs_nig, missing_locs,
    validate                 (* where run_analyze_1 is                           *)

totals == <<wrong_configs, wrong_configs_nig, wrong_locs, wrong_locs_nig, missing_locs>>
validatevars == <<run_full, n_iter, generated_full_configs, batch_confs, it, iter,
                  all_configs, totals, validate>>

Stale == <<>>
Slot(c, h) == [values |-> c, cached_hash_ |-> h]

ValidateIdle ==
    /\ run_full = FALSE /\ n_iter = 0 /\ generated_full_configs = {}
    /\ batch_confs = << >> /\ it = n_batch /\ iter = 0
    /\ all_configs = {} /\ wrong_configs = {} /\ wrong_configs_nig = {}
    /\ wrong_locs = {} /\ wrong_locs_nig = {} /\ missing_locs = {}
    /\ validate = "none"

(* --rand n or --full.                                                     *)
begin_validate ==
    /\ validate = "none"
    /\ \/ run_full' = FALSE /\ n_iter' \in RandIters /\ generated_full_configs' = {}
       \/ run_full' = TRUE /\ n_iter' = Cardinality(Configs) /\ generated_full_configs' = Configs
    /\ batch_confs' = [i \in 1 .. n_batch |-> Slot(NoneSet, Stale)]
    /\ iter' = 1 /\ validate' = "loop"
    /\ UNCHANGED <<it, all_configs, totals>>

NewBatch == validate = "loop" /\ iter <= n_iter /\ it = n_batch

full_batch ==
    /\ NewBatch /\ run_full
    /\ \E B \in kSubset(Min({n_batch, Cardinality(generated_full_configs)}), generated_full_configs) :
          /\ batch_confs' = [i \in 1 .. Cardinality(B) |-> Slot(SetToSeq(B)[i], SetToSeq(B)[i])]
          /\ all_configs' = all_configs \cup B
          /\ generated_full_configs' = generated_full_configs \ B
    /\ it' = 0
    /\ UNCHANGED <<run_full, n_iter, iter, totals, validate>>

(* Mutant: the hash of the values that the object had before.              *)
Redrawn_cached(slot, c) ==
    Slot(c, IF slot.cached_hash_ = Stale THEN c ELSE slot.cached_hash_)

Redrawn(slot, c) == Slot(c, c)   (* hash(true) *)

(* Drawn until its hash is new.                                            *)
rand_batch ==
    /\ NewBatch /\ ~run_full
    /\ \E B \in kSubset(n_batch, Configs \ all_configs) :
          /\ batch_confs' = [i \in 1 .. n_batch |-> Redrawn(batch_confs[i], SetToSeq(B)[i])]
          /\ all_configs' = all_configs \cup {batch_confs'[i].cached_hash_ : i \in 1 .. n_batch}
    /\ it' = 0
    /\ UNCHANGED <<run_full, n_iter, generated_full_configs, iter, totals, validate>>

(* More than are left: the loop that draws never ends.                     *)
rand_batch_forever ==
    /\ NewBatch /\ ~run_full
    /\ Cardinality(Configs \ all_configs) < n_batch
    /\ validate' = "drawing"
    /\ UNCHANGED <<run_full, n_iter, generated_full_configs, batch_confs, it, iter, all_configs, totals>>

eval_res(l, c) == Interpret(Code(ma[l].tree), c) = kInterpretHit

judge ==
    /\ validate = "loop" /\ iter <= n_iter /\ it < n_batch
    /\ LET c == batch_confs[it + 1]
           e == OtterRun(Entries, c.values)
           wrong == {l \in DOMAIN ma : eval_res(l, c.values) # (l \in e)}
           wrong_nig == {l \in wrong : ~ma[l].ignored}
           WithHash(confs, locs) == IF locs = {} THEN confs ELSE confs \cup {c.cached_hash_}
       IN  /\ wrong_locs' = wrong_locs \cup wrong
           /\ wrong_configs' = WithHash(wrong_configs, wrong)
           /\ wrong_locs_nig' = wrong_locs_nig \cup wrong_nig
           /\ wrong_configs_nig' = WithHash(wrong_configs_nig, wrong_nig)
           /\ missing_locs' = missing_locs \cup (e \ DOMAIN ma)
    /\ it' = it + 1 /\ iter' = iter + 1
    /\ UNCHANGED <<run_full, n_iter, generated_full_configs, batch_confs, all_configs, validate>>

end_validate ==
    /\ validate = "loop" /\ iter > n_iter
    /\ validate' = "done"
    /\ UNCHANGED <<run_full, n_iter, generated_full_configs, batch_confs, it, iter, all_configs, totals>>

ValidateNext == full_batch \/ rand_batch \/ rand_batch_forever \/ judge \/ end_validate

------------------------------------------------------------------------------
(* The totals are those of the configurations judged so far, whatever the  *)
(* batches were; in the end as many were judged as asked for, no one twice,*)
(* and with --full all of them.                                            *)
Judged == all_configs \ {batch_confs[i].values : i \in it + 1 .. Len(batch_confs)}

ValidationExact ==
    validate # "none" =>
    LET Covers(l, c) == l \in OtterRun(Entries, c)
        Wrong(l, c) == (c \in ma[l].e) # Covers(l, c)
        Counted == {l \in DOMAIN ma : ~ma[l].ignored}
    IN  /\ wrong_configs = {c \in Judged : \E l \in DOMAIN ma : Wrong(l, c)}
        /\ wrong_locs = {l \in DOMAIN ma : \E c \in Judged : Wrong(l, c)}
        /\ wrong_configs_nig = {c \in Judged : \E l \in Counted : Wrong(l, c)}
        /\ wrong_locs_nig = {l \in Counted : \E c \in Judged : Wrong(l, c)}
        /\ missing_locs = (UNION {OtterRun(Entries, c) : c \in Judged}) \ DOMAIN ma
        /\ Cardinality(Judged) = iter - 1
        /\ (validate = "done" /\ run_full) => Judged = Configs
=============================================================================
