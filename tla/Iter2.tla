-------------------------------- MODULE Iter2 --------------------------------
(***************************************************************************)
(* The learning loop of igen/algo/Iter2.cpp with the parts of the          *)
(* CoverageStore it reads.  The algorithm runs configurations, keeps one   *)
(* decision tree per class of locations covered by the same runs, looks    *)
(* for configurations that refute a tree, and stops after                  *)
(* max_terminate_counter quiet iterations in a row, after `rounds`         *)
(* iterations, or on a signal.                                             *)
(*                                                                         *)
(* Abstractions.  A configuration and a location are opaque; the program   *)
(* under analysis is the function Cover (it is deterministic).  A decision *)
(* tree is the set of configurations it classifies as hits, any set that   *)
(* agrees with the runs it was built from: which splits C5.0 prefers and   *)
(* where the leaves are is not modelled, and gen_cex returns any few       *)
(* configurations never generated before.  Two locations have the same     *)
(* hash when the same runs cover them.                                     *)
(***************************************************************************)
EXTENDS Integers, Sequences, FiniteSets, FiniteSetsExt, SequencesExt

CONSTANTS
    Configs,         (* the configurations of the domain                        *)
    Locs,            (* location names, in the order of std::set<str>           *)
    Cover,           (* Cover[c]: the locations a run of c covers               *)
    InitialConfigs,  (* what gen_one_convering_configs of the domain may return *)
    SeedConfigs,     (* --seed-configs                                          *)
    Modes,           (* how to start: from covering configurations, --full or --rand *)
    NRand,           (* the number given to --rand                              *)
    Rounds,          (* --rounds, or Unlimited: it is 1e9 by default            *)
    save_each_iteration,
    max_terminate_counter,
    p_thr_messed_up_kickin, p_thr_stuck_kickin, p_max_messed_up, p_max_stuck,
    p_messed_up_factor, p_lim_times, p_consecutive_success,
    p_thr_messed_up_switch, p_messed_lim_times, p_messed_consecutive_success,
    MaxCex,          (* bound: configurations per call of gen_cex               *)
    Signals,         (* the signals the environment sends                       *)
    MaxSignals       (* bound: how many of them                                 *)

Unlimited == -1

ASSUME DomainAssumption ==
    /\ IsFiniteSet(Configs) /\ IsFiniteSet(Locs) /\ Locs \subseteq Nat \ {0}
    /\ Cover \in [Configs -> SUBSET Locs]
    /\ InitialConfigs # {}
    /\ \A s \in InitialConfigs : s \in Seq(Configs) /\ s # << >> /\ IsInjective(s)
    /\ SeedConfigs \in Seq(Configs)
    /\ NRand \in 1 .. Cardinality(Configs)

ASSUME ParamAssumption ==
    /\ Modes # {} /\ Modes \subseteq {"cover", "full", "rand"}
    /\ save_each_iteration \in BOOLEAN
    /\ Rounds \in Nat \cup {Unlimited}
    /\ max_terminate_counter \in Nat \ {0}
    /\ {p_thr_messed_up_kickin, p_thr_stuck_kickin, p_max_messed_up, p_max_stuck,
        p_messed_up_factor, p_thr_messed_up_switch} \subseteq Nat
    /\ {p_lim_times, p_consecutive_success,
        p_messed_lim_times, p_messed_consecutive_success} \subseteq Nat \ {0}
    /\ {MaxCex, MaxSignals} \subseteq Nat
    /\ Signals \subseteq {"SIGINT", "SIGUSR1", "SIGUSR2", "SIGRTMIN+1", "SIGRTMIN+2"}

VARIABLES
    mode,              (* the mode of this execution, one of Modes              *)
    pc,                (* where the algorithm is, see PC below                  *)
    iter,              (* the iteration; counted only if Rounds is not Unlimited*)
    terminate_counter,
    configs,           (* cov()->configs(): the runs so far, in id order        *)
    set_conf_hash,     (* every configuration generated so far                  *)
    dat,               (* v_loc_data: dat[l] is the LocData of l                *)
    v_this_iter,       (* locations, as names                                   *)
    v_next_iter,
    meidx,             (* position in v_this_iter                               *)
    t, c_success,      (* the locals of run_iter for that location              *)
    prev_n_conf,       (* n_configs when run_iter began                         *)
    quiet,             (* what run_iter returned                                *)
    gSignalStatus,
    n_signals,         (* signals delivered so far                              *)
    unflushed          (* the runner has runs that are not flushed to its cache *)

loop  == <<mode, iter, terminate_counter>>
store == <<configs, set_conf_hash, unflushed>>
cursor == <<meidx, t, c_success, prev_n_conf>>
vars == <<pc, loop, store, dat, v_this_iter, v_next_iter, cursor, quiet,
          gSignalStatus, n_signals>>

PC == {"init", "head", "loc", "post", "reset", "final", "done", "abort", "exit"}
Terminal == {"done", "abort", "exit"}

NoSignal == "none"
Break == {"SIGINT", "SIGRTMIN+1"}
TempFinish == {"SIGUSR1", "SIGUSR2"}

------------------------------------------------------------------------------
(* The coverage store: everything in it is a function of the runs.        *)

n_configs == Len(configs)
Ran == Range(configs)

(* cov()->locs(): register_cov registers a location when a run covers it. *)
Known == UNION {Cover[c] : c \in Ran}

(* cov_by_ids of a location, which is also what its hash distinguishes.   *)
CovBy(l) == {k \in DOMAIN configs : l \in Cover[configs[k]]}

(* Mutant: a hash of how many configurations were added, not of which.    *)
SameCount(l, m) == Cardinality(CovBy(l)) = Cardinality(CovBy(m))

SameHash(l, m) == CovBy(l) = CovBy(m)

(* The order of location ids: by the first run, then by name.             *)
IdBefore(l, m) ==
    \/ Min(CovBy(l)) < Min(CovBy(m))
    \/ Min(CovBy(l)) = Min(CovBy(m)) /\ l < m

(* The one sequence of the elements of S in that order, as a set.         *)
InIdOrder(S) ==
    {s \in Bijection(1 .. Cardinality(S), S) :
        \A i, j \in DOMAIN s : i < j => IdBefore(s[i], s[j])}

------------------------------------------------------------------------------
(* LocData and its decision tree.                                         *)

NoLoc == 0
NoTree == [hits |-> {}, counted |-> 0]

NewLocData == [parent |-> NoLoc, tree |-> NoTree, queued_next |-> FALSE,
               ignored |-> FALSE, need_rebuild |-> TRUE, messed_up |-> 0, n_stuck |-> 0]

linked(d) == d.parent # NoLoc
link_to(d, p) == [d EXCEPT !.parent = p, !.tree = NoTree, !.need_rebuild = TRUE]

Unlinked(D) == {l \in DOMAIN D : ~linked(D[l])}

(* build_tree: the configurations that were run are classified as they    *)
(* were observed, the others (guess) as the splits happen to put them.    *)
(* counted is what n_hits + n_misses will print for it.                   *)
Built(l, d, guess) ==
    [d EXCEPT !.tree = [hits |-> {c \in Ran : l \in Cover[c]} \cup guess,
                        counted |-> n_configs],
              !.need_rebuild = FALSE]

(* The trees that all the locations of S may be rebuilt to.               *)
Guesses(S) == [S -> SUBSET (Configs \ Ran)]

Rebuild(D, S, guess) == [l \in DOMAIN D |-> IF l \in S THEN Built(l, D[l], guess[l]) ELSE D[l]]

(* Does the tree classify the run of c as it was observed?                *)
Agrees(l, d, c) == (c \in d.tree.hits) = (l \in Cover[c])

------------------------------------------------------------------------------
(* prepare_vec_loc_data.                                                  *)

(* The first location in id order with the same hash.  All locations of a *)
(* class appeared with the same run, so the first id is the least name.   *)
Rep(l) == Min({m \in Known : SameHash(l, m)})

PreparedDat ==
    [l \in Known |->
        LET d == IF l \in DOMAIN dat THEN dat[l] ELSE NewLocData
        IN  IF Rep(l) # l THEN link_to(d, Rep(l))
            ELSE IF linked(d) THEN link_to(d, NoLoc) ELSE d]

NewDats == {l \in Known : Rep(l) = l /\ (l \in DOMAIN dat => linked(dat[l]))}

------------------------------------------------------------------------------
(* enqueue_next: the counters, and the decision to give up on a location. *)
(* The location joins v_next_iter unless it is ignored.                   *)

Enqueued(d, n) ==
    LET kick_messed == terminate_counter > 0 /\ n > p_thr_messed_up_kickin
        kick_stuck == n > p_thr_stuck_kickin
        messed_up == d.messed_up + IF kick_messed THEN terminate_counter * p_messed_up_factor ELSE 0
        n_stuck == d.n_stuck + IF kick_stuck THEN 1 ELSE 0
        ig == \/ kick_messed /\ messed_up >= p_max_messed_up
              \/ kick_stuck /\ n_stuck >= p_max_stuck
    IN  [d EXCEPT !.messed_up = messed_up, !.n_stuck = n_stuck, !.ignored = ig,
                  !.need_rebuild = @ \/ ig, !.queued_next = @ \/ ~ig]

------------------------------------------------------------------------------
(* run_alg up to the loop.                                                *)

Init ==
    /\ mode \in Modes
    /\ pc = "init"
    /\ iter = 1 /\ terminate_counter = 0
    /\ configs = << >> /\ set_conf_hash = {} /\ unflushed = FALSE
    /\ dat = << >>
    /\ v_this_iter = << >> /\ v_next_iter = << >>
    /\ meidx = 1 /\ t = 1 /\ c_success = 0 /\ prev_n_conf = 0
    /\ quiet = FALSE
    /\ gSignalStatus = NoSignal /\ n_signals = 0

pregen_configs == mode \in {"full", "rand"}
n_iterations == IF mode = "full" THEN 0 ELSE Rounds

(* gen_rand_configs keeps the hashes of what it has drawn.                *)
RandConfigs == {s \in [1 .. NRand -> Configs] : IsInjective(s)}

InitConfigs ==
    IF mode = "full" THEN {SetToSeq(Configs)}
    ELSE IF mode = "rand" THEN RandConfigs
    ELSE {s \o SeedConfigs : s \in InitialConfigs}

(* The initial configurations are run in one go; _run_configs aborts when *)
(* it is given a configuration for the second time.                       *)
run_init_configs ==
    /\ pc = "init"
    /\ \E init_configs \in InitConfigs :
          /\ pc' = IF IsInjective(init_configs) THEN "head" ELSE "abort"
          /\ set_conf_hash' = Range(init_configs)
          /\ configs' = IF IsInjective(init_configs) THEN init_configs ELSE configs
    /\ unflushed' = ~pregen_configs
    /\ UNCHANGED <<loop, dat, v_this_iter, v_next_iter, cursor, quiet, gSignalStatus, n_signals>>

------------------------------------------------------------------------------
(* run_iter.                                                              *)

ResetQueued(D) == [l \in DOMAIN D |-> [D[l] EXCEPT !.queued_next = FALSE]]

(* The loop condition of run_alg, and run_iter up to its first loop.      *)
begin_iter ==
    /\ pc = "head"
    /\ n_iterations = Unlimited \/ iter <= n_iterations
    /\ \E new_dats \in InIdOrder(NewDats) : v_this_iter' = v_next_iter \o new_dats
    /\ v_next_iter' = << >>
    /\ dat' = ResetQueued(PreparedDat)
    /\ meidx' = 1 /\ t' = 1 /\ c_success' = 0 /\ prev_n_conf' = n_configs
    /\ pc' = IF set_conf_hash = Ran /\ IsInjective(v_this_iter') THEN "loc" ELSE "abort"
    /\ UNCHANGED <<loop, store, quiet, gSignalStatus, n_signals>>

end_rounds ==
    /\ pc = "head"
    /\ n_iterations # Unlimited /\ iter > n_iterations
    /\ pc' = "final"
    /\ UNCHANGED <<loop, store, dat, v_this_iter, v_next_iter, cursor, quiet,
                   gSignalStatus, n_signals>>

InFirstLoop == pc = "loc" /\ meidx <= Len(v_this_iter)
Messed(d) == d.messed_up >= p_thr_messed_up_switch
LimTimes(d) == IF Messed(d) THEN p_messed_lim_times ELSE p_lim_times
ConsecutiveSuccess(d) ==
    IF Messed(d) THEN p_messed_consecutive_success ELSE p_consecutive_success

(* A signal was seen before the next attempt: run_iter returns false.     *)
break_iter ==
    /\ InFirstLoop
    /\ gSignalStatus \in Break
    /\ quiet' = FALSE
    /\ pc' = IF linked(dat[v_this_iter[meidx]]) THEN "abort" ELSE "post"
    /\ UNCHANGED <<loop, store, dat, v_this_iter, v_next_iter, cursor, gSignalStatus, n_signals>>

(* gen_cex: at most MaxCex configurations that were never generated.      *)
Cex == {s \in UNION {[1 .. k -> Configs \ set_conf_hash] : k \in 0 .. MaxCex} : IsInjective(s)}

(* run_one_loc(dat, need_rebuild, !need_rebuild), in two parts: the       *)
(* LocData with its tree, rebuilt if it has to be, and what becomes of it *)
(* when the tree has been tested on the runs of cex up to the first that  *)
(* refutes it.                                                            *)
OneLocTrees(l) ==
    IF dat[l].need_rebuild THEN {Built(l, dat[l], g) : g \in SUBSET (Configs \ Ran)}
    ELSE {dat[l]}

Refuting(l, d, cex) == {i \in DOMAIN cex : ~Agrees(l, d, cex[i])}

(* Mutant: no configuration to test the tree on counts as a failure.      *)
Success_not_empty(l, d, cex) == cex # << >> /\ Refuting(l, d, cex) = {}

Success(l, d, cex) == Refuting(l, d, cex) = {}

Tested(l, d, cex) ==
    [d EXCEPT !.tree.counted = @ + IF Refuting(l, d, cex) = {} THEN Len(cex)
                                   ELSE Min(Refuting(l, d, cex)),
              !.need_rebuild = ~Success(l, d, cex)]

(* run_one_loc needs a location that is not linked, and a tree.           *)
OneLocChecks(l) == ~linked(dat[l]) /\ (dat[l].need_rebuild \/ dat[l].tree # NoTree)

run_configs(cex) ==
    /\ configs' = configs \o cex
    /\ set_conf_hash' = set_conf_hash \cup Range(cex)
    /\ unflushed' = (unflushed \/ cex # << >>)

(* The attempt succeeded, but not often enough, or failed, but not for the*)
(* last time: the turn of the location goes on.                           *)
turn_goes_on(l, d, cex) ==
    LET successes == IF Success(l, d, cex) THEN c_success + 1 ELSE 0
    IN  /\ successes # ConsecutiveSuccess(d)
        /\ t < LimTimes(d)
        /\ t' = t + 1
        /\ c_success' = successes
        /\ dat' = [dat EXCEPT ![l] = Tested(l, d, cex)]
        /\ pc' = IF OneLocChecks(l) THEN "loc" ELSE "abort"
        /\ UNCHANGED <<meidx, v_next_iter>>

end_turn == meidx' = meidx + 1 /\ t' = 1 /\ c_success' = 0

turn_succeeds(l, d, cex) ==
    /\ Success(l, d, cex)
    /\ c_success + 1 = ConsecutiveSuccess(d)
    /\ dat' = [dat EXCEPT ![l] = [Tested(l, d, cex) EXCEPT !.n_stuck = 0]]
    /\ end_turn
    /\ pc' = IF OneLocChecks(l) THEN "loc" ELSE "abort"
    /\ UNCHANGED v_next_iter

turn_fails(l, d, cex) ==
    LET after == Enqueued(Tested(l, d, cex), n_configs + Len(cex))
    IN  /\ ~(Success(l, d, cex) /\ c_success + 1 = ConsecutiveSuccess(d))
        /\ t = LimTimes(d)
        /\ dat' = [dat EXCEPT ![l] = after]
        /\ end_turn
        /\ pc' = IF OneLocChecks(l) /\ ~dat[l].ignored THEN "loc" ELSE "abort"
        /\ v_next_iter' = IF after.ignored THEN v_next_iter ELSE Append(v_next_iter, l)

(* One round of the loop over t.                                          *)
attempt ==
    /\ InFirstLoop
    /\ gSignalStatus \notin Break
    /\ LET l == v_this_iter[meidx]
       IN  \E d \in OneLocTrees(l), cex \in Cex :
             /\ run_configs(cex)
             /\ \/ turn_goes_on(l, d, cex)
                \/ turn_succeeds(l, d, cex)
                \/ turn_fails(l, d, cex)
    /\ UNCHANGED <<loop, v_this_iter, prev_n_conf, quiet, gSignalStatus, n_signals>>

------------------------------------------------------------------------------
(* The second loop of run_iter: every run of this iteration is shown to   *)
(* the trees that are neither queued, ignored nor linked.                 *)

(* Mutant: the first run of the iteration is skipped.                     *)
NewRuns_off_by_one == prev_n_conf + 2 .. n_configs

NewRuns == prev_n_conf + 1 .. n_configs

Watched == {l \in Unlinked(dat) : ~dat[l].queued_next /\ ~dat[l].ignored}

Refuted(l) == {k \in NewRuns : ~Agrees(l, dat[l], configs[k])}

(* A tree is shown no more runs once it is refuted.                       *)
Shown(l) ==
    [dat[l] EXCEPT !.tree.counted = @ + IF Refuted(l) = {} THEN Cardinality(NewRuns)
                                        ELSE Min(Refuted(l)) - prev_n_conf]

Rechecked(l) ==
    IF Refuted(l) = {} THEN Shown(l)
    ELSE Enqueued([Shown(l) EXCEPT !.need_rebuild = TRUE], n_configs)

(* By the run that refuted them, then by id.                              *)
RefutedBefore(l, m) ==
    \/ Min(Refuted(l)) < Min(Refuted(m))
    \/ Min(Refuted(l)) = Min(Refuted(m)) /\ IdBefore(l, m)

InRefutedOrder(S) ==
    {s \in Bijection(1 .. Cardinality(S), S) :
        \A i, j \in DOMAIN s : i < j => RefutedBefore(s[i], s[j])}

(* Mutant: no second loop.                                                *)
recheck_nothing ==
    /\ pc = "loc"
    /\ meidx > Len(v_this_iter)
    /\ quiet' = (v_next_iter = << >>)
    /\ pc' = "post"
    /\ UNCHANGED <<loop, store, dat, v_this_iter, v_next_iter, cursor, gSignalStatus, n_signals>>

recheck ==
    LET requeued == {l \in Watched : Refuted(l) # {} /\ ~Rechecked(l).ignored}
    IN  /\ pc = "loc"
        /\ meidx > Len(v_this_iter)
        /\ dat' = [l \in DOMAIN dat |-> IF l \in Watched THEN Rechecked(l) ELSE dat[l]]
        /\ \E s \in InRefutedOrder(requeued) : v_next_iter' = v_next_iter \o s
        /\ quiet' = (v_next_iter' = << >>)
        /\ pc' = IF NewRuns # {} /\ \E l \in Watched : dat[l].tree = NoTree
                 THEN "abort" ELSE "post"
        /\ UNCHANGED <<loop, store, v_this_iter, cursor, gSignalStatus, n_signals>>

------------------------------------------------------------------------------
(* run_alg after run_iter, and finish_alg.                                *)

(* The CHECKs of finish_alg: an ignored location is rebuilt whenever it is*)
(* written, and a location that is not rebuilt has a tree.                *)
FinishChecks(D) ==
    \A l \in Unlinked(D) : /\ D[l].ignored => D[l].need_rebuild
                           /\ D[l].need_rebuild \/ D[l].tree # NoTree

ToRebuild(D) == {l \in Unlinked(D) : D[l].need_rebuild}

(* The rest of the iteration when nobody asked for a break: finish_alg    *)
(* with build_tree_temp, which keeps nothing, and the next iteration.     *)
NextIter(D) == IF save_each_iteration /\ ~FinishChecks(D) THEN "abort" ELSE "head"

CountIter == iter' = IF Rounds = Unlimited THEN iter ELSE iter + 1

(* What is queued and the count of quiet iterations after run_iter.       *)
(* Mutant: enqueue_all takes the ignored locations as well.               *)
enqueue_everything == InIdOrder(Unlinked(dat))

enqueue_all == InIdOrder({l \in Unlinked(dat) : ~dat[l].ignored})

after_run_iter ==
    IF quiet
    THEN terminate_counter' = terminate_counter + 1 /\ v_next_iter' \in enqueue_all
    ELSE terminate_counter' = 0 /\ v_next_iter' = v_next_iter

(* Mutant: the comparison before the increment.                           *)
EarlyBreak_late == quiet /\ terminate_counter = max_terminate_counter

EarlyBreak == quiet /\ terminate_counter + 1 = max_terminate_counter

early_break ==
    /\ pc = "post"
    /\ EarlyBreak
    /\ terminate_counter' = terminate_counter + 1
    /\ pc' = "final"
    /\ UNCHANGED <<mode, iter, store, dat, v_this_iter, v_next_iter, cursor, quiet,
                   gSignalStatus, n_signals>>

(* Mutant: run_iter gave up because of a signal, run_alg does not look.   *)
go_on_anyway ==
    /\ pc = "post"
    /\ ~EarlyBreak
    /\ gSignalStatus \notin TempFinish
    /\ after_run_iter
    /\ CountIter
    /\ pc' = NextIter(dat)
    /\ UNCHANGED <<mode, store, dat, v_this_iter, cursor, quiet, gSignalStatus, n_signals>>

go_on ==
    /\ pc = "post"
    /\ ~EarlyBreak
    /\ gSignalStatus \notin Break \cup TempFinish
    /\ after_run_iter
    /\ CountIter
    /\ pc' = NextIter(dat)
    /\ UNCHANGED <<mode, store, dat, v_this_iter, cursor, quiet, gSignalStatus, n_signals>>

(* SIGINT or SIGRTMIN+1: flush_cachedb and break.                         *)
requested_break ==
    /\ pc = "post"
    /\ ~EarlyBreak
    /\ gSignalStatus \in Break
    /\ after_run_iter
    /\ unflushed' = FALSE
    /\ pc' = "final"
    /\ UNCHANGED <<mode, iter, configs, set_conf_hash, dat, v_this_iter, cursor, quiet,
                   gSignalStatus, n_signals>>

(* SIGUSR1 or SIGUSR2: finish_alg("TEMP FINISH") rebuilds what has to be. *)
(* Mutant: the temporary answer is made of temporary trees.               *)
temp_finish_discarded ==
    /\ pc = "post"
    /\ ~EarlyBreak
    /\ gSignalStatus \in TempFinish
    /\ after_run_iter
    /\ pc' = IF FinishChecks(dat) THEN "reset" ELSE "abort"
    /\ UNCHANGED <<mode, iter, store, dat, v_this_iter, cursor, quiet, gSignalStatus, n_signals>>

temp_finish ==
    /\ pc = "post"
    /\ ~EarlyBreak
    /\ gSignalStatus \in TempFinish
    /\ after_run_iter
    /\ \E guess \in Guesses(ToRebuild(dat)) : dat' = Rebuild(dat, ToRebuild(dat), guess)
    /\ pc' = IF FinishChecks(dat) THEN "reset" ELSE "abort"
    /\ UNCHANGED <<mode, iter, store, v_this_iter, cursor, quiet, gSignalStatus, n_signals>>

(* gSignalStatus = 0, whatever has arrived during finish_alg.             *)
reset_signal ==
    /\ pc = "reset"
    /\ gSignalStatus' = NoSignal
    /\ CountIter
    /\ pc' = NextIter(dat)
    /\ UNCHANGED <<mode, terminate_counter, store, dat, v_this_iter, v_next_iter, cursor, quiet,
                   n_signals>>

(* The end of run_alg (without an iteration v_loc_data is still empty),   *)
(* and ctx->cleanup(), which flushes the cache.                           *)
finish ==
    LET D == IF DOMAIN dat = {} THEN PreparedDat ELSE dat
    IN  /\ pc = "final"
        /\ \E guess \in Guesses(ToRebuild(D)) : dat' = Rebuild(D, ToRebuild(D), guess)
        /\ pc' = IF FinishChecks(D) THEN "done" ELSE "abort"
        /\ unflushed' = FALSE
        /\ UNCHANGED <<loop, configs, set_conf_hash, v_this_iter, v_next_iter, cursor, quiet,
                       gSignalStatus, n_signals>>

------------------------------------------------------------------------------
(* iter2_sighandler, on whatever thread the signal is delivered.          *)
signal(s) ==
    /\ pc \notin Terminal
    /\ n_signals < MaxSignals
    /\ n_signals' = n_signals + 1
    /\ IF s \in {"SIGINT", "SIGRTMIN+2"} /\ gSignalStatus = s
       THEN pc' = "exit" /\ UNCHANGED gSignalStatus
       ELSE gSignalStatus' = s /\ UNCHANGED pc
    /\ UNCHANGED <<loop, store, dat, v_this_iter, v_next_iter, cursor, quiet>>

terminated == pc \in Terminal /\ UNCHANGED vars

Algorithm ==
    \/ run_init_configs \/ begin_iter \/ end_rounds
    \/ break_iter \/ attempt \/ recheck
    \/ early_break \/ go_on \/ requested_break \/ temp_finish \/ reset_signal
    \/ finish

Next == Algorithm \/ (\E s \in Signals : signal(s)) \/ terminated

(* The algorithm is one thread that never waits for anybody; the signals  *)
(* may come or not.                                                       *)
Spec == Init /\ [][Next]_vars /\ WF_vars(Algorithm)

------------------------------------------------------------------------------
(* Properties.                                                            *)

LocDataType ==
    [parent : Locs \cup {NoLoc},
     tree : [hits : SUBSET Configs, counted : Nat],
     queued_next : BOOLEAN, ignored : BOOLEAN, need_rebuild : BOOLEAN,
     messed_up : Nat, n_stuck : Nat]

(* The type invariant.                                                    *)
TypeOK ==
    /\ mode \in Modes /\ pc \in PC
    /\ iter \in Nat /\ terminate_counter \in 0 .. max_terminate_counter
    /\ configs \in Seq(Configs) /\ set_conf_hash \subseteq Configs
    /\ DOMAIN dat \subseteq Locs /\ dat \in [DOMAIN dat -> LocDataType]
    /\ v_this_iter \in Seq(Locs) /\ v_next_iter \in Seq(Locs)
    /\ meidx \in Nat \ {0} /\ t \in Nat \ {0} /\ c_success \in Nat /\ prev_n_conf \in Nat
    /\ quiet \in BOOLEAN /\ unflushed \in BOOLEAN
    /\ gSignalStatus \in Signals \cup {NoSignal} /\ n_signals \in 0 .. MaxSignals

(* No CHECK of the algorithm fails: no configuration is run twice         *)
(* (Iter2.cpp:497, 131), no location is twice in v_this_iter or linked    *)
(* there (292, 296), no ignored location is queued (347) or written with  *)
(* an old tree (411), and every tree that is used exists (331, 422).      *)
ChecksHold == pc # "abort"

(* Two locations of one class (linked, or the parent itself) were covered *)
(* by the same runs when v_loc_data was prepared, and the parent is not   *)
(* linked itself: the output writes a class under its parent's            *)
(* interaction (Iter2.cpp:375-378), so no other member may be hidden      *)
(* behind it.                                                             *)
ClassesSound ==
    \A l \in DOMAIN dat : linked(dat[l]) =>
        LET p == dat[l].parent
        IN  /\ p \in DOMAIN dat /\ ~linked(dat[p])
            /\ CovBy(l) \cap 1 .. prev_n_conf = CovBy(p) \cap 1 .. prev_n_conf

(* Classes only split: a location that has a tree of its own never becomes*)
(* linked later, so what was learned for it, its counters and its place in*)
(* v_next_iter stay valid (the hash is a hash of all its runs,            *)
(* Iter2.cpp:460-466).                                                    *)
ClassesOnlySplit ==
    [][\A l \in Unlinked(dat) : l \in Unlinked(dat')]_vars

(* When an iteration is over, a tree that nobody will look at again       *)
(* (neither queued nor ignored) classifies every run so far as it was     *)
(* observed, the runs made for other locations included                   *)
(* (Iter2.cpp:319-341).                                                   *)
Settled ==
    pc = "head" =>
        \A l \in Unlinked(dat) :
            ~dat[l].ignored /\ l \notin Range(v_next_iter) =>
                ~dat[l].need_rebuild /\ \A c \in Ran : Agrees(l, dat[l], c)

(* The final answer of a run that was not interrupted contradicts no run: *)
(* every interaction written, those of ignored locations included,        *)
(* classifies every configuration as it was observed (Iter2.cpp:408-412). *)
AnswerAgreesWithRuns ==
    pc = "done" /\ gSignalStatus \notin Break =>
        \A l \in Unlinked(dat), c \in Ran : Agrees(l, dat[l], c)

(* Between two iterations, whatever the signals, a location that is       *)
(* neither queued nor ignored has a tree that is up to date: the second   *)
(* loop of the next run_iter uses it without looking (Iter2.cpp:330-334). *)
WatchedHaveTrees ==
    pc = "head" =>
        \A l \in Unlinked(dat) :
            ~dat[l].ignored /\ l \notin Range(v_next_iter) =>
                ~dat[l].need_rebuild /\ dat[l].tree # NoTree

(* The algorithm terminates without a limit on its iterations, however the*)
(* trees and the counterexamples turn out: a refuted tree costs a new     *)
(* configuration, and there are only so many (Iter2.cpp:135, 244-246).    *)
Terminates == <>(pc \in Terminal)

(* README.md:46, M/H is the number of hit and miss configurations: it     *)
(* counts no configuration twice.                                         *)
HitsAndMissesAreConfigs ==
    pc = "done" => \A l \in Unlinked(dat) : dat[l].tree.counted <= n_configs
==============================================================================
