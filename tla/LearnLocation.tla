---------------------------- MODULE LearnLocation ----------------------------
(***************************************************************************)
(* One location in the learning loop of igen/algo/Iter2.cpp, with its      *)
(* decision tree: run_alg runs the covering configurations of the domain,  *)
(* run_one_loc builds a tree, selects leaves, generates configurations in  *)
(* them (gen_cex), runs those and tests the tree on the results, and       *)
(* between two calls of it the runs made for other locations are shown to  *)
(* the tree through the flat interpreter.                                  *)
(*                                                                         *)
(* Iter2.tla has the loop over all locations, with opaque trees; here is   *)
(* one location, with all that happens to its tree.                        *)
(***************************************************************************)
EXTENDS CoveringConfigs, TreeForms, FiniteSetsExt

CONSTANTS
    Programs,               (* the sets of configurations that may cover the location *)
    p_gen_cex_lim_leaves,
    p_gen_cex_heavy, p_gen_cex_normal, p_gen_cex_retry,  (* small, rand, large *)
    RandTries               (* leaves drawn in the second loop of gen_cex, 10 in the code *)

ASSUME LearnAssumption ==
    /\ Programs \subseteq SUBSET Configs
    /\ {p_gen_cex_lim_leaves, RandTries} \subseteq Nat
    /\ {p_gen_cex_heavy, p_gen_cex_normal, p_gen_cex_retry} \subseteq [1 .. 3 -> Nat]

VARIABLES
    hits,          (* the configurations that cover the location              *)
    cov,           (* the configurations that were run                        *)
    need_rebuild,
    interpreter,   (* interpreter_ of the tree, empty until build_interpreter *)
    pc,
    n_gen,         (* which of the three p_gen_cex_... this gen_cex uses      *)
    stage,         (* the loop of gen_cex that runs: 1, 2 or 3                *)
    pending,       (* leaves the loop has still to visit; 2 copies in a retry *)
    tries,         (* leaves the second loop has drawn                        *)
    target,        (* the length of cex at which the loop ends                *)
    cex,
    tested         (* how many of cex the tree was tested on                  *)

select == <<n_gen, stage, pending, tries, target>>
vars == <<tree, gen, hits, cov, need_rebuild, interpreter, pc, select, cex, tested>>

(* cov()->configs() with the location among their coverage, and without it.*)
Hits == cov \cap hits

Misses == cov \ hits

(* The tree as a value, and the value it gives a configuration.            *)
Shape == [n \in Nodes |-> IF splitvar[n] # NoVar THEN splitvar[n]
                          ELSE IF leaf_value(n) THEN kInterpretHit ELSE kInterpretMiss]

NoSelection == /\ n_gen' = "none" /\ stage' = 1 /\ pending' = {} /\ tries' = 0 /\ target' = 0

LInit ==
    /\ Init /\ GenInit
    /\ hits \in Programs
    /\ cov = {} /\ need_rebuild = TRUE /\ interpreter = << >>
    /\ pc = "init"
    /\ n_gen = "none" /\ stage = 1 /\ pending = {} /\ tries = 0 /\ target = 0
    /\ cex = << >> /\ tested = 0

(* run_alg: the covering configurations of the domain are run.             *)
run_init_configs ==
    /\ pc = "init" /\ ~Unfinished
    /\ cov' = Range(ret)
    /\ gen_end
    /\ pc' = "idle"
    /\ UNCHANGED <<tree, hits, need_rebuild, interpreter, select, cex, tested>>

------------------------------------------------------------------------------
(* run_one_loc(..., need_rebuild, !need_rebuild).                          *)

(* Mutant: every node is gathered.                                         *)
AtMost_nodes(lim, copy) == {<<n, copy>> : n \in {m \in Nodes : min_cases[m] <= lim}}

(* gather_nodes: in a retry the leaves gathered before are still in the    *)
(* vector, so some are in it twice.                                        *)
AtMost(lim, copy) == {<<n, copy>> : n \in {m \in Leaves : min_cases[m] <= lim}}
FewCases == AtMost(Max({p_gen_cex_lim_leaves, min_cases[Root] + 1}), 1)

Gathered(kind) ==
    CASE kind = "heavy" -> AtMost(MaxInt, 1)
      [] kind = "normal" -> FewCases
      [] kind = "retry" -> FewCases \cup AtMost(MaxInt, 2)

Limits(kind) ==
    CASE kind = "heavy" -> p_gen_cex_heavy
      [] kind = "normal" -> p_gen_cex_normal
      [] kind = "retry" -> p_gen_cex_retry

begin_gen_cex(kind) ==
    /\ n_gen' = kind /\ stage' = 1
    /\ pending' = Gathered(kind)
    /\ tries' = 0 /\ target' = Limits(kind)[1]
    /\ pc' = "cex"

rebuild ==
    /\ pc = "idle" /\ need_rebuild
    /\ build_tree(Hits, Misses)
    /\ need_rebuild' = FALSE
    /\ interpreter' = << >>
    /\ pc' = "build"
    /\ UNCHANGED <<gen, hits, cov, select, cex, tested>>

building ==
    /\ pc = "build" /\ evaluating
    /\ UNCHANGED <<gen, hits, cov, need_rebuild, interpreter, pc, select, cex, tested>>

begin_normal ==
    /\ pc = "build" /\ frame = "built"
    /\ begin_gen_cex("normal")
    /\ UNCHANGED <<tree, gen, hits, cov, need_rebuild, interpreter, cex, tested>>

begin_heavy ==
    /\ pc = "idle" /\ ~need_rebuild
    /\ begin_gen_cex("heavy")
    /\ UNCHANGED <<tree, gen, hits, cov, need_rebuild, interpreter, cex, tested>>

(* sort_leaves: by n_min_cases, then the deepest first; std::sort leaves   *)
(* leaves that are equal in both in any order.                             *)
Before(m, n) == \/ min_cases[m] < min_cases[n]
                \/ min_cases[m] = min_cases[n] /\ depth(m) > depth(n)

Smallest == {x \in pending : \A y \in pending : ~Before(y[1], x[1])}
Largest == {x \in pending : \A y \in pending : ~Before(x[1], y[1])}

(* The three loops of gen_cex: from the leaves with the fewest runs, over  *)
(* leaves drawn at random, from the leaves with the most.                  *)
Enough == Len(cex) >= target

visit_leaf ==
    /\ pc = "cex" /\ ~Enough
    /\ \/ stage = 1 /\ \E x \in Smallest : gen_begin(x[1]) /\ pending' = pending \ {x} /\ tries' = tries
       \/ /\ stage = 2 /\ tries < RandTries
          /\ \E x \in Gathered(n_gen) : gen_begin(x[1])
          /\ tries' = tries + 1 /\ pending' = pending
       \/ stage = 3 /\ \E x \in Largest : gen_begin(x[1]) /\ pending' = pending \ {x} /\ tries' = tries
    /\ pc' = "gen"
    /\ UNCHANGED <<tree, hits, cov, need_rebuild, interpreter, n_gen, stage, target, cex, tested>>

LoopEnds == Enough \/ (IF stage = 2 THEN tries = RandTries ELSE pending = {})

next_loop ==
    /\ pc = "cex" /\ LoopEnds /\ stage < 3
    /\ stage' = stage + 1
    /\ target' = Limits(n_gen)[stage + 1] + Len(cex)
    /\ pending' = IF stage = 1 THEN {} ELSE Gathered(n_gen)
    /\ tries' = 0
    /\ UNCHANGED <<tree, gen, hits, cov, need_rebuild, interpreter, pc, n_gen, cex, tested>>

generating ==
    /\ pc \in {"init", "gen"} /\ round
    /\ UNCHANGED <<tree, hits, cov, need_rebuild, interpreter, pc, select, cex, tested>>

(* gen_for: only what was never generated joins cex, here `list`, one      *)
(* configuration after the other.                                          *)
set_conf_hash(list) == cov \cup Range(list)

gen_for ==
    LET joined[k \in 0 .. Len(ret)] ==
            IF k = 0 THEN cex
            ELSE IF ret[k] \in set_conf_hash(joined[k - 1]) THEN joined[k - 1]
                 ELSE Append(joined[k - 1], ret[k])
    IN  joined[Len(ret)]

end_gen_for ==
    /\ pc = "gen" /\ ~Unfinished
    /\ cex' = gen_for
    /\ gen_end
    /\ pc' = "cex"
    /\ UNCHANGED <<tree, hits, cov, need_rebuild, interpreter, select, tested>>

CexDone == pc = "cex" /\ stage = 3 /\ LoopEnds

retry ==
    /\ CexDone /\ cex = << >> /\ n_gen = "normal"
    /\ begin_gen_cex("retry")
    /\ UNCHANGED <<tree, gen, hits, cov, need_rebuild, interpreter, cex, tested>>

(* Nothing to test the tree on: run_one_loc returns true.                  *)
give_up ==
    /\ CexDone /\ cex = << >> /\ n_gen # "normal"
    /\ NoSelection
    /\ pc' = "idle"
    /\ UNCHANGED <<tree, gen, hits, cov, need_rebuild, interpreter, cex, tested>>

run_configs ==
    /\ CexDone /\ cex # << >>
    /\ cov' = cov \cup Range(cex)
    /\ NoSelection
    /\ pc' = "test"
    /\ UNCHANGED <<tree, gen, hits, need_rebuild, interpreter, cex, tested>>

(* Mutant: a wrong leaf ends the loop only.                                *)
test_one_forgets ==
    /\ pc = "test" /\ tested < Len(cex)
    /\ LET c == cex[tested + 1]
           new_truth == c \in hits
       IN  /\ test_add_config(c, new_truth)
           /\ tested' = IF leaf_value(at') = new_truth THEN tested + 1 ELSE Len(cex)
    /\ UNCHANGED <<gen, hits, cov, need_rebuild, interpreter, pc, select, cex>>

(* The loop over cex, left at the first configuration the tree is wrong on.*)
test_one ==
    /\ pc = "test" /\ tested < Len(cex)
    /\ LET c == cex[tested + 1]
           new_truth == c \in hits
       IN  /\ test_add_config(c, new_truth)
           /\ IF leaf_value(at') = new_truth
              THEN tested' = tested + 1 /\ UNCHANGED need_rebuild
              ELSE tested' = Len(cex) /\ need_rebuild' = TRUE
    /\ UNCHANGED <<gen, hits, cov, interpreter, pc, select, cex>>

test_climbs ==
    /\ pc = "test" /\ climbing
    /\ UNCHANGED <<gen, hits, cov, need_rebuild, interpreter, pc, select, cex, tested>>

(* Mutant: the next test goes on from where this one stopped.              *)
end_test_keeps_place ==
    /\ pc = "test" /\ frame = "built" /\ tested = Len(cex)
    /\ cex' = << >>
    /\ pc' = "idle"
    /\ UNCHANGED <<tree, gen, hits, cov, need_rebuild, interpreter, select, tested>>

end_test ==
    /\ pc = "test" /\ frame = "built" /\ tested = Len(cex)
    /\ cex' = << >> /\ tested' = 0
    /\ pc' = "idle"
    /\ UNCHANGED <<tree, gen, hits, cov, need_rebuild, interpreter, select>>

------------------------------------------------------------------------------
(* A run made for another location, in the second loop of run_iter: a tree *)
(* that is to be rebuilt does not see it, any other classifies it with the *)
(* flat interpreter, whose code is written once per tree.  The run and the *)
(* loop are one step here: this location is not looked at between them.    *)
build_interpreter == IF interpreter = << >> THEN Code(Shape) ELSE interpreter

other_run(c) ==
    /\ pc = "idle" /\ c \notin cov
    /\ cov' = cov \cup {c}
    /\ IF need_rebuild THEN UNCHANGED <<interpreter, need_rebuild>>
       ELSE /\ interpreter' = build_interpreter
            /\ need_rebuild' = ((Interpret(interpreter', c) = kInterpretHit) # (c \in hits))
    /\ UNCHANGED <<tree, gen, hits, pc, select, cex, tested>>

run_one_loc ==
    \/ rebuild \/ building \/ begin_normal \/ begin_heavy
    \/ visit_leaf \/ next_loop \/ generating \/ end_gen_for
    \/ retry \/ give_up \/ run_configs
    \/ test_one \/ test_climbs \/ end_test

LNext == run_init_configs \/ run_one_loc \/ \E c \in Configs : other_run(c)

LSpec == LInit /\ [][LNext]_vars /\ WF_vars(run_init_configs \/ run_one_loc)

------------------------------------------------------------------------------
(* Properties.                                                             *)

LTypeOK ==
    /\ TypeOK /\ GenTypeOK
    /\ {hits, cov} \subseteq SUBSET Configs
    /\ need_rebuild \in BOOLEAN
    /\ pc \in {"init", "idle", "build", "cex", "gen", "test"}
    /\ n_gen \in {"none", "normal", "heavy", "retry"} /\ stage \in 1 .. 3
    /\ pending \subseteq Nodes \X {1, 2}
    /\ tries \in 0 .. RandTries /\ target \in Nat
    /\ cex \in Seq(Configs) /\ tested \in 0 .. Len(cex)

(* A tree that need not be rebuilt gives every run shown to it the value   *)
(* that was observed, whether the run was among those it was built from,   *)
(* was generated to refute it, or was made for another location.           *)
Untested == IF pc = "test" THEN {cex[i] : i \in tested + 1 .. Len(cex)} ELSE {}

TreeAgreesWithRuns ==
    frame = "built" /\ ~need_rebuild =>
        \A c \in cov \ Untested : Predicts(Shape, c) <=> c \in hits

(* The flat interpreter, whose code the tree keeps, and the tree never     *)
(* differ, in whatever order the tree is rebuilt and the code written.     *)
InterpreterAgrees ==
    frame = "built" /\ interpreter # << >> =>
        \A c \in Configs :
            Interpret(interpreter, c) = IF Predicts(Shape, c) THEN kInterpretHit ELSE kInterpretMiss

(* What finish_alg writes for a tree: either formula, and the text, mean   *)
(* the same as the tree.  MixedDefined is CHECK(!empty_res).               *)
FormsAgree ==
    frame = "built" =>
        LET predicted == {c \in Configs : Predicts(Shape, c)}
        IN  /\ MixedDefined(Shape) /\ Mixed(Shape) = predicted
            /\ DisjConj(Shape) = predicted
            /\ Deserialize(Serialize(Shape)) = Shape

(* Whatever the loop does with the tree and the generators is a behaviour  *)
(* of theirs, of which more is proved: no configurations are generated in  *)
(* a node that is no leaf or of a tree that changes meanwhile, and none is *)
(* added to a tree that is being built.                                    *)
ImplementsTree == GSpec

(* run_one_loc always returns: the recursion of evaluate_split ends, a     *)
(* generator runs out of values, gen_cex runs out of leaves.               *)
RunOneLocReturns == []<>(pc = "idle")
==============================================================================
