--------------------------- MODULE CoveringConfigs ---------------------------
(***************************************************************************)
(* One-covering configurations: a few configurations in which every value  *)
(* of every free option of a template occurs.  Domain.cpp generates them   *)
(* for a template (the initial configurations), CNode.cpp for a leaf of a  *)
(* decision tree, where it leaves out those already run and asks the SMT   *)
(* solver for others.                                                      *)
(*                                                                         *)
(* One step is one round of the loop.  `lim` is left out, every caller     *)
(* takes its default, the largest int.  A hash stands for its              *)
(* configuration.                                                          *)
(***************************************************************************)
EXTENDS CTree, Sequences, SequencesExt

CONSTANT SolverLimit   (* a leaf with more runs is not checked for          *)
                       (* repetitions; it is 1000 in the code               *)

ASSUME SolverAssumption == SolverLimit \in Nat

VARIABLES
    templ,    (* the template, the leaf's in CNode's generator              *)
    SetVAL,   (* SetVAL[v]: the values of option v not drawn yet            *)
    ret,      (* the configurations so far                                  *)
    generator (* which of the two generators runs, if one does              *)

gen == <<templ, SetVAL, ret, generator>>

GenInit ==
    /\ templ = NoneSet /\ generator = "domain"
    /\ SetVAL = [v \in Vars |-> Values(v)]
    /\ ret = << >>

gen_begin(n) ==
    /\ templ' = n /\ generator' = "leaf"
    /\ SetVAL' = [v \in Vars |-> IF n[v] = Unset THEN Values(v) ELSE {}]
    /\ ret' = << >>

(* The caller takes the configurations returned.                           *)
gen_end ==
    /\ templ' = NoneSet /\ generator' = "none"
    /\ SetVAL' = [v \in Vars |-> {}]
    /\ ret' = << >>

(* Mutant: the loop ends when the first option is finished.                *)
Unfinished_all == \A v \in Vars : SetVAL[v] # {}

(* n_finished < n_vars                                                     *)
Unfinished == \E v \in Vars : SetVAL[v] # {}

(* What a round may draw: a value not drawn before where one is left, any  *)
(* value where none is.                                                    *)
Draws ==
    {c \in Configs : \A v \in Vars :
        IF templ[v] # Unset THEN c[v] = templ[v]
        ELSE SetVAL[v] # {} => c[v] \in SetVAL[v]}

vrand == {v \in Vars : templ[v] = Unset /\ SetVAL[v] = {}}

Drawn(c) == SetVAL' = [v \in Vars |-> SetVAL[v] \ {c[v]}]

(* Domain::gen_one_convering_configs                                       *)
domain_round ==
    /\ generator = "domain" /\ Unfinished
    /\ \E c \in Draws : Drawn(c) /\ ret' = Append(ret, c)
    /\ UNCHANGED <<templ, generator>>

LeafRuns == hit_configs[templ] \cup miss_configs[templ] \cup new_configs[templ]

(* Mutant: the runs added since the tree was built are forgotten.          *)
shash_without_new(returned) ==
    (IF Cases(templ) <= SolverLimit THEN hit_configs[templ] \cup miss_configs[templ] ELSE {})
        \cup returned

use_solver == Cases(templ) <= SolverLimit

(* The configurations a round must not repeat.  The solver is told the     *)
(* same: the runs of the leaf and what was returned.                       *)
shash(returned) == (IF use_solver THEN LeafRuns ELSE {}) \cup returned

(* What the solver may answer when c is a repetition: the options that were*)
(* drawn from SetVAL stay as drawn.                                        *)
Instead(c) ==
    {d \in Configs : /\ \A v \in Vars \ vrand : d[v] = c[v]
                     /\ d \notin shash(Range(ret))}

(* Mutant: the values are used up only by a configuration that is returned.*)
leaf_round_keeps_values ==
    /\ generator = "leaf" /\ Unfinished
    /\ \E c \in Draws :
          IF c \notin shash(Range(ret)) THEN Drawn(c) /\ ret' = Append(ret, c)
          ELSE IF use_solver /\ Instead(c) # {}
               THEN Drawn(c) /\ \E d \in Instead(c) : ret' = Append(ret, d)
               ELSE UNCHANGED <<SetVAL, ret>>
    /\ UNCHANGED <<templ, generator>>

(* CNode::gen_one_convering_configs                                        *)
leaf_round ==
    /\ generator = "leaf" /\ Unfinished
    /\ \E c \in Draws :
          /\ Drawn(c)
          /\ IF c \notin shash(Range(ret)) THEN ret' = Append(ret, c)
             ELSE IF use_solver /\ Instead(c) # {} THEN \E d \in Instead(c) : ret' = Append(ret, d)
             ELSE UNCHANGED ret
    /\ UNCHANGED <<templ, generator>>

round == domain_round \/ leaf_round

(* The generators and the tree: the initial configurations are generated   *)
(* before there is a tree, others in the leaves of a finished tree, which  *)
(* stays as it is meanwhile.                                               *)
GNext ==
    \/ round /\ UNCHANGED tree
    \/ generator = "none" /\ frame = "built" /\ (\E n \in Leaves : gen_begin(n)) /\ UNCHANGED tree
    \/ generator # "none" /\ ~Unfinished /\ gen_end /\ UNCHANGED tree
    \/ generator = "none" /\ Next /\ UNCHANGED gen

GSpec == Init /\ GenInit /\ [][GNext]_<<tree, gen>>

------------------------------------------------------------------------------
(* Properties.                                                             *)

GenTypeOK ==
    /\ templ \in Templates /\ generator \in {"domain", "leaf", "none"}
    /\ SetVAL \in [Vars -> SUBSET AnyValue]
    /\ ret \in Seq(Configs)

(* _run_configs and DemoAlgo::config abort on a configuration run before:  *)
(* the configurations are different, lie in the leaf (so that they test    *)
(* its value), and are no runs of the leaf as long as it is small.         *)
GeneratedAreNew ==
    /\ IsInjective(ret)
    /\ \A c \in Range(ret) : Matches(c, templ)
    /\ (generator = "leaf" /\ use_solver) => Range(ret) \cap LeafRuns = {}

(* What the generators promise by their name: in the end every value of    *)
(* every free option occurs within the template, in a configuration        *)
(* returned or in a run the leaf has had.                                  *)
ValuesCovered ==
    generator # "none" /\ ~Unfinished => \A v \in Free(templ) : \A i \in Values(v) :
        \E c \in Range(ret) \cup (IF generator = "leaf" THEN LeafRuns ELSE {}) : c[v] = i
==============================================================================
