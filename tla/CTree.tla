-------------------------------- MODULE CTree --------------------------------
(***************************************************************************)
(* The decision tree of igen/c50 (CTree.cpp, CNode.cpp) for one location:  *)
(* how it is built from the runs that covered the location (hits) and the  *)
(* others (misses), and how later runs are added to its leaves.            *)
(*                                                                         *)
(* The code is recursive and runs in one thread.  `frame` and `at` are its *)
(* innermost call: evaluate_split entered or about to return, or           *)
(* test_add_config about to return, at a node.  A node is named by its     *)
(* template, which CNode::gen_tpl reads off its parents: the options tested*)
(* on the way to it (tested_vars_) are those that are set in it.           *)
(*                                                                         *)
(* Abstraction: the information gain is floating-point arithmetic over the *)
(* frequencies.  select_best_var may prefer any option not yet tested; its *)
(* second pass, without thresholds, finds one whenever there is one.       *)
(***************************************************************************)
EXTENDS Domain

VARIABLES
    hit_configs, miss_configs,  (* the runs of every node                     *)
    splitvar,                   (* the option a node splits by, or NoVar      *)
    min_cases,                  (* min_cases_in_one_leaf_                     *)
    new_configs,                (* the runs added to a leaf since the tree was built *)
    default_hit,                (* the value of a leaf without runs           *)
    frame, at

tree == <<hit_configs, miss_configs, splitvar, min_cases, new_configs, default_hit, frame, at>>

NoVar == -1
MaxInt == 2147483647

Nodes == DOMAIN splitvar
Inner == {n \in Nodes : splitvar[n] # NoVar}
Leaves == {n \in Nodes : splitvar[n] = NoVar}

is_leaf(n) == hit_configs[n] = {} \/ miss_configs[n] = {}
n_total(n) == Cardinality(hit_configs[n]) + Cardinality(miss_configs[n])

(* Mutant: a leaf without hits takes the default, with misses or without.  *)
leaf_value_hits_only(n) == IF hit_configs[n] = {} THEN default_hit ELSE hit_configs[n] # {}

leaf_value(n) == IF hit_configs[n] = {} /\ miss_configs[n] = {} THEN default_hit
                 ELSE hit_configs[n] # {}

depth(n) == Cardinality({v \in Vars : n[v] # Unset})

Init ==
    /\ splitvar = [n \in {} |-> NoVar]
    /\ hit_configs = [n \in {} |-> {}] /\ miss_configs = [n \in {} |-> {}]
    /\ min_cases = [n \in {} |-> 0] /\ new_configs = [n \in {} |-> {}]
    /\ default_hit = FALSE
    /\ frame = "none" /\ at = Root

------------------------------------------------------------------------------
(* prepare_data and build_tree of a new CTree, up to the call of           *)
(* evaluate_split on its root.  The store holds every configuration once,  *)
(* so hits and misses have none in common.                                 *)
build_tree(hits, misses) ==
    /\ frame \in {"none", "built"}
    /\ hit_configs' = [n \in {Root} |-> hits]
    /\ miss_configs' = [n \in {Root} |-> misses]
    /\ default_hit' = (Cardinality(hits) > Cardinality(misses))
    /\ splitvar' = [n \in {Root} |-> NoVar]
    /\ min_cases' = [n \in {Root} |-> MaxInt]
    /\ new_configs' = [n \in {Root} |-> {}]
    /\ frame' = "evaluate" /\ at' = Root

Returns(n) == frame' = IF n = Root THEN "built" ELSE "return"

evaluate_leaf ==
    /\ frame = "evaluate"
    /\ is_leaf(at)
    /\ min_cases' = [min_cases EXCEPT ![at] = n_total(at)]
    /\ Returns(at)
    /\ UNCHANGED <<hit_configs, miss_configs, splitvar, new_configs, default_hit, at>>

(* create_childs sorts the runs R of a node in place by their value of     *)
(* option v: calc_freq counts the values, curpos starts where the runs of  *)
(* each value will begin, and each run moves to the place curpos has then  *)
(* reached for its value.  The order in which they move is that of the     *)
(* array before, here the lexicographic one; nothing depends on it.        *)
freq(R, v, i) == Cardinality({c \in R : c[v] = i})

starts(R, v) ==
    LET pos[i \in Values(v)] == IF i = 0 THEN 1 ELSE pos[i - 1] + freq(R, v, i - 1)
    IN  pos

Earlier(d, c) == \E u \in Vars : d[u] < c[u] /\ \A w \in Vars : w < u => d[w] = c[w]

place(R, v, c) == starts(R, v)[c[v]] + Cardinality({d \in R : d[v] = c[v] /\ Earlier(d, c)})

(* curpos when all have moved.                                             *)
curpos(R, v) == [i \in Values(v) |-> starts(R, v)[i] + freq(R, v, i)]

(* Mutant: the section of the second value begins with the array, too.     *)
Section_first_two(R, v, i) ==
    {c \in R : place(R, v, c) \in (IF i <= 1 THEN 1 ELSE curpos(R, v)[i - 1]) .. curpos(R, v)[i] - 1}

(* Child i gets what lies between two of the positions curpos ends with.   *)
Section(R, v, i) ==
    {c \in R : place(R, v, c) \in (IF i = 0 THEN 1 ELSE curpos(R, v)[i - 1]) .. curpos(R, v)[i] - 1}

Sections(runs, n, v) ==
    [m \in Nodes \cup Children(n, v) |->
        IF m \in Children(n, v) THEN Section(runs[n], v, m[v]) ELSE runs[m]]

NewChildren(f, n, v, x) ==
    [m \in Nodes \cup Children(n, v) |-> IF m \in Children(n, v) THEN x ELSE f[m]]

(* evaluate_split of a node with hits and misses, and the call for its     *)
(* first child.                                                            *)
evaluate_split(v) ==
    /\ frame = "evaluate"
    /\ ~is_leaf(at)
    /\ at[v] = Unset
    /\ hit_configs' = Sections(hit_configs, at, v)
    /\ miss_configs' = Sections(miss_configs, at, v)
    /\ splitvar' = [NewChildren(splitvar, at, v, NoVar) EXCEPT ![at] = v]
    /\ min_cases' = [NewChildren(min_cases, at, v, MaxInt) EXCEPT ![at] = MaxInt]
    /\ new_configs' = NewChildren(new_configs, at, v, {})
    /\ at' = Child(at, v, 0)
    /\ UNCHANGED <<default_hit, frame>>

(* Mutant: a node keeps the minimum of its last child.                     *)
evaluate_return_last(p) ==
    LET v == splitvar[p]
    IN  /\ frame = "return"
        /\ p \in Inner /\ at \in Children(p, v)
        /\ min_cases' = [min_cases EXCEPT ![p] = min_cases[at]]
        /\ IF at[v] + 1 \in Values(v)
           THEN at' = Child(p, v, at[v] + 1) /\ frame' = "evaluate"
           ELSE at' = p /\ Returns(p)
        /\ UNCHANGED <<hit_configs, miss_configs, splitvar, new_configs, default_hit>>

(* The loop over the children in the parent p: the minimum so far, then    *)
(* the next child or the end.                                              *)
evaluate_return(p) ==
    LET v == splitvar[p]
    IN  /\ frame = "return"
        /\ p \in Inner /\ at \in Children(p, v)
        /\ min_cases' = [min_cases EXCEPT ![p] = IF min_cases[at] < @ THEN min_cases[at] ELSE @]
        /\ IF at[v] + 1 \in Values(v)
           THEN at' = Child(p, v, at[v] + 1) /\ frame' = "evaluate"
           ELSE at' = p /\ Returns(p)
        /\ UNCHANGED <<hit_configs, miss_configs, splitvar, new_configs, default_hit>>

------------------------------------------------------------------------------
(* test_add_config: the leaf the run of c ends in counts it if it agrees   *)
(* with its value, then the minimum is recomputed on the way up.           *)
Climbs(n) == frame' = IF n = Root THEN "built" ELSE "climb"

test_add_config(c, val) ==
    /\ frame = "built"
    /\ \E n \in Leaves :
          /\ Matches(c, n)
          /\ IF leaf_value(n) = val
             THEN /\ min_cases' = [min_cases EXCEPT ![n] = @ + 1]
                  /\ new_configs' = [new_configs EXCEPT ![n] = @ \cup {c}]
             ELSE UNCHANGED <<min_cases, new_configs>>
          /\ at' = n /\ Climbs(n)
    /\ UNCHANGED <<hit_configs, miss_configs, splitvar, default_hit>>

test_add_return(p) ==
    /\ frame = "climb"
    /\ p \in Inner /\ at \in Children(p, splitvar[p])
    /\ \E m \in {min_cases[n] : n \in Children(p, splitvar[p])} :
          /\ \A n \in Children(p, splitvar[p]) : m <= min_cases[n]
          /\ min_cases' = [min_cases EXCEPT ![p] = m]
    /\ at' = p /\ Climbs(p)
    /\ UNCHANGED <<hit_configs, miss_configs, splitvar, new_configs, default_hit>>

------------------------------------------------------------------------------
evaluating ==
    \/ evaluate_leaf
    \/ \E v \in Vars : evaluate_split(v)
    \/ \E p \in Nodes : evaluate_return(p)

climbing == \E p \in Nodes : test_add_return(p)

Next ==
    \/ \E hits \in SUBSET Configs : \E misses \in SUBSET (Configs \ hits) : build_tree(hits, misses)
    \/ evaluating
    \/ \E c \in Configs, val \in BOOLEAN : test_add_config(c, val)
    \/ climbing

Spec == Init /\ [][Next]_tree

------------------------------------------------------------------------------
(* Properties.                                                             *)

TypeOK ==
    /\ Nodes \subseteq Templates
    /\ splitvar \in [Nodes -> Vars \cup {NoVar}]
    /\ hit_configs \in [Nodes -> SUBSET Configs]
    /\ miss_configs \in [Nodes -> SUBSET Configs]
    /\ min_cases \in [Nodes -> Nat]
    /\ new_configs \in [Nodes -> SUBSET Configs]
    /\ default_hit \in BOOLEAN
    /\ frame \in {"none", "evaluate", "return", "climb", "built"}
    /\ at \in Templates
    /\ (frame # "none") => {Root, at} \subseteq Nodes

(* CNode.cpp:210, CHECK_NE(splitvar, -1): a node with hits and misses has  *)
(* an option left to split by, because two runs in it differ somewhere.    *)
CanSplit == frame = "evaluate" /\ ~is_leaf(at) => \E v \in Vars : at[v] = Unset

(* CNode.cpp:180, CHECK(curpos[nvalues - 1] == c.end()): the runs that are *)
(* moved fill the array.                                                   *)
SortFills ==
    frame = "evaluate" /\ ~is_leaf(at) => \A v \in Vars : at[v] = Unset =>
        \A R \in {hit_configs[at], miss_configs[at]} :
            curpos(R, v)[NValues[v] - 1] = Cardinality(R) + 1

(* Sorting the runs in place and cutting the array into sections loses     *)
(* none and mixes none up: every node holds the hits and the misses that   *)
(* match its template.                                                     *)
NodesHoldTheirRuns ==
    \A n \in Nodes :
        /\ hit_configs[n] = {c \in hit_configs[Root] : Matches(c, n)}
        /\ miss_configs[n] = {c \in miss_configs[Root] : Matches(c, n)}

(* Every configuration ends in exactly one leaf.                           *)
OneLeafEach ==
    frame # "none" => \A c \in Configs :
        /\ \E n \in Leaves : Matches(c, n)
        /\ \A m, n \in Leaves : Matches(c, m) /\ Matches(c, n) => m = n

(* Both: the leaves divide the configurations, and the runs with them.     *)
TreePartition == NodesHoldTheirRuns /\ OneLeafEach

(* A finished tree classifies every run it was built from as it was        *)
(* observed.                                                               *)
AgreesWithItsRuns ==
    frame \in {"built", "climb"} =>
        \A n \in Leaves, c \in Configs : Matches(c, n) =>
            /\ c \in hit_configs[Root] => leaf_value(n)
            /\ c \in miss_configs[Root] => ~leaf_value(n)

(* All: no CHECK of evaluate_split fails, and what it leaves is right.     *)
TreeFitsRuns == CanSplit /\ SortFills /\ AgreesWithItsRuns

(* n_min_cases(), by which run_one_loc selects leaves: the least number of *)
(* runs in a leaf below the node, those added later included.              *)
Cases(n) == n_total(n) + Cardinality(new_configs[n])

MinCasesRight ==
    frame = "built" =>
        \A m \in Nodes :
            /\ \E n \in Leaves : Below(n, m) /\ min_cases[m] = Cases(n)
            /\ \A n \in Leaves : Below(n, m) => min_cases[m] <= Cases(n)
==============================================================================
