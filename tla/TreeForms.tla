------------------------------ MODULE TreeForms ------------------------------
(***************************************************************************)
(* What a finished decision tree of igen/c50 is turned into: the walk from *)
(* the root (test_config), the code of the flat interpreter, the formulas  *)
(* of the output and the text that the Analyzer reads back.                *)
(*                                                                         *)
(* A node is named by its template, the configurations that reach it: the  *)
(* child i of a node n that splits by option v is n with option v set to   *)
(* i.  This is what CNode::gen_tpl computes from the parents of a node.    *)
(* A tree is then a function from its nodes to the option they split by,   *)
(* or, for the leaves, to kInterpretHit or kInterpretMiss.                 *)
(***************************************************************************)
EXTENDS Domain, Sequences, SequencesExt

kInterpretHit == -1
kInterpretMiss == -2

LeafIn(tree, n) == tree[n] \in {kInterpretHit, kInterpretMiss}
LeavesOf(tree) == {n \in DOMAIN tree : LeafIn(tree, n)}

(* CNode::test_config and CNode::test_add_config go from a node to the     *)
(* child for the configuration's value of the option.                      *)
LeafOf(tree, c) ==
    LET down[n \in DOMAIN tree] ==
            IF LeafIn(tree, n) THEN n ELSE down[Child(n, tree[n], c[tree[n]])]
    IN  down[Root]

(* What holds of every tree that evaluate_split has finished: its nodes go *)
(* from the root, a leaf is at the bottom, and below a node its option is  *)
(* set.                                                                    *)
WellFormed(tree) ==
    /\ Root \in DOMAIN tree /\ DOMAIN tree \subseteq Templates
    /\ \A n \in LeavesOf(tree), m \in DOMAIN tree : Below(m, n) => m = n
    /\ \A n \in DOMAIN tree \ LeavesOf(tree) :
          /\ tree[n] \in Vars /\ n[tree[n]] = Unset /\ Children(n, tree[n]) \subseteq DOMAIN tree
          /\ \A m \in DOMAIN tree : Below(m, n) /\ m # n => m[tree[n]] # Unset

Predicts(tree, c) == tree[LeafOf(tree, c)] = kInterpretHit

------------------------------------------------------------------------------
(* The flat interpreter.                                                   *)

(* Mutant: the jump of child i is taken before the child is written.       *)
AfterChildren_early_jump(tree, emit, n, dat) ==
    LET v == tree[n]
        after[i \in 0 .. NValues[v]] ==
            IF i = 0 THEN Append(dat, v) \o [k \in 1 .. NValues[v] - 1 |-> 0]
            ELSE LET e == emit[Child(n, v, i - 1)][after[i - 1]]
                 IN  IF i < NValues[v] THEN [e EXCEPT ![Len(dat) + 1 + i] = Len(after[i - 1])] ELSE e
    IN  after[NValues[v]]

(* CNode::build_interpreter of a node with children: the option, then for  *)
(* every child but the first the address of its code, then the code of the *)
(* children, each appended by `emit`.  Addresses count from 0, TLA+        *)
(* sequences from 1.                                                       *)
AfterChildren(tree, emit, n, dat) ==
    LET v == tree[n]
        after[i \in 0 .. NValues[v]] ==
            IF i = 0 THEN Append(dat, v) \o [k \in 1 .. NValues[v] - 1 |-> 0]
            ELSE LET e == emit[Child(n, v, i - 1)][after[i - 1]]
                 IN  IF i < NValues[v] THEN [e EXCEPT ![Len(dat) + 1 + i] = Len(e)] ELSE e
    IN  after[NValues[v]]

Code(tree) ==
    LET emit[n \in DOMAIN tree] ==
            [dat \in Seq(Int) |-> IF LeafIn(tree, n) THEN Append(dat, tree[n])
                                  ELSE AfterChildren(tree, emit, n, dat)]
    IN  emit[Root][<< >>]

(* CTree::interpret.  BadCode stands for the CHECK on the address, and code*)
(* that is no end after as many steps as there is code is never left.      *)
BadCode == -3

Instr(code, it) == IF it \in 0 .. Len(code) - 1 THEN code[it + 1] ELSE BadCode

Jump(code, c, it) ==
    LET instr == Instr(code, it)
    IN  IF instr \in {kInterpretHit, kInterpretMiss, BadCode} THEN it
        ELSE IF c[instr] = 0 THEN it + NValues[instr]
        ELSE code[it + c[instr] + 1]

Interpret(code, c) ==
    LET it[k \in 0 .. Len(code)] == IF k = 0 THEN 0 ELSE Jump(code, c, it[k - 1])
    IN  Instr(code, it[Len(code)])

------------------------------------------------------------------------------
(* The formulas, as the sets of configurations that satisfy them.          *)

Eq(v, i) == {c \in Configs : c[v] = i}

(* CNode::build_zexpr_mixed; a node none of whose children contributes     *)
(* fails CHECK(!empty_res), see MixedDefined.                              *)
Mixed(tree) ==
    LET sat[n \in DOMAIN tree] ==
            IF LeafIn(tree, n) THEN IF tree[n] = kInterpretHit THEN Configs ELSE {}
            ELSE UNION {IF LeafIn(tree, Child(n, tree[n], i))
                        THEN IF tree[Child(n, tree[n], i)] = kInterpretHit THEN Eq(tree[n], i) ELSE {}
                        ELSE Eq(tree[n], i) \cap sat[Child(n, tree[n], i)] : i \in Values(tree[n])}
    IN  sat[Root]

MixedDefined(tree) ==
    \A n \in DOMAIN tree \ LeavesOf(tree) :
        \E m \in Children(n, tree[n]) : tree[m] # kInterpretMiss

(* Mutant: the conjunction is begun anew at every node.                    *)
DisjConj_last_only(tree) ==
    LET cubes[n \in DOMAIN tree] ==
            [cur \in SUBSET Configs |->
                IF LeafIn(tree, n) THEN IF tree[n] = kInterpretHit THEN cur ELSE {}
                ELSE UNION {cubes[Child(n, tree[n], i)][Eq(tree[n], i)] : i \in Values(tree[n])}]
    IN  cubes[Root][Configs]

(* CNode::build_zexpr_disj_conj, called with true; the conjunction starts  *)
(* at depth 0, where it replaces the true.                                 *)
DisjConj(tree) ==
    LET cubes[n \in DOMAIN tree] ==
            [cur \in SUBSET Configs |->
                IF LeafIn(tree, n) THEN IF tree[n] = kInterpretHit THEN cur ELSE {}
                ELSE UNION {cubes[Child(n, tree[n], i)][IF n = Root THEN Eq(tree[n], i)
                                                        ELSE cur \cap Eq(tree[n], i)] :
                            i \in Values(tree[n])}]
    IN  cubes[Root][Configs]

------------------------------------------------------------------------------
(* The text: one token per node in depth-first order, an option's id for a *)
(* node and H or M for a leaf.  Numbers are written with a space behind    *)
(* them, so no two tokens run together.                                    *)

(* CNode::serialize, and its loop over the children.                       *)
SerializeChildren(tree, text, n) ==
    LET v == tree[n]
        upto[i \in 0 .. NValues[v]] ==
            IF i = 0 THEN <<v>> ELSE upto[i - 1] \o text[Child(n, v, i - 1)]
    IN  upto[NValues[v]]

Serialize(tree) ==
    LET text[n \in DOMAIN tree] ==
            IF LeafIn(tree, n) THEN <<tree[n]>> ELSE SerializeChildren(tree, text, n)
    IN  text[Root]

(* CNode::deserialize, a token after the other; `todo` are the nodes that  *)
(* the calls on the stack have still to read, the innermost first.  A text *)
(* that was written ends with the last of them.                            *)
StartTree == [nodes |-> [n \in {} |-> 0], todo |-> <<Root>>]

ReadNode(st, tok) ==
    LET n == Head(st.todo)
        rest == Tail(st.todo)
    IN  [nodes |-> [k \in DOMAIN st.nodes \cup {n} |-> IF k = n THEN tok ELSE st.nodes[k]],
         todo |-> IF tok \in {kInterpretHit, kInterpretMiss} THEN rest
                  ELSE [i \in 1 .. NValues[tok] |-> Child(n, tok, i - 1)] \o rest]

Deserialize(toks) ==
    LET read[k \in 0 .. Len(toks)] ==
            IF k = 0 THEN StartTree ELSE ReadNode(read[k - 1], toks[k])
    IN  read[Len(toks)].nodes
==============================================================================
