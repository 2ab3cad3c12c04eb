------------------------------ MODULE AnalyzerMC ------------------------------
(* Two options with three values: nine configurations, an odd number.      *)
EXTENDS Analyzer, TLC

MCNValues == (0 :> 3) @@ (1 :> 3)

(* The tree that splits by option 0 and then by option 1, as far as needed.*)
Pure(S, n) == {c \in Configs : Matches(c, n)} \subseteq S \/ {c \in S : Matches(c, n)} = {}
Value(S, n) == IF {c \in S : Matches(c, n)} # {} THEN kInterpretHit ELSE kInterpretMiss

TreeOf(S) ==
    LET split == {n \in Templates : ~Pure(S, n) /\ (n[1] = Unset \/ n[0] # Unset)}
        v(n) == IF n[0] = Unset THEN 0 ELSE 1
        nodes == {Root} \cup UNION {Children(n, v(n)) : n \in split}
    IN  [n \in nodes |-> IF n \in split THEN v(n) ELSE Value(S, n)]

Block(locs, S, ignored) == [locs |-> locs, e |-> S, tree |-> TreeOf(S), ignored |-> ignored]

Opt(v, i) == {c \in Configs : c[v] = i}
Xor == (Opt(0, 0) \cap Opt(1, 0)) \cup (Opt(0, 1) \cap Opt(1, 1))

(* The location "x" is covered with option 0 on, "y" with option 1 at 2 or *)
(* in one other case, "z" always.                                          *)
Sample(a, b) == (0 :> a) @@ (1 :> b)
MCEntries == {[covs |-> {"x"}, confs |-> {Sample(1, Unset)}],
              [covs |-> {"y"}, confs |-> {Sample(Unset, 2), Sample(0, 0)}],
              [covs |-> {"z", "w"}, confs |-> {NoneSet}]}

(* A right answer, and answers that are wrong in some way: a formula is    *)
(* wrong, a class is divided in another way, a location is missing or is   *)
(* never covered.                                                          *)
MCAnswers ==
    {<<Block(<<"z", "w">>, Configs, FALSE), Block(<<"x">>, Opt(0, 1), TRUE),
       Block(<<"y">>, Opt(1, 2) \cup (Opt(0, 0) \cap Opt(1, 0)), FALSE)>>,
     <<Block(<<"y">>, Opt(1, 2), TRUE), Block(<<"z", "x">>, Configs, FALSE)>>,
     <<Block(<<"y", "w">>, Opt(1, 1) \cup Opt(1, 2), FALSE), Block(<<"v">>, Xor, FALSE),
       Block(<<"x">>, Opt(0, 1) \cap Opt(1, 1), FALSE), Block(<<"z">>, Opt(0, 0), FALSE)>>}
==============================================================================
