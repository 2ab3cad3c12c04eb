---------------------------- MODULE TreeFormsProofs ----------------------------
(***************************************************************************)
(* Proofs about TreeForms for every finished tree over any options.        *)
(*                                                                         *)
(* The definitions of TreeForms are recursive functions.  Induction is over*)
(* sets, which every prover can instantiate, and not over formulas: a set  *)
(* of naturals has a least element, so one that has 0 and with every number*)
(* the next one has all of them.                                           *)
(***************************************************************************)
EXTENDS TreeForms, NaturalsInduction, WellFoundedInduction, SequenceTheorems,
        FiniteSetTheorems, TLAPS

(* Every set of naturals has a least element.                              *)
LEMMA LeastMember ==
    ASSUME NEW S \in SUBSET Nat, S # {}
    PROVE  \E m \in S : \A k \in S : m <= k
<1> DEFINE R == OpToRel(<, Nat)
<1>1. IsWellFoundedOn(R, Nat)
  BY NatLessThanWellFounded
<1>2. \A x, y \in Nat : x < y => <<x, y>> \in R
  BY DEF OpToRel
<1> HIDE DEF R
<1>3. PICK x \in S : \A y \in S : ~ (<<y, x>> \in R)
  BY <1>1, WFMin
<1>4. \A y \in S : ~ (y < x)
  BY <1>2, <1>3
<1>5. \A y \in S : x <= y
  BY <1>4
<1> QED
  BY <1>5

(* Induction up to n.                                                      *)
LEMMA Induction ==
    ASSUME NEW n \in Nat, NEW S, 0 \in S, \A k \in 0 .. n - 1 : k \in S => k + 1 \in S
    PROVE  \A k \in 0 .. n : k \in S
<1> SUFFICES ASSUME NEW k \in 0 .. n, k \notin S PROVE FALSE
  OBVIOUS
<1> DEFINE Bad == {j \in 0 .. n : j \notin S}
<1>1. Bad \in SUBSET Nat /\ Bad # {}
  OBVIOUS
<1>2. PICK m \in Bad : \A j \in Bad : m <= j
  BY <1>1, LeastMember
<1>3. m \in 0 .. n /\ m # 0 /\ m - 1 \in 0 .. n - 1
  BY <1>2
<1>4. m - 1 \in S
  BY <1>2, <1>3
<1>5. (m - 1) + 1 \in S
  BY <1>3, <1>4
<1> QED
  BY <1>2, <1>3, <1>5

(* A loop of n rounds from e, the round k by step[<<x, k>>], is a function.*)
IsLoop(f, n, S, e, step) ==
    f \in [0 .. n -> S] /\ f[0] = e /\ \A k \in 1 .. n : f[k] = step[<<f[k - 1], k>>]

LEMMA LoopExists ==
    ASSUME NEW n \in Nat, NEW S, NEW e \in S, NEW step \in [S \X (1 .. n) -> S]
    PROVE  \E f : IsLoop(f, n, S, e, step)
<1> DEFINE Loops(m, f) == /\ f \in [0 .. m -> S] /\ f[0] = e
                          /\ \A k \in 1 .. m : f[k] = step[<<f[k - 1], k>>]
           Good == {m \in 0 .. n : \E f : Loops(m, f)}
<1>1. 0 \in Good
  <2> DEFINE f == [k \in 0 .. 0 |-> e]
  <2>1. Loops(0, f)
    <3>1. f \in [0 .. 0 -> S] /\ f[0] = e /\ 1 .. 0 = {}
      OBVIOUS
    <3> HIDE DEF f
    <3> QED
      BY <3>1
  <2> HIDE DEF Loops, f
  <2> QED
    BY <2>1
<1>2. ASSUME NEW m \in 0 .. n - 1, m \in Good PROVE m + 1 \in Good
  <2>1. PICK f : Loops(m, f)
    BY <1>2
  <2> DEFINE g == [k \in 0 .. m + 1 |-> IF k = m + 1 THEN step[<<f[m], m + 1>>] ELSE f[k]]
  <2>2. f[m] \in S /\ m + 1 \in 1 .. n
    BY <2>1
  <2>3. step[<<f[m], m + 1>>] \in S
    BY <2>2
  <2>4. g \in [0 .. m + 1 -> S] /\ g[0] = e
    BY <2>1, <2>3
  <2>5. \A k \in 0 .. m : g[k] = f[k]
    OBVIOUS
  <2>6. g[m + 1] = step[<<f[m], m + 1>>]
    OBVIOUS
  <2> HIDE DEF g
  <2>7. ASSUME NEW k \in 1 .. m + 1 PROVE g[k] = step[<<g[k - 1], k>>]
    <3>1. CASE k = m + 1
      BY <2>5, <2>6, <3>1
    <3>2. CASE k # m + 1
      <4>1. k \in 1 .. m /\ k \in 0 .. m /\ k - 1 \in 0 .. m
        BY <3>2
      <4>2. g[k] = f[k] /\ g[k - 1] = f[k - 1]
        BY <2>5, <4>1
      <4>3. f[k] = step[<<f[k - 1], k>>]
        BY <2>1, <4>1
      <4> QED
        BY <4>2, <4>3
    <3> QED
      BY <3>1, <3>2
  <2>8. Loops(m + 1, g)
    BY <2>4, <2>7
  <2>9. m + 1 \in 0 .. n
    OBVIOUS
  <2> HIDE DEF Loops
  <2> QED
    BY <2>8, <2>9
<1>3. n \in Good
  <2> HIDE DEF Good
  <2> QED
    BY <1>1, <1>2, Induction
<1> QED
  BY <1>3 DEF IsLoop

(* A function defined by recursion on a rank exists: `step` gives its value*)
(* at x from its values at what ranks lower.                               *)
IsRecursive(f, D, X, step) == f \in [D -> X] /\ \A x \in D : f[x] = step[<<x, f>>]

LEMMA RecursionExists ==
    ASSUME NEW D, NEW X, NEW e \in X, NEW N \in Nat, NEW rank \in [D -> 0 .. N],
           NEW step \in [D \X [D -> X] -> X],
           \A x \in D : \A f, g \in [D -> X] :
               (\A y \in D : rank[y] < rank[x] => f[y] = g[y]) => step[<<x, f>>] = step[<<x, g>>]
    PROVE  \E f : IsRecursive(f, D, X, step)
<1> DEFINE F == [D -> X]
           round == [q \in F \X (1 .. N + 1) |-> [x \in D |-> step[<<x, q[1]>>]]]
           first == [x \in D |-> e]
<1>1. first \in F /\ N + 1 \in Nat
  OBVIOUS
<1>2. round \in [F \X (1 .. N + 1) -> F]
  <2>1. ASSUME NEW q \in F \X (1 .. N + 1) PROVE [x \in D |-> step[<<x, q[1]>>]] \in F
    <3>1. q[1] \in F
      OBVIOUS
    <3>2. \A x \in D : step[<<x, q[1]>>] \in X
      BY <3>1
    <3> QED
      BY <3>2
  <2> HIDE DEF F
  <2> QED
    BY <2>1
<1>3. \A f \in F, k \in 1 .. N + 1, x \in D : round[<<f, k>>][x] = step[<<x, f>>]
  <2> HIDE DEF F
  <2> QED
    OBVIOUS
<1> HIDE DEF first, round
<1>4. PICK G : IsLoop(G, N + 1, F, first, round)
  <2> HIDE DEF F
  <2> QED
    BY <1>1, <1>2, LoopExists
<1>5. \A k \in 0 .. N + 1 : G[k] \in F
  <2> HIDE DEF F
  <2> QED
    BY <1>4 DEF IsLoop
<1>6. \A k \in 1 .. N + 1, x \in D : G[k][x] = step[<<x, G[k - 1]>>]
  <2> TAKE k \in 1 .. N + 1, x \in D
  <2>1. k - 1 \in 0 .. N + 1
    OBVIOUS
  <2>2. G[k - 1] \in F
    BY <2>1, <1>5
  <2>3. G[k] = round[<<G[k - 1], k>>]
    BY <1>4 DEF IsLoop
  <2> HIDE DEF F
  <2>4. round[<<G[k - 1], k>>][x] = step[<<x, G[k - 1]>>]
    BY <2>2, <1>3
  <2> QED
    BY <2>3, <2>4
<1> DEFINE Fixed == {k \in 0 .. N + 1 : \A x \in D : rank[x] < k => G[k][x] = step[<<x, G[k]>>]}
<1>7. 0 \in Fixed
  OBVIOUS
<1>8. ASSUME NEW k \in 0 .. N, k \in Fixed PROVE k + 1 \in Fixed
  <2>1. k + 1 \in 1 .. N + 1 /\ (k + 1) - 1 = k
    OBVIOUS
  <2>2. \A x \in D : G[k + 1][x] = step[<<x, G[k]>>]
    BY <2>1, <1>6
  <2>3. \A y \in D : rank[y] < k => G[k + 1][y] = G[k][y]
    BY <1>8, <2>2
  <2>4. ASSUME NEW x \in D, rank[x] < k + 1 PROVE G[k + 1][x] = step[<<x, G[k + 1]>>]
    <3>1. \A y \in D : rank[y] \in Int /\ rank[x] \in Int
      OBVIOUS
    <3>2. \A y \in D : rank[y] < rank[x] => rank[y] < k
      BY <2>4, <3>1
    <3>3. \A y \in D : rank[y] < rank[x] => G[k + 1][y] = G[k][y]
      BY <2>3, <3>2
    <3>4. G[k + 1] \in [D -> X] /\ G[k] \in [D -> X]
      BY <1>5, <2>1
    <3>5. step[<<x, G[k + 1]>>] = step[<<x, G[k]>>]
      BY <3>3, <3>4
    <3> QED
      BY <2>2, <3>5
  <2>5. k + 1 \in 0 .. N + 1
    OBVIOUS
  <2> QED
    BY <2>4, <2>5
<1>9. N + 1 \in Fixed
  <2> HIDE DEF Fixed
  <2>1. (N + 1) - 1 = N
    OBVIOUS
  <2>2. \A k \in 0 .. N + 1 : k \in Fixed
    BY <1>1, <1>7, <1>8, <2>1, Induction
  <2> QED
    BY <2>2
<1>10. \A x \in D : rank[x] < N + 1
  OBVIOUS
<1>11. \A x \in D : G[N + 1][x] = step[<<x, G[N + 1]>>]
  BY <1>9, <1>10
<1>12. G[N + 1] \in [D -> X]
  BY <1>5
<1> DEFINE f == G[N + 1]
<1>13. f \in [D -> X] /\ \A x \in D : f[x] = step[<<x, f>>]
  BY <1>11, <1>12
<1> HIDE DEF f
<1> QED
  BY <1>13 DEF IsRecursive

------------------------------------------------------------------------------
(* Facts about templates.                                                  *)

LEMMA ValuesAreSet ==
    ASSUME NEW v \in Vars
    PROVE  /\ \A i \in Values(v) : i \in Int /\ i # Unset
           /\ 0 \in Values(v)
           /\ \A i, j \in Int : i \in Values(v) /\ 0 <= j /\ j <= i => j \in Values(v)
BY OptionsAssumption DEF Values, Unset

LEMMA ChildIsTemplate ==
    ASSUME NEW n \in Templates, NEW v \in Vars, NEW i \in Values(v)
    PROVE  /\ Child(n, v, i) \in Templates
           /\ Child(n, v, i)[v] = i
           /\ \A u \in Vars \ {v} : Child(n, v, i)[u] = n[u]
<1>1. i \in AnyValue
  BY DEF AnyValue
<1> QED
  BY <1>1 DEF Child, Templates

LEMMA ChildEq ==
    ASSUME NEW n \in Templates, NEW m \in Templates, NEW v \in Vars, NEW i \in Values(v),
           m[v] = i, \A u \in Vars \ {v} : m[u] = n[u]
    PROVE  m = Child(n, v, i)
<1> DEFINE k == Child(n, v, i)
<1>1. k \in Templates /\ k[v] = i /\ \A u \in Vars \ {v} : k[u] = n[u]
  BY ChildIsTemplate
<1>2. \A u \in Vars : k[u] = m[u]
  BY <1>1
<1> QED
  BY <1>1, <1>2 DEF Templates

LEMMA RootIsTemplate == Root \in Templates /\ \A u \in Vars : Root[u] = Unset
BY DEF Root, NoneSet, Templates

LEMMA BelowBoth ==
    ASSUME NEW m \in Templates, NEW n \in Templates, Below(m, n), Below(n, m)
    PROVE  m = n
<1>1. \A u \in Vars : m[u] = n[u]
  BY DEF Below
<1> QED
  BY <1>1 DEF Templates

LEMMA BelowTrans ==
    ASSUME NEW k, NEW m, NEW n, Below(k, m), Below(m, n)
    PROVE  Below(k, n)
BY DEF Below

LEMMA MatchBelow ==
    ASSUME NEW c, NEW m, NEW n, Matches(c, m), Below(m, n)
    PROVE  Matches(c, n)
BY DEF Matches, Below

LEMMA ChildBelow ==
    ASSUME NEW n \in Templates, NEW v \in Vars, NEW i \in Values(v), n[v] = Unset
    PROVE  Below(Child(n, v, i), n) /\ Child(n, v, i) # n
<1> DEFINE k == Child(n, v, i)
<1>1. k[v] = i /\ \A u \in Vars \ {v} : k[u] = n[u]
  BY ChildIsTemplate
<1>2. i # Unset
  BY ValuesAreSet
<1> QED
  BY <1>1, <1>2 DEF Below

LEMMA ChildMatches ==
    ASSUME NEW n \in Templates, NEW v \in Vars, NEW i \in Values(v), n[v] = Unset, NEW c
    PROVE  Matches(c, Child(n, v, i)) <=> Matches(c, n) /\ c[v] = i
<1> DEFINE k == Child(n, v, i)
<1>1. k[v] = i /\ \A u \in Vars \ {v} : k[u] = n[u]
  BY ChildIsTemplate
<1>2. i # Unset
  BY ValuesAreSet
<1> QED
  BY <1>1, <1>2 DEF Matches

LEMMA ConfigValue ==
    ASSUME NEW c \in Configs, NEW v \in Vars
    PROVE  c[v] \in Values(v)
BY DEF Configs

LEMMA ConfigsEqual ==
    ASSUME NEW c \in Configs, NEW d \in Configs, \A u \in Vars : c[u] = d[u]
    PROVE  c = d
BY DEF Configs

------------------------------------------------------------------------------
(* The nodes of a tree.                                                    *)

LEMMA InnerNode ==
    ASSUME NEW tree, WellFormed(tree), NEW n \in DOMAIN tree, ~ LeafIn(tree, n)
    PROVE  /\ n \in Templates /\ tree[n] \in Vars /\ n[tree[n]] = Unset
           /\ \A i \in Values(tree[n]) : /\ Child(n, tree[n], i) \in DOMAIN tree
                                        /\ Child(n, tree[n], i) \in Templates
BY DEF WellFormed, LeavesOf, Children

(* The options that a node leaves open: fewer in its children.             *)
LEMMA FreeFinite ==
    ASSUME NEW t \in Templates
    PROVE  IsFiniteSet(Free(t)) /\ Cardinality(Free(t)) \in 0 .. NumVars
<1>1. IsFiniteSet(Vars) /\ Cardinality(Vars) \in Nat /\ Cardinality(Vars) <= NumVars
  <2>1. 0 \in Int /\ NumVars - 1 \in Int /\ NumVars \in Nat
    BY OptionsAssumption
  <2>2. IsFiniteSet(0 .. NumVars - 1)
        /\ Cardinality(0 .. NumVars - 1) = IF 0 > NumVars - 1 THEN 0 ELSE (NumVars - 1) - 0 + 1
    BY <2>1, FS_Interval
  <2> QED
    BY <2>1, <2>2 DEF Vars
<1>2. IsFiniteSet(Free(t)) /\ Cardinality(Free(t)) <= Cardinality(Vars)
  BY <1>1, FS_Subset DEF Free
<1>3. Cardinality(Free(t)) \in Nat
  BY <1>2, FS_CardinalityType
<1> QED
  BY <1>1, <1>2, <1>3, OptionsAssumption

LEMMA ImageFinite ==
    ASSUME NEW S, IsFiniteSet(S), NEW T, NEW f \in [S -> T]
    PROVE  IsFiniteSet({f[x] : x \in S})
<1>1. f \in Surjection(S, {f[x] : x \in S})
  BY DEF Surjection
<1> QED
  BY <1>1, FS_Surjection

LEMMA ConfigsFinite == IsFiniteSet(Configs)
<1>1. IsFiniteSet(Vars)
  <2>1. 0 \in Int /\ NumVars - 1 \in Int
    BY OptionsAssumption
  <2> QED
    BY <2>1, FS_Interval DEF Vars
<1>2. IsFiniteSet(AnyValue)
  <2> DEFINE f == [v \in Vars |-> Values(v)]
             T == {f[v] : v \in Vars}
  <2>1. f \in [Vars -> SUBSET Int]
    BY ValuesAreSet
  <2> HIDE DEF f
  <2>2. IsFiniteSet(T)
    BY <1>1, <2>1, ImageFinite
  <2>3. \A v \in Vars : IsFiniteSet(f[v])
    <3> TAKE v \in Vars
    <3>1. 0 \in Int /\ NValues[v] - 1 \in Int
      BY OptionsAssumption
    <3> QED
      BY <3>1, FS_Interval DEF f, Values
  <2>4. IsFiniteSet(UNION T)
    BY <2>2, <2>3, FS_UNION
  <2>5. UNION T = AnyValue
    BY DEF f, AnyValue
  <2> QED
    BY <2>4, <2>5
<1> DEFINE R == SUBSET (Vars \X AnyValue)
           g == [r \in R |-> [v \in Vars |-> CHOOSE i : <<v, i>> \in r]]
           X == {g[r] : r \in R}
<1>3. IsFiniteSet(R)
  BY <1>1, <1>2, FS_Product, FS_SUBSET
<1>4. IsFiniteSet(X)
  <2>1. g \in [R -> X]
    OBVIOUS
  <2> HIDE DEF g, R
  <2>2. \E T : g \in [R -> T]
    BY <2>1
  <2> QED
    BY <1>3, <2>2, ImageFinite
<1>5. ASSUME NEW c \in Configs PROVE c \in X
  <2> DEFINE r == {<<v, c[v]>> : v \in Vars}
  <2>1. c \in [Vars -> AnyValue]
    BY DEF Configs
  <2>2. r \in R
    BY <2>1
  <2>3. \A v \in Vars : (CHOOSE i : <<v, i>> \in r) = c[v]
    <3> TAKE v \in Vars
    <3>1. \A i : <<v, i>> \in r <=> i = c[v]
      OBVIOUS
    <3> QED
      BY <3>1
  <2>4. g[r] = [v \in Vars |-> c[v]]
    <3>1. g[r] = [v \in Vars |-> CHOOSE i : <<v, i>> \in r]
      BY <2>2
    <3> HIDE DEF g, r
    <3> QED
      BY <2>3, <3>1
  <2>5. g[r] = c
    BY <2>1, <2>4
  <2> QED
    BY <2>2, <2>5
<1>6. Configs \subseteq X
  BY <1>5
<1> QED
  BY <1>4, <1>6, FS_Subset

LEMMA ChildSmaller ==
    ASSUME NEW n \in Templates, NEW v \in Vars, NEW i \in Values(v), n[v] = Unset
    PROVE  Cardinality(Free(Child(n, v, i))) < Cardinality(Free(n))
<1> DEFINE k == Child(n, v, i)
<1>1. k \in Templates /\ k[v] = i /\ i # Unset /\ \A u \in Vars \ {v} : k[u] = n[u]
  BY ChildIsTemplate, ValuesAreSet
<1>2. Free(k) = Free(n) \ {v} /\ v \in Free(n)
  BY <1>1 DEF Free
<1>3. IsFiniteSet(Free(n)) /\ Cardinality(Free(n)) \in Nat
  BY FreeFinite
<1>4. Cardinality(Free(k)) = Cardinality(Free(n)) - 1
  BY <1>2, <1>3, FS_RemoveElement
<1> QED
  BY <1>3, <1>4

(* What holds of a node when it holds of its children holds of all.        *)
LEMMA NodeInduction ==
    ASSUME NEW tree, WellFormed(tree), NEW S,
           \A n \in DOMAIN tree : (~ LeafIn(tree, n) => Children(n, tree[n]) \subseteq S) => n \in S
    PROVE  \A n \in DOMAIN tree : n \in S
<1> DEFINE Upto == {k \in Nat : \A n \in DOMAIN tree : Cardinality(Free(n)) < k => n \in S}
<1>1. \A n \in DOMAIN tree : n \in Templates /\ Cardinality(Free(n)) \in 0 .. NumVars
  BY FreeFinite DEF WellFormed
<1>2. 0 \in Upto
  BY <1>1
<1>3. ASSUME NEW k \in 0 .. NumVars, k \in Upto PROVE k + 1 \in Upto
  <2>1. ASSUME NEW n \in DOMAIN tree, Cardinality(Free(n)) < k + 1 PROVE n \in S
    <3>1. ASSUME ~ LeafIn(tree, n), NEW m \in Children(n, tree[n]) PROVE m \in S
      <4>1. PICK i \in Values(tree[n]) : m = Child(n, tree[n], i)
        BY DEF Children
      <4>2. m \in DOMAIN tree /\ n \in Templates /\ tree[n] \in Vars /\ n[tree[n]] = Unset
        BY <3>1, <4>1, InnerNode
      <4>3. Cardinality(Free(m)) < Cardinality(Free(n))
        BY <4>1, <4>2, ChildSmaller
      <4>4. Cardinality(Free(m)) < k
        BY <1>1, <2>1, <4>2, <4>3
      <4> QED
        BY <1>3, <4>2, <4>4
    <3> QED
      BY <3>1
  <2>2. k + 1 \in Nat
    BY OptionsAssumption
  <2> QED
    BY <2>1, <2>2
<1>4. NumVars + 1 \in Upto
  <2> HIDE DEF Upto
  <2>1. NumVars + 1 \in Nat /\ (NumVars + 1) - 1 = NumVars
    BY OptionsAssumption
  <2>2. \A k \in 0 .. NumVars + 1 : k \in Upto
    BY <1>2, <1>3, <2>1, Induction
  <2> QED
    BY <2>1, <2>2
<1> QED
  BY <1>1, <1>4, OptionsAssumption

(* A function of the nodes, and of something more, is defined by what it is*)
(* for a leaf and what it makes of the children's values.                  *)
LEMMA NodeRecursion ==
    ASSUME NEW tree, WellFormed(tree), NEW X, NEW e \in X,
           NEW step \in [(DOMAIN tree) \X [DOMAIN tree -> X] -> X],
           \A n \in DOMAIN tree : \A f, g \in [DOMAIN tree -> X] :
               (~ LeafIn(tree, n) => \A m \in Children(n, tree[n]) : f[m] = g[m])
                   => step[<<n, f>>] = step[<<n, g>>]
    PROVE  \E f : IsRecursive(f, DOMAIN tree, X, step)
<1> DEFINE rank == [n \in DOMAIN tree |-> Cardinality(Free(n))]
           D == DOMAIN tree
<1>1. rank \in [D -> 0 .. NumVars] /\ NumVars \in Nat
  BY FreeFinite, OptionsAssumption DEF WellFormed
<1>2. ASSUME NEW n \in D, ~ LeafIn(tree, n), NEW m \in Children(n, tree[n])
      PROVE  m \in D /\ rank[m] < rank[n]
  <2>1. PICK i \in Values(tree[n]) : m = Child(n, tree[n], i)
    BY DEF Children
  <2>2. m \in D /\ n \in Templates /\ tree[n] \in Vars /\ n[tree[n]] = Unset
    BY <1>2, <2>1, InnerNode
  <2> QED
    BY <2>1, <2>2, ChildSmaller
<1> HIDE DEF rank
<1>3. \A n \in D : \A f, g \in [D -> X] :
         (\A m \in D : rank[m] < rank[n] => f[m] = g[m]) => step[<<n, f>>] = step[<<n, g>>]
  BY <1>2
<1>4. step \in [D \X [D -> X] -> X]
  OBVIOUS
<1> HIDE DEF D
<1>5. \E f : IsRecursive(f, D, X, step)
  BY <1>1, <1>3, <1>4, RecursionExists
<1> QED
  BY <1>5 DEF D

------------------------------------------------------------------------------
(* The walk to a leaf.                                                     *)

Down(tree, c) ==
    LET down[n \in DOMAIN tree] ==
            IF LeafIn(tree, n) THEN n ELSE down[Child(n, tree[n], c[tree[n]])]
    IN  down

LEMMA DownFunction ==
    ASSUME NEW tree, WellFormed(tree), NEW c \in Configs
    PROVE  /\ Down(tree, c) \in [DOMAIN tree -> DOMAIN tree]
           /\ \A n \in DOMAIN tree :
                 Down(tree, c)[n] = IF LeafIn(tree, n) THEN n
                                    ELSE Down(tree, c)[Child(n, tree[n], c[tree[n]])]
<1> DEFINE D == DOMAIN tree
           next(n) == Child(n, tree[n], c[tree[n]])
           step == [q \in D \X [D -> D] |-> IF LeafIn(tree, q[1]) THEN q[1] ELSE q[2][next(q[1])]]
<1>1. \A n \in D : ~ LeafIn(tree, n) => next(n) \in D /\ next(n) \in Children(n, tree[n])
  BY InnerNode, ConfigValue DEF Children
<1> HIDE DEF next
<1>2. step \in [D \X [D -> D] -> D]
  BY <1>1
<1>3. \A n \in D, f \in [D -> D] : step[<<n, f>>] = IF LeafIn(tree, n) THEN n ELSE f[next(n)]
  OBVIOUS
<1> HIDE DEF step
<1>4. \A n \in D : \A f, g \in [D -> D] :
         (~ LeafIn(tree, n) => \A m \in Children(n, tree[n]) : f[m] = g[m])
             => step[<<n, f>>] = step[<<n, g>>]
  BY <1>1, <1>3
<1>5. Root \in D
  BY DEF WellFormed
<1>6. PICK f : IsRecursive(f, D, D, step)
  BY <1>2, <1>4, <1>5, NodeRecursion
<1>7. f \in [D -> D] /\ f = [n \in D |-> IF LeafIn(tree, n) THEN n ELSE f[next(n)]]
  BY <1>3, <1>6 DEF IsRecursive
<1>8. Down(tree, c) = [n \in D |-> IF LeafIn(tree, n) THEN n ELSE Down(tree, c)[next(n)]]
  BY <1>7 DEF Down, next
<1>9. \A n \in D : Down(tree, c)[n] = IF LeafIn(tree, n) THEN n ELSE Down(tree, c)[next(n)]
  BY <1>8
<1> DEFINE S == {n \in D : Down(tree, c)[n] \in D}
<1>10. \A n \in D : (~ LeafIn(tree, n) => Children(n, tree[n]) \subseteq S) => n \in S
  BY <1>1, <1>9
<1>11. \A n \in D : n \in S
  <2> HIDE DEF S
  <2> QED
    BY <1>10, NodeInduction
<1>12. Down(tree, c) \in [D -> D]
  BY <1>8, <1>11
<1> QED
  BY <1>9, <1>12 DEF next

(* A configuration that matches a node walks to the leaf below it that it  *)
(* matches, the only one.                                                  *)
LEMMA DownLeaf ==
    ASSUME NEW tree, WellFormed(tree), NEW c \in Configs
    PROVE  \A n \in DOMAIN tree :
              Matches(c, n) =>
                  /\ Down(tree, c)[n] \in LeavesOf(tree) /\ Matches(c, Down(tree, c)[n])
                  /\ \A m \in LeavesOf(tree) : Matches(c, m) /\ Below(m, n) => m = Down(tree, c)[n]
<1> DEFINE D == DOMAIN tree
           down == Down(tree, c)
           Right(n) == Matches(c, n) =>
                           /\ down[n] \in LeavesOf(tree) /\ Matches(c, down[n])
                           /\ \A m \in LeavesOf(tree) : Matches(c, m) /\ Below(m, n) => m = down[n]
           S == {n \in D : Right(n)}
<1>1. \A n \in D : down[n] = IF LeafIn(tree, n) THEN n ELSE down[Child(n, tree[n], c[tree[n]])]
  BY DownFunction
<1> HIDE DEF down
<1>2. ASSUME NEW n \in D, ~ LeafIn(tree, n) => Children(n, tree[n]) \subseteq S, Matches(c, n)
      PROVE  /\ down[n] \in LeavesOf(tree) /\ Matches(c, down[n])
             /\ \A m \in LeavesOf(tree) : Matches(c, m) /\ Below(m, n) => m = down[n]
  <2>1. CASE LeafIn(tree, n)
    <3>1. down[n] = n /\ n \in LeavesOf(tree)
      BY <1>1, <2>1 DEF LeavesOf
    <3>2. \A m \in LeavesOf(tree) : Below(m, n) => m = n
      BY <3>1 DEF WellFormed, LeavesOf
    <3> QED
      BY <1>2, <3>1, <3>2
  <2>2. CASE ~ LeafIn(tree, n)
    <3> DEFINE v == tree[n]
               k == Child(n, v, c[v])
    <3>1. n \in Templates /\ v \in Vars /\ n[v] = Unset
      BY <2>2, InnerNode
    <3>2. c[v] \in Values(v)
      BY <3>1, ConfigValue
    <3>3. k \in D /\ k \in Children(n, v)
      BY <2>2, <3>2, InnerNode DEF Children
    <3>4. Matches(c, k)
      BY <1>2, <3>1, <3>2, ChildMatches
    <3>5. down[n] = down[k]
      BY <1>1, <2>2
    <3>6. k \in S
      BY <1>2, <2>2, <3>3
    <3>7. ASSUME NEW m \in LeavesOf(tree), Matches(c, m), Below(m, n) PROVE Below(m, k)
      <4>1. m # n /\ m \in D /\ n \in D \ LeavesOf(tree)
        BY <2>2, <3>7 DEF LeavesOf
      <4>2. m[v] # Unset
        BY <3>7, <4>1 DEF WellFormed
      <4>3. m[v] = c[v]
        BY <3>1, <3>7, <4>2 DEF Matches
      <4>4. k[v] = c[v] /\ \A u \in Vars \ {v} : k[u] = n[u]
        BY <3>1, <3>2, ChildIsTemplate
      <4> QED
        BY <3>7, <4>3, <4>4 DEF Below
    <3> QED
      BY <3>4, <3>5, <3>6, <3>7
  <2> QED
    BY <2>1, <2>2
<1>3. \A n \in D : (~ LeafIn(tree, n) => Children(n, tree[n]) \subseteq S) => n \in S
  BY <1>2
<1>4. \A n \in D : n \in S
  <2> HIDE DEF S
  <2> QED
    BY <1>3, NodeInduction
<1> QED
  BY <1>4 DEF down

(* test_config: every configuration ends in the one leaf that it matches.  *)
THEOREM LeafOfRight ==
    ASSUME NEW tree, WellFormed(tree), NEW c \in Configs
    PROVE  /\ LeafOf(tree, c) \in LeavesOf(tree) /\ Matches(c, LeafOf(tree, c))
           /\ \A m \in LeavesOf(tree) : Matches(c, m) => m = LeafOf(tree, c)
<1>1. LeafOf(tree, c) = Down(tree, c)[Root]
  BY DEF LeafOf, Down
<1>2. Root \in DOMAIN tree /\ Matches(c, Root) /\ \A m : Below(m, Root)
  BY RootIsTemplate DEF WellFormed, Matches, Below
<1> QED
  BY <1>1, <1>2, DownLeaf

LEMMA PredictsDown ==
    ASSUME NEW tree, NEW c
    PROVE  Predicts(tree, c) <=> tree[Down(tree, c)[Root]] = kInterpretHit
<1>1. LeafOf(tree, c) = Down(tree, c)[Root]
  BY DEF LeafOf, Down
<1> QED
  BY <1>1 DEF Predicts

------------------------------------------------------------------------------
(* The formulas.                                                           *)

(* What the walk from a node gives the configurations.                     *)
HitsFrom(tree, n) == {c \in Configs : tree[Down(tree, c)[n]] = kInterpretHit}

LEMMA HitsFromNode ==
    ASSUME NEW tree, WellFormed(tree), NEW n \in DOMAIN tree
    PROVE  /\ LeafIn(tree, n) => HitsFrom(tree, n) = IF tree[n] = kInterpretHit THEN Configs ELSE {}
           /\ ~ LeafIn(tree, n) => \A c \in Configs :
                 c \in HitsFrom(tree, n) <=> c \in HitsFrom(tree, Child(n, tree[n], c[tree[n]]))
<1>1. \A c \in Configs :
         Down(tree, c)[n] = IF LeafIn(tree, n) THEN n ELSE Down(tree, c)[Child(n, tree[n], c[tree[n]])]
  BY DownFunction
<1> QED
  BY <1>1 DEF HitsFrom

MixedFrom(tree) ==
    LET sat[n \in DOMAIN tree] ==
            IF LeafIn(tree, n) THEN IF tree[n] = kInterpretHit THEN Configs ELSE {}
            ELSE UNION {IF LeafIn(tree, Child(n, tree[n], i))
                        THEN IF tree[Child(n, tree[n], i)] = kInterpretHit THEN Eq(tree[n], i) ELSE {}
                        ELSE Eq(tree[n], i) \cap sat[Child(n, tree[n], i)] : i \in Values(tree[n])}
    IN  sat

LEMMA MixedFunction ==
    ASSUME NEW tree, WellFormed(tree)
    PROVE  \A n \in DOMAIN tree :
              MixedFrom(tree)[n] =
              IF LeafIn(tree, n) THEN IF tree[n] = kInterpretHit THEN Configs ELSE {}
              ELSE UNION {IF LeafIn(tree, Child(n, tree[n], i))
                          THEN IF tree[Child(n, tree[n], i)] = kInterpretHit THEN Eq(tree[n], i) ELSE {}
                          ELSE Eq(tree[n], i) \cap MixedFrom(tree)[Child(n, tree[n], i)] : i \in Values(tree[n])}
<1> DEFINE D == DOMAIN tree
           X == SUBSET Configs
           leaf(n) == IF tree[n] = kInterpretHit THEN Configs ELSE {}
           part(n, i, f) == IF LeafIn(tree, Child(n, tree[n], i))
                            THEN IF tree[Child(n, tree[n], i)] = kInterpretHit THEN Eq(tree[n], i) ELSE {}
                            ELSE Eq(tree[n], i) \cap f[Child(n, tree[n], i)]
           inner(n, f) == UNION {part(n, i, f) : i \in Values(tree[n])}
           step == [q \in D \X [D -> X] |-> IF LeafIn(tree, q[1]) THEN leaf(q[1]) ELSE inner(q[1], q[2])]
<1>1. \A n \in D, i \in Int : \A f : part(n, i, f) \in X
  BY DEF Eq
<1>2. \A n \in D : leaf(n) \in X /\ \A f : inner(n, f) \in X
  <2> HIDE DEF part
  <2>1. \A n \in D : Values(tree[n]) \subseteq Int
    BY DEF Values
  <2> QED
    BY <1>1, <2>1
<1>3. \A n \in D : \A f, g :
         (\A m \in Children(n, tree[n]) : f[m] = g[m]) => inner(n, f) = inner(n, g)
  <2> SUFFICES ASSUME NEW n \in D, NEW f, NEW g, \A m \in Children(n, tree[n]) : f[m] = g[m]
               PROVE  inner(n, f) = inner(n, g)
    OBVIOUS
  <2>1. \A i \in Values(tree[n]) : part(n, i, f) = part(n, i, g)
    BY DEF Children
  <2> HIDE DEF part
  <2> QED
    BY <2>1
<1> HIDE DEF leaf, inner
<1>4. step \in [D \X [D -> X] -> X]
  BY <1>2
<1>5. \A n \in D, f \in [D -> X] : step[<<n, f>>] = IF LeafIn(tree, n) THEN leaf(n) ELSE inner(n, f)
  OBVIOUS
<1> HIDE DEF step
<1>6. \A n \in D : \A f, g \in [D -> X] :
         (~ LeafIn(tree, n) => \A m \in Children(n, tree[n]) : f[m] = g[m])
             => step[<<n, f>>] = step[<<n, g>>]
  BY <1>3, <1>5
<1>7. {} \in X
  OBVIOUS
<1>8. PICK f : IsRecursive(f, D, X, step)
  <2> HIDE DEF X
  <2> QED
    BY <1>4, <1>6, <1>7, NodeRecursion
<1>9. f = [n \in D |-> IF LeafIn(tree, n) THEN leaf(n) ELSE inner(n, f)]
  <2> HIDE DEF X
  <2>1. f \in [D -> X] /\ \A n \in D : f[n] = IF LeafIn(tree, n) THEN leaf(n) ELSE inner(n, f)
    BY <1>5, <1>8 DEF IsRecursive
  <2> QED
    BY <2>1
<1> DEFINE Is(g) == g = [n \in D |-> IF LeafIn(tree, n) THEN leaf(n) ELSE inner(n, g)]
<1>10. MixedFrom(tree) = CHOOSE g : Is(g)
  BY DEF MixedFrom, leaf, inner
<1>11. Is(f)
  BY <1>9
<1> HIDE DEF Is
<1>12. Is(MixedFrom(tree))
  BY <1>10, <1>11
<1>13. \A n \in D : MixedFrom(tree)[n] = IF LeafIn(tree, n) THEN leaf(n) ELSE inner(n, MixedFrom(tree))
  BY <1>12 DEF Is
<1> QED
  BY <1>13 DEF leaf, inner

(* build_zexpr_mixed: the formula that finish_alg writes is satisfied by   *)
(* the configurations that the tree predicts to be hits.                   *)
THEOREM MixedRight ==
    ASSUME NEW tree, WellFormed(tree)
    PROVE  Mixed(tree) = {c \in Configs : Predicts(tree, c)}
<1> DEFINE D == DOMAIN tree
           sat == MixedFrom(tree)
           S == {n \in D : sat[n] = HitsFrom(tree, n)}
<1>1. ASSUME NEW n \in D, ~ LeafIn(tree, n) => Children(n, tree[n]) \subseteq S
      PROVE  sat[n] = HitsFrom(tree, n)
  <2>1. CASE LeafIn(tree, n)
    <3>1. sat[n] = IF tree[n] = kInterpretHit THEN Configs ELSE {}
      BY <2>1, MixedFunction
    <3>2. HitsFrom(tree, n) = IF tree[n] = kInterpretHit THEN Configs ELSE {}
      BY <2>1, HitsFromNode
    <3> HIDE DEF sat
    <3> QED
      BY <3>1, <3>2
  <2>2. CASE ~ LeafIn(tree, n)
    <3> DEFINE v == tree[n]
               k(i) == Child(n, v, i)
               part(i) == IF LeafIn(tree, k(i))
                          THEN IF tree[k(i)] = kInterpretHit THEN Eq(v, i) ELSE {}
                          ELSE Eq(v, i) \cap sat[k(i)]
    <3>1. sat[n] = UNION {part(i) : i \in Values(v)}
      BY <2>2, MixedFunction
    <3>2. \A i \in Values(v) : k(i) \in D /\ k(i) \in S
      BY <1>1, <2>2, InnerNode DEF Children
    <3> HIDE DEF sat, k
    <3>3. \A i \in Values(v) : part(i) = Eq(v, i) \cap HitsFrom(tree, k(i))
      BY <3>2, HitsFromNode DEF Eq
    <3> HIDE DEF part
    <3>4. sat[n] = UNION {Eq(v, i) \cap HitsFrom(tree, k(i)) : i \in Values(v)}
      BY <3>1, <3>3
    <3>5. \A c \in Configs : c[v] \in Values(v)
      BY <2>2, InnerNode, ConfigValue
    <3>6. \A c \in Configs : c \in HitsFrom(tree, n) <=> c \in HitsFrom(tree, k(c[v]))
      BY <2>2, HitsFromNode DEF k
    <3>7. \A c : c \in sat[n] <=> c \in HitsFrom(tree, n)
      <4>1. \A c : c \in sat[n] <=> \E i \in Values(v) : c \in Configs /\ c[v] = i /\ c \in HitsFrom(tree, k(i))
        BY <3>4 DEF Eq
      <4>2. \A c : c \in HitsFrom(tree, n) => c \in Configs
        BY DEF HitsFrom
      <4> QED
        BY <3>5, <3>6, <4>1, <4>2
    <3> QED
      BY <3>7
  <2> QED
    BY <2>1, <2>2
<1>2. \A n \in D : (~ LeafIn(tree, n) => Children(n, tree[n]) \subseteq S) => n \in S
  BY <1>1
<1>3. \A n \in D : n \in S
  <2> HIDE DEF S
  <2> QED
    BY <1>2, NodeInduction
<1>4. Mixed(tree) = sat[Root] /\ Root \in D
  BY DEF Mixed, MixedFrom, WellFormed
<1> QED
  BY <1>3, <1>4, PredictsDown DEF HitsFrom

CubesFrom(tree) ==
    LET cubes[n \in DOMAIN tree] ==
            [cur \in SUBSET Configs |->
                IF LeafIn(tree, n) THEN IF tree[n] = kInterpretHit THEN cur ELSE {}
                ELSE UNION {cubes[Child(n, tree[n], i)][IF n = Root THEN Eq(tree[n], i)
                                                        ELSE cur \cap Eq(tree[n], i)] :
                            i \in Values(tree[n])}]
    IN  cubes

CubesOfChildren(tree, f, n, cur) ==
    UNION {f[Child(n, tree[n], i)][IF n = Root THEN Eq(tree[n], i) ELSE cur \cap Eq(tree[n], i)] :
           i \in Values(tree[n])}

LEMMA CubesFunction ==
    ASSUME NEW tree, WellFormed(tree)
    PROVE  \A n \in DOMAIN tree, cur \in SUBSET Configs :
              CubesFrom(tree)[n][cur] =
              IF LeafIn(tree, n) THEN IF tree[n] = kInterpretHit THEN cur ELSE {}
              ELSE CubesOfChildren(tree, CubesFrom(tree), n, cur)
<1> DEFINE D == DOMAIN tree
           X == [SUBSET Configs -> SUBSET Configs]
           leaf(n, cur) == IF tree[n] = kInterpretHit THEN cur ELSE {}
           now(n, i, cur) == IF n = Root THEN Eq(tree[n], i) ELSE cur \cap Eq(tree[n], i)
           inner(n, f, cur) == UNION {f[Child(n, tree[n], i)][now(n, i, cur)] : i \in Values(tree[n])}
           body(n, f) == [cur \in SUBSET Configs |->
                             IF LeafIn(tree, n) THEN leaf(n, cur) ELSE inner(n, f, cur)]
           step == [q \in D \X [D -> X] |-> body(q[1], q[2])]
<1>1. \A n \in D, i \in Int, cur \in SUBSET Configs : now(n, i, cur) \in SUBSET Configs
  BY DEF Eq
<1>2. ASSUME NEW n \in D, ~ LeafIn(tree, n)
      PROVE  \A i \in Values(tree[n]) : i \in Int /\ Child(n, tree[n], i) \in D
                                      /\ Child(n, tree[n], i) \in Children(n, tree[n])
  BY <1>2, InnerNode DEF Children, Values
<1> HIDE DEF now
<1>3. ASSUME NEW n \in D, NEW f \in [D -> X], NEW cur \in SUBSET Configs, ~ LeafIn(tree, n)
      PROVE  inner(n, f, cur) \in SUBSET Configs
  <2>1. \A i \in Values(tree[n]) : f[Child(n, tree[n], i)] \in X
    BY <1>2, <1>3
  <2>2. \A i \in Values(tree[n]) : now(n, i, cur) \in SUBSET Configs
    BY <1>1, <1>2, <1>3
  <2>3. \A i \in Values(tree[n]) : f[Child(n, tree[n], i)][now(n, i, cur)] \in SUBSET Configs
    BY <2>1, <2>2
  <2> QED
    BY <2>3
<1>4. ASSUME NEW n \in D, ~ LeafIn(tree, n), NEW f, NEW g, \A m \in Children(n, tree[n]) : f[m] = g[m]
      PROVE  \A cur : inner(n, f, cur) = inner(n, g, cur)
  <2>1. \A i \in Values(tree[n]) : f[Child(n, tree[n], i)] = g[Child(n, tree[n], i)]
    BY <1>2, <1>4
  <2> QED
    BY <2>1
<1>0. \A n \in D, cur \in SUBSET Configs : leaf(n, cur) \in SUBSET Configs
  OBVIOUS
<1> HIDE DEF leaf, inner
<1>5. \A n \in D, f \in [D -> X] : body(n, f) \in X
  BY <1>0, <1>3
<1>6. \A n \in D : \A f, g :
         (~ LeafIn(tree, n) => \A m \in Children(n, tree[n]) : f[m] = g[m]) => body(n, f) = body(n, g)
  BY <1>4
<1> HIDE DEF body
<1>7. step \in [D \X [D -> X] -> X]
  <2> HIDE DEF X
  <2> QED
    BY <1>5
<1>8. \A n \in D, f \in [D -> X] : step[<<n, f>>] = body(n, f)
  <2> HIDE DEF X
  <2> QED
    OBVIOUS
<1> HIDE DEF step
<1>9. \A n \in D : \A f, g \in [D -> X] :
         (~ LeafIn(tree, n) => \A m \in Children(n, tree[n]) : f[m] = g[m])
             => step[<<n, f>>] = step[<<n, g>>]
  <2> HIDE DEF X
  <2> QED
    BY <1>6, <1>8
<1>10. [cur \in SUBSET Configs |-> cur] \in X
  OBVIOUS
<1>11. PICK f : IsRecursive(f, D, X, step)
  <2> DEFINE e == [cur \in SUBSET Configs |-> cur]
  <2> HIDE DEF X, e
  <2>1. e \in X
    BY <1>10 DEF e
  <2> QED
    BY <1>7, <1>9, <2>1, NodeRecursion
<1>12. f = [n \in D |-> body(n, f)]
  <2> HIDE DEF X
  <2>1. f \in [D -> X] /\ \A n \in D : f[n] = body(n, f)
    BY <1>8, <1>11 DEF IsRecursive
  <2> QED
    BY <2>1
<1> DEFINE Is(g) == g = [n \in D |-> body(n, g)]
<1>13. CubesFrom(tree) = CHOOSE g : Is(g)
  BY DEF CubesFrom, body, leaf, inner, now
<1>14. Is(f)
  BY <1>12
<1> HIDE DEF Is
<1>15. Is(CubesFrom(tree))
  BY <1>13, <1>14
<1>16. \A n \in D : CubesFrom(tree)[n] = body(n, CubesFrom(tree))
  BY <1>15 DEF Is
<1>17. \A n \in D, cur \in SUBSET Configs :
          CubesFrom(tree)[n][cur] = IF LeafIn(tree, n) THEN leaf(n, cur) ELSE inner(n, CubesFrom(tree), cur)
  BY <1>16 DEF body
<1> QED
  BY <1>17 DEF leaf, inner, now, CubesOfChildren

(* build_zexpr_disj_conj gives the same formula in the other form.         *)
THEOREM DisjConjRight ==
    ASSUME NEW tree, WellFormed(tree)
    PROVE  DisjConj(tree) = {c \in Configs : Predicts(tree, c)}
<1> DEFINE D == DOMAIN tree
           cubes == CubesFrom(tree)
           Right(n) == \A cur \in SUBSET Configs :
                          (n = Root => cur = Configs) => cubes[n][cur] = cur \cap HitsFrom(tree, n)
           S == {n \in D : Right(n)}
<1>1. ASSUME NEW n \in D, ~ LeafIn(tree, n) => Children(n, tree[n]) \subseteq S,
             NEW cur \in SUBSET Configs, n = Root => cur = Configs
      PROVE  cubes[n][cur] = cur \cap HitsFrom(tree, n)
  <2>1. CASE LeafIn(tree, n)
    <3>1. cubes[n][cur] = IF tree[n] = kInterpretHit THEN cur ELSE {}
      BY <2>1, CubesFunction
    <3>2. HitsFrom(tree, n) = IF tree[n] = kInterpretHit THEN Configs ELSE {}
      BY <2>1, HitsFromNode
    <3> HIDE DEF cubes
    <3> QED
      BY <3>1, <3>2
  <2>2. CASE ~ LeafIn(tree, n)
    <3> DEFINE v == tree[n]
               k(i) == Child(n, v, i)
               now(i) == IF n = Root THEN Eq(v, i) ELSE cur \cap Eq(v, i)
    <3>1. cubes[n][cur] = UNION {cubes[k(i)][now(i)] : i \in Values(v)}
      <4>1. cubes[n][cur] = CubesOfChildren(tree, cubes, n, cur)
        BY <2>2, CubesFunction
      <4> QED
        BY <4>1 DEF CubesOfChildren
    <3>2. \A i \in Values(v) : k(i) \in S /\ k(i) # Root
      <4> TAKE i \in Values(v)
      <4>1. k(i) \in Children(n, v)
        BY DEF Children
      <4>2. n \in Templates /\ v \in Vars
        BY <2>2, InnerNode
      <4>3. k(i)[v] = i /\ i # Unset /\ Root[v] = Unset
        BY <4>2, ChildIsTemplate, ValuesAreSet, RootIsTemplate
      <4> QED
        BY <1>1, <2>2, <4>1, <4>3
    <3>3. \A i \in Values(v) : now(i) = cur \cap Eq(v, i) /\ now(i) \in SUBSET Configs
      BY <1>1 DEF Eq
    <3> HIDE DEF cubes, k, now
    <3>4. \A i \in Values(v) : cubes[k(i)][now(i)] = cur \cap Eq(v, i) \cap HitsFrom(tree, k(i))
      BY <3>2, <3>3
    <3>5. cubes[n][cur] = UNION {cur \cap Eq(v, i) \cap HitsFrom(tree, k(i)) : i \in Values(v)}
      BY <3>1, <3>4
    <3>6. \A c \in Configs : c[v] \in Values(v)
      BY <2>2, InnerNode, ConfigValue
    <3>7. \A c \in Configs : c \in HitsFrom(tree, n) <=> c \in HitsFrom(tree, k(c[v]))
      BY <2>2, HitsFromNode DEF k
    <3>8. \A c : c \in cubes[n][cur] <=> c \in cur /\ c \in HitsFrom(tree, n)
      <4>1. \A c : c \in cubes[n][cur] <=>
                      \E i \in Values(v) : c \in cur /\ c \in Configs /\ c[v] = i /\ c \in HitsFrom(tree, k(i))
        BY <3>5 DEF Eq
      <4>2. \A c \in cur : c \in Configs
        OBVIOUS
      <4> QED
        BY <3>6, <3>7, <4>1, <4>2
    <3> QED
      BY <3>8
  <2> QED
    BY <2>1, <2>2
<1>2. \A n \in D : (~ LeafIn(tree, n) => Children(n, tree[n]) \subseteq S) => n \in S
  BY <1>1
<1>3. \A n \in D : n \in S
  <2> HIDE DEF S
  <2> QED
    BY <1>2, NodeInduction
<1>4. DisjConj(tree) = cubes[Root][Configs] /\ Root \in D
  BY DEF DisjConj, CubesFrom, WellFormed
<1>5. cubes[Root][Configs] = Configs \cap HitsFrom(tree, Root)
  BY <1>3, <1>4
<1> QED
  BY <1>4, <1>5, PredictsDown DEF HitsFrom

------------------------------------------------------------------------------
(* The code of the flat interpreter.                                       *)

LEMMA SetEntry ==
    ASSUME NEW e \in Seq(Int), NEW k \in Int, NEW x \in Int
    PROVE  /\ [e EXCEPT ![k] = x] \in Seq(Int) /\ Len([e EXCEPT ![k] = x]) = Len(e)
           /\ \A p \in 1 .. Len(e) : [e EXCEPT ![k] = x][p] = IF p = k THEN x ELSE e[p]
<1>1. CASE k \in 1 .. Len(e)
  BY <1>1, ExceptSeq
<1>2. CASE k \notin 1 .. Len(e)
  <2>1. e \in [1 .. Len(e) -> Int]
    BY LenProperties
  <2>2. [e EXCEPT ![k] = x] = e
    BY <1>2, <2>1
  <2> QED
    BY <1>2, <2>2
<1> QED
  BY <1>1, <1>2

(* The code before the children's: the option and the empty addresses.     *)
Table(tree, n, dat) == Append(dat, tree[n]) \o [k \in 1 .. NValues[tree[n]] - 1 |-> 0]

IsTable(t, tree, n, dat) ==
    /\ t \in Seq(Int) /\ Len(t) = Len(dat) + NValues[tree[n]] /\ NValues[tree[n]] \in Nat \ {0}
    /\ \A p \in 1 .. Len(dat) : t[p] = dat[p]
    /\ t[Len(dat) + 1] = tree[n]

LEMMA TableRight ==
    ASSUME NEW tree, NEW n, tree[n] \in Vars, NEW dat \in Seq(Int)
    PROVE  IsTable(Table(tree, n, dat), tree, n, dat)
<1> DEFINE zeros == [k \in 1 .. NValues[tree[n]] - 1 |-> 0]
           opt == Append(dat, tree[n])
<1>1. NValues[tree[n]] \in Nat \ {0} /\ tree[n] \in Int
  BY OptionsAssumption DEF Vars
<1>2. zeros \in Seq(Int) /\ Len(zeros) = NValues[tree[n]] - 1
  BY <1>1
<1>3. /\ opt \in Seq(Int) /\ Len(opt) = Len(dat) + 1 /\ opt[Len(dat) + 1] = tree[n]
      /\ \A p \in 1 .. Len(dat) : opt[p] = dat[p]
  BY <1>1
<1> HIDE DEF zeros, opt
<1>4. Table(tree, n, dat) = opt \o zeros
  BY DEF Table, opt, zeros
<1>5. /\ opt \o zeros \in Seq(Int) /\ Len(opt \o zeros) = Len(opt) + Len(zeros)
      /\ \A p \in 1 .. Len(opt) : (opt \o zeros)[p] = opt[p]
  <2>1. Len(opt) \in Nat /\ Len(zeros) \in Nat
    BY <1>2, <1>3, LenProperties
  <2>2. \A p \in 1 .. Len(opt) : p \in 1 .. Len(opt) + Len(zeros) /\ p <= Len(opt)
    BY <2>1
  <2> QED
    BY <1>2, <1>3, <2>2, ConcatProperties
<1>6. \A p \in 1 .. Len(dat) + 1 : (opt \o zeros)[p] = opt[p]
  BY <1>3, <1>5
<1> QED
  BY <1>1, <1>2, <1>3, <1>4, <1>5, <1>6 DEF IsTable

(* The loop of build_interpreter over the children.                        *)
Emits == [Seq(Int) -> Seq(Int)]

After(tree, emit, n, dat) ==
    LET v == tree[n]
        after[i \in 0 .. NValues[v]] ==
            IF i = 0 THEN Append(dat, v) \o [k \in 1 .. NValues[v] - 1 |-> 0]
            ELSE LET e == emit[Child(n, v, i - 1)][after[i - 1]]
                 IN  IF i < NValues[v] THEN [e EXCEPT ![Len(dat) + 1 + i] = Len(e)] ELSE e
    IN  after

(* An address is put behind all but the last child.                        *)
Addressed(e, i, N, L) == IF i < N THEN [e EXCEPT ![L + 1 + i] = Len(e)] ELSE e

IsAfter(a, tree, emit, n, dat) ==
    /\ a \in [0 .. NValues[tree[n]] -> Seq(Int)]
    /\ a[0] = Table(tree, n, dat)
    /\ \A i \in 1 .. NValues[tree[n]] :
          a[i] = Addressed(emit[Child(n, tree[n], i - 1)][a[i - 1]], i, NValues[tree[n]], Len(dat))

LEMMA AfterFunction ==
    ASSUME NEW tree, WellFormed(tree), NEW n \in DOMAIN tree, ~ LeafIn(tree, n),
           NEW emit, \A m \in Children(n, tree[n]) : emit[m] \in Emits, NEW dat \in Seq(Int)
    PROVE  IsAfter(After(tree, emit, n, dat), tree, emit, n, dat)
<1> DEFINE v == tree[n]
           N == NValues[v]
           S == Seq(Int)
           child(i, x) == emit[Child(n, v, i - 1)][x]
           put(i, e) == IF i < N THEN [e EXCEPT ![Len(dat) + 1 + i] = Len(e)] ELSE e
           step == [q \in S \X (1 .. N) |-> put(q[2], child(q[2], q[1]))]
           first == Table(tree, n, dat)
<1>1. v \in Vars /\ N \in Nat \ {0} /\ first \in S
  BY InnerNode, TableRight DEF IsTable
<1>2. \A i \in 1 .. N, x \in S : child(i, x) \in S
  <2> TAKE i \in 1 .. N, x \in S
  <2>1. i - 1 \in Values(v)
    BY <1>1 DEF Values
  <2>2. Child(n, v, i - 1) \in Children(n, v)
    BY <2>1 DEF Children
  <2>3. emit[Child(n, v, i - 1)] \in Emits
    BY <2>2
  <2> QED
    BY <2>3 DEF Emits
<1>3. \A i \in 1 .. N, e \in S : put(i, e) \in S
  <2> TAKE i \in 1 .. N, e \in S
  <2>1. Len(dat) + 1 + i \in Int /\ Len(e) \in Int
    OBVIOUS
  <2> QED
    BY <2>1, SetEntry
<1> HIDE DEF child, put, N, S, first
<1>4. step \in [S \X (1 .. N) -> S]
  BY <1>2, <1>3
<1>5. \A x \in S, i \in 1 .. N : step[<<x, i>>] = put(i, child(i, x))
  OBVIOUS
<1> HIDE DEF step
<1>6. PICK f : IsLoop(f, N, S, first, step)
  BY <1>1, <1>4, LoopExists
<1>7. /\ f \in [0 .. N -> S] /\ f[0] = first
      /\ \A i \in 1 .. N : f[i] = put(i, child(i, f[i - 1]))
  <2>1. f \in [0 .. N -> S] /\ f[0] = first /\ \A i \in 1 .. N : f[i] = step[<<f[i - 1], i>>]
    BY <1>6 DEF IsLoop
  <2>2. \A i \in 1 .. N : i - 1 \in 0 .. N
    BY <1>1
  <2>3. \A i \in 1 .. N : f[i - 1] \in S
    BY <2>1, <2>2
  <2> QED
    BY <1>5, <2>1, <2>3
<1> DEFINE body(g, i) == IF i = 0 THEN first ELSE put(i, child(i, g[i - 1]))
           Is(g) == g = [i \in 0 .. N |-> body(g, i)]
<1>8. Is(f)
  <2>1. \A i \in 0 .. N : i # 0 => i \in 1 .. N
    BY <1>1
  <2>2. \A i \in 0 .. N : f[i] = body(f, i)
    BY <1>7, <2>1
  <2> HIDE DEF body
  <2> QED
    BY <1>7, <2>2
<1>9. After(tree, emit, n, dat) = CHOOSE g : Is(g)
  BY DEF After, Table, N, child, put, first
<1> HIDE DEF Is
<1> DEFINE a == After(tree, emit, n, dat)
<1>10. Is(a)
  BY <1>8, <1>9
<1> HIDE DEF a
<1>11. a = [i \in 0 .. N |-> body(a, i)]
  BY <1>10 DEF Is
<1>12. \A i \in 0 .. N : a[i] = IF i = 0 THEN first ELSE put(i, child(i, a[i - 1]))
  BY <1>11
<1>13. a[0] = first /\ \A i \in 1 .. N : a[i] = put(i, child(i, a[i - 1]))
  BY <1>1, <1>12
<1> DEFINE Good == {i \in 0 .. N : a[i] \in S}
<1>14. \A i \in 0 .. N : i \in Good
  <2>1. 0 \in Good
    BY <1>1, <1>13
  <2>2. ASSUME NEW i \in 0 .. N - 1, i \in Good PROVE i + 1 \in Good
    <3>1. i + 1 \in 1 .. N /\ (i + 1) - 1 = i
      BY <1>1
    <3>2. child(i + 1, a[i]) \in S
      BY <1>2, <2>2, <3>1
    <3>3. a[i + 1] = put(i + 1, child(i + 1, a[i]))
      BY <1>13, <3>1
    <3>4. a[i + 1] \in S
      BY <1>3, <3>1, <3>2, <3>3
    <3> QED
      BY <1>1, <3>1, <3>4
  <2> HIDE DEF Good
  <2> QED
    BY <1>1, <2>1, <2>2, Induction
<1>15. a \in [0 .. N -> S]
  <2> HIDE DEF body
  <2> QED
    BY <1>11, <1>14
<1> QED
  BY <1>13, <1>15 DEF a, first, put, child, N, S, IsAfter, Addressed

LEMMA AfterAgree ==
    ASSUME NEW tree, WellFormed(tree), NEW n \in DOMAIN tree, ~ LeafIn(tree, n),
           NEW f, NEW g, \A m \in Children(n, tree[n]) : f[m] \in Emits /\ f[m] = g[m], NEW dat \in Seq(Int)
    PROVE  /\ AfterChildren(tree, f, n, dat) = AfterChildren(tree, g, n, dat)
           /\ AfterChildren(tree, f, n, dat) = After(tree, f, n, dat)[NValues[tree[n]]]
           /\ AfterChildren(tree, f, n, dat) \in Seq(Int)
<1> DEFINE v == tree[n]
           N == NValues[v]
           F == After(tree, f, n, dat)
           G == After(tree, g, n, dat)
           put(i, e) == Addressed(e, i, N, Len(dat))
           Same == {i \in 0 .. N : F[i] = G[i]}
<1>1. N \in Nat \ {0}
  BY InnerNode, OptionsAssumption
<1>2. /\ F \in [0 .. N -> Seq(Int)] /\ F[0] = G[0]
      /\ \A i \in 1 .. N : /\ F[i] = put(i, f[Child(n, v, i - 1)][F[i - 1]])
                           /\ G[i] = put(i, g[Child(n, v, i - 1)][G[i - 1]])
  <2>1. \A m \in Children(n, v) : f[m] \in Emits
    OBVIOUS
  <2>2. \A m \in Children(n, v) : g[m] \in Emits
    OBVIOUS
  <2>3. IsAfter(F, tree, f, n, dat)
    BY <2>1, AfterFunction
  <2>4. IsAfter(G, tree, g, n, dat)
    BY <2>2, AfterFunction
  <2> HIDE DEF F, G
  <2> QED
    BY <2>3, <2>4 DEF IsAfter
<1>3. \A i \in 1 .. N : f[Child(n, v, i - 1)] = g[Child(n, v, i - 1)]
  BY <1>1 DEF Children, Values
<1> HIDE DEF F, G, put, N
<1>4. 0 \in Same
  BY <1>1, <1>2
<1>5. ASSUME NEW i \in 0 .. N - 1, i \in Same PROVE i + 1 \in Same
  <2>1. i + 1 \in 1 .. N /\ i + 1 \in 0 .. N /\ (i + 1) - 1 = i
    BY <1>1
  <2>2. F[i + 1] = put(i + 1, f[Child(n, v, i)][F[i]]) /\ G[i + 1] = put(i + 1, g[Child(n, v, i)][G[i]])
    BY <1>2, <2>1
  <2>3. f[Child(n, v, i)] = g[Child(n, v, i)]
    BY <1>3, <2>1
  <2> QED
    BY <1>5, <2>1, <2>2, <2>3
<1>6. \A i \in 0 .. N : i \in Same
  <2> HIDE DEF Same
  <2> QED
    BY <1>1, <1>4, <1>5, Induction
<1>7. F[N] = G[N] /\ F[N] \in Seq(Int)
  BY <1>1, <1>2, <1>6
<1>8. AfterChildren(tree, f, n, dat) = F[N] /\ AfterChildren(tree, g, n, dat) = G[N]
  BY DEF AfterChildren, After, F, G, N
<1> QED
  BY <1>7, <1>8 DEF F, N

EmitFrom(tree) ==
    LET emit[n \in DOMAIN tree] ==
            [dat \in Seq(Int) |-> IF LeafIn(tree, n) THEN Append(dat, tree[n])
                                  ELSE AfterChildren(tree, emit, n, dat)]
    IN  emit

LEMMA EmitFunction ==
    ASSUME NEW tree, WellFormed(tree)
    PROVE  /\ EmitFrom(tree) \in [DOMAIN tree -> Emits]
           /\ \A n \in DOMAIN tree, dat \in Seq(Int) :
                 EmitFrom(tree)[n][dat] = IF LeafIn(tree, n) THEN Append(dat, tree[n])
                                          ELSE AfterChildren(tree, EmitFrom(tree), n, dat)
<1> DEFINE D == DOMAIN tree
           X == Emits
           leaf(n, dat) == Append(dat, tree[n])
           inner(n, f, dat) == AfterChildren(tree, f, n, dat)
           body(n, f) == [dat \in Seq(Int) |->
                             IF LeafIn(tree, n) THEN leaf(n, dat) ELSE inner(n, f, dat)]
           step == [q \in D \X [D -> X] |-> body(q[1], q[2])]
<1>1. ASSUME NEW n \in D, NEW f, ~ LeafIn(tree, n) => \A m \in Children(n, tree[n]) : f[m] \in X,
             NEW dat \in Seq(Int)
      PROVE  /\ LeafIn(tree, n) => leaf(n, dat) \in Seq(Int)
             /\ ~ LeafIn(tree, n) => inner(n, f, dat) \in Seq(Int)
  <2>1. CASE LeafIn(tree, n)
    <3>1. tree[n] \in Int
      BY <2>1 DEF LeafIn, kInterpretHit, kInterpretMiss
    <3> QED
      BY <2>1, <3>1, AppendProperties
  <2>2. CASE ~ LeafIn(tree, n)
    BY <1>1, <2>2, AfterAgree
  <2> QED
    BY <2>1, <2>2
<1>2. ASSUME NEW n \in D, ~ LeafIn(tree, n), NEW f, NEW g,
             \A m \in Children(n, tree[n]) : f[m] \in X /\ f[m] = g[m], NEW dat \in Seq(Int)
      PROVE  inner(n, f, dat) = inner(n, g, dat)
  BY <1>2, AfterAgree
<1> HIDE DEF leaf, inner
<1>3. ASSUME NEW n \in D, NEW f, ~ LeafIn(tree, n) => \A m \in Children(n, tree[n]) : f[m] \in X
      PROVE  body(n, f) \in X
  BY <1>1, <1>3 DEF Emits
<1>4. ASSUME NEW n \in D, NEW f, NEW g,
             ~ LeafIn(tree, n) => \A m \in Children(n, tree[n]) : f[m] \in X /\ f[m] = g[m]
      PROVE  body(n, f) = body(n, g)
  <2> HIDE DEF X
  <2>1. \A dat \in Seq(Int) : ~ LeafIn(tree, n) => inner(n, f, dat) = inner(n, g, dat)
    BY <1>2, <1>4
  <2> QED
    BY <2>1
<1>5. \A n \in D : ~ LeafIn(tree, n) => \A m \in Children(n, tree[n]) : m \in D
  BY DEF WellFormed, LeavesOf
<1> HIDE DEF body, X
<1>6. \A n \in D, f \in [D -> X] : body(n, f) \in X
  BY <1>3, <1>5
<1>7. step \in [D \X [D -> X] -> X]
  BY <1>6
<1>8. \A n \in D, f \in [D -> X] : step[<<n, f>>] = body(n, f)
  OBVIOUS
<1> HIDE DEF step
<1>9. \A n \in D : \A f, g \in [D -> X] :
         (~ LeafIn(tree, n) => \A m \in Children(n, tree[n]) : f[m] = g[m])
             => step[<<n, f>>] = step[<<n, g>>]
  BY <1>4, <1>5, <1>8
<1>10. PICK f : IsRecursive(f, D, X, step)
  <2> DEFINE e == [dat \in Seq(Int) |-> dat]
  <2>1. e \in X
    BY DEF Emits, X
  <2> HIDE DEF e
  <2> QED
    BY <1>7, <1>9, <2>1, NodeRecursion
<1> DEFINE Is(g) == g = [n \in D |-> body(n, g)]
<1>11. Is(f)
  <2>1. f \in [D -> X] /\ \A n \in D : f[n] = body(n, f)
    BY <1>8, <1>10 DEF IsRecursive
  <2> QED
    BY <2>1
<1>12. EmitFrom(tree) = CHOOSE g : Is(g)
  BY DEF EmitFrom, body, leaf, inner
<1> HIDE DEF Is
<1> DEFINE emit == EmitFrom(tree)
<1>13. Is(emit)
  BY <1>11, <1>12
<1> HIDE DEF emit
<1>14. emit = [n \in D |-> body(n, emit)]
  BY <1>13 DEF Is
<1>15. \A n \in D : emit[n] = body(n, emit)
  BY <1>14
<1> DEFINE Typed == {n \in D : emit[n] \in X}
<1>16. \A n \in D : (~ LeafIn(tree, n) => Children(n, tree[n]) \subseteq Typed) => n \in Typed
  BY <1>3, <1>15
<1>17. \A n \in D : n \in Typed
  <2> HIDE DEF Typed
  <2> QED
    BY <1>16, NodeInduction
<1>18. emit \in [D -> X]
  BY <1>14, <1>17
<1>19. \A n \in D, dat \in Seq(Int) :
          emit[n][dat] = IF LeafIn(tree, n) THEN leaf(n, dat) ELSE inner(n, emit, dat)
  BY <1>15 DEF body
<1> QED
  BY <1>18, <1>19 DEF leaf, inner, emit, X

(* The code of a node goes behind what is there, and holds the code of each*)
(* child and where it begins.                                              *)
Extends(e, dat) ==
    e \in Seq(Int) /\ Len(e) > Len(dat) /\ \A p \in 1 .. Len(dat) : e[p] = dat[p]
Agrees(code, e, a) == Len(e) <= Len(code) /\ \A p \in a + 1 .. Len(e) : code[p] = e[p]

Segmented(a, i, tree, emit, n, dat) ==
    /\ a[i] \in Seq(Int) /\ Len(a[i]) >= Len(dat) + NValues[tree[n]]
    /\ \A p \in 1 .. Len(dat) : a[i][p] = dat[p]
    /\ a[i][Len(dat) + 1] = tree[n]
    /\ \A j \in 1 .. i : j < NValues[tree[n]] => a[i][Len(dat) + 1 + j] = Len(a[j])
    /\ \A j \in 0 .. i - 1 : Agrees(a[i], emit[Child(n, tree[n], j)][a[j]], Len(a[j]))

LEMMA AfterSegments ==
    ASSUME NEW tree, WellFormed(tree), NEW n \in DOMAIN tree, ~ LeafIn(tree, n), NEW emit,
           \A m \in Children(n, tree[n]) :
               emit[m] \in Emits /\ \A d \in Seq(Int) : Extends(emit[m][d], d),
           NEW dat \in Seq(Int)
    PROVE  \A i \in 0 .. NValues[tree[n]] :
              Segmented(After(tree, emit, n, dat), i, tree, emit, n, dat)
<1> DEFINE v == tree[n]
           a == After(tree, emit, n, dat)
           N == NValues[v]
           L == Len(dat)
           E(j) == emit[Child(n, v, j)][a[j]]
           Holds(i) == /\ a[i] \in Seq(Int) /\ \A j \in 0 .. i : Len(a[j]) >= L + N
                       /\ \A p \in 1 .. L : a[i][p] = dat[p]
                       /\ a[i][L + 1] = v
                       /\ \A j \in 1 .. i : j < N => a[i][L + 1 + j] = Len(a[j])
                       /\ \A j \in 0 .. i - 1 : Agrees(a[i], E(j), Len(a[j]))
           S == {i \in 0 .. N : Holds(i)}
<1>1. N \in Nat \ {0} /\ L \in Nat /\ v \in Vars
  BY InnerNode, OptionsAssumption, LenProperties
<1>2. /\ a \in [0 .. N -> Seq(Int)] /\ a[0] = Table(tree, n, dat)
      /\ \A i \in 1 .. N : a[i] = Addressed(emit[Child(n, v, i - 1)][a[i - 1]], i, N, L)
  <2>1. IsAfter(a, tree, emit, n, dat)
    BY AfterFunction
  <2> HIDE DEF a
  <2> QED
    BY <2>1 DEF IsAfter
<1>0. /\ a[0] \in Seq(Int) /\ Len(a[0]) = L + N
      /\ \A p \in 1 .. L : a[0][p] = dat[p]
      /\ a[0][L + 1] = v
  <2> DEFINE t == Table(tree, n, dat)
  <2>1. a[0] = t
    BY <1>2
  <2>2. /\ t \in Seq(Int) /\ Len(t) = L + N
        /\ \A p \in 1 .. L : t[p] = dat[p]
        /\ t[L + 1] = v
    <3>1. IsTable(t, tree, n, dat)
      BY <1>1, TableRight
    <3> HIDE DEF t
    <3> QED
      BY <3>1 DEF IsTable
  <2> HIDE DEF a, t, L, N
  <2> QED
    BY <2>1, <2>2
<1>9. \A i \in 0 .. N - 1 : Child(n, v, i) \in Children(n, v)
  BY <1>1 DEF Children, Values
<1> HIDE DEF a, N, L
<1>3. \A i \in 0 .. N - 1 : Extends(E(i), a[i])
  <2> TAKE i \in 0 .. N - 1
  <2>1. a[i] \in Seq(Int)
    BY <1>1, <1>2
  <2> QED
    BY <1>9, <2>1
<1>4. 0 \in S
  <2> HIDE DEF E
  <2>1. 0 .. (0 - 1) = {} /\ 1 .. 0 = {} /\ \A j \in 0 .. 0 : j = 0
    OBVIOUS
  <2>2. \A j \in 0 .. 0 : Len(a[j]) >= L + N
    BY <1>0, <1>1
  <2> QED
    BY <1>0, <1>1, <2>1, <2>2
<1>5. ASSUME NEW i \in 0 .. N - 1, i \in S PROVE i + 1 \in S
  <2> DEFINE e == E(i)
             b == a[i + 1]
  <2>1. i + 1 \in 1 .. N /\ i + 1 \in 0 .. N /\ (i + 1) - 1 = i
    BY <1>1
  <2>2. /\ e \in Seq(Int) /\ Len(e) > Len(a[i]) /\ Len(e) \in Nat
        /\ \A p \in 1 .. Len(a[i]) : e[p] = a[i][p]
    BY <1>3 DEF Extends
  <2>3. b = Addressed(e, i + 1, N, L)
    BY <1>2, <2>1
  <2> HIDE DEF e, b, E
  <2>4. Holds(i)
    BY <1>5
  <2>5. a[i] \in Seq(Int) /\ Len(a[i]) \in Nat /\ i \in 0 .. i /\ i \in Int
    BY <1>1, <2>4, LenProperties
  <2>6. \A j \in 0 .. i : Len(a[j]) >= L + N
    BY <2>4
  <2>7. (\A p \in 1 .. L : a[i][p] = dat[p]) /\ a[i][L + 1] = v
    BY <2>4
  <2>8. \A j \in 1 .. i : j < N => a[i][L + 1 + j] = Len(a[j])
    BY <2>4
  <2>9. \A j \in 0 .. i - 1 : Agrees(a[i], E(j), Len(a[j]))
    BY <2>4
  <2> HIDE DEF Holds
  <2>10. /\ b \in Seq(Int) /\ Len(b) = Len(e)
         /\ \A p \in 1 .. Len(e) : b[p] = IF i + 1 < N /\ p = L + 1 + (i + 1) THEN Len(e) ELSE e[p]
    <3>1. CASE i + 1 < N
      <4>1. L + 1 + (i + 1) \in Int /\ Len(e) \in Int
        BY <1>1, <2>2
      <4>2. b = [e EXCEPT ![L + 1 + (i + 1)] = Len(e)]
        BY <2>3, <3>1 DEF Addressed
      <4> QED
        BY <2>2, <3>1, <4>1, <4>2, SetEntry
    <3>2. CASE ~ (i + 1 < N)
      BY <2>2, <2>3, <3>2 DEF Addressed
    <3> QED
      BY <3>1, <3>2
  <2>11. Len(a[i]) >= L + N /\ Len(b) >= L + N /\ Len(b) \in Nat
    BY <1>1, <2>2, <2>5, <2>6, <2>10
  <2>12. \A p \in 1 .. Len(a[i]) : ~ (i + 1 < N /\ p = L + 1 + (i + 1)) => b[p] = a[i][p]
    <3>1. \A p \in 1 .. Len(a[i]) : p \in 1 .. Len(e)
      BY <2>2, <2>5
    <3> QED
      BY <2>2, <2>10, <3>1
  <2>13. \A p \in 1 .. L + 1 : p \in 1 .. Len(a[i]) /\ p # L + 1 + (i + 1)
    BY <1>1, <2>5, <2>11
  <2>14. \A p \in 1 .. L + 1 : b[p] = a[i][p]
    BY <2>12, <2>13
  <2>15. (\A p \in 1 .. L : b[p] = dat[p]) /\ b[L + 1] = v
    <3>1. L + 1 \in 1 .. L + 1 /\ \A p \in 1 .. L : p \in 1 .. L + 1
      BY <1>1
    <3> QED
      BY <2>7, <2>14, <3>1
  <2>16. ASSUME NEW j \in 1 .. i + 1, j < N PROVE b[L + 1 + j] = Len(a[j])
    <3>1. CASE j = i + 1
      <4>1. L + 1 + (i + 1) \in 1 .. Len(e)
        BY <1>1, <2>10, <2>11, <2>16, <3>1
      <4>2. b[L + 1 + (i + 1)] = Len(e)
        BY <2>10, <2>16, <3>1, <4>1
      <4> QED
        BY <2>10, <3>1, <4>2 DEF b
    <3>2. CASE j # i + 1
      <4>1. j \in 1 .. i /\ L + 1 + j \in 1 .. Len(a[i]) /\ L + 1 + j # L + 1 + (i + 1)
        BY <1>1, <2>5, <2>11, <2>16, <3>2
      <4> QED
        BY <2>8, <2>12, <2>16, <4>1
    <3> QED
      BY <3>1, <3>2
  <2>17. ASSUME NEW j \in 0 .. i PROVE Agrees(b, E(j), Len(a[j]))
    <3>1. CASE j = i
      <4>1. \A p \in Len(a[i]) + 1 .. Len(e) : p \in 1 .. Len(e) /\ ~ (i + 1 < N /\ p = L + 1 + (i + 1))
        <5>1. i + 1 < N => L + 1 + (i + 1) <= Len(a[i])
          BY <1>1, <2>5, <2>11
        <5>2. L + 1 + (i + 1) \in Int
          BY <1>1, <2>5
        <5> QED
          BY <2>2, <2>5, <5>1, <5>2
      <4>2. \A p \in Len(a[i]) + 1 .. Len(e) : b[p] = e[p]
        BY <2>10, <4>1
      <4>3. Agrees(b, e, Len(a[i]))
        BY <2>2, <2>10, <4>2 DEF Agrees
      <4> QED
        BY <3>1, <4>3 DEF e
    <3>2. CASE j # i
      <4>1. j \in 0 .. i - 1 /\ j \in 0 .. N /\ j \in 0 .. N - 1
        BY <1>1, <2>5, <2>17, <3>2
      <4>2. Len(a[j]) \in Nat /\ Len(E(j)) \in Nat
        <5>1. a[j] \in Seq(Int)
          BY <1>2, <4>1
        <5>2. E(j) \in Seq(Int)
          BY <1>3, <4>1 DEF Extends
        <5> QED
          BY <5>1, <5>2, LenProperties
      <4>3. Len(a[j]) >= L + N
        BY <2>6, <2>17
      <4>4. Agrees(a[i], E(j), Len(a[j]))
        BY <2>9, <4>1
      <4>5. Len(E(j)) <= Len(a[i]) /\ \A p \in Len(a[j]) + 1 .. Len(E(j)) : a[i][p] = E(j)[p]
        BY <4>4 DEF Agrees
      <4>6. \A p \in Len(a[j]) + 1 .. Len(E(j)) :
               p \in 1 .. Len(a[i]) /\ ~ (i + 1 < N /\ p = L + 1 + (i + 1))
        BY <1>1, <2>5, <4>2, <4>3, <4>5
      <4>7. \A p \in Len(a[j]) + 1 .. Len(E(j)) : b[p] = E(j)[p]
        BY <2>12, <4>5, <4>6
      <4>8. Len(E(j)) <= Len(b)
        BY <2>2, <2>5, <2>10, <4>2, <4>5
      <4> QED
        BY <4>7, <4>8 DEF Agrees
    <3> QED
      BY <3>1, <3>2
  <2>18. \A j \in 0 .. i + 1 : Len(a[j]) >= L + N
    <3>1. \A j \in 0 .. i + 1 : j \in 0 .. i \/ j = i + 1
      BY <2>5
    <3> QED
      BY <2>6, <2>11, <3>1 DEF b
  <2>19. \A j \in 0 .. (i + 1) - 1 : Agrees(b, E(j), Len(a[j]))
    BY <2>1, <2>17
  <2> QED
    BY <2>1, <2>10, <2>15, <2>16, <2>18, <2>19 DEF b, Holds
<1>6. \A i \in 0 .. N : i \in S
  <2> HIDE DEF S
  <2> QED
    BY <1>1, <1>4, <1>5, Induction
<1>7. \A i \in 0 .. N : Holds(i) /\ i \in 0 .. i
  BY <1>6
<1> HIDE DEF E
<1>8. ASSUME NEW i \in 0 .. N PROVE Segmented(a, i, tree, emit, n, dat)
  <2>1. /\ a[i] \in Seq(Int) /\ Len(a[i]) >= L + N
        /\ \A p \in 1 .. L : a[i][p] = dat[p]
        /\ a[i][L + 1] = v
    BY <1>7
  <2>2. \A j \in 1 .. i : j < N => a[i][L + 1 + j] = Len(a[j])
    BY <1>7
  <2>3. \A j \in 0 .. i - 1 : Agrees(a[i], E(j), Len(a[j]))
    BY <1>7
  <2> HIDE DEF Holds
  <2> QED
    BY <2>1, <2>2, <2>3 DEF Segmented, N, L, E
<1> QED
  BY <1>8 DEF a, N
(* A run of the interpreter that never leaves the numbers.                 *)
Walks(code, c, h) ==
    /\ h \in [0 .. Len(code) -> Int] /\ h[0] = 0
    /\ \A k \in 1 .. Len(code) : Jump(code, c, h[k - 1]) \in Int => h[k] = Jump(code, c, h[k - 1])

(* From step k on it goes on, and ends at an instruction.                  *)
EndsAt(x, code, c, h, k) ==
    /\ Instr(code, h[Len(code)]) = x
    /\ \A j \in k + 1 .. Len(code) : Jump(code, c, h[j - 1]) \in Int

LEMMA EndStays ==
    ASSUME NEW code \in Seq(Int), NEW c, NEW h, Walks(code, c, h), NEW k \in 0 .. Len(code),
           Instr(code, h[k]) \in {kInterpretHit, kInterpretMiss}
    PROVE  EndsAt(Instr(code, h[k]), code, c, h, k)
<1> DEFINE N == Len(code)
           p == h[k]
           S == {d \in 0 .. N - k : h[k + d] = p}
<1>1. N \in Nat /\ k \in 0 .. N /\ p \in Int
  BY LenProperties DEF Walks
<1>2. Jump(code, c, p) = p
  BY DEF Jump
<1>3. \A j \in 1 .. N : Jump(code, c, h[j - 1]) \in Int => h[j] = Jump(code, c, h[j - 1])
  BY DEF Walks
<1> HIDE DEF N, p
<1>4. 0 \in S
  BY <1>1 DEF p
<1>5. ASSUME NEW d \in 0 .. (N - k) - 1, d \in S PROVE d + 1 \in S
  <2>1. k + (d + 1) \in 1 .. N /\ (k + (d + 1)) - 1 = k + d /\ d + 1 \in 0 .. N - k
    BY <1>1
  <2>2. h[k + (d + 1)] = p
    BY <1>1, <1>2, <1>3, <1>5, <2>1
  <2> QED
    BY <2>1, <2>2
<1>6. \A d \in 0 .. N - k : d \in S
  <2>1. N - k \in Nat
    BY <1>1
  <2> HIDE DEF S
  <2> QED
    BY <1>4, <1>5, <2>1, Induction
<1>7. h[N] = p
  <2>1. N - k \in 0 .. N - k /\ k + (N - k) = N
    BY <1>1
  <2> QED
    BY <1>6, <2>1
<1>8. \A j \in k + 1 .. N : Jump(code, c, h[j - 1]) \in Int
  <2> TAKE j \in k + 1 .. N
  <2>1. (j - 1) - k \in 0 .. N - k /\ k + ((j - 1) - k) = j - 1
    BY <1>1
  <2>2. h[j - 1] = p
    BY <1>6, <2>1
  <2> QED
    BY <1>1, <1>2, <2>2
<1> QED
  BY <1>7, <1>8 DEF EndsAt, N, p

(* The code of a node, wherever it stands, walks to the node's leaf.       *)
RunsTo(e, x, c, dat) ==
    \A code \in Seq(Int) : \A h :
        \A k \in 0 .. Len(dat) :
            Agrees(code, e, Len(dat)) /\ Walks(code, c, h) /\ h[k] = Len(dat)
                => EndsAt(x, code, c, h, k)

Coded(tree, n) ==
    \A dat \in Seq(Int) :
        /\ Extends(EmitFrom(tree)[n][dat], dat)
        /\ \A c \in Configs : RunsTo(EmitFrom(tree)[n][dat], tree[Down(tree, c)[n]], c, dat)

LEMMA LeafCoded ==
    ASSUME NEW tree, WellFormed(tree), NEW n \in DOMAIN tree, LeafIn(tree, n)
    PROVE  Coded(tree, n)
<1> SUFFICES ASSUME NEW dat \in Seq(Int)
             PROVE  /\ Extends(EmitFrom(tree)[n][dat], dat)
                    /\ \A c \in Configs : RunsTo(EmitFrom(tree)[n][dat], tree[Down(tree, c)[n]], c, dat)
  BY DEF Coded
<1> DEFINE e == Append(dat, tree[n])
<1>1. EmitFrom(tree)[n][dat] = e
  BY EmitFunction
<1>2. tree[n] \in Int /\ tree[n] \in {kInterpretHit, kInterpretMiss}
  BY DEF LeafIn, kInterpretHit, kInterpretMiss
<1>3. /\ e \in Seq(Int) /\ Len(e) = Len(dat) + 1 /\ e[Len(dat) + 1] = tree[n]
      /\ \A p \in 1 .. Len(dat) : e[p] = dat[p]
      /\ Len(dat) \in Nat
  BY <1>2, AppendProperties, LenProperties
<1> HIDE DEF e
<1>4. Extends(e, dat)
  BY <1>3 DEF Extends
<1>5. ASSUME NEW c \in Configs, NEW code \in Seq(Int), NEW h, NEW k \in 0 .. Len(dat),
             Agrees(code, e, Len(dat)), Walks(code, c, h), h[k] = Len(dat)
      PROVE  EndsAt(tree[Down(tree, c)[n]], code, c, h, k)
  <2>1. Down(tree, c)[n] = n
    BY DownFunction
  <2>2. Len(dat) + 1 \in Len(dat) + 1 .. Len(e) /\ Len(e) <= Len(code) /\ Len(code) \in Nat
    BY <1>3, <1>5, LenProperties DEF Agrees
  <2>3. code[Len(dat) + 1] = tree[n]
    BY <1>3, <1>5, <2>2 DEF Agrees
  <2>4. Len(dat) \in 0 .. Len(code) - 1 /\ k \in 0 .. Len(code)
    BY <1>3, <2>2
  <2>5. Instr(code, h[k]) = tree[n]
    BY <1>5, <2>3, <2>4 DEF Instr
  <2> QED
    BY <1>2, <1>5, <2>1, <2>4, <2>5, EndStays
<1> QED
  BY <1>1, <1>4, <1>5 DEF RunsTo

LEMMA InnerCoded ==
    ASSUME NEW tree, WellFormed(tree), NEW n \in DOMAIN tree, ~ LeafIn(tree, n),
           \A m \in Children(n, tree[n]) : Coded(tree, m)
    PROVE  Coded(tree, n)
<1> SUFFICES ASSUME NEW dat \in Seq(Int)
             PROVE  /\ Extends(EmitFrom(tree)[n][dat], dat)
                    /\ \A c \in Configs : RunsTo(EmitFrom(tree)[n][dat], tree[Down(tree, c)[n]], c, dat)
  BY DEF Coded
<1> DEFINE emit == EmitFrom(tree)
           v == tree[n]
           N == NValues[v]
           L == Len(dat)
           a == After(tree, emit, n, dat)
           m(i) == Child(n, v, i)
           e == a[N]
<1>1. N \in Nat \ {0} /\ L \in Nat /\ v \in Vars /\ v \in Int /\ v >= 0
  BY InnerNode, OptionsAssumption, LenProperties DEF Vars
<1>2. \A i \in 0 .. N - 1 : m(i) \in Children(n, v) /\ m(i) \in DOMAIN tree
  BY <1>1, InnerNode DEF Children, Values
<1>3. \A k \in Children(n, v) : emit[k] \in Emits /\ \A d \in Seq(Int) : Extends(emit[k][d], d)
  <2>1. \A k \in Children(n, v) : k \in DOMAIN tree
    BY InnerNode DEF Children
  <2> QED
    BY <2>1, EmitFunction DEF Coded
<1>4. emit[n][dat] = e
  <2>1. emit[n][dat] = AfterChildren(tree, emit, n, dat)
    BY EmitFunction
  <2>2. \A k \in Children(n, v) : emit[k] \in Emits
    BY <1>3
  <2> HIDE DEF emit
  <2> QED
    BY <2>1, <2>2, AfterAgree
<1>5. \A i \in 0 .. N : Segmented(a, i, tree, emit, n, dat)
  <2> HIDE DEF emit
  <2> QED
    BY <1>3, AfterSegments
<1>6. /\ a \in [0 .. N -> Seq(Int)] /\ Len(a[0]) = L + N
  <2>1. IsAfter(a, tree, emit, n, dat)
    <3> HIDE DEF emit
    <3> QED
      BY <1>3, AfterFunction
  <2>2. IsTable(Table(tree, n, dat), tree, n, dat)
    BY <1>1, TableRight
  <2> HIDE DEF a, emit
  <2> QED
    BY <2>1, <2>2 DEF IsAfter, IsTable
<1> HIDE DEF a, emit, N, L
<1>7. /\ e \in Seq(Int) /\ Len(e) >= L + N /\ Len(e) \in Nat
      /\ \A p \in 1 .. L : e[p] = dat[p]
      /\ e[L + 1] = v
      /\ \A j \in 1 .. N - 1 : e[L + 1 + j] = Len(a[j])
      /\ \A j \in 0 .. N - 1 : Agrees(e, emit[m(j)][a[j]], Len(a[j]))
  <2>1. Segmented(a, N, tree, emit, n, dat)
    BY <1>1, <1>5
  <2>2. \A j \in 1 .. N - 1 : j \in 1 .. N /\ j < N
    BY <1>1
  <2> QED
    BY <1>1, <2>1, <2>2, LenProperties DEF Segmented, N, L
<1>8. \A i \in 0 .. N : a[i] \in Seq(Int) /\ Len(a[i]) \in Nat /\ Len(a[i]) >= L + N
  BY <1>5, LenProperties DEF Segmented, N, L
<1> HIDE DEF e
<1>9. Extends(e, dat)
  BY <1>1, <1>7 DEF Extends, L
<1>10. ASSUME NEW c \in Configs, NEW code \in Seq(Int), NEW h, NEW k \in 0 .. L,
              Agrees(code, e, L), Walks(code, c, h), h[k] = L
       PROVE  EndsAt(tree[Down(tree, c)[n]], code, c, h, k)
  <2> DEFINE i == c[v]
             d == a[i]
  <2>1. i \in 0 .. N - 1 /\ i \in 0 .. N
    BY <1>1, ConfigValue DEF Values, N
  <2>2. Down(tree, c)[n] = Down(tree, c)[m(i)]
    BY DownFunction
  <2>3. Len(code) \in Nat /\ Len(e) <= Len(code) /\ \A p \in L + 1 .. Len(e) : code[p] = e[p]
    BY <1>10, LenProperties DEF Agrees
  <2> HIDE DEF i
  <2>4. Instr(code, L) = v
    <3>1. L + 1 \in L + 1 .. Len(e) /\ L \in 0 .. Len(code) - 1
      BY <1>1, <1>7, <2>3
    <3> QED
      BY <1>7, <2>3, <3>1 DEF Instr
  <2>5. Jump(code, c, L) = Len(d)
    <3>1. Jump(code, c, L) = IF i = 0 THEN L + N ELSE code[L + i + 1]
      <4>1. v \notin {kInterpretHit, kInterpretMiss, BadCode}
        BY <1>1 DEF kInterpretHit, kInterpretMiss, BadCode
      <4> QED
        BY <2>4, <4>1 DEF Jump, i, N
    <3>2. CASE i = 0
      BY <1>6, <3>1, <3>2
    <3>3. CASE i # 0
      <4>0. Len(e) \in Nat /\ Len(e) >= L + N
        BY <1>7
      <4>1. i \in 1 .. N - 1 /\ L + i + 1 = L + 1 + i /\ L + 1 + i \in L + 1 .. Len(e)
        BY <1>1, <2>1, <3>3, <4>0
      <4>2. code[L + i + 1] = e[L + 1 + i]
        BY <2>3, <4>1
      <4> QED
        BY <1>7, <3>1, <3>3, <4>1, <4>2
    <3> QED
      BY <3>2, <3>3
  <2>6. k + 1 \in 1 .. Len(code) /\ k + 1 \in 0 .. Len(d) /\ (k + 1) - 1 = k
    <3>1. Len(e) \in Nat /\ Len(e) >= L + N /\ Len(d) \in Nat /\ Len(d) >= L + N
      BY <1>7, <1>8, <2>1
    <3>2. Len(code) \in Nat /\ Len(e) <= Len(code)
      BY <2>3
    <3>3. k \in Nat /\ k <= L
      BY <1>1
    <3> HIDE DEF d
    <3> QED
      BY <1>1, <3>1, <3>2, <3>3
  <2>7. d \in Seq(Int) /\ Len(d) \in Nat /\ Len(d) >= L + N
    BY <1>8, <2>1
  <2>8. h[k + 1] = Len(d)
    <3>1. Len(d) \in Int
      BY <2>7
    <3> QED
      BY <1>10, <2>5, <2>6, <3>1 DEF Walks
  <2> DEFINE f == emit[m(i)][d]
  <2>9. Extends(f, d) /\ RunsTo(f, tree[Down(tree, c)[m(i)]], c, d)
    BY <1>2, <2>1, <2>7 DEF Coded, emit
  <2>10. Agrees(e, f, Len(d))
    BY <1>7, <2>1
  <2> HIDE DEF d, f
  <2>11. Agrees(code, f, Len(d))
    <3>1. Len(f) \in Nat /\ Len(f) <= Len(e) /\ \A p \in Len(d) + 1 .. Len(f) : e[p] = f[p]
      BY <2>9, <2>10, LenProperties DEF Agrees, Extends
    <3>2. \A p \in Len(d) + 1 .. Len(f) : p \in L + 1 .. Len(e)
      BY <1>1, <1>7, <2>7, <3>1
    <3>3. Len(f) <= Len(code)
      BY <1>7, <2>3, <3>1
    <3> QED
      BY <2>3, <3>1, <3>2, <3>3 DEF Agrees
  <2>12. EndsAt(tree[Down(tree, c)[m(i)]], code, c, h, k + 1)
    BY <1>10, <2>6, <2>8, <2>9, <2>11 DEF RunsTo
  <2>13. \A j \in k + 1 .. Len(code) : Jump(code, c, h[j - 1]) \in Int
    <3> TAKE j \in k + 1 .. Len(code)
    <3>1. CASE j = k + 1
      BY <1>10, <2>5, <2>6, <2>7, <3>1
    <3>2. CASE j # k + 1
      <4>1. j \in (k + 1) + 1 .. Len(code)
        BY <1>1, <2>3, <3>2
      <4> QED
        BY <2>12, <4>1 DEF EndsAt
    <3> QED
      BY <3>1, <3>2
  <2> QED
    BY <2>2, <2>12, <2>13 DEF EndsAt
<1>11. \A c \in Configs : RunsTo(e, tree[Down(tree, c)[n]], c, dat)
  BY <1>10 DEF RunsTo, L
<1> QED
  BY <1>4, <1>9, <1>11 DEF emit

LEMMA AllCoded ==
    ASSUME NEW tree, WellFormed(tree)
    PROVE  \A n \in DOMAIN tree : Coded(tree, n)
<1> DEFINE S == {n \in DOMAIN tree : Coded(tree, n)}
<1>1. ASSUME NEW n \in DOMAIN tree, ~ LeafIn(tree, n) => Children(n, tree[n]) \subseteq S
      PROVE  Coded(tree, n)
  <2>1. CASE LeafIn(tree, n)
    BY <2>1, LeafCoded
  <2>2. CASE ~ LeafIn(tree, n)
    <3>1. \A m \in Children(n, tree[n]) : Coded(tree, m)
      BY <1>1, <2>2
    <3> QED
      BY <2>2, <3>1, InnerCoded
  <2> QED
    BY <2>1, <2>2
<1>2. \A n \in DOMAIN tree : (~ LeafIn(tree, n) => Children(n, tree[n]) \subseteq S) => n \in S
  BY <1>1
<1>3. \A n \in DOMAIN tree : n \in S
  <2> HIDE DEF S
  <2> QED
    BY <1>2, NodeInduction
<1> QED
  BY <1>3

(* CTree::interpret on the code of build_interpreter ends with the value of*)
(* the leaf that test_config finds, for every tree and configuration; no   *)
(* address of the code is wrong, and no CHECK of the interpreter fails.    *)
THEOREM InterpretRight ==
    ASSUME NEW tree, WellFormed(tree), NEW c \in Configs
    PROVE  Interpret(Code(tree), c) = tree[LeafOf(tree, c)]
<1> DEFINE code == Code(tree)
           N == Len(code)
           x == tree[LeafOf(tree, c)]
<1>1. Root \in DOMAIN tree /\ << >> \in Seq(Int) /\ Len(<< >>) = 0
  BY DEF WellFormed
<1>2. code = EmitFrom(tree)[Root][<< >>]
  BY DEF Code, EmitFrom
<1>3. x = tree[Down(tree, c)[Root]]
  BY DEF LeafOf, Down
<1> HIDE DEF code, x
<1>4. Extends(code, << >>) /\ RunsTo(code, x, c, << >>)
  BY <1>1, <1>2, <1>3, AllCoded DEF Coded
<1>5. code \in Seq(Int) /\ N \in Nat
  BY <1>4, LenProperties DEF Extends
<1>6. Agrees(code, code, 0)
  BY <1>5 DEF Agrees
<1> HIDE DEF N
<1>7. \A h : Walks(code, c, h) => EndsAt(x, code, c, h, 0)
  <2> TAKE h
  <2> HAVE Walks(code, c, h)
  <2>1. h[0] = 0 /\ 0 \in 0 .. 0
    BY DEF Walks
  <2> QED
    BY <1>1, <1>4, <1>5, <1>6, <2>1 DEF RunsTo
<1> DEFINE J(p) == Jump(code, c, p)
           step == [q \in Int \X (1 .. N) |-> IF J(q[1]) \in Int THEN J(q[1]) ELSE 0]
<1> HIDE DEF J
<1>8. step \in [Int \X (1 .. N) -> Int] /\ 0 \in Int
  OBVIOUS
<1>9. \A p \in Int, k \in 1 .. N : step[<<p, k>>] = IF J(p) \in Int THEN J(p) ELSE 0
  OBVIOUS
<1> HIDE DEF step
<1>10. PICK h : IsLoop(h, N, Int, 0, step)
  BY <1>5, <1>8, LoopExists
<1>11. /\ h \in [0 .. N -> Int] /\ h[0] = 0
       /\ \A k \in 1 .. N : h[k] = IF J(h[k - 1]) \in Int THEN J(h[k - 1]) ELSE 0
  <2>1. h \in [0 .. N -> Int] /\ h[0] = 0 /\ \A k \in 1 .. N : h[k] = step[<<h[k - 1], k>>]
    BY <1>10 DEF IsLoop
  <2>2. \A k \in 1 .. N : h[k - 1] \in Int
    BY <1>5, <2>1
  <2> QED
    BY <1>9, <2>1, <2>2
<1>12. Walks(code, c, h)
  BY <1>11 DEF Walks, J, N
<1>13. EndsAt(x, code, c, h, 0)
  BY <1>7, <1>12
<1>14. \A k \in 1 .. N : h[k] = J(h[k - 1])
  <2>1. \A k \in 1 .. N : k \in 0 + 1 .. N
    BY <1>5
  <2> QED
    BY <1>11, <1>13, <2>1 DEF EndsAt, J, N
<1> DEFINE Is(f) == f = [k \in 0 .. N |-> IF k = 0 THEN 0 ELSE J(f[k - 1])]
           it == CHOOSE f : Is(f)
<1>15. Is(h)
  <2>1. \A k \in 0 .. N : h[k] = IF k = 0 THEN 0 ELSE J(h[k - 1])
    <3>1. \A k \in 0 .. N : k = 0 \/ k \in 1 .. N
      BY <1>5
    <3> QED
      BY <1>11, <1>14, <3>1
  <2> QED
    BY <1>11, <2>1
<1>16. Interpret(code, c) = Instr(code, it[N])
  BY DEF Interpret, Is, it, J, N
<1>17. Is(it)
  <2> HIDE DEF Is
  <2> QED
    BY <1>15
<1> HIDE DEF it
<1>18. it[0] = 0 /\ \A k \in 1 .. N : it[k] = J(it[k - 1])
  <2>1. \A k \in 0 .. N : it[k] = IF k = 0 THEN 0 ELSE J(it[k - 1])
    BY <1>17
  <2>2. 0 \in 0 .. N /\ \A k \in 1 .. N : k \in 0 .. N /\ k # 0
    BY <1>5
  <2> HIDE DEF Is
  <2> QED
    BY <2>1, <2>2
<1> HIDE DEF Is
<1> DEFINE S == {k \in 0 .. N : it[k] = h[k]}
<1>19. \A k \in 0 .. N : k \in S
  <2>1. 0 \in S
    BY <1>5, <1>11, <1>18
  <2>2. ASSUME NEW k \in 0 .. N - 1, k \in S PROVE k + 1 \in S
    <3>1. k + 1 \in 1 .. N /\ k + 1 \in 0 .. N /\ (k + 1) - 1 = k
      BY <1>5
    <3>2. it[k + 1] = h[k + 1]
      BY <1>14, <1>18, <2>2, <3>1
    <3> QED
      BY <3>1, <3>2
  <2> HIDE DEF S
  <2> QED
    BY <1>5, <2>1, <2>2, Induction
<1>20. it[N] = h[N]
  BY <1>5, <1>19
<1> QED
  BY <1>13, <1>16, <1>20 DEF EndsAt, N, code, x

------------------------------------------------------------------------------
(* The text.                                                               *)

(* The loop of serialize over the children.                                *)
Upto(tree, text, n) ==
    LET v == tree[n]
        upto[i \in 0 .. NValues[v]] ==
            IF i = 0 THEN <<v>> ELSE upto[i - 1] \o text[Child(n, v, i - 1)]
    IN  upto

IsUpto(a, tree, text, n) ==
    /\ a \in [0 .. NValues[tree[n]] -> Seq(Int)]
    /\ a[0] = <<tree[n]>>
    /\ \A i \in 1 .. NValues[tree[n]] : a[i] = a[i - 1] \o text[Child(n, tree[n], i - 1)]

LEMMA UptoFunction ==
    ASSUME NEW tree, WellFormed(tree), NEW n \in DOMAIN tree, ~ LeafIn(tree, n),
           NEW text, \A m \in Children(n, tree[n]) : text[m] \in Seq(Int)
    PROVE  IsUpto(Upto(tree, text, n), tree, text, n)
<1> DEFINE v == tree[n]
           N == NValues[v]
           S == Seq(Int)
           put(x, i) == x \o text[Child(n, v, i - 1)]
           step == [q \in S \X (1 .. N) |-> put(q[1], q[2])]
           first == <<v>>
<1>1. v \in Vars /\ N \in Nat \ {0} /\ first \in S
  <2>1. v \in Vars /\ v \in Int
    BY InnerNode DEF Vars
  <2> QED
    BY <2>1, OptionsAssumption
<1>2. \A i \in 1 .. N, x \in S : put(x, i) \in S
  <2> TAKE i \in 1 .. N, x \in S
  <2>1. i - 1 \in Values(v)
    BY <1>1 DEF Values
  <2>2. text[Child(n, v, i - 1)] \in S
    BY <2>1 DEF Children
  <2> QED
    BY <2>2
<1> HIDE DEF put, N, S, first
<1>4. step \in [S \X (1 .. N) -> S]
  BY <1>2
<1>5. \A x \in S, i \in 1 .. N : step[<<x, i>>] = put(x, i)
  OBVIOUS
<1> HIDE DEF step
<1>6. PICK f : IsLoop(f, N, S, first, step)
  BY <1>1, <1>4, LoopExists
<1>7. /\ f \in [0 .. N -> S] /\ f[0] = first
      /\ \A i \in 1 .. N : f[i] = put(f[i - 1], i)
  <2>1. f \in [0 .. N -> S] /\ f[0] = first /\ \A i \in 1 .. N : f[i] = step[<<f[i - 1], i>>]
    BY <1>6 DEF IsLoop
  <2>2. \A i \in 1 .. N : i - 1 \in 0 .. N
    BY <1>1
  <2>3. \A i \in 1 .. N : f[i - 1] \in S
    BY <2>1, <2>2
  <2> QED
    BY <1>5, <2>1, <2>3
<1> DEFINE body(g, i) == IF i = 0 THEN first ELSE put(g[i - 1], i)
           Is(g) == g = [i \in 0 .. N |-> body(g, i)]
<1>8. Is(f)
  <2>1. \A i \in 0 .. N : i # 0 => i \in 1 .. N
    BY <1>1
  <2>2. \A i \in 0 .. N : f[i] = body(f, i)
    BY <1>7, <2>1
  <2> HIDE DEF body
  <2> QED
    BY <1>7, <2>2
<1>9. Upto(tree, text, n) = CHOOSE g : Is(g)
  BY DEF Upto, N, put, first
<1> HIDE DEF Is
<1> DEFINE a == Upto(tree, text, n)
<1>10. Is(a)
  BY <1>8, <1>9
<1> HIDE DEF a
<1>11. a = [i \in 0 .. N |-> body(a, i)]
  BY <1>10 DEF Is
<1>12. \A i \in 0 .. N : a[i] = IF i = 0 THEN first ELSE put(a[i - 1], i)
  BY <1>11
<1>13. a[0] = first /\ \A i \in 1 .. N : a[i] = put(a[i - 1], i)
  BY <1>1, <1>12
<1> DEFINE Good == {i \in 0 .. N : a[i] \in S}
<1>14. \A i \in 0 .. N : i \in Good
  <2>1. 0 \in Good
    BY <1>1, <1>13
  <2>2. ASSUME NEW i \in 0 .. N - 1, i \in Good PROVE i + 1 \in Good
    <3>1. i + 1 \in 1 .. N /\ (i + 1) - 1 = i /\ i + 1 \in 0 .. N
      BY <1>1
    <3>2. a[i + 1] = put(a[i], i + 1)
      BY <1>13, <3>1
    <3>3. a[i + 1] \in S
      BY <1>2, <2>2, <3>1, <3>2
    <3> QED
      BY <3>1, <3>3
  <2> HIDE DEF Good
  <2> QED
    BY <1>1, <2>1, <2>2, Induction
<1>15. a \in [0 .. N -> S]
  <2> HIDE DEF body
  <2> QED
    BY <1>11, <1>14
<1> QED
  BY <1>13, <1>15 DEF a, first, put, N, S, IsUpto

LEMMA UptoAgree ==
    ASSUME NEW tree, WellFormed(tree), NEW n \in DOMAIN tree, ~ LeafIn(tree, n),
           NEW f, NEW g, \A m \in Children(n, tree[n]) : f[m] \in Seq(Int) /\ f[m] = g[m]
    PROVE  /\ SerializeChildren(tree, f, n) = SerializeChildren(tree, g, n)
           /\ SerializeChildren(tree, f, n) = Upto(tree, f, n)[NValues[tree[n]]]
           /\ SerializeChildren(tree, f, n) \in Seq(Int)
<1> DEFINE v == tree[n]
           N == NValues[v]
           F == Upto(tree, f, n)
           G == Upto(tree, g, n)
           Same == {i \in 0 .. N : F[i] = G[i]}
<1>1. N \in Nat \ {0}
  BY InnerNode, OptionsAssumption
<1>2. /\ F \in [0 .. N -> Seq(Int)] /\ F[0] = G[0]
      /\ \A i \in 1 .. N : /\ F[i] = F[i - 1] \o f[Child(n, v, i - 1)]
                           /\ G[i] = G[i - 1] \o g[Child(n, v, i - 1)]
  <2>1. \A m \in Children(n, v) : f[m] \in Seq(Int)
    OBVIOUS
  <2>2. \A m \in Children(n, v) : g[m] \in Seq(Int)
    OBVIOUS
  <2>3. IsUpto(F, tree, f, n)
    BY <2>1, UptoFunction
  <2>4. IsUpto(G, tree, g, n)
    BY <2>2, UptoFunction
  <2> HIDE DEF F, G
  <2> QED
    BY <2>3, <2>4 DEF IsUpto
<1>3. \A i \in 1 .. N : f[Child(n, v, i - 1)] = g[Child(n, v, i - 1)]
  BY <1>1 DEF Children, Values
<1> HIDE DEF F, G, N
<1>4. 0 \in Same
  BY <1>1, <1>2
<1>5. ASSUME NEW i \in 0 .. N - 1, i \in Same PROVE i + 1 \in Same
  <2>1. i + 1 \in 1 .. N /\ i + 1 \in 0 .. N /\ (i + 1) - 1 = i
    BY <1>1
  <2>2. F[i + 1] = F[i] \o f[Child(n, v, i)] /\ G[i + 1] = G[i] \o g[Child(n, v, i)]
    BY <1>2, <2>1
  <2>3. f[Child(n, v, i)] = g[Child(n, v, i)]
    BY <1>3, <2>1
  <2> QED
    BY <1>5, <2>1, <2>2, <2>3
<1>6. \A i \in 0 .. N : i \in Same
  <2> HIDE DEF Same
  <2> QED
    BY <1>1, <1>4, <1>5, Induction
<1>7. F[N] = G[N] /\ F[N] \in Seq(Int)
  BY <1>1, <1>2, <1>6
<1>8. SerializeChildren(tree, f, n) = F[N] /\ SerializeChildren(tree, g, n) = G[N]
  BY DEF SerializeChildren, Upto, F, G, N
<1> QED
  BY <1>7, <1>8 DEF F, N

TextFrom(tree) ==
    LET text[n \in DOMAIN tree] ==
            IF LeafIn(tree, n) THEN <<tree[n]>> ELSE SerializeChildren(tree, text, n)
    IN  text

LEMMA TextFunction ==
    ASSUME NEW tree, WellFormed(tree)
    PROVE  /\ TextFrom(tree) \in [DOMAIN tree -> Seq(Int)]
           /\ \A n \in DOMAIN tree :
                 TextFrom(tree)[n] = IF LeafIn(tree, n) THEN <<tree[n]>>
                                     ELSE SerializeChildren(tree, TextFrom(tree), n)
<1> DEFINE D == DOMAIN tree
           X == Seq(Int)
           leaf(n) == <<tree[n]>>
           inner(n, f) == SerializeChildren(tree, f, n)
           body(n, f) == IF LeafIn(tree, n) THEN leaf(n) ELSE inner(n, f)
           step == [q \in D \X [D -> X] |-> body(q[1], q[2])]
<1>1. ASSUME NEW n \in D, NEW f, ~ LeafIn(tree, n) => \A m \in Children(n, tree[n]) : f[m] \in X
      PROVE  body(n, f) \in X
  <2>1. CASE LeafIn(tree, n)
    <3>1. tree[n] \in Int
      BY <2>1 DEF LeafIn, kInterpretHit, kInterpretMiss
    <3> QED
      BY <2>1, <3>1
  <2>2. CASE ~ LeafIn(tree, n)
    BY <1>1, <2>2, UptoAgree
  <2> QED
    BY <2>1, <2>2
<1>2. ASSUME NEW n \in D, NEW f, NEW g,
             ~ LeafIn(tree, n) => \A m \in Children(n, tree[n]) : f[m] \in X /\ f[m] = g[m]
      PROVE  body(n, f) = body(n, g)
  BY <1>2, UptoAgree
<1>5. \A n \in D : ~ LeafIn(tree, n) => \A m \in Children(n, tree[n]) : m \in D
  BY DEF WellFormed, LeavesOf
<1>a. << >> \in X
  OBVIOUS
<1> HIDE DEF body, X
<1>6. \A n \in D, f \in [D -> X] : body(n, f) \in X
  BY <1>1, <1>5
<1>7. step \in [D \X [D -> X] -> X]
  BY <1>6
<1>8. \A n \in D, f \in [D -> X] : step[<<n, f>>] = body(n, f)
  OBVIOUS
<1> HIDE DEF step
<1>9. \A n \in D : \A f, g \in [D -> X] :
         (~ LeafIn(tree, n) => \A m \in Children(n, tree[n]) : f[m] = g[m])
             => step[<<n, f>>] = step[<<n, g>>]
  BY <1>2, <1>5, <1>8
<1>10. PICK f : IsRecursive(f, D, X, step)
  BY <1>7, <1>9, <1>a, NodeRecursion
<1> DEFINE Is(g) == g = [n \in D |-> body(n, g)]
<1>11. Is(f)
  <2>1. f \in [D -> X] /\ \A n \in D : f[n] = body(n, f)
    BY <1>8, <1>10 DEF IsRecursive
  <2> QED
    BY <2>1
<1>12. TextFrom(tree) = CHOOSE g : Is(g)
  BY DEF TextFrom, body, leaf, inner
<1> HIDE DEF Is
<1> DEFINE text == TextFrom(tree)
<1>13. Is(text)
  BY <1>11, <1>12
<1> HIDE DEF text
<1>14. text = [n \in D |-> body(n, text)]
  BY <1>13 DEF Is
<1>15. \A n \in D : text[n] = body(n, text)
  BY <1>14
<1> DEFINE Typed == {n \in D : text[n] \in X}
<1>16. \A n \in D : (~ LeafIn(tree, n) => Children(n, tree[n]) \subseteq Typed) => n \in Typed
  BY <1>1, <1>15
<1>17. \A n \in D : n \in Typed
  <2> HIDE DEF Typed
  <2> QED
    BY <1>16, NodeInduction
<1>18. text \in [D -> X]
  BY <1>14, <1>17
<1> QED
  BY <1>15, <1>18 DEF body, leaf, inner, text, X

(* The states of deserialize, and what it makes of a node's text.          *)
ReadStates == [nodes : UNION {[D -> Int] : D \in SUBSET Templates}, todo : Seq(Templates)]

With(f, tree, A) == [m \in DOMAIN f \cup A |-> IF m \in A THEN tree[m] ELSE f[m]]
SubTree(tree, n) == {m \in DOMAIN tree : Below(m, n)}
Kids(n, v, i) == [p \in 1 .. NValues[v] - i |-> Child(n, v, i + p - 1)]

LEMMA TreeInts ==
    ASSUME NEW tree, WellFormed(tree), NEW n \in DOMAIN tree
    PROVE  tree[n] \in Int /\ n \in Templates
<1>1. n \in Templates
  BY DEF WellFormed
<1>2. CASE LeafIn(tree, n)
  BY <1>1, <1>2 DEF LeafIn, kInterpretHit, kInterpretMiss
<1>3. CASE ~ LeafIn(tree, n)
  BY <1>1, <1>3, InnerNode DEF Vars
<1> QED
  BY <1>2, <1>3

KidsToDo(n, v, i, rest) ==
    /\ Kids(n, v, i) \in Seq(Templates) /\ Kids(n, v, i) \o rest \in Seq(Templates)
    /\ i = NValues[v] => Kids(n, v, i) \o rest = rest
    /\ i < NValues[v] => /\ Kids(n, v, i) \o rest # << >>
                         /\ Head(Kids(n, v, i) \o rest) = Child(n, v, i)
                         /\ Tail(Kids(n, v, i) \o rest) = Kids(n, v, i + 1) \o rest

LEMMA KidsStep ==
    ASSUME NEW n \in Templates, NEW v \in Vars, NEW rest \in Seq(Templates),
           NEW i \in 0 .. NValues[v]
    PROVE  KidsToDo(n, v, i, rest)
<1> DEFINE N == NValues[v]
           s(j) == Kids(n, v, j)
<1>1. N \in Nat \ {0} /\ i \in Int /\ Len(rest) \in Nat
  BY OptionsAssumption
<1>2. \A j \in 0 .. N - 1 : Child(n, v, j) \in Templates
  BY ChildIsTemplate DEF Values
<1>3. ASSUME NEW j \in 0 .. N
      PROVE  /\ s(j) \in Seq(Templates) /\ Len(s(j)) = N - j
             /\ \A p \in 1 .. N - j : s(j)[p] = Child(n, v, j + p - 1)
  <2>1. \A p \in 1 .. N - j : Child(n, v, j + p - 1) \in Templates
    <3> TAKE p \in 1 .. N - j
    <3>1. j + p - 1 \in 0 .. N - 1
      BY <1>1
    <3> QED
      BY <1>2, <3>1
  <2>2. N - j \in Nat
    BY <1>1
  <2> HIDE DEF N
  <2> QED
    BY <2>1, <2>2 DEF Kids, N
<1> HIDE DEF s, N
<1>4. ASSUME NEW j \in 0 .. N
      PROVE  /\ s(j) \o rest \in Seq(Templates) /\ Len(s(j) \o rest) = N - j + Len(rest)
             /\ \A p \in 1 .. N - j + Len(rest) :
                   (s(j) \o rest)[p] = IF p <= N - j THEN Child(n, v, j + p - 1) ELSE rest[p - (N - j)]
  <2>1. s(j) \in Seq(Templates) /\ Len(s(j)) = N - j
    BY <1>3
  <2>2. /\ s(j) \o rest \in Seq(Templates) /\ Len(s(j) \o rest) = Len(s(j)) + Len(rest)
        /\ \A p \in 1 .. Len(s(j)) + Len(rest) :
              (s(j) \o rest)[p] = IF p <= Len(s(j)) THEN s(j)[p] ELSE rest[p - Len(s(j))]
    BY <2>1, ConcatProperties
  <2>3. \A p \in 1 .. N - j + Len(rest) : p <= N - j => p \in 1 .. N - j
    BY <1>1
  <2> QED
    BY <1>1, <1>3, <2>1, <2>2, <2>3
<1>5. ASSUME i = N PROVE s(i) \o rest = rest
  <2>1. /\ Len(s(i) \o rest) = Len(rest)
        /\ \A p \in 1 .. Len(rest) : (s(i) \o rest)[p] = rest[p]
    <3>1. i \in 0 .. N /\ N - i = 0 /\ 0 + Len(rest) = Len(rest)
      BY <1>1, <1>5
    <3>2. /\ Len(s(i) \o rest) = Len(rest)
          /\ \A p \in 1 .. Len(rest) :
                (s(i) \o rest)[p] = IF p <= 0 THEN Child(n, v, i + p - 1) ELSE rest[p - 0]
      BY <1>4, <3>1
    <3>3. \A p \in 1 .. Len(rest) : ~ (p <= 0) /\ p - 0 = p
      BY <1>1
    <3> QED
      BY <3>2, <3>3
  <2> QED
    BY <1>4, <2>1, SeqEqual DEF N
<1>6. ASSUME i < N
      PROVE  /\ s(i) \o rest # << >> /\ Head(s(i) \o rest) = Child(n, v, i)
             /\ Tail(s(i) \o rest) = s(i + 1) \o rest
  <2> DEFINE t == s(i) \o rest
             u == s(i + 1) \o rest
  <2>1. i \in 0 .. N /\ i + 1 \in 0 .. N
    BY <1>1, <1>6 DEF N
  <2>2. /\ t \in Seq(Templates) /\ Len(t) = N - i + Len(rest)
        /\ \A p \in 1 .. N - i + Len(rest) :
              t[p] = IF p <= N - i THEN Child(n, v, i + p - 1) ELSE rest[p - (N - i)]
    BY <1>4, <2>1
  <2>3. /\ u \in Seq(Templates) /\ Len(u) = N - (i + 1) + Len(rest)
        /\ \A p \in 1 .. N - (i + 1) + Len(rest) :
              u[p] = IF p <= N - (i + 1) THEN Child(n, v, (i + 1) + p - 1) ELSE rest[p - (N - (i + 1))]
    BY <1>4, <2>1
  <2> HIDE DEF t, u
  <2>4. t # << >> /\ Len(t) \in Nat /\ Len(t) >= 1
    BY <1>1, <1>6, <2>2
  <2>5. t[1] = Child(n, v, i)
    <3>1. 1 \in 1 .. N - i + Len(rest) /\ 1 <= N - i /\ i + 1 - 1 = i
      BY <1>1, <1>6
    <3> QED
      BY <2>2, <3>1
  <2>6. Head(t) = Child(n, v, i)
    BY <2>2, <2>4, <2>5
  <2>7. /\ Tail(t) \in Seq(Templates) /\ Len(Tail(t)) = Len(t) - 1
        /\ \A p \in 1 .. Len(Tail(t)) : Tail(t)[p] = t[p + 1]
    BY <2>2, <2>4, HeadTailProperties
  <2>8. Len(Tail(t)) = Len(u)
    BY <1>1, <2>2, <2>3, <2>7
  <2>9. \A p \in 1 .. Len(Tail(t)) : Tail(t)[p] = u[p]
    <3> TAKE p \in 1 .. Len(Tail(t))
    <3>1. p \in Int /\ p + 1 \in 1 .. N - i + Len(rest) /\ p \in 1 .. N - (i + 1) + Len(rest)
      BY <1>1, <2>2, <2>3, <2>7, <2>8
    <3>2. Tail(t)[p] = IF p + 1 <= N - i THEN Child(n, v, i + (p + 1) - 1) ELSE rest[(p + 1) - (N - i)]
      BY <2>2, <2>7, <3>1
    <3>3. u[p] = IF p <= N - (i + 1) THEN Child(n, v, (i + 1) + p - 1) ELSE rest[p - (N - (i + 1))]
      BY <2>3, <3>1
    <3>4. /\ p + 1 <= N - i <=> p <= N - (i + 1)
          /\ i + (p + 1) - 1 = (i + 1) + p - 1 /\ (p + 1) - (N - i) = p - (N - (i + 1))
      BY <1>1, <3>1
    <3> QED
      BY <3>2, <3>3, <3>4
  <2>10. Tail(t) = u
    BY <2>3, <2>7, <2>8, <2>9, SeqEqual
  <2> QED
    BY <2>4, <2>6, <2>10 DEF t, u
<1>7. s(i) \in Seq(Templates) /\ s(i) \o rest \in Seq(Templates)
  BY <1>3, <1>4 DEF N
<1> QED
  BY <1>5, <1>6, <1>7 DEF s, N, KidsToDo

LEMMA WithType ==
    ASSUME NEW tree, WellFormed(tree), NEW st \in ReadStates, NEW A \in SUBSET DOMAIN tree,
           NEW rest \in Seq(Templates)
    PROVE  [nodes |-> With(st.nodes, tree, A), todo |-> rest] \in ReadStates
<1>1. PICK D \in SUBSET Templates : st.nodes \in [D -> Int]
  BY DEF ReadStates
<1>2. D \cup A \in SUBSET Templates
  BY DEF WellFormed
<1>3. With(st.nodes, tree, A) \in [D \cup A -> Int]
  BY <1>1, TreeInts DEF With
<1> QED
  BY <1>2, <1>3 DEF ReadStates

(* Mapping in two sets of nodes, one after the other.                      *)
LEMMA WithBoth ==
    ASSUME NEW f, NEW tree, NEW A, NEW B
    PROVE  With(With(f, tree, A), tree, B) = With(f, tree, A \cup B)
BY DEF With

LEMMA ReadNodeRight ==
    ASSUME NEW tree, WellFormed(tree), NEW n \in DOMAIN tree, NEW st \in ReadStates,
           st.todo # << >>, Head(st.todo) = n
    PROVE  LET next == ReadNode(st, tree[n])
               rest == Tail(st.todo)
           IN  /\ next \in ReadStates /\ rest \in Seq(Templates)
               /\ next = [nodes |-> With(st.nodes, tree, {n}),
                          todo |-> IF LeafIn(tree, n) THEN rest ELSE Kids(n, tree[n], 0) \o rest]
<1> DEFINE rest == Tail(st.todo)
           v == tree[n]
           nodes == With(st.nodes, tree, {n})
<1>1. st.todo \in Seq(Templates) /\ rest \in Seq(Templates)
  BY DEF ReadStates
<1>2. [k \in DOMAIN st.nodes \cup {n} |-> IF k = n THEN v ELSE st.nodes[k]] = nodes
  BY DEF With
<1>3. ReadNode(st, v).nodes = nodes
  BY <1>2 DEF ReadNode
<1>4. CASE LeafIn(tree, n)
  <2>1. ReadNode(st, v) = [nodes |-> nodes, todo |-> rest]
    BY <1>2, <1>4 DEF ReadNode, LeafIn
  <2> QED
    BY <1>1, <1>4, <2>1, WithType
<1>5. CASE ~ LeafIn(tree, n)
  <2>1. v \in Vars /\ n \in Templates /\ NValues[v] \in Nat
    BY <1>5, InnerNode, OptionsAssumption
  <2>2. [i \in 1 .. NValues[v] |-> Child(n, v, i - 1)] = Kids(n, v, 0)
    <3>1. NValues[v] - 0 = NValues[v] /\ \A i \in 1 .. NValues[v] : 0 + i - 1 = i - 1
      BY <2>1
    <3> QED
      BY <3>1 DEF Kids
  <2>3. Kids(n, v, 0) \o rest \in Seq(Templates)
    <3>1. 0 \in 0 .. NValues[v]
      BY <2>1
    <3> QED
      BY <1>1, <2>1, <3>1, KidsStep DEF KidsToDo
  <2>4. ReadNode(st, v) = [nodes |-> nodes, todo |-> Kids(n, v, 0) \o rest]
    <3>1. v \notin {kInterpretHit, kInterpretMiss}
      BY <1>5 DEF LeafIn
    <3> QED
      BY <1>2, <2>2, <3>1 DEF ReadNode
  <2> QED
    BY <1>1, <1>5, <2>3, <2>4, WithType
<1> QED
  BY <1>4, <1>5

(* Every child's text is where the text of the node has it.                *)
Segments(u, tree, text, n) ==
    LET N == NValues[tree[n]]
        t(i) == text[Child(n, tree[n], i)]
    IN  /\ Len(u[0]) = 1 /\ u[N][1] = tree[n] /\ u[N] \in Seq(Int)
        /\ \A i \in 0 .. N : Len(u[i]) \in Nat /\ 1 <= Len(u[i]) /\ Len(u[i]) <= Len(u[N])
        /\ \A i \in 0 .. N - 1 :
              /\ Len(u[i + 1]) = Len(u[i]) + Len(t(i))
              /\ \A p \in 1 .. Len(t(i)) : u[N][Len(u[i]) + p] = t(i)[p]

LEMMA UptoSegments ==
    ASSUME NEW tree, WellFormed(tree), NEW n \in DOMAIN tree, ~ LeafIn(tree, n),
           NEW text, \A m \in Children(n, tree[n]) : text[m] \in Seq(Int)
    PROVE  Segments(Upto(tree, text, n), tree, text, n)
<1> DEFINE v == tree[n]
           N == NValues[v]
           u == Upto(tree, text, n)
           t(i) == text[Child(n, v, i)]
           Prefix(j, i) == Len(u[j]) <= Len(u[i]) /\ \A p \in 1 .. Len(u[j]) : u[i][p] = u[j][p]
           S == {i \in 0 .. N : \A j \in 0 .. i : Prefix(j, i)}
<1>1. N \in Nat \ {0} /\ v \in Int
  BY InnerNode, OptionsAssumption DEF Vars
<1>2. /\ u \in [0 .. N -> Seq(Int)] /\ u[0] = <<v>>
      /\ \A i \in 1 .. N : u[i] = u[i - 1] \o t(i - 1)
  <2>1. IsUpto(u, tree, text, n)
    BY UptoFunction
  <2> HIDE DEF u
  <2> QED
    BY <2>1 DEF IsUpto
<1>3. \A i \in 0 .. N - 1 : t(i) \in Seq(Int)
  BY <1>1 DEF Children, Values
<1> HIDE DEF u, t, N
<1>4. \A i \in 0 .. N : u[i] \in Seq(Int) /\ Len(u[i]) \in Nat
  BY <1>2, LenProperties
<1>5. ASSUME NEW i \in 0 .. N - 1
      PROVE  /\ i + 1 \in 0 .. N /\ Len(t(i)) \in Nat
             /\ Len(u[i + 1]) = Len(u[i]) + Len(t(i))
             /\ \A p \in 1 .. Len(u[i]) : u[i + 1][p] = u[i][p]
             /\ \A p \in 1 .. Len(t(i)) : u[i + 1][Len(u[i]) + p] = t(i)[p]
  <2>1. i + 1 \in 1 .. N /\ (i + 1) - 1 = i /\ i \in 0 .. N /\ i + 1 \in 0 .. N
    BY <1>1
  <2>2. u[i + 1] = u[i] \o t(i)
    BY <1>2, <2>1
  <2>3. u[i] \in Seq(Int) /\ t(i) \in Seq(Int) /\ Len(u[i]) \in Nat /\ Len(t(i)) \in Nat
    BY <1>3, <1>4, <2>1, LenProperties
  <2> DEFINE a == u[i]
             b == t(i)
  <2> HIDE DEF a, b
  <2>4. a \in Seq(Int) /\ b \in Seq(Int) /\ Len(a) \in Nat /\ Len(b) \in Nat
    BY <2>3 DEF a, b
  <2>5. /\ Len(a \o b) = Len(a) + Len(b)
        /\ \A p \in 1 .. Len(a) + Len(b) : (a \o b)[p] = IF p <= Len(a) THEN a[p] ELSE b[p - Len(a)]
    BY <2>4, ConcatProperties
  <2>6. \A p \in 1 .. Len(a) : (a \o b)[p] = a[p]
    BY <2>4, <2>5
  <2>7. \A p \in 1 .. Len(b) : (a \o b)[Len(a) + p] = b[p]
    <3> TAKE p \in 1 .. Len(b)
    <3>1. Len(a) + p \in 1 .. Len(a) + Len(b) /\ ~ (Len(a) + p <= Len(a)) /\ (Len(a) + p) - Len(a) = p
      BY <2>4
    <3> QED
      BY <2>5, <3>1
  <2> QED
    BY <2>1, <2>2, <2>4, <2>5, <2>6, <2>7 DEF a, b
<1>6. 0 \in S
  BY <1>1, <1>4
<1>7. ASSUME NEW i \in 0 .. N - 1, i \in S PROVE i + 1 \in S
  <2>1. ASSUME NEW j \in 0 .. i + 1 PROVE Prefix(j, i + 1)
    <3>1. CASE j = i + 1
      BY <1>4, <1>5, <3>1
    <3>2. CASE j # i + 1
      <4>1. j \in 0 .. i /\ j \in 0 .. N /\ i \in 0 .. N
        BY <1>1, <3>2
      <4>2. Prefix(j, i)
        BY <1>7, <4>1
      <4>3. /\ Len(u[j]) \in Nat /\ Len(u[i]) \in Nat /\ Len(u[j]) <= Len(u[i])
            /\ Len(u[i + 1]) \in Nat /\ Len(u[i]) <= Len(u[i + 1])
        BY <1>4, <1>5, <4>1, <4>2
      <4>4. \A p \in 1 .. Len(u[j]) : p \in 1 .. Len(u[i])
        BY <4>3
      <4>5. \A p \in 1 .. Len(u[j]) : u[i + 1][p] = u[j][p]
        BY <1>5, <4>2, <4>4
      <4>6. Len(u[j]) <= Len(u[i + 1])
        BY <4>3
      <4> QED
        BY <4>5, <4>6
    <3> QED
      BY <3>1, <3>2
  <2> QED
    BY <1>5, <2>1
<1>8. \A i \in 0 .. N : i \in S
  <2> HIDE DEF S
  <2> QED
    BY <1>1, <1>6, <1>7, Induction
<1>9. \A j \in 0 .. N : Prefix(j, N)
  BY <1>1, <1>8
<1>10. Len(u[0]) = 1 /\ u[0][1] = v
  BY <1>2
<1>11. ASSUME NEW i \in 0 .. N
       PROVE  Len(u[i]) \in Nat /\ 1 <= Len(u[i]) /\ Len(u[i]) <= Len(u[N])
  <2>1. Prefix(0, i) /\ Prefix(i, N)
    BY <1>1, <1>8, <1>9
  <2> QED
    BY <1>4, <1>10, <2>1
<1>12. u[N][1] = v /\ u[N] \in Seq(Int)
  <2>1. Prefix(0, N) /\ 1 \in 1 .. Len(u[0])
    BY <1>1, <1>9, <1>10
  <2> QED
    BY <1>1, <1>4, <1>10, <2>1
<1>13. ASSUME NEW i \in 0 .. N - 1
       PROVE  \A p \in 1 .. Len(t(i)) : u[N][Len(u[i]) + p] = t(i)[p]
  <2> TAKE p \in 1 .. Len(t(i))
  <2>1. i + 1 \in 0 .. N /\ i \in 0 .. N
    BY <1>1
  <2>2. Len(u[i]) + p \in 1 .. Len(u[i + 1])
    BY <1>4, <1>5, <2>1
  <2>3. u[N][Len(u[i]) + p] = u[i + 1][Len(u[i]) + p]
    BY <1>9, <2>1, <2>2
  <2> QED
    BY <1>5, <2>3
<1>14. \A i \in 0 .. N - 1 : Len(u[i + 1]) = Len(u[i]) + Len(t(i))
  BY <1>5
<1> QED
  BY <1>10, <1>11, <1>12, <1>13, <1>14 DEF Segments, u, t, N

(* A run of deserialize.                                                   *)
Reads(toks, h) ==
    /\ h \in [0 .. Len(toks) -> ReadStates] /\ h[0] = StartTree
    /\ \A k \in 1 .. Len(toks) :
          ReadNode(h[k - 1], toks[k]) \in ReadStates => h[k] = ReadNode(h[k - 1], toks[k])

ReadsOn(toks, h, j, k) == \A q \in j + 1 .. k : ReadNode(h[q - 1], toks[q]) \in ReadStates

(* It has read the text of n from token j to k: the nodes below n are added*)
(* and n is done.                                                          *)
HasRead(tree, n, toks, h, j, k) ==
    /\ h[k] = [nodes |-> With(h[j].nodes, tree, SubTree(tree, n)), todo |-> Tail(h[j].todo)]
    /\ ReadsOn(toks, h, j, k)

TextAt(toks, t, j) == j + Len(t) <= Len(toks) /\ \A p \in 1 .. Len(t) : toks[j + p] = t[p]

Parsed(tree, n) ==
    \A toks \in Seq(Int) : \A h :
        \A j \in 0 .. Len(toks) :
            /\ Reads(toks, h) /\ TextAt(toks, TextFrom(tree)[n], j)
            /\ h[j].todo # << >> /\ Head(h[j].todo) = n
            => HasRead(tree, n, toks, h, j, j + Len(TextFrom(tree)[n]))

(* The token at the node itself.                                           *)
FirstRead(tree, n, toks, h, j) ==
    /\ h[j + 1] = [nodes |-> With(h[j].nodes, tree, {n}),
                   todo |-> IF LeafIn(tree, n) THEN Tail(h[j].todo)
                            ELSE Kids(n, tree[n], 0) \o Tail(h[j].todo)]
    /\ ReadsOn(toks, h, j, j + 1) /\ Tail(h[j].todo) \in Seq(Templates)

LEMMA ReadFirst ==
    ASSUME NEW tree, WellFormed(tree), NEW n \in DOMAIN tree, NEW toks \in Seq(Int), NEW h,
           NEW j \in 0 .. Len(toks) - 1, Reads(toks, h), toks[j + 1] = tree[n],
           h[j].todo # << >>, Head(h[j].todo) = n
    PROVE  FirstRead(tree, n, toks, h, j)
<1>1. Len(toks) \in Nat /\ j + 1 \in 1 .. Len(toks) /\ (j + 1) - 1 = j /\ j \in 0 .. Len(toks)
  BY LenProperties
<1>2. h[j] \in ReadStates
  BY <1>1 DEF Reads
<1> DEFINE next == ReadNode(h[j], tree[n])
<1>3. /\ next \in ReadStates /\ Tail(h[j].todo) \in Seq(Templates)
      /\ next = [nodes |-> With(h[j].nodes, tree, {n}),
                 todo |-> IF LeafIn(tree, n) THEN Tail(h[j].todo)
                          ELSE Kids(n, tree[n], 0) \o Tail(h[j].todo)]
  BY <1>2, ReadNodeRight
<1>4. next = ReadNode(h[j], toks[j + 1])
  OBVIOUS
<1> HIDE DEF next
<1>5. h[j + 1] = next
  BY <1>1, <1>3, <1>4 DEF Reads
<1>6. ReadsOn(toks, h, j, j + 1)
  <2>1. \A q \in j + 1 .. j + 1 : q = j + 1 /\ q - 1 = j
    BY <1>1
  <2> QED
    BY <1>3, <1>4, <2>1 DEF ReadsOn
<1> QED
  BY <1>3, <1>5, <1>6 DEF FirstRead

LEMMA ReadsOnTrans ==
    ASSUME NEW toks, NEW h, NEW i \in Int, NEW j \in Int, NEW k \in Int,
           ReadsOn(toks, h, i, j), ReadsOn(toks, h, j, k)
    PROVE  ReadsOn(toks, h, i, k)
<1>1. \A q \in i + 1 .. k : q \in i + 1 .. j \/ q \in j + 1 .. k
  OBVIOUS
<1> QED
  BY <1>1 DEF ReadsOn

LEMMA LeafParsed ==
    ASSUME NEW tree, WellFormed(tree), NEW n \in DOMAIN tree, LeafIn(tree, n)
    PROVE  Parsed(tree, n)
<1> DEFINE t == TextFrom(tree)[n]
<1>1. t = <<tree[n]>>
  BY TextFunction
<1>2. SubTree(tree, n) = {n}
  BY DEF SubTree, WellFormed, LeavesOf, Below
<1> HIDE DEF t
<1> SUFFICES ASSUME NEW toks \in Seq(Int), NEW h, NEW j \in 0 .. Len(toks),
                    Reads(toks, h), TextAt(toks, t, j), h[j].todo # << >>, Head(h[j].todo) = n
             PROVE  HasRead(tree, n, toks, h, j, j + Len(t))
  BY DEF Parsed, t
<1>3. Len(t) = 1 /\ t[1] = tree[n] /\ 1 \in 1 .. Len(t)
  BY <1>1
<1>4. toks[j + 1] = tree[n] /\ j + 1 <= Len(toks)
  BY <1>3 DEF TextAt
<1>5. j \in 0 .. Len(toks) - 1
  BY <1>4, LenProperties
<1>6. /\ h[j + 1] = [nodes |-> With(h[j].nodes, tree, {n}), todo |-> Tail(h[j].todo)]
      /\ ReadsOn(toks, h, j, j + 1)
  <2>1. FirstRead(tree, n, toks, h, j)
    BY <1>4, <1>5, ReadFirst
  <2> QED
    BY <2>1 DEF FirstRead
<1> QED
  BY <1>2, <1>3, <1>6 DEF HasRead

(* The nodes below n are n and those below its children.                   *)
LEMMA SubTreeOfKids ==
    ASSUME NEW tree, WellFormed(tree), NEW n \in DOMAIN tree, ~ LeafIn(tree, n)
    PROVE  SubTree(tree, n) = {n} \cup UNION {SubTree(tree, Child(n, tree[n], q)) : q \in Values(tree[n])}
<1> DEFINE v == tree[n]
           k(q) == Child(n, v, q)
<1>1. n \in Templates /\ v \in Vars /\ n[v] = Unset
  BY InnerNode
<1>2. ASSUME NEW q \in Values(v), NEW m \in SubTree(tree, k(q)) PROVE m \in SubTree(tree, n)
  <2>1. Below(k(q), n)
    BY <1>1, ChildBelow
  <2>2. m \in DOMAIN tree /\ Below(m, k(q))
    BY DEF SubTree
  <2> HIDE DEF k
  <2>3. Below(m, n)
    BY <2>1, <2>2, BelowTrans
  <2> QED
    BY <2>2, <2>3 DEF SubTree
<1>3. ASSUME NEW m \in SubTree(tree, n), m # n
      PROVE  \E q \in Values(v) : m \in SubTree(tree, k(q))
  <2>1. m \in DOMAIN tree /\ Below(m, n) /\ m \in Templates
    BY DEF SubTree, WellFormed
  <2>2. m[v] # Unset
    BY <1>3, <2>1 DEF WellFormed, LeavesOf
  <2>3. m[v] \in Values(v)
    BY <1>1, <2>1, <2>2 DEF Templates
  <2>4. Below(m, k(m[v]))
    <3>1. k(m[v])[v] = m[v] /\ \A u \in Vars \ {v} : k(m[v])[u] = n[u]
      BY <1>1, <2>3, ChildIsTemplate
    <3> HIDE DEF k, v
    <3> QED
      BY <2>1, <3>1 DEF Below
  <2> QED
    BY <2>1, <2>3, <2>4 DEF SubTree
<1>4. n \in SubTree(tree, n)
  BY DEF SubTree, Below
<1> HIDE DEF k, v
<1> QED
  BY <1>2, <1>3, <1>4 DEF k, v

(* After the first i children the nodes below them are read, and the others*)
(* are still to do.                                                        *)
HasKids(tree, n, toks, h, j, k, i) ==
    /\ h[k].nodes = With(h[j].nodes, tree, {n} \cup UNION {SubTree(tree, Child(n, tree[n], q)) : q \in 0 .. i - 1})
    /\ h[k].todo = Kids(n, tree[n], i) \o Tail(h[j].todo)
    /\ ReadsOn(toks, h, j, k)

LEMMA NextKid ==
    ASSUME NEW tree, WellFormed(tree), NEW n \in DOMAIN tree, ~ LeafIn(tree, n),
           NEW toks \in Seq(Int), NEW h, Reads(toks, h), NEW j \in 0 .. Len(toks), NEW k \in 0 .. Len(toks),
           NEW i \in 0 .. NValues[tree[n]] - 1, Tail(h[j].todo) \in Seq(Templates),
           HasKids(tree, n, toks, h, j, k, i), Parsed(tree, Child(n, tree[n], i)),
           TextAt(toks, TextFrom(tree)[Child(n, tree[n], i)], k)
    PROVE  HasKids(tree, n, toks, h, j, k + Len(TextFrom(tree)[Child(n, tree[n], i)]), i + 1)
<1> DEFINE v == tree[n]
           m == Child(n, v, i)
           rest == Tail(h[j].todo)
           A(q) == SubTree(tree, Child(n, v, q))
           t == TextFrom(tree)[m]
           k2 == k + Len(t)
<1>1. v \in Vars /\ n \in Templates /\ NValues[v] \in Nat \ {0}
  BY InnerNode, OptionsAssumption
<1>2. i \in 0 .. NValues[v] /\ i < NValues[v] /\ i \in Int /\ i \in Values(v)
  BY <1>1 DEF Values
<1>3. /\ Kids(n, v, i) \o rest # << >> /\ Head(Kids(n, v, i) \o rest) = m
      /\ Tail(Kids(n, v, i) \o rest) = Kids(n, v, i + 1) \o rest
  <2>1. rest \in Seq(Templates)
    OBVIOUS
  <2> HIDE DEF rest, v
  <2>2. KidsToDo(n, v, i, rest)
    BY <1>1, <1>2, <2>1, KidsStep
  <2>3. m = Child(n, v, i)
    OBVIOUS
  <2> HIDE DEF m
  <2> QED
    BY <1>2, <2>2, <2>3 DEF KidsToDo
<1>4. h[k].todo # << >> /\ Head(h[k].todo) = m /\ Tail(h[k].todo) = Kids(n, v, i + 1) \o rest
  BY <1>3 DEF HasKids
<1>5. HasRead(tree, m, toks, h, k, k2)
  BY <1>4 DEF Parsed
<1>6. Len(t) \in Nat
  <2>1. m \in DOMAIN tree
    BY <1>2, InnerNode
  <2>2. t \in Seq(Int)
    BY <2>1, TextFunction
  <2> QED
    BY <2>2, LenProperties
<1> HIDE DEF t, m, v, A
<1>7. h[k2].nodes = With(h[j].nodes, tree, {n} \cup UNION {A(q) : q \in 0 .. i})
  <2>1. h[k2].nodes = With(h[k].nodes, tree, SubTree(tree, m))
    BY <1>5 DEF HasRead
  <2>2. h[k].nodes = With(h[j].nodes, tree, {n} \cup UNION {A(q) : q \in 0 .. i - 1})
    BY DEF HasKids, A, v
  <2>3. h[k2].nodes = With(h[j].nodes, tree, ({n} \cup UNION {A(q) : q \in 0 .. i - 1}) \cup SubTree(tree, m))
    BY <2>1, <2>2, WithBoth
  <2>4. \A q : q \in 0 .. i <=> q \in 0 .. i - 1 \/ q = i
    BY <1>2
  <2>5. SubTree(tree, m) = A(i)
    BY DEF A, m
  <2>6. ({n} \cup UNION {A(q) : q \in 0 .. i - 1}) \cup SubTree(tree, m)
        = {n} \cup UNION {A(q) : q \in 0 .. i}
    BY <2>4, <2>5
  <2> QED
    BY <2>3, <2>6
<1>8. h[k2].todo = Kids(n, v, i + 1) \o rest
  <2>1. h[k2].todo = Tail(h[k].todo)
    BY <1>5 DEF HasRead
  <2> QED
    BY <1>4, <2>1
<1>9. ReadsOn(toks, h, j, k2)
  <2>1. ReadsOn(toks, h, j, k) /\ ReadsOn(toks, h, k, k2)
    BY <1>5 DEF HasRead, HasKids
  <2>2. j \in Int /\ k \in Int /\ k2 \in Int
    BY <1>6
  <2> QED
    BY <2>1, <2>2, ReadsOnTrans
<1>10. i = (i + 1) - 1
  BY <1>2
<1> HIDE DEF k2
<1>11. HasKids(tree, n, toks, h, j, k2, i + 1)
  BY <1>7, <1>8, <1>9, <1>10 DEF HasKids, A, v
<1> QED
  BY <1>11 DEF k2, t, m, v

LEMMA InnerParsed ==
    ASSUME NEW tree, WellFormed(tree), NEW n \in DOMAIN tree, ~ LeafIn(tree, n),
           \A i \in Values(tree[n]) : Parsed(tree, Child(n, tree[n], i))
    PROVE  Parsed(tree, n)
<1> DEFINE t == TextFrom(tree)[n]
           v == tree[n]
           N == NValues[v]
           u == Upto(tree, TextFrom(tree), n)
           k(i) == TextFrom(tree)[Child(n, v, i)]
<1> SUFFICES ASSUME NEW toks \in Seq(Int), NEW h, NEW j \in 0 .. Len(toks),
                    Reads(toks, h), TextAt(toks, t, j), h[j].todo # << >>, Head(h[j].todo) = n
             PROVE  HasRead(tree, n, toks, h, j, j + Len(t))
  BY DEF Parsed
<1>1. v \in Vars /\ n \in Templates /\ N \in Nat \ {0} /\ Values(v) = 0 .. N - 1
  BY InnerNode, OptionsAssumption DEF Values
<1>2. \A m \in Children(n, v) : TextFrom(tree)[m] \in Seq(Int)
  BY TextFunction DEF WellFormed, LeavesOf
<1>3. t = u[N]
  <2>1. t = SerializeChildren(tree, TextFrom(tree), n)
    BY TextFunction
  <2>2. \A m \in Children(n, v) : TextFrom(tree)[m] \in Seq(Int) /\ TextFrom(tree)[m] = TextFrom(tree)[m]
    BY <1>2
  <2>3. SerializeChildren(tree, TextFrom(tree), n) = u[N]
    BY <2>2, UptoAgree
  <2> QED
    BY <2>1, <2>3
<1>a. Segments(u, tree, TextFrom(tree), n)
  BY <1>2, UptoSegments
<1> HIDE DEF u, t
<1>4. /\ Len(u[0]) = 1 /\ u[N][1] = v /\ u[N] \in Seq(Int)
      /\ \A i \in 0 .. N : Len(u[i]) \in Nat /\ 1 <= Len(u[i]) /\ Len(u[i]) <= Len(u[N])
      /\ \A i \in 0 .. N - 1 :
            /\ Len(u[i + 1]) = Len(u[i]) + Len(k(i))
            /\ \A p \in 1 .. Len(k(i)) : u[N][Len(u[i]) + p] = k(i)[p]
  BY <1>a DEF Segments
<1>5. \A i \in 0 .. N - 1 : k(i) \in Seq(Int) /\ Len(k(i)) \in Nat
  <2>1. \A i \in 0 .. N - 1 : k(i) \in Seq(Int)
    BY <1>1, <1>2 DEF Children
  <2> QED
    BY <2>1, LenProperties
<1>6. j + Len(t) <= Len(toks)
  BY DEF TextAt
<1>b. \A p \in 1 .. Len(t) : toks[j + p] = t[p]
  BY DEF TextAt
<1>7. Len(toks) \in Nat /\ j \in Nat /\ Len(t) \in Nat /\ 1 <= Len(t)
  BY <1>1, <1>3, <1>4, LenProperties
<1> DEFINE S == {i \in 0 .. N : HasKids(tree, n, toks, h, j, j + Len(u[i]), i)}
<1>8. Tail(h[j].todo) \in Seq(Templates) /\ HasKids(tree, n, toks, h, j, j + 1, 0)
  <2>1. j \in 0 .. Len(toks) - 1
    BY <1>6, <1>7
  <2>2. toks[j + 1] = v
    <3>1. 1 \in 1 .. Len(t)
      BY <1>7
    <3> QED
      BY <1>3, <1>4, <1>b, <3>1
  <2>3. FirstRead(tree, n, toks, h, j)
    BY <2>1, <2>2, ReadFirst
  <2>4. {n} \cup UNION {SubTree(tree, Child(n, v, q)) : q \in 0 .. 0 - 1} = {n}
    <3>1. 0 .. 0 - 1 = {}
      OBVIOUS
    <3> QED
      BY <3>1
  <2>5. /\ h[j + 1].nodes = With(h[j].nodes, tree, {n})
        /\ h[j + 1].todo = Kids(n, v, 0) \o Tail(h[j].todo)
        /\ ReadsOn(toks, h, j, j + 1) /\ Tail(h[j].todo) \in Seq(Templates)
    BY <2>3 DEF FirstRead
  <2> QED
    BY <2>4, <2>5 DEF HasKids
<1> HIDE DEF k, N
<1>9. 0 \in S
  <2>1. j + Len(u[0]) = j + 1 /\ 0 \in 0 .. N
    BY <1>1, <1>4
  <2> QED
    BY <1>8, <2>1
<1>10. ASSUME NEW i \in 0 .. N - 1, i \in S PROVE i + 1 \in S
  <2>1. i \in 0 .. N /\ i + 1 \in 0 .. N /\ i \in Values(v)
    BY <1>1
  <2>2. /\ Len(u[i]) \in Nat /\ Len(u[i + 1]) = Len(u[i]) + Len(k(i)) /\ Len(k(i)) \in Nat
        /\ Len(u[i + 1]) <= Len(t)
    BY <1>3, <1>4, <1>5, <2>1
  <2>3. TextAt(toks, k(i), j + Len(u[i]))
    <3>1. (j + Len(u[i])) + Len(k(i)) <= Len(toks)
      BY <1>6, <1>7, <2>2
    <3>2. ASSUME NEW p \in 1 .. Len(k(i)) PROVE toks[(j + Len(u[i])) + p] = k(i)[p]
      <4>1. Len(u[i]) + p \in 1 .. Len(t) /\ j + (Len(u[i]) + p) = (j + Len(u[i])) + p
        <5> DEFINE a == Len(u[i])
                   b == Len(k(i))
                   d == Len(u[i + 1])
                   e == Len(t)
        <5>1. a \in Nat /\ b \in Nat /\ d = a + b /\ d <= e /\ e \in Nat /\ j \in Nat /\ p \in 1 .. b
          BY <1>7, <2>2
        <5> HIDE DEF a, b, d, e
        <5>2. a + p \in 1 .. e /\ j + (a + p) = (j + a) + p
          BY <5>1
        <5> QED
          BY <5>2 DEF a, e
      <4>2. u[N][Len(u[i]) + p] = k(i)[p]
        BY <1>4
      <4> QED
        BY <1>3, <1>b, <4>1, <4>2
    <3> QED
      BY <3>1, <3>2 DEF TextAt
  <2>4. j + Len(u[i]) \in 0 .. Len(toks)
    BY <1>6, <1>7, <2>2
  <2>5. HasKids(tree, n, toks, h, j, (j + Len(u[i])) + Len(k(i)), i + 1)
    <3> HIDE DEF v, t
    <3>1. TextAt(toks, TextFrom(tree)[Child(n, v, i)], j + Len(u[i]))
      BY <2>3 DEF k
    <3>2. Parsed(tree, Child(n, v, i)) /\ HasKids(tree, n, toks, h, j, j + Len(u[i]), i)
      BY <1>10, <2>1 DEF v
    <3> QED
      BY <1>8, <2>4, <3>1, <3>2, NextKid DEF v, k, N
  <2>6. (j + Len(u[i])) + Len(k(i)) = j + Len(u[i + 1])
    BY <1>7, <2>2
  <2> QED
    BY <2>1, <2>5, <2>6
<1>11. \A i \in 0 .. N : i \in S
  <2> HIDE DEF S
  <2> QED
    BY <1>1, <1>9, <1>10, Induction
<1>12. HasKids(tree, n, toks, h, j, j + Len(t), N)
  BY <1>1, <1>3, <1>11
<1>13. h[j + Len(t)].nodes = With(h[j].nodes, tree, SubTree(tree, n))
  <2>1. SubTree(tree, n) = {n} \cup UNION {SubTree(tree, Child(n, v, q)) : q \in 0 .. N - 1}
    BY <1>1, SubTreeOfKids
  <2> QED
    BY <1>12, <2>1 DEF HasKids
<1>14. h[j + Len(t)].todo = Tail(h[j].todo)
  <2>1. N \in 0 .. NValues[v] /\ N = NValues[v]
    BY <1>1 DEF N
  <2>2. Kids(n, v, N) \o Tail(h[j].todo) = Tail(h[j].todo)
    <3> DEFINE rest == Tail(h[j].todo)
    <3>1. rest \in Seq(Templates)
      BY <1>8
    <3> HIDE DEF rest, v
    <3>2. KidsToDo(n, v, N, rest)
      BY <1>1, <2>1, <3>1, KidsStep
    <3> QED
      BY <2>1, <3>2 DEF KidsToDo, rest
  <2> QED
    BY <1>12, <2>2 DEF HasKids
<1>15. h[j + Len(t)] \in ReadStates
  <2>1. j + Len(t) \in 0 .. Len(toks)
    BY <1>6, <1>7
  <2> QED
    BY <2>1 DEF Reads
<1>16. h[j + Len(t)] = [nodes |-> With(h[j].nodes, tree, SubTree(tree, n)), todo |-> Tail(h[j].todo)]
  BY <1>13, <1>14, <1>15 DEF ReadStates
<1> QED
  BY <1>12, <1>16 DEF HasRead, HasKids

LEMMA AllParsed ==
    ASSUME NEW tree, WellFormed(tree)
    PROVE  \A n \in DOMAIN tree : Parsed(tree, n)
<1> DEFINE S == {n \in DOMAIN tree : Parsed(tree, n)}
<1>1. ASSUME NEW n \in DOMAIN tree, ~ LeafIn(tree, n) => Children(n, tree[n]) \subseteq S
      PROVE  n \in S
  <2>1. CASE LeafIn(tree, n)
    BY <2>1, LeafParsed
  <2>2. CASE ~ LeafIn(tree, n)
    <3>1. \A i \in Values(tree[n]) : Parsed(tree, Child(n, tree[n], i))
      BY <1>1, <2>2 DEF Children
    <3> QED
      BY <2>2, <3>1, InnerParsed
  <2> QED
    BY <2>1, <2>2
<1> HIDE DEF S
<1>2. \A n \in DOMAIN tree : n \in S
  BY <1>1, NodeInduction
<1> QED
  BY <1>2 DEF S

(* CNode::deserialize reads back from the text of CNode::serialize the tree*)
(* that was written, for every tree.                                       *)
THEOREM DeserializeRight ==
    ASSUME NEW tree, WellFormed(tree), tree = [n \in DOMAIN tree |-> tree[n]]
    PROVE  Deserialize(Serialize(tree)) = tree
<1> DEFINE toks == TextFrom(tree)[Root]
           N == Len(toks)
           next(st, k) == ReadNode(st, toks[k])
           step == [q \in ReadStates \X (1 .. N) |->
                       IF next(q[1], q[2]) \in ReadStates THEN next(q[1], q[2]) ELSE StartTree]
<1>1. Root \in DOMAIN tree /\ toks \in Seq(Int) /\ Serialize(tree) = toks
  BY TextFunction DEF WellFormed, Serialize, TextFrom
<1>2. N \in Nat
  BY <1>1, LenProperties
<1>3. StartTree \in ReadStates
  <2>1. [n \in {} |-> 0] \in [{} -> Int] /\ {} \in SUBSET Templates
    OBVIOUS
  <2>2. <<Root>> \in Seq(Templates)
    BY RootIsTemplate
  <2> QED
    BY <2>1, <2>2 DEF StartTree, ReadStates
<1> HIDE DEF next, toks, N
<1>4. step \in [ReadStates \X (1 .. N) -> ReadStates]
  BY <1>3
<1>5. \A st \in ReadStates, k \in 1 .. N :
         step[<<st, k>>] = IF next(st, k) \in ReadStates THEN next(st, k) ELSE StartTree
  OBVIOUS
<1> HIDE DEF step
<1>6. PICK h : IsLoop(h, N, ReadStates, StartTree, step)
  BY <1>2, <1>3, <1>4, LoopExists
<1>7. /\ h \in [0 .. N -> ReadStates] /\ h[0] = StartTree
      /\ \A k \in 1 .. N : h[k] = IF next(h[k - 1], k) \in ReadStates THEN next(h[k - 1], k) ELSE StartTree
  <2>1. h \in [0 .. N -> ReadStates] /\ h[0] = StartTree /\ \A k \in 1 .. N : h[k] = step[<<h[k - 1], k>>]
    BY <1>6 DEF IsLoop
  <2>2. \A k \in 1 .. N : k - 1 \in 0 .. N
    BY <1>2
  <2>3. \A k \in 1 .. N : h[k - 1] \in ReadStates
    BY <2>1, <2>2
  <2> QED
    BY <1>5, <2>1, <2>3
<1>8. Reads(toks, h)
  BY <1>7 DEF Reads, next, N
<1>9. HasRead(tree, Root, toks, h, 0, N)
  <2>1. TextAt(toks, toks, 0)
    BY <1>2 DEF TextAt, N
  <2>2. h[0].todo # << >> /\ Head(h[0].todo) = Root
    BY <1>7 DEF StartTree
  <2>3. 0 \in 0 .. Len(toks) /\ 0 + Len(toks) = N
    BY <1>2 DEF N
  <2>4. Parsed(tree, Root) /\ toks = TextFrom(tree)[Root]
    BY <1>1, AllParsed DEF toks
  <2> QED
    BY <1>1, <1>8, <2>1, <2>2, <2>3, <2>4 DEF Parsed
<1>10. \A k \in 1 .. N : h[k] = next(h[k - 1], k)
  <2>1. \A k \in 0 + 1 .. N : next(h[k - 1], k) \in ReadStates
    BY <1>9 DEF HasRead, ReadsOn, next
  <2>2. \A k \in 1 .. N : k \in 0 + 1 .. N
    BY <1>2
  <2> QED
    BY <1>7, <2>1, <2>2
<1> DEFINE Is(f) == f = [k \in 0 .. N |-> IF k = 0 THEN StartTree ELSE next(f[k - 1], k)]
           read == CHOOSE f : Is(f)
<1>11. Is(h)
  <2>1. \A k \in 0 .. N : h[k] = IF k = 0 THEN StartTree ELSE next(h[k - 1], k)
    <3>1. \A k \in 0 .. N : k = 0 \/ k \in 1 .. N
      BY <1>2
    <3> QED
      BY <1>7, <1>10, <3>1
  <2> QED
    BY <1>7, <2>1
<1>12. Deserialize(toks) = read[N].nodes
  BY DEF Deserialize, Is, read, next, N
<1>13. Is(read)
  <2> HIDE DEF Is
  <2> QED
    BY <1>11
<1> HIDE DEF read
<1>14. read[0] = StartTree /\ \A k \in 1 .. N : read[k] = next(read[k - 1], k)
  <2>1. \A k \in 0 .. N : read[k] = IF k = 0 THEN StartTree ELSE next(read[k - 1], k)
    BY <1>13
  <2>2. 0 \in 0 .. N /\ \A k \in 1 .. N : k \in 0 .. N /\ k # 0
    BY <1>2
  <2> HIDE DEF Is
  <2> QED
    BY <2>1, <2>2
<1> HIDE DEF Is
<1> DEFINE S == {k \in 0 .. N : read[k] = h[k]}
<1>15. \A k \in 0 .. N : k \in S
  <2>1. 0 \in S
    BY <1>2, <1>7, <1>14
  <2>2. ASSUME NEW k \in 0 .. N - 1, k \in S PROVE k + 1 \in S
    <3>1. k + 1 \in 1 .. N /\ k + 1 \in 0 .. N /\ (k + 1) - 1 = k
      BY <1>2
    <3>2. read[k + 1] = h[k + 1]
      BY <1>10, <1>14, <2>2, <3>1
    <3> QED
      BY <3>1, <3>2
  <2> HIDE DEF S
  <2> QED
    BY <1>2, <2>1, <2>2, Induction
<1>16. read[N].nodes = With(h[0].nodes, tree, SubTree(tree, Root))
  <2>1. read[N] = h[N]
    BY <1>2, <1>15
  <2> QED
    BY <1>9, <2>1 DEF HasRead
<1>17. SubTree(tree, Root) = DOMAIN tree
  BY RootIsTemplate DEF SubTree, Below
<1>18. DOMAIN h[0].nodes = {}
  BY <1>7 DEF StartTree
<1>19. With(h[0].nodes, tree, DOMAIN tree) = [n \in DOMAIN tree |-> tree[n]]
  BY <1>18 DEF With
<1> QED
  BY <1>1, <1>12, <1>16, <1>17, <1>19
==============================================================================
