------------------------------ MODULE CTreeProofs ------------------------------
(***************************************************************************)
(* Proofs about CTree for every number of options and of values: the       *)
(* leaves of a tree divide the configurations and its runs, a node that is *)
(* to be split can be, and a finished tree agrees with the runs it was     *)
(* built from.                                                             *)
(***************************************************************************)
EXTENDS CTree, TreeFormsProofs

TreeShape ==
    /\ Nodes \subseteq Templates
    /\ splitvar \in [Nodes -> Vars \cup {NoVar}]
    /\ hit_configs \in [Nodes -> SUBSET Configs]
    /\ miss_configs \in [Nodes -> SUBSET Configs]
    /\ frame \in {"none", "evaluate", "return", "climb", "built"}
    /\ frame = "none" => Nodes = {}
    /\ frame # "none" => {Root, at} \subseteq Nodes

(* Two nodes that some configuration could reach, above one another.       *)
Compatible(m, n) == \A u \in Vars : m[u] = n[u] \/ m[u] = Unset \/ n[u] = Unset
Laminar == \A m, n \in Nodes : Compatible(m, n) => Below(m, n) \/ Below(n, m)

LeavesAtBottom == \A n \in Leaves, m \in Nodes : Below(m, n) => m = n

HasChildren ==
    \A m \in Inner : m[splitvar[m]] = Unset /\ Children(m, splitvar[m]) \subseteq Nodes

(* The option of a node is set in every node below it.                     *)
BelowSplit ==
    \A m \in Inner, n \in Nodes : Below(n, m) /\ n # m => n[splitvar[m]] # Unset

Reached == frame # "none" => \A c \in Configs : \E n \in Leaves : Matches(c, n)

Disjoint == frame # "none" => hit_configs[Root] \cap miss_configs[Root] = {}

(* The children that the calls of evaluate_split on the stack have not come*)
(* to: the calls are those on the nodes above `at`.                        *)
Stacked(m) == m \in Inner /\ Below(at, m) /\ at # m
ToCome(m, j) == j \in Values(splitvar[m]) /\ j > at[splitvar[m]]

Pending ==
    /\ frame = "evaluate" => at \in Leaves
    /\ frame \in {"evaluate", "return"} =>
          \A m \in Nodes : Stacked(m) => \A j \in Int : ToCome(m, j) => Child(m, splitvar[m], j) \in Leaves

(* All others with hits and misses have been split.                        *)
Waits(n) ==
    /\ frame \in {"evaluate", "return"}
    /\ \/ frame = "evaluate" /\ n = at
       \/ \E m \in Nodes, j \in Int : Stacked(m) /\ ToCome(m, j) /\ n = Child(m, splitvar[m], j)

SplitUp == \A n \in Leaves : is_leaf(n) \/ Waits(n)

Skeleton == TreeShape /\ Laminar /\ LeavesAtBottom /\ HasChildren /\ BelowSplit
Runs == NodesHoldTheirRuns /\ Disjoint
IInv == Skeleton /\ Reached /\ Runs /\ Pending /\ SplitUp

------------------------------------------------------------------------------
(* Facts about templates.                                                  *)

LEMMA BelowCompatible ==
    ASSUME NEW k, NEW m, NEW n, Below(k, m), Below(k, n)
    PROVE  Compatible(m, n)
BY DEF Below, Compatible

LEMMA MatchCompatible ==
    ASSUME NEW c, NEW m, NEW n, Matches(c, m), Matches(c, n)
    PROVE  Compatible(m, n)
BY DEF Matches, Compatible

(* What is compatible with a child is compatible with its parent.          *)
LEMMA ChildCompatible ==
    ASSUME NEW n \in Templates, NEW v \in Vars, NEW i \in Values(v), n[v] = Unset,
           NEW m \in Templates, Compatible(Child(n, v, i), m) \/ Compatible(m, Child(n, v, i))
    PROVE  Compatible(n, m) /\ Compatible(m, n)
<1> DEFINE k == Child(n, v, i)
<1>1. k[v] = i /\ \A u \in Vars \ {v} : k[u] = n[u]
  BY ChildIsTemplate
<1> QED
  BY <1>1 DEF Compatible

------------------------------------------------------------------------------
(* Consequences of the invariant.                                          *)

LEMMA NodesAreTemplates ==
    ASSUME TreeShape
    PROVE  /\ \A n \in Nodes : n \in Templates
           /\ \A n \in Nodes : n \in Leaves \/ n \in Inner
           /\ \A n \in Inner : n \in Nodes /\ splitvar[n] \in Vars
           /\ \A n \in Leaves : n \in Nodes /\ n \notin Inner
BY DEF TreeShape, Inner, Leaves, Nodes

LEMMA OneLeaf ==
    ASSUME Skeleton, NEW c, NEW m \in Leaves, NEW n \in Leaves, Matches(c, m), Matches(c, n)
    PROVE  m = n
<1>1. m \in Nodes /\ n \in Nodes /\ Compatible(m, n)
  BY MatchCompatible DEF Leaves
<1>2. Below(m, n) \/ Below(n, m)
  BY <1>1 DEF Skeleton, Laminar
<1> QED
  BY <1>1, <1>2 DEF Skeleton, LeavesAtBottom

(* A node above a child of p is the child, p or above p.                   *)
LEMMA AboveChild ==
    ASSUME Skeleton, NEW p \in Inner, NEW k \in Children(p, splitvar[p]),
           NEW m \in Inner, Below(k, m), m # k, m # p
    PROVE  Below(p, m)
<1> DEFINE v == splitvar[p]
<1>1. /\ p \in Nodes /\ m \in Nodes /\ v \in Vars
      /\ p \in Templates /\ m \in Templates
  BY NodesAreTemplates DEF Skeleton
<1>2. PICK i \in Values(v) : k = Child(p, v, i)
  BY DEF Children
<1>3. p[v] = Unset
  BY DEF Skeleton, HasChildren
<1>4. Below(k, p)
  BY <1>1, <1>2, <1>3, ChildBelow
<1>5. Compatible(p, m)
  BY <1>4, BelowCompatible
<1>6. CASE Below(m, p)
  <2>1. \A u \in Vars \ {v} : k[u] = p[u]
    BY <1>1, <1>2, ChildIsTemplate
  <2>2. k[v] = i
    BY <1>1, <1>2, ChildIsTemplate
  <2>3. \A u \in Vars \ {v} : m[u] = p[u]
    BY <1>6, <2>1, <1>1 DEF Below
  <2>4. m[v] = i \/ m[v] = Unset
    BY <1>1, <2>2 DEF Below
  <2>5. CASE m[v] = i
    BY <1>1, <1>2, <2>3, <2>5, ChildEq
  <2>6. CASE m[v] = Unset
    <3>1. \A u \in Vars : m[u] = p[u]
      BY <1>3, <2>3, <2>6
    <3> QED
      BY <1>1, <3>1 DEF Templates
  <2> QED
    BY <2>4, <2>5, <2>6
<1> QED
  BY <1>1, <1>5, <1>6 DEF Skeleton, Laminar

LEMMA NoneAboveRoot ==
    ASSUME Skeleton, NEW m \in Inner, Below(Root, m), m # Root
    PROVE  FALSE
<1>1. m \in Templates
  BY NodesAreTemplates DEF Skeleton
<1>2. \A u \in Vars : m[u] = Root[u]
  BY RootIsTemplate DEF Below
<1> QED
  BY <1>1, <1>2, RootIsTemplate DEF Templates

------------------------------------------------------------------------------
(* The counting sort of create_childs: Less(R, v, i) runs have lower values*)
(* than i, so those with value i are moved to the places from Less + 1 on. *)
Less(R, v, i) == Cardinality({c \in R : c[v] < i})

(* Sets of runs are finite.                                                *)
LEMMA Counts ==
    ASSUME NEW R \in SUBSET Configs, NEW v \in Vars
    PROVE  /\ IsFiniteSet(R) /\ Cardinality(R) \in Nat
           /\ \A i : Less(R, v, i) \in Nat /\ freq(R, v, i) \in Nat
<1>1. IsFiniteSet(R)
  BY ConfigsFinite, FS_Subset
<1>2. ASSUME NEW i PROVE Less(R, v, i) \in Nat /\ freq(R, v, i) \in Nat
  <2>1. IsFiniteSet({c \in R : c[v] < i}) /\ IsFiniteSet({c \in R : c[v] = i})
    BY <1>1, FS_Subset
  <2> QED
    BY <2>1, FS_CardinalityType DEF Less, freq
<1> QED
  BY <1>1, <1>2, FS_CardinalityType

LEMMA LessNext ==
    ASSUME NEW R \in SUBSET Configs, NEW v \in Vars, NEW i \in Int
    PROVE  Less(R, v, i + 1) = Less(R, v, i) + freq(R, v, i)
<1> DEFINE A == {c \in R : c[v] < i}
           B == {c \in R : c[v] = i}
<1>1. IsFiniteSet(A) /\ IsFiniteSet(B)
  BY Counts, FS_Subset
<1>2. \A c \in R : c[v] \in Int
  BY ConfigValue, ValuesAreSet
<1>3. {c \in R : c[v] < i + 1} = A \cup B /\ A \cap B = {}
  BY <1>2
<1> HIDE DEF A, B
<1>4. Cardinality(A \cup B) = Cardinality(A) + Cardinality(B) - Cardinality(A \cap B)
  BY <1>1, FS_Union
<1>5. Cardinality(A \cap B) = 0 /\ Cardinality(A) \in Nat /\ Cardinality(B) \in Nat
  BY <1>1, <1>3, FS_EmptySet, FS_CardinalityType
<1>6. Cardinality(A \cup B) = Cardinality(A) + Cardinality(B)
  BY <1>4, <1>5
<1> QED
  BY <1>3, <1>6 DEF Less, freq, A, B

LEMMA LessGrows ==
    ASSUME NEW R \in SUBSET Configs, NEW v \in Vars, NEW i \in Int, NEW j \in Int, i <= j
    PROVE  Less(R, v, i) <= Less(R, v, j)
<1> DEFINE A == {c \in R : c[v] < i}
           B == {c \in R : c[v] < j}
<1>1. \A c \in R : c[v] \in Int
  BY ConfigValue, ValuesAreSet
<1>2. A \subseteq B /\ IsFiniteSet(B)
  BY <1>1, Counts, FS_Subset
<1> HIDE DEF A, B
<1>3. Cardinality(A) <= Cardinality(B)
  BY <1>2, FS_Subset
<1> QED
  BY <1>3 DEF Less, A, B

(* The recursive definition of starts has a value.                         *)
LEMMA StartsFunction ==
    ASSUME NEW R \in SUBSET Configs, NEW v \in Vars
    PROVE  /\ starts(R, v)[0] = 1
           /\ \A i \in 1 .. NValues[v] - 1 : starts(R, v)[i] = starts(R, v)[i - 1] + freq(R, v, i - 1)
<1> DEFINE N == NValues[v] - 1
           S == Int
           put(x, k) == x + freq(R, v, k - 1)
           step == [q \in S \X (1 .. N) |-> put(q[1], q[2])]
<1>1. N \in Nat /\ Values(v) = 0 .. N
  BY OptionsAssumption DEF Values
<1>2. 1 \in S /\ \A x \in S, k \in 1 .. N : put(x, k) \in S
  <2>1. \A i : freq(R, v, i) \in Nat
    BY Counts
  <2>2. \A k \in 1 .. N : freq(R, v, k - 1) \in Nat
    BY <2>1
  <2> QED
    BY <2>2
<1> HIDE DEF put, S
<1>3. step \in [S \X (1 .. N) -> S]
  BY <1>2
<1>4. \A x \in S, k \in 1 .. N : step[<<x, k>>] = put(x, k)
  OBVIOUS
<1> HIDE DEF step, N
<1>5. PICK f : IsLoop(f, N, S, 1, step)
  BY <1>1, <1>2, <1>3, LoopExists
<1> DEFINE Is(g) == g = [i \in 0 .. N |-> IF i = 0 THEN 1 ELSE put(g[i - 1], i)]
<1>6. f \in [0 .. N -> S] /\ f[0] = 1 /\ \A k \in 1 .. N : f[k] = put(f[k - 1], k)
  <2>1. f \in [0 .. N -> S] /\ f[0] = 1 /\ \A k \in 1 .. N : f[k] = step[<<f[k - 1], k>>]
    BY <1>5 DEF IsLoop
  <2>2. \A k \in 1 .. N : f[k - 1] \in S
    BY <1>1, <2>1
  <2> QED
    BY <1>4, <2>1, <2>2
<1>7. Is(f)
  <2>1. \A k \in 0 .. N : k = 0 \/ k \in 1 .. N
    BY <1>1
  <2>2. \A k \in 0 .. N : f[k] = IF k = 0 THEN 1 ELSE put(f[k - 1], k)
    BY <1>6, <2>1
  <2> QED
    BY <1>6, <2>2
<1> DEFINE g == starts(R, v)
<1>8. g = CHOOSE h : Is(h)
  BY <1>1 DEF starts, put
<1> HIDE DEF g
<1>9. Is(g)
  <2> HIDE DEF Is
  <2> QED
    BY <1>7, <1>8
<1>10. g[0] = 1 /\ \A k \in 1 .. N : g[k] = put(g[k - 1], k)
  <2>1. \A k \in 0 .. N : g[k] = IF k = 0 THEN 1 ELSE put(g[k - 1], k)
    BY <1>9
  <2>2. 0 \in 0 .. N /\ \A k \in 1 .. N : k \in 0 .. N /\ k # 0
    BY <1>1
  <2> QED
    BY <2>1, <2>2
<1> QED
  BY <1>10 DEF g, N, put

(* Where curpos begins and where it ends.                                  *)
LEMMA StartsRight ==
    ASSUME NEW R \in SUBSET Configs, NEW v \in Vars
    PROVE  \A i \in Values(v) : /\ starts(R, v)[i] = Less(R, v, i) + 1
                                /\ curpos(R, v)[i] = Less(R, v, i + 1) + 1
<1> DEFINE N == NValues[v] - 1
           g == starts(R, v)
           L(i) == Less(R, v, i)
           Good == {i \in 0 .. N : g[i] = L(i) + 1}
<1>1. N \in Nat /\ Values(v) = 0 .. N
  BY OptionsAssumption DEF Values
<1>2. \A i \in Int : L(i) \in Nat /\ freq(R, v, i) \in Nat /\ L(i + 1) = L(i) + freq(R, v, i)
  BY Counts, LessNext
<1>3. L(0) = 0
  <2>1. \A c \in R : c[v] \in 0 .. NValues[v] - 1
    BY ConfigValue DEF Values
  <2>2. {c \in R : c[v] < 0} = {}
    BY <2>1
  <2> QED
    BY <2>2, FS_EmptySet DEF Less
<1>4. g[0] = 1 /\ \A i \in 1 .. N : g[i] = g[i - 1] + freq(R, v, i - 1)
  BY StartsFunction
<1>5. \A i \in 0 .. N : curpos(R, v)[i] = g[i] + freq(R, v, i)
  BY <1>1 DEF curpos
<1> HIDE DEF g, L, N
<1>6. \A i \in 0 .. N : i \in Good
  <2>1. 0 \in Good
    BY <1>1, <1>3, <1>4
  <2>2. ASSUME NEW i \in 0 .. N - 1, i \in Good PROVE i + 1 \in Good
    <3>1. i + 1 \in 1 .. N /\ i + 1 \in 0 .. N /\ (i + 1) - 1 = i /\ i \in Int
      BY <1>1
    <3>2. g[i + 1] = g[i] + freq(R, v, i)
      BY <1>4, <3>1
    <3>3. g[i] = L(i) + 1
      BY <2>2
    <3>4. g[i + 1] = L(i + 1) + 1
      BY <1>2, <3>1, <3>2, <3>3
    <3> QED
      BY <3>1, <3>4
  <2> HIDE DEF Good
  <2> QED
    BY <1>1, <2>1, <2>2, Induction
<1>7. ASSUME NEW i \in 0 .. N PROVE g[i] = L(i) + 1 /\ curpos(R, v)[i] = L(i + 1) + 1
  <2>1. g[i] = L(i) + 1 /\ i \in Int
    BY <1>1, <1>6
  <2> QED
    BY <1>2, <1>5, <2>1
<1> QED
  BY <1>1, <1>7 DEF g, L

(* A run is moved to a place between those of the lower and of the higher  *)
(* values: it is not among the runs of its value that came before it.      *)
LEMMA PlaceRight ==
    ASSUME NEW R \in SUBSET Configs, NEW v \in Vars, NEW c \in R
    PROVE  place(R, v, c) \in Less(R, v, c[v]) + 1 .. Less(R, v, c[v] + 1)
<1> DEFINE i == c[v]
           A == {d \in R : d[v] = i}
           B == {d \in R : d[v] = i /\ Earlier(d, c)}
<1>1. i \in Values(v) /\ i \in Int /\ \A u \in Vars : c[u] \in Int
  BY ConfigValue, ValuesAreSet
<1>2. ~Earlier(c, c)
  BY <1>1 DEF Earlier
<1>3. B \subseteq A /\ c \in A /\ c \notin B
  BY <1>2
<1>4. IsFiniteSet(A)
  BY Counts, FS_Subset
<1>5. freq(R, v, i) = Cardinality(A) /\ place(R, v, c) = starts(R, v)[i] + Cardinality(B)
  BY DEF freq, place
<1>6. starts(R, v)[i] = Less(R, v, i) + 1
  BY <1>1, StartsRight
<1> HIDE DEF A, B, i
<1>7. IsFiniteSet(B) /\ B # A
  BY <1>3, <1>4, FS_Subset
<1>8. Cardinality(B) \in Nat /\ Cardinality(A) \in Nat /\ Cardinality(B) < Cardinality(A)
  BY <1>3, <1>4, <1>7, FS_Subset, FS_CardinalityType
<1>9. Less(R, v, i) \in Nat /\ Less(R, v, i + 1) = Less(R, v, i) + freq(R, v, i)
  BY <1>1, Counts, LessNext
<1>10. place(R, v, c) \in Less(R, v, i) + 1 .. Less(R, v, i + 1)
  BY <1>5, <1>6, <1>8, <1>9
<1> QED
  BY <1>10 DEF i

(* The sections hold what they are meant to hold.                          *)
LEMMA SectionRight ==
    ASSUME NEW R \in SUBSET Configs, NEW v \in Vars, NEW i \in Values(v)
    PROVE  Section(R, v, i) = {c \in R : c[v] = i}
<1> DEFINE L(k) == Less(R, v, k)
           first == IF i = 0 THEN 1 ELSE curpos(R, v)[i - 1]
           last == curpos(R, v)[i] - 1
<1>1. i \in Nat /\ (i # 0 => i - 1 \in Values(v))
  BY OptionsAssumption DEF Values
<1>2. \A k \in Int : L(k) \in Nat
  BY Counts
<1>3. first = L(i) + 1
  <2>1. starts(R, v)[0] = 1 /\ (i = 0 => starts(R, v)[i] = L(i) + 1)
    BY StartsRight, StartsFunction
  <2>2. i # 0 => curpos(R, v)[i - 1] = L((i - 1) + 1) + 1
    BY <1>1, StartsRight
  <2>3. (i - 1) + 1 = i
    BY <1>1
  <2> QED
    BY <2>1, <2>2, <2>3
<1>4. last = L(i + 1)
  <2>1. curpos(R, v)[i] = L(i + 1) + 1 /\ L(i + 1) \in Nat
    BY <1>1, <1>2, StartsRight
  <2> QED
    BY <2>1
<1>5. Section(R, v, i) = {c \in R : place(R, v, c) \in first .. last}
  BY DEF Section
<1> HIDE DEF first, last, L
<1>6. ASSUME NEW c \in R PROVE place(R, v, c) \in first .. last <=> c[v] = i
  <2> DEFINE j == c[v]
             p == place(R, v, c)
  <2>1. j \in Int
    BY ConfigValue, ValuesAreSet
  <2>2. p \in L(j) + 1 .. L(j + 1)
    BY PlaceRight DEF L
  <2>3. L(j) \in Nat /\ L(j + 1) \in Nat /\ L(i) \in Nat /\ L(i + 1) \in Nat
    BY <1>1, <1>2, <2>1
  <2>4. (j + 1 <= i => L(j + 1) <= L(i)) /\ (i + 1 <= j => L(i + 1) <= L(j))
    BY <1>1, <2>1, LessGrows DEF L
  <2> HIDE DEF j, p
  <2>5. CASE j = i
    BY <1>3, <1>4, <2>2, <2>5 DEF j, p
  <2>6. CASE j + 1 <= i
    <3>1. p < first
      BY <1>3, <2>2, <2>3, <2>4, <2>6
    <3>2. ~(p \in first .. last) /\ j # i
      BY <1>1, <1>3, <1>4, <2>1, <2>2, <2>3, <2>6, <3>1
    <3> QED
      BY <3>2 DEF j, p
  <2>7. CASE i + 1 <= j
    <3>1. p > last
      BY <1>4, <2>2, <2>3, <2>4, <2>7
    <3>2. ~(p \in first .. last) /\ j # i
      BY <1>1, <1>3, <1>4, <2>1, <2>2, <2>3, <2>7, <3>1
    <3> QED
      BY <3>2 DEF j, p
  <2> QED
    BY <1>1, <2>1, <2>5, <2>6, <2>7
<1> QED
  BY <1>5, <1>6

(* All runs have values below the number of values.                        *)
LEMMA SortEnds ==
    ASSUME NEW R \in SUBSET Configs, NEW v \in Vars
    PROVE  curpos(R, v)[NValues[v] - 1] = Cardinality(R) + 1
<1> DEFINE N == NValues[v]
<1>1. N \in Nat \ {0} /\ N - 1 \in Values(v) /\ (N - 1) + 1 = N
  BY OptionsAssumption DEF Values
<1>2. \A c \in R : c[v] < N
  <2>1. \A c \in R : c[v] \in 0 .. N - 1
    BY ConfigValue DEF Values
  <2> QED
    BY <1>1, <2>1
<1>3. {c \in R : c[v] < N} = R
  BY <1>2
<1>4. curpos(R, v)[N - 1] = Less(R, v, N) + 1
  BY <1>1, StartsRight
<1> QED
  BY <1>3, <1>4 DEF Less

------------------------------------------------------------------------------
(* A tree of one node, and the first state.                                *)

LEMMA InitInv == Init => IInv
<1> SUFFICES ASSUME Init PROVE IInv
  OBVIOUS
<1>1. Nodes = {} /\ frame = "none" /\ Leaves = {} /\ Inner = {}
  BY DEF Init, Nodes, Leaves, Inner
<1>2. /\ splitvar = [n \in {} |-> NoVar] /\ hit_configs = [n \in {} |-> {}]
      /\ miss_configs = [n \in {} |-> {}]
  BY DEF Init
<1>3. TreeShape
  BY <1>1, <1>2 DEF TreeShape
<1>4. Laminar /\ LeavesAtBottom /\ HasChildren /\ BelowSplit
  BY <1>1 DEF Laminar, LeavesAtBottom, HasChildren, BelowSplit
<1>5. Reached /\ Disjoint /\ NodesHoldTheirRuns
  BY <1>1 DEF Reached, Disjoint, NodesHoldTheirRuns
<1>6. Pending /\ SplitUp
  BY <1>1 DEF Pending, SplitUp
<1> QED
  BY <1>3, <1>4, <1>5, <1>6 DEF IInv, Skeleton, Runs

LEMMA BuildInv ==
    ASSUME NEW hits \in SUBSET Configs, NEW misses \in SUBSET (Configs \ hits),
           build_tree(hits, misses)
    PROVE  IInv'
<1>1. /\ hit_configs' = [n \in {Root} |-> hits] /\ miss_configs' = [n \in {Root} |-> misses]
      /\ splitvar' = [n \in {Root} |-> NoVar] /\ frame' = "evaluate" /\ at' = Root
  BY DEF build_tree
<1>2. Nodes' = {Root} /\ Leaves' = {Root} /\ Inner' = {}
  BY <1>1 DEF Nodes, Leaves, Inner
<1>3. \A n : Below(n, Root) /\ Matches(n, Root)
  BY RootIsTemplate DEF Below, Matches
<1>4. TreeShape'
  BY <1>1, <1>2, RootIsTemplate DEF TreeShape
<1>5. Laminar' /\ LeavesAtBottom' /\ HasChildren' /\ BelowSplit'
  BY <1>2, <1>3 DEF Laminar, LeavesAtBottom, HasChildren, BelowSplit
<1>6. Reached' /\ Disjoint' /\ NodesHoldTheirRuns'
  BY <1>1, <1>2, <1>3 DEF Reached, Disjoint, NodesHoldTheirRuns
<1>7. Pending'
  BY <1>1, <1>2 DEF Pending, Stacked
<1>8. SplitUp'
  BY <1>1, <1>2 DEF SplitUp, Waits
<1> QED
  BY <1>4, <1>5, <1>6, <1>7, <1>8 DEF IInv, Skeleton, Runs

------------------------------------------------------------------------------
(* A node is split: its children are new, and it is a leaf no more.        *)

LEMMA SplitFacts ==
    ASSUME IInv, NEW v \in Vars, evaluate_split(v)
    PROVE  LET kids == Children(at, v)
           IN  /\ at \in Leaves /\ at \in Templates /\ at[v] = Unset
               /\ Nodes' = Nodes \cup kids /\ kids \cap Nodes = {}
               /\ Leaves' = (Leaves \ {at}) \cup kids
               /\ Inner' = Inner \cup {at}
               /\ splitvar'[at] = v
               /\ \A n \in Inner : splitvar'[n] = splitvar[n]
               /\ \A k \in kids : k \in Templates /\ Below(k, at) /\ k # at
               /\ splitvar' \in [Nodes \cup kids -> Vars \cup {NoVar}]
<1> DEFINE kids == Children(at, v)
<1>1. at \in Leaves /\ at[v] = Unset
  BY DEF IInv, Pending, evaluate_split
<1>2. at \in Nodes /\ at \in Templates
  BY <1>1, NodesAreTemplates DEF IInv, Skeleton
<1>3. \A k \in kids : k \in Templates /\ Below(k, at) /\ k # at
  BY <1>1, <1>2, ChildIsTemplate, ChildBelow DEF Children
<1>4. kids \cap Nodes = {}
  BY <1>1, <1>3 DEF IInv, Skeleton, LeavesAtBottom
<1>5. splitvar' = [NewChildren(splitvar, at, v, NoVar) EXCEPT ![at] = v]
  BY DEF evaluate_split
<1>6. Nodes' = Nodes \cup kids
  BY <1>5 DEF Nodes, NewChildren
<1>7. splitvar'[at] = v
  BY <1>2, <1>5 DEF NewChildren
<1>8. \A k \in kids : splitvar'[k] = NoVar
  BY <1>3, <1>5 DEF NewChildren
<1>9. \A n \in Nodes \ {at} : splitvar'[n] = splitvar[n]
  BY <1>4, <1>5 DEF NewChildren
<1>10. v # NoVar
  BY OptionsAssumption DEF Vars, NoVar
<1>11. Leaves' = (Leaves \ {at}) \cup kids
  BY <1>2, <1>3, <1>6, <1>7, <1>8, <1>9, <1>10 DEF Leaves
<1>12. Inner' = Inner \cup {at}
  BY <1>2, <1>3, <1>6, <1>7, <1>8, <1>9, <1>10 DEF Inner
<1>13. \A n \in Inner : splitvar'[n] = splitvar[n]
  BY <1>1, <1>9 DEF Inner, Leaves
<1>14. splitvar' \in [Nodes \cup kids -> Vars \cup {NoVar}]
  <2>1. splitvar \in [Nodes -> Vars \cup {NoVar}]
    BY DEF IInv, Skeleton, TreeShape
  <2>2. NewChildren(splitvar, at, v, NoVar) \in [Nodes \cup kids -> Vars \cup {NoVar}]
    BY <2>1 DEF NewChildren
  <2> QED
    BY <1>5, <2>2
<1> QED
  BY <1>1, <1>2, <1>3, <1>4, <1>6, <1>7, <1>11, <1>12, <1>13, <1>14

(* create_childs leaves the runs of old nodes as they are and gives every  *)
(* child those with its value.                                             *)
LEMMA SectionsFit ==
    ASSUME IInv, NEW v \in Vars, evaluate_split(v)
    PROVE  /\ \A n \in Nodes : hit_configs'[n] = hit_configs[n] /\ miss_configs'[n] = miss_configs[n]
           /\ \A k \in Children(at, v) : /\ hit_configs'[k] = {c \in hit_configs[at] : c[v] = k[v]}
                                       /\ miss_configs'[k] = {c \in miss_configs[at] : c[v] = k[v]}
           /\ DOMAIN hit_configs' = Nodes' /\ DOMAIN miss_configs' = Nodes'
           /\ hit_configs' = [n \in Nodes' |-> hit_configs'[n]]
           /\ miss_configs' = [n \in Nodes' |-> miss_configs'[n]]
<1> DEFINE kids == Children(at, v)
<1>1. /\ at \in Nodes /\ at \in Templates /\ at[v] = Unset
      /\ Nodes' = Nodes \cup kids /\ kids \cap Nodes = {}
  BY SplitFacts DEF Leaves
<1>2. hit_configs' = Sections(hit_configs, at, v) /\ miss_configs' = Sections(miss_configs, at, v)
  BY DEF evaluate_split
<1>3. hit_configs[at] \in SUBSET Configs /\ miss_configs[at] \in SUBSET Configs
  BY <1>1 DEF IInv, Skeleton, TreeShape
<1>4. \A k \in kids : k[v] \in Values(v)
  BY <1>1, ChildIsTemplate DEF Children
<1>5. \A k \in kids : /\ Section(hit_configs[at], v, k[v]) = {c \in hit_configs[at] : c[v] = k[v]}
                     /\ Section(miss_configs[at], v, k[v]) = {c \in miss_configs[at] : c[v] = k[v]}
  BY <1>3, <1>4, SectionRight
<1> QED
  BY <1>1, <1>2, <1>5 DEF Sections

LEMMA SplitRuns ==
    ASSUME IInv, NEW v \in Vars, evaluate_split(v)
    PROVE  /\ Runs'
           /\ hit_configs' \in [Nodes' -> SUBSET Configs]
           /\ miss_configs' \in [Nodes' -> SUBSET Configs]
<1> DEFINE kids == Children(at, v)
<1>1. /\ at \in Nodes /\ at \in Templates /\ at[v] = Unset
      /\ Nodes' = Nodes \cup kids /\ kids \cap Nodes = {}
  BY SplitFacts DEF Leaves
<1>2. Root \in Nodes /\ frame = "evaluate" /\ frame' = frame
  BY DEF IInv, Skeleton, TreeShape, evaluate_split
<1>3. /\ hit_configs' = [n \in Nodes' |-> hit_configs'[n]]
      /\ miss_configs' = [n \in Nodes' |-> miss_configs'[n]]
  BY SectionsFit
<1>4. /\ \A n \in Nodes : hit_configs'[n] = hit_configs[n] /\ miss_configs'[n] = miss_configs[n]
      /\ \A k \in kids : /\ hit_configs'[k] = {c \in hit_configs[at] : c[v] = k[v]}
                        /\ miss_configs'[k] = {c \in miss_configs[at] : c[v] = k[v]}
  BY SectionsFit
<1>5. /\ hit_configs \in [Nodes -> SUBSET Configs] /\ miss_configs \in [Nodes -> SUBSET Configs]
  BY DEF IInv, Skeleton, TreeShape
<1>6. /\ hit_configs' \in [Nodes' -> SUBSET Configs] /\ miss_configs' \in [Nodes' -> SUBSET Configs]
  <2>1. \A n \in Nodes' : hit_configs'[n] \in SUBSET Configs /\ miss_configs'[n] \in SUBSET Configs
    BY <1>1, <1>4, <1>5
  <2> QED
    BY <1>3, <2>1
<1>7. \A k \in kids : \A c : Matches(c, k) <=> Matches(c, at) /\ c[v] = k[v]
  BY <1>1, ChildMatches, ChildIsTemplate DEF Children
<1>8. ASSUME NEW n \in Nodes'
      PROVE  /\ hit_configs'[n] = {c \in hit_configs[Root] : Matches(c, n)}
             /\ miss_configs'[n] = {c \in miss_configs[Root] : Matches(c, n)}
  <2>1. CASE n \in Nodes
    BY <1>4, <2>1 DEF IInv, Runs, NodesHoldTheirRuns
  <2>2. CASE n \in kids
    <3>1. /\ hit_configs[at] = {c \in hit_configs[Root] : Matches(c, at)}
          /\ miss_configs[at] = {c \in miss_configs[Root] : Matches(c, at)}
      BY <1>1 DEF IInv, Runs, NodesHoldTheirRuns
    <3>2. \A c : Matches(c, n) <=> Matches(c, at) /\ c[v] = n[v]
      BY <1>7, <2>2
    <3>3. /\ hit_configs'[n] = {c \in hit_configs[at] : c[v] = n[v]}
          /\ miss_configs'[n] = {c \in miss_configs[at] : c[v] = n[v]}
      BY <1>4, <2>2
    <3> QED
      BY <3>1, <3>2, <3>3
  <2> QED
    BY <1>1, <2>1, <2>2
<1>9. hit_configs'[Root] = hit_configs[Root] /\ miss_configs'[Root] = miss_configs[Root]
  BY <1>2, <1>4
<1>10. NodesHoldTheirRuns'
  BY <1>8, <1>9 DEF NodesHoldTheirRuns, Matches
<1>11. Disjoint'
  BY <1>2, <1>9 DEF IInv, Runs, Disjoint
<1> QED
  BY <1>6, <1>10, <1>11 DEF Runs

LEMMA SplitSkeleton ==
    ASSUME IInv, NEW v \in Vars, evaluate_split(v)
    PROVE  Skeleton' /\ Reached'
<1> DEFINE kids == Children(at, v)
<1>1. /\ at \in Leaves /\ at \in Nodes /\ at \in Templates /\ at[v] = Unset
      /\ Nodes' = Nodes \cup kids /\ kids \cap Nodes = {}
      /\ Leaves' = (Leaves \ {at}) \cup kids
      /\ Inner' = Inner \cup {at}
      /\ splitvar'[at] = v
      /\ \A n \in Inner : splitvar'[n] = splitvar[n]
      /\ \A k \in kids : k \in Templates /\ Below(k, at) /\ k # at
      /\ splitvar' \in [Nodes' -> Vars \cup {NoVar}]
  BY SplitFacts DEF Leaves
<1>2. /\ frame' = "evaluate" /\ frame = "evaluate" /\ at' = Child(at, v, 0) /\ at' \in kids
      /\ Root \in Nodes
  BY ValuesAreSet DEF evaluate_split, Children, IInv, Skeleton, TreeShape
<1>3. \A n \in Nodes : n \in Templates
  BY NodesAreTemplates DEF IInv, Skeleton
<1>4. \A m \in Nodes : Compatible(m, at) \/ Compatible(at, m) => Below(at, m)
  BY <1>1 DEF IInv, Skeleton, Laminar, LeavesAtBottom, Compatible
<1>5. \A k \in kids, m \in Nodes : Compatible(m, k) \/ Compatible(k, m) => Below(at, m) /\ Below(k, m)
  BY <1>1, <1>3, <1>4, ChildCompatible, BelowTrans DEF Children
<1>6. \A k, l \in kids : Compatible(k, l) => k = l
  <2> SUFFICES ASSUME NEW i \in Values(v), NEW j \in Values(v),
                      Compatible(Child(at, v, i), Child(at, v, j))
               PROVE  i = j
    BY DEF Children
  <2>1. Child(at, v, i)[v] = i /\ Child(at, v, j)[v] = j /\ i # Unset /\ j # Unset
    BY <1>1, ChildIsTemplate, ValuesAreSet
  <2> QED
    BY <2>1 DEF Compatible
<1>7. \A n : Below(n, n)
  BY DEF Below
<1>8. TreeShape'
  BY <1>1, <1>2, <1>3, SplitRuns DEF TreeShape
<1>9. Laminar'
  <2> SUFFICES ASSUME NEW m \in Nodes', NEW n \in Nodes', Compatible(m, n)
               PROVE  Below(m, n) \/ Below(n, m)
    BY DEF Laminar, Compatible, Below
  <2>1. CASE m \in Nodes /\ n \in Nodes
    BY <2>1 DEF IInv, Skeleton, Laminar
  <2>2. CASE m \in Nodes /\ n \in kids
    BY <1>5, <2>2
  <2>3. CASE m \in kids /\ n \in Nodes
    BY <1>5, <2>3
  <2>4. CASE m \in kids /\ n \in kids
    BY <1>6, <1>7, <2>4
  <2> QED
    BY <1>1, <2>1, <2>2, <2>3, <2>4
<1>10. LeavesAtBottom'
  <2> SUFFICES ASSUME NEW n \in Leaves', NEW m \in Nodes', Below(m, n)
               PROVE  m = n
    BY DEF LeavesAtBottom, Below
  <2>1. Compatible(m, n)
    BY <1>7, BelowCompatible
  <2>2. CASE n \in Leaves /\ n # at /\ m \in Nodes
    BY <2>2 DEF IInv, Skeleton, LeavesAtBottom
  <2>3. CASE n \in Leaves /\ n # at /\ m \in kids
    <3>1. n \in Nodes /\ Below(at, n)
      BY <1>5, <2>1, <2>3 DEF Leaves
    <3> QED
      BY <1>1, <2>3, <3>1 DEF IInv, Skeleton, LeavesAtBottom
  <2>4. CASE n \in kids /\ m \in Nodes
    <3>1. Below(n, m) /\ Below(at, m)
      BY <1>5, <2>1, <2>4
    <3>2. Below(m, at)
      BY <1>1, <2>4, BelowTrans
    <3>3. m = n
      BY <1>1, <1>3, <2>4, <3>1, BelowBoth
    <3> QED
      BY <3>3
  <2>5. CASE n \in kids /\ m \in kids
    BY <1>6, <2>1, <2>5
  <2> QED
    BY <1>1, <2>2, <2>3, <2>4, <2>5
<1>11. HasChildren'
  BY <1>1 DEF IInv, Skeleton, HasChildren, Children, Child
<1>12. BelowSplit'
  <2> SUFFICES ASSUME NEW m \in Inner', NEW n \in Nodes', Below(n, m), n # m
               PROVE  n[splitvar'[m]] # Unset
    BY DEF BelowSplit, Below
  <2>1. CASE m \in Inner /\ n \in Nodes
    BY <1>1, <2>1 DEF IInv, Skeleton, BelowSplit
  <2>2. CASE m \in Inner /\ n \in kids
    <3>1. m \in Nodes /\ m # at
      BY <1>1, <2>2 DEF Inner, Leaves
    <3>2. Compatible(n, m)
      BY <1>7, BelowCompatible
    <3>3. Below(at, m)
      BY <1>5, <2>2, <3>1, <3>2
    <3>4. at[splitvar[m]] # Unset /\ splitvar[m] \in Vars
      BY <1>1, <2>2, <3>1, <3>3, NodesAreTemplates DEF IInv, Skeleton, BelowSplit
    <3>5. n[splitvar[m]] # Unset
      BY <1>1, <2>2, <3>4 DEF Below
    <3> QED
      BY <1>1, <2>2, <3>5
  <2>3. CASE m = at /\ n \in Nodes
    BY <1>1, <2>3 DEF IInv, Skeleton, LeavesAtBottom
  <2>4. CASE m = at /\ n \in kids
    <3>1. PICK i \in Values(v) : n = Child(at, v, i)
      BY <2>4 DEF Children
    <3>2. n[v] = i /\ i # Unset
      BY <1>1, <3>1, ChildIsTemplate, ValuesAreSet
    <3> QED
      BY <1>1, <2>4, <3>2
  <2> QED
    BY <1>1, <2>1, <2>2, <2>3, <2>4
<1>13. Reached'
  <2> SUFFICES ASSUME NEW c \in Configs PROVE \E n \in Leaves' : Matches(c, n)
    BY DEF Reached, Matches
  <2>1. PICK n \in Leaves : Matches(c, n)
    BY <1>2 DEF IInv, Reached
  <2>2. CASE n # at
    BY <1>1, <2>1, <2>2
  <2>3. CASE n = at
    <3>1. c[v] \in Values(v)
      BY ConfigValue
    <3>2. Matches(c, Child(at, v, c[v]))
      BY <1>1, <2>1, <2>3, <3>1, ChildMatches
    <3>3. Child(at, v, c[v]) \in kids
      BY <3>1 DEF Children
    <3> QED
      BY <1>1, <3>2, <3>3
  <2> QED
    BY <2>2, <2>3
<1> QED
  BY <1>8, <1>9, <1>10, <1>11, <1>12, <1>13 DEF Skeleton

(* The calls on the stack stay, the one on the node split joins them.      *)
(* What the call for the first child makes of the stack: the node that was *)
(* split is on it, and its children wait.                                  *)
SplitMoves(v) ==
    /\ \A m \in Inner : Below(at', m) \/ Below(at, m) =>
          /\ m # at /\ m # at' /\ Below(at, m) /\ Below(at', m)
          /\ at'[splitvar[m]] = at[splitvar[m]]
    /\ at'[v] = 0
    /\ \A p \in Nodes : p = at => Stacked(p)'
    /\ \A n \in Children(at, v) : Waits(n)'
    /\ \A n \in Nodes : Waits(n) /\ n # at => Waits(n)'

LEMMA SplitStack ==
    ASSUME IInv, NEW v \in Vars, evaluate_split(v)
    PROVE  SplitMoves(v)
<1> DEFINE kids == Children(at, v)
<1>1. /\ at \in Leaves /\ at \in Nodes /\ at \in Templates /\ at[v] = Unset
      /\ Nodes' = Nodes \cup kids /\ kids \cap Nodes = {}
      /\ Leaves' = (Leaves \ {at}) \cup kids
      /\ Inner' = Inner \cup {at}
      /\ splitvar'[at] = v
      /\ \A n \in Inner : splitvar'[n] = splitvar[n]
      /\ \A k \in kids : k \in Templates /\ Below(k, at) /\ k # at
  BY SplitFacts DEF Leaves
<1>2. /\ frame' = "evaluate" /\ frame = "evaluate" /\ at' = Child(at, v, 0) /\ at' \in kids
      /\ 0 \in Values(v)
  BY ValuesAreSet DEF evaluate_split, Children
<1>3. at'[v] = 0 /\ \A u \in Vars \ {v} : at'[u] = at[u]
  BY <1>1, <1>2, ChildIsTemplate
(* The nodes above the first child that have been split before.            *)
<1>4. ASSUME NEW m \in Inner, Below(at', m) \/ Below(at, m)
      PROVE  /\ m # at /\ m # at' /\ Below(at, m) /\ Below(at', m)
             /\ at'[splitvar[m]] = at[splitvar[m]]
  <2>1. m \in Nodes /\ m # at /\ m # at' /\ splitvar[m] \in Vars
    BY <1>1, <1>2, NodesAreTemplates DEF Inner, Leaves, IInv, Skeleton
  <2>2. Below(at, m)
    <3>1. CASE Below(at', m)
      <4>1. Compatible(at', m)
        BY <3>1, BelowCompatible DEF Below
      <4>2. Compatible(at, m)
        BY <1>1, <1>2, <2>1, <4>1, ChildCompatible, NodesAreTemplates DEF IInv, Skeleton
      <4> QED
        BY <1>1, <2>1, <4>2 DEF IInv, Skeleton, Laminar, LeavesAtBottom
    <3> QED
      BY <1>4, <3>1
  <2>3. Below(at', m)
    BY <1>1, <1>2, <2>2, BelowTrans
  <2>4. at[splitvar[m]] # Unset
    BY <1>1, <2>1, <2>2 DEF IInv, Skeleton, BelowSplit
  <2>5. splitvar[m] # v
    BY <1>1, <2>4
  <2> QED
    BY <1>3, <2>1, <2>2, <2>3, <2>5
<1> PICK p \in Nodes : p = at
  BY <1>1
<1>5. ASSUME NEW j \in Int
      PROVE  ToCome(p, j)' <=> j \in Values(v) /\ j > 0
  BY <1>1, <1>3 DEF ToCome, Values
<1>6. Stacked(p)'
  BY <1>1, <1>2 DEF Stacked, Below
<1>7. ASSUME NEW n \in kids PROVE Waits(n)'
  <2>1. PICK i \in Values(v) : n = Child(at, v, i)
    BY <1>7 DEF Children
  <2>2. CASE i = 0
    BY <1>2, <2>1, <2>2 DEF Waits
  <2>3. CASE i # 0
    <3>1. i \in Int /\ i > 0
      BY <2>3 DEF Values
    <3>2. ToCome(p, i)'
      BY <1>5, <3>1
    <3>3. p \in Nodes' /\ n = Child(p, splitvar'[p], i)
      BY <1>1, <2>1
    <3> QED
      BY <1>2, <1>6, <3>1, <3>2, <3>3 DEF Waits, Stacked, ToCome, Child, Below
  <2> QED
    BY <2>2, <2>3
<1>8. ASSUME NEW n \in Nodes, Waits(n), n # at PROVE Waits(n)'
  <2>1. PICK m \in Nodes, j \in Int : Stacked(m) /\ ToCome(m, j) /\ n = Child(m, splitvar[m], j)
    BY <1>8 DEF Waits
  <2>2. /\ m \in Inner /\ Below(at', m) /\ at' # m /\ splitvar'[m] = splitvar[m]
        /\ at'[splitvar[m]] = at[splitvar[m]]
    BY <1>1, <1>4, <2>1 DEF Stacked
  <2>3. m \in Nodes' /\ m \in Inner' /\ j \in Values(splitvar'[m]) /\ j > at'[splitvar'[m]]
    BY <1>1, <2>1, <2>2 DEF ToCome
  <2>4. Stacked(m)' /\ ToCome(m, j)' /\ n = Child(m, splitvar'[m], j)
    BY <2>1, <2>2, <2>3 DEF Stacked, ToCome, Below, Values
  <2> QED
    BY <1>2, <2>3, <2>4 DEF Waits, Stacked, ToCome, Child, Below
<1>9. \A q \in Nodes : q = at => Stacked(q)'
  BY <1>6
<1> QED
  BY <1>3, <1>4, <1>7, <1>8, <1>9 DEF SplitMoves

LEMMA SplitPending ==
    ASSUME IInv, NEW v \in Vars, evaluate_split(v)
    PROVE  Pending' /\ SplitUp'
<1> DEFINE kids == Children(at, v)
<1>1. /\ at \in Leaves /\ at \in Nodes /\ at \in Templates /\ at[v] = Unset
      /\ Nodes' = Nodes \cup kids /\ kids \cap Nodes = {}
      /\ Leaves' = (Leaves \ {at}) \cup kids
      /\ Inner' = Inner \cup {at}
      /\ splitvar'[at] = v
      /\ \A n \in Inner : splitvar'[n] = splitvar[n]
      /\ \A k \in kids : k \in Templates /\ Below(k, at) /\ k # at
  BY SplitFacts DEF Leaves
<1>2. /\ frame' = "evaluate" /\ frame = "evaluate" /\ at' = Child(at, v, 0) /\ at' \in kids
      /\ 0 \in Values(v)
  BY ValuesAreSet DEF evaluate_split, Children
<1>3. SplitMoves(v)
  BY SplitStack
<1>4. ASSUME NEW m \in Inner, Below(at', m) \/ Below(at, m)
      PROVE  /\ m # at /\ m # at' /\ Below(at, m) /\ Below(at', m)
             /\ at'[splitvar[m]] = at[splitvar[m]]
  BY <1>3, <1>4 DEF SplitMoves
<1> PICK p \in Nodes : p = at
  BY <1>1
<1>5. ASSUME NEW j \in Int
      PROVE  ToCome(p, j)' <=> j \in Values(v) /\ j > 0
  BY <1>1, <1>3 DEF SplitMoves, ToCome, Values
<1>7. Pending'
  <2> SUFFICES ASSUME NEW m \in Nodes', Stacked(m)', NEW j \in Int, ToCome(m, j)'
               PROVE  Child(m, splitvar'[m], j) \in Leaves'
    BY <1>1, <1>2 DEF Pending, Child
  <2>1. m \in Inner' /\ Below(at', m)
    BY DEF Stacked, Below
  <2>2. CASE m = at
    <3>1. j \in Values(v) /\ splitvar'[m] = v
      BY <1>1, <1>5, <2>2
    <3> QED
      BY <1>1, <2>2, <3>1 DEF Children
  <2>3. CASE m \in Inner
    <3>1. /\ Below(at, m) /\ m # at /\ splitvar'[m] = splitvar[m]
          /\ at'[splitvar[m]] = at[splitvar[m]]
      BY <1>1, <1>4, <2>1, <2>3
    <3>2. Stacked(m) /\ ToCome(m, j) /\ m \in Nodes
      BY <2>3, <3>1 DEF Stacked, ToCome, Values, Inner
    <3>3. Child(m, splitvar[m], j) \in Leaves
      BY <1>2, <3>2 DEF IInv, Pending
    <3>4. Child(m, splitvar[m], j) # at
      <4>1. m \in Templates /\ splitvar[m] \in Vars
        BY <2>3, NodesAreTemplates DEF IInv, Skeleton
      <4>2. j \in Values(splitvar[m]) /\ j > at[splitvar[m]]
        BY <3>2 DEF ToCome
      <4>3. Child(m, splitvar[m], j)[splitvar[m]] = j
        BY <4>1, <4>2, ChildIsTemplate
      <4>4. at[splitvar[m]] \in Int
        BY <1>1, <4>1 DEF Templates, Values, Unset
      <4> QED
        BY <4>2, <4>3, <4>4
    <3> QED
      BY <1>1, <3>1, <3>3, <3>4
  <2> QED
    BY <1>1, <2>1, <2>2, <2>3
<1>8. SplitUp'
  <2> SUFFICES ASSUME NEW n \in Leaves' PROVE is_leaf(n)' \/ Waits(n)'
    BY DEF SplitUp
  <2>1. CASE n \in kids
    BY <1>3, <2>1 DEF SplitMoves
  <2>2. CASE n \in Leaves /\ n # at
    <3>1. n \in Nodes /\ n \notin kids
      BY <1>1, <2>2 DEF Leaves
    <3>2. CASE is_leaf(n)
      <4>1. hit_configs'[n] = hit_configs[n] /\ miss_configs'[n] = miss_configs[n]
        BY <3>1, SectionsFit
      <4> QED
        BY <3>2, <4>1 DEF is_leaf
    <3>3. CASE ~is_leaf(n)
      BY <1>3, <2>2, <3>1, <3>3 DEF SplitMoves, IInv, SplitUp
    <3> QED
      BY <3>2, <3>3
  <2> QED
    BY <1>1, <2>1, <2>2
<1> QED
  BY <1>7, <1>8

------------------------------------------------------------------------------
(* The steps that leave the tree as it is.                                 *)

LEMMA SameTree ==
    ASSUME IInv, UNCHANGED <<hit_configs, miss_configs, splitvar>>,
           frame # "none", frame' \in {"evaluate", "return", "climb", "built"}, at' \in Nodes
    PROVE  Skeleton' /\ Reached' /\ Runs'
<1>1. Nodes' = Nodes /\ Inner' = Inner /\ Leaves' = Leaves
  BY DEF Nodes, Inner, Leaves
<1>2. TreeShape'
  BY <1>1 DEF IInv, Skeleton, TreeShape
<1>3. Laminar' /\ LeavesAtBottom'
  BY <1>1 DEF IInv, Skeleton, Laminar, LeavesAtBottom
<1>4. HasChildren' /\ BelowSplit'
  BY <1>1 DEF IInv, Skeleton, HasChildren, BelowSplit
<1>5. Reached' /\ Disjoint'
  BY <1>1 DEF IInv, Runs, Reached, Disjoint
<1>6. NodesHoldTheirRuns'
  BY <1>1 DEF IInv, Runs, NodesHoldTheirRuns
<1> QED
  BY <1>2, <1>3, <1>4, <1>5, <1>6 DEF Skeleton, Runs

LEMMA RootDone == Skeleton /\ at = Root => \A m : ~Stacked(m)
BY NoneAboveRoot DEF Stacked

LEMMA LeafInv ==
    ASSUME IInv, evaluate_leaf
    PROVE  IInv'
<1>1. /\ frame = "evaluate" /\ is_leaf(at) /\ at' = at
      /\ frame' = (IF at = Root THEN "built" ELSE "return")
      /\ UNCHANGED <<hit_configs, miss_configs, splitvar>>
  BY DEF evaluate_leaf, Returns
<1>2. at \in Nodes
  BY <1>1 DEF IInv, Skeleton, TreeShape
<1>3. Skeleton' /\ Reached' /\ Runs'
  BY <1>1, <1>2, SameTree
<1>4. /\ Nodes' = Nodes /\ Leaves' = Leaves
      /\ \A m : Stacked(m)' <=> Stacked(m)
      /\ \A m, j : ToCome(m, j)' <=> ToCome(m, j)
      /\ \A n : is_leaf(n)' <=> is_leaf(n)
  BY <1>1 DEF Nodes, Leaves, Stacked, Inner, ToCome, is_leaf
<1>5. Pending'
  BY <1>1, <1>4 DEF IInv, Pending
<1>6. SplitUp'
  <2> SUFFICES ASSUME NEW n \in Leaves, ~is_leaf(n) PROVE Waits(n)'
    BY <1>4 DEF SplitUp
  <2>1. PICK m \in Nodes, j \in Int : Stacked(m) /\ ToCome(m, j) /\ n = Child(m, splitvar[m], j)
    BY <1>1 DEF IInv, SplitUp, Waits
  <2>2. at # Root
    BY <2>1, RootDone DEF IInv
  <2>3. frame' = "return"
    BY <1>1, <2>2
  <2>4. Stacked(m)' /\ ToCome(m, j)' /\ splitvar' = splitvar
    BY <1>1, <1>4, <2>1
  <2> QED
    BY <1>4, <2>1, <2>3, <2>4 DEF Waits
<1> QED
  BY <1>3, <1>5, <1>6 DEF IInv

(* The call for a child returns.                                           *)
ReturnMoves(p) ==
    LET v == splitvar[p]
        k == at[v]
    IN  /\ p \in Inner /\ p \in Templates /\ v \in Vars /\ p[v] = Unset
        /\ k \in Values(v) /\ k \in Int /\ at = Child(p, v, k) /\ Stacked(p)
        /\ \A m \in Inner : m # p =>
              /\ Stacked(m) <=> Stacked(m)'
              /\ Stacked(m) => at[splitvar[m]] = at'[splitvar[m]]
        /\ k + 1 \in Values(v) => at'[v] = k + 1 /\ Stacked(p)'
        /\ k + 1 \notin Values(v) => ~Stacked(p)' /\ \A j \in Int : ~ToCome(p, j)
        /\ \A n \in Nodes : Waits(n) => Waits(n)'

LEMMA ReturnStack ==
    ASSUME IInv, NEW p \in Nodes, evaluate_return(p)
    PROVE  ReturnMoves(p)
<1> DEFINE v == splitvar[p]
           k == at[v]
           More == k + 1 \in Values(v)
<1>1. /\ frame = "return" /\ p \in Inner /\ at \in Children(p, v)
      /\ UNCHANGED <<hit_configs, miss_configs, splitvar>>
      /\ More => at' = Child(p, v, k + 1) /\ frame' = "evaluate"
      /\ ~More => at' = p /\ frame' = (IF p = Root THEN "built" ELSE "return")
  BY DEF evaluate_return, Returns
<1>2. /\ p \in Templates /\ v \in Vars /\ p[v] = Unset /\ Children(p, v) \subseteq Nodes
  BY <1>1, NodesAreTemplates DEF IInv, Skeleton, HasChildren
<1>3. k \in Values(v) /\ k \in Int /\ at = Child(p, v, k)
  <2>1. PICK i \in Values(v) : at = Child(p, v, i)
    BY <1>1 DEF Children
  <2>2. at[v] = i
    BY <1>2, <2>1, ChildIsTemplate
  <2> QED
    BY <2>1, <2>2 DEF Values
<1>4. at' \in Nodes
  BY <1>1, <1>2 DEF Children
<1>5. Skeleton' /\ Reached' /\ Runs'
  BY <1>1, <1>4, SameTree
<1>6. /\ Nodes' = Nodes /\ Leaves' = Leaves /\ Inner' = Inner
      /\ \A n : is_leaf(n)' <=> is_leaf(n)
  BY <1>1 DEF Nodes, Leaves, Inner, is_leaf
<1>7. Stacked(p)
  BY <1>1, <1>2, <1>3, ChildBelow DEF Stacked
(* The nodes above p were and are on the stack.                            *)
<1>8. ASSUME NEW m \in Inner, Below(p, m), m # p
      PROVE  /\ Stacked(m) /\ Stacked(m)'
             /\ at[splitvar[m]] = p[splitvar[m]] /\ at'[splitvar[m]] = p[splitvar[m]]
  <2>1. m \in Nodes /\ m \in Templates /\ splitvar[m] \in Vars /\ p[splitvar[m]] # Unset
    BY <1>8, NodesAreTemplates DEF IInv, Skeleton, BelowSplit
  <2>2. splitvar[m] # v
    BY <1>2, <2>1
  <2>3. ASSUME NEW i \in Values(v)
        PROVE  /\ Below(Child(p, v, i), m) /\ Child(p, v, i) # m
               /\ Child(p, v, i)[splitvar[m]] = p[splitvar[m]]
    <3>1. Below(Child(p, v, i), p) /\ Child(p, v, i) # p
      BY <1>2, ChildBelow
    <3>2. Below(Child(p, v, i), m)
      BY <1>8, <3>1, BelowTrans
    <3>3. Child(p, v, i) # m
      BY <1>2, <1>8, <2>1, <3>1, BelowBoth
    <3>4. Child(p, v, i)[splitvar[m]] = p[splitvar[m]]
      BY <1>2, <2>1, <2>2, ChildIsTemplate
    <3> QED
      BY <3>2, <3>3, <3>4
  <2>4. Stacked(m) /\ at[splitvar[m]] = p[splitvar[m]]
    BY <1>3, <2>3 DEF Stacked
  <2>5. /\ Below(at', m) /\ at' # m /\ at'[splitvar[m]] = p[splitvar[m]]
    BY <1>1, <1>8, <2>3
  <2>6. Stacked(m)'
    BY <1>6, <2>5 DEF Stacked, Below
  <2> QED
    BY <2>4, <2>5, <2>6
(* No others are.                                                          *)
<1>9. ASSUME NEW m \in Inner, Stacked(m) \/ Stacked(m)', m # p
      PROVE  Below(p, m)
  <2>1. CASE Stacked(m)
    BY <1>1, <1>9, <2>1, AboveChild DEF Stacked, IInv
  <2>2. CASE Stacked(m)'
    <3>1. Below(at', m) /\ at' # m
      BY <2>2 DEF Stacked, Below
    <3>2. CASE More
      <4>1. at' \in Children(p, v)
        BY <1>1, <3>2 DEF Children
      <4> QED
        BY <1>1, <1>9, <3>1, <4>1, AboveChild DEF IInv
    <3>3. CASE ~More
      BY <1>1, <3>1, <3>3
    <3> QED
      BY <3>2, <3>3
  <2> QED
    BY <1>9, <2>1, <2>2
<1>10. ASSUME NEW m \in Inner, m # p, NEW j \in Int
       PROVE  /\ Stacked(m) <=> Stacked(m)'
              /\ Stacked(m) => (ToCome(m, j) <=> ToCome(m, j)')
  <2>1. Stacked(m) <=> Stacked(m)'
    BY <1>8, <1>9, <1>10
  <2>2. Stacked(m) => at[splitvar[m]] = at'[splitvar[m]]
    BY <1>8, <1>9, <1>10
  <2>3. splitvar'[m] = splitvar[m]
    BY <1>1
  <2> QED
    BY <2>1, <2>2, <2>3 DEF ToCome, Values
<1>11. More => at'[v] = k + 1 /\ Stacked(p)'
  <2> SUFFICES ASSUME More PROVE at'[v] = k + 1 /\ Stacked(p)'
    OBVIOUS
  <2>1. at' = Child(p, v, k + 1) /\ at'[v] = k + 1 /\ Below(at', p) /\ at' # p
    BY <1>1, <1>2, ChildIsTemplate, ChildBelow
  <2> QED
    BY <1>1, <1>6, <2>1 DEF Stacked, Below
<1>12. ~More => ~Stacked(p)' /\ \A j \in Int : ~ToCome(p, j)
  <2>1. ~More => ~Stacked(p)'
    BY <1>1 DEF Stacked
  <2>2. NValues[v] \in Nat
    BY <1>2, OptionsAssumption
  <2>3. ~More => \A j \in Int : ~ToCome(p, j)
    BY <1>3, <2>2 DEF ToCome, Values
  <2> QED
    BY <2>1, <2>3
<1>13. ASSUME NEW n \in Nodes, Waits(n) PROVE Waits(n)'
  <2>1. PICK m \in Nodes, j \in Int : Stacked(m) /\ ToCome(m, j) /\ n = Child(m, splitvar[m], j)
    BY <1>1, <1>13 DEF Waits
  <2>2. m \in Inner /\ splitvar' = splitvar
    BY <1>1, <2>1 DEF Stacked
  <2>3. CASE m = p
    <3>1. More
      BY <1>12, <2>1, <2>3
    <3>2. j \in Values(v) /\ j > k
      BY <2>1, <2>3 DEF ToCome
    <3>3. CASE j = k + 1
      BY <1>1, <2>1, <2>3, <3>1, <3>3 DEF Waits
    <3>4. CASE j # k + 1
      <4>1. j > k + 1
        BY <1>3, <3>2, <3>4
      <4>2. ToCome(p, j)' /\ Stacked(p)'
        BY <1>1, <1>11, <3>1, <3>2, <4>1 DEF ToCome, Values
      <4> QED
        BY <1>1, <1>6, <2>1, <2>2, <2>3, <3>1, <4>2 DEF Waits
    <3> QED
      BY <3>3, <3>4
  <2>4. CASE m # p
    <3>1. Stacked(m)' /\ ToCome(m, j)'
      BY <1>10, <2>1, <2>2, <2>4
    <3>2. Below(p, m)
      BY <1>9, <2>1, <2>2, <2>4
    <3>3. p # Root
      BY <2>2, <2>4, <3>2, NoneAboveRoot DEF IInv
    <3>4. frame' \in {"evaluate", "return"}
      BY <1>1, <3>3
    <3> QED
      BY <1>6, <2>1, <2>2, <3>1, <3>4 DEF Waits
  <2> QED
    BY <2>3, <2>4
<1>14. ASSUME NEW m \in Inner, m # p
       PROVE  /\ Stacked(m) <=> Stacked(m)'
              /\ Stacked(m) => at[splitvar[m]] = at'[splitvar[m]]
  BY <1>8, <1>9, <1>14
<1> QED
  BY <1>1, <1>2, <1>3, <1>7, <1>11, <1>12, <1>13, <1>14 DEF ReturnMoves

LEMMA ReturnInv ==
    ASSUME IInv, NEW p \in Nodes, evaluate_return(p)
    PROVE  IInv'
<1> DEFINE v == splitvar[p]
           k == at[v]
           More == k + 1 \in Values(v)
<1>1. /\ frame = "return" /\ p \in Inner /\ at \in Children(p, v)
      /\ UNCHANGED <<hit_configs, miss_configs, splitvar>>
      /\ More => at' = Child(p, v, k + 1) /\ frame' = "evaluate"
      /\ ~More => at' = p /\ frame' = (IF p = Root THEN "built" ELSE "return")
  BY DEF evaluate_return, Returns
<1>2. Children(p, v) \subseteq Nodes
  BY <1>1 DEF IInv, Skeleton, HasChildren
<1>0. ReturnMoves(p)
  BY ReturnStack
<1>3. k \in Values(v) /\ k \in Int /\ at = Child(p, v, k)
  BY <1>0 DEF ReturnMoves
<1>4. at' \in Nodes
  BY <1>1, <1>2 DEF Children
<1>5. Skeleton' /\ Reached' /\ Runs'
  BY <1>1, <1>4, SameTree
<1>6. /\ Nodes' = Nodes /\ Leaves' = Leaves /\ Inner' = Inner
      /\ \A n : is_leaf(n)' <=> is_leaf(n)
  BY <1>1 DEF Nodes, Leaves, Inner, is_leaf
<1>7. Stacked(p)
  BY <1>0 DEF ReturnMoves
<1>10. ASSUME NEW m \in Inner, m # p, NEW j \in Int
       PROVE  /\ Stacked(m) <=> Stacked(m)'
              /\ Stacked(m) => (ToCome(m, j) <=> ToCome(m, j)')
  <2>1. /\ Stacked(m) <=> Stacked(m)'
        /\ Stacked(m) => at[splitvar[m]] = at'[splitvar[m]]
    BY <1>0, <1>10 DEF ReturnMoves
  <2>3. splitvar'[m] = splitvar[m]
    BY <1>1
  <2> QED
    BY <2>1, <2>3 DEF ToCome, Values
<1>11. More => at'[v] = k + 1 /\ Stacked(p)'
  BY <1>0 DEF ReturnMoves
<1>12. ~More => ~Stacked(p)' /\ \A j \in Int : ~ToCome(p, j)
  BY <1>0 DEF ReturnMoves
<1>13. Pending'
  <2>1. frame' = "evaluate" => at' \in Leaves
    <3> SUFFICES ASSUME More PROVE at' \in Leaves
      BY <1>1
    <3>1. ToCome(p, k + 1) /\ k + 1 \in Int
      BY <1>3 DEF ToCome
    <3> QED
      BY <1>1, <1>7, <3>1 DEF IInv, Pending
  <2>2. ASSUME NEW m \in Nodes, Stacked(m)', NEW j \in Int, ToCome(m, j)'
        PROVE  Child(m, splitvar[m], j) \in Leaves
    <3>1. m \in Inner
      BY <1>6, <2>2 DEF Stacked
    <3>2. CASE m = p
      <4>1. More /\ at'[v] = k + 1
        BY <1>11, <1>12, <2>2, <3>2
      <4>2. j \in Values(v) /\ j > k
        BY <1>1, <1>3, <2>2, <3>2, <4>1 DEF ToCome, Values
      <4>3. ToCome(p, j)
        BY <4>2 DEF ToCome
      <4> QED
        BY <1>1, <1>7, <3>2, <4>3 DEF IInv, Pending
    <3>3. CASE m # p
      BY <1>1, <1>10, <2>2, <3>1, <3>3 DEF IInv, Pending
    <3> QED
      BY <3>2, <3>3
  <2> QED
    BY <1>1, <1>6, <2>1, <2>2 DEF Pending
<1>14. SplitUp'
  BY <1>0, <1>1, <1>6 DEF ReturnMoves, IInv, SplitUp, Leaves
<1> QED
  BY <1>5, <1>13, <1>14 DEF IInv

(* Later runs are counted in a finished tree.                              *)
LEMMA AddInv ==
    ASSUME IInv,
           \/ \E c \in Configs, val \in BOOLEAN : test_add_config(c, val)
           \/ climbing
    PROVE  IInv'
<1>1. /\ frame \in {"built", "climb"} /\ frame' \in {"built", "climb"}
      /\ UNCHANGED <<hit_configs, miss_configs, splitvar>>
      /\ at' \in Nodes
  BY DEF test_add_config, climbing, test_add_return, Climbs, Leaves
<1>2. Skeleton' /\ Reached' /\ Runs'
  BY <1>1, SameTree
<1>3. Pending'
  BY <1>1 DEF Pending
<1>4. SplitUp'
  <2>1. Leaves' = Leaves /\ \A n : is_leaf(n)' <=> is_leaf(n)
    BY <1>1 DEF Leaves, Nodes, is_leaf
  <2> QED
    BY <1>1, <2>1 DEF IInv, SplitUp, Waits
<1> QED
  BY <1>2, <1>3, <1>4 DEF IInv

LEMMA NextInv == IInv /\ [Next]_tree => IInv'
<1> SUFFICES ASSUME IInv, [Next]_tree PROVE IInv'
  OBVIOUS
<1>1. CASE \E hits \in SUBSET Configs : \E misses \in SUBSET (Configs \ hits) : build_tree(hits, misses)
  BY <1>1, BuildInv
<1>2. CASE evaluate_leaf
  BY <1>2, LeafInv
<1>3. CASE \E v \in Vars : evaluate_split(v)
  BY <1>3, SplitSkeleton, SplitRuns, SplitPending DEF IInv
<1>4. CASE \E p \in Nodes : evaluate_return(p)
  BY <1>4, ReturnInv
<1>5. CASE (\E c \in Configs, val \in BOOLEAN : test_add_config(c, val)) \/ climbing
  BY <1>5, AddInv
<1>6. CASE UNCHANGED tree
  <2> USE <1>6 DEF tree
  <2>1. Nodes' = Nodes /\ Leaves' = Leaves /\ Inner' = Inner
    BY DEF Nodes, Leaves, Inner
  <2>2. Skeleton' /\ Reached' /\ Runs'
    BY <2>1 DEF IInv, Skeleton, TreeShape, Laminar, LeavesAtBottom, HasChildren, BelowSplit,
                Reached, Runs, NodesHoldTheirRuns, Disjoint
  <2>3. Pending' /\ SplitUp'
    BY <2>1 DEF IInv, Pending, SplitUp, Stacked, ToCome, Waits, is_leaf
  <2> QED
    BY <2>2, <2>3 DEF IInv
<1> QED
  BY <1>1, <1>2, <1>3, <1>4, <1>5, <1>6 DEF Next, evaluating

------------------------------------------------------------------------------
(* The types, and why a node has been split.                               *)

InnerMixed == \A n \in Inner : ~is_leaf(n)

Fields ==
    /\ min_cases \in [Nodes -> Nat] /\ new_configs \in [Nodes -> SUBSET Configs]
    /\ default_hit \in BOOLEAN /\ at \in Templates

LEMMA FieldsType == IInv /\ Fields => TypeOK
BY DEF IInv, Skeleton, TreeShape, Fields, TypeOK

LEMMA RunsFinite ==
    ASSUME IInv, NEW n \in Nodes
    PROVE  /\ IsFiniteSet(hit_configs[n]) /\ IsFiniteSet(miss_configs[n])
           /\ n_total(n) \in Nat
<1>1. hit_configs[n] \subseteq Configs /\ miss_configs[n] \subseteq Configs
  BY DEF IInv, Skeleton, TreeShape
<1>2. IsFiniteSet(hit_configs[n]) /\ IsFiniteSet(miss_configs[n])
  BY <1>1, ConfigsFinite, FS_Subset
<1> QED
  BY <1>2, FS_CardinalityType DEF n_total

LEMMA FieldsInit == Init => Fields /\ InnerMixed
<1> SUFFICES ASSUME Init PROVE Fields /\ InnerMixed
  OBVIOUS
<1>1. Nodes = {} /\ Inner = {}
  BY DEF Init, Nodes, Inner
<1> QED
  BY <1>1, RootIsTemplate DEF Init, Fields, InnerMixed

LEMMA FieldsNext == IInv /\ Fields /\ InnerMixed /\ [Next]_tree => Fields' /\ InnerMixed'
<1> SUFFICES ASSUME IInv, Fields, InnerMixed, [Next]_tree PROVE Fields' /\ InnerMixed'
  OBVIOUS
<1>0. /\ min_cases \in [Nodes -> Nat] /\ new_configs \in [Nodes -> SUBSET Configs]
      /\ default_hit \in BOOLEAN /\ at \in Templates
      /\ \A n \in Nodes : n \in Templates
  BY NodesAreTemplates DEF Fields, IInv, Skeleton
<1>a. MaxInt \in Nat
  BY DEF MaxInt
<1>b. ASSUME UNCHANGED <<hit_configs, miss_configs, splitvar>> PROVE Nodes' = Nodes /\ InnerMixed'
  BY <1>b DEF InnerMixed, Inner, Nodes, is_leaf
<1>1. CASE \E hits \in SUBSET Configs : \E misses \in SUBSET (Configs \ hits) : build_tree(hits, misses)
  <2>1. /\ splitvar' = [n \in {Root} |-> NoVar] /\ min_cases' = [n \in {Root} |-> MaxInt]
        /\ new_configs' = [n \in {Root} |-> {}] /\ default_hit' \in BOOLEAN /\ at' = Root
    BY <1>1 DEF build_tree
  <2>2. Nodes' = {Root} /\ Inner' = {}
    BY <2>1 DEF Nodes, Inner
  <2> QED
    BY <1>a, <2>1, <2>2, RootIsTemplate DEF Fields, InnerMixed
<1>2. CASE evaluate_leaf
  <2>1. at \in Nodes
    BY <1>2 DEF evaluate_leaf, IInv, Skeleton, TreeShape
  <2>2. n_total(at) \in Nat
    BY <2>1, RunsFinite
  <2>3. /\ min_cases' = [min_cases EXCEPT ![at] = n_total(at)]
        /\ UNCHANGED <<hit_configs, miss_configs, splitvar, new_configs, default_hit, at>>
    BY <1>2 DEF evaluate_leaf
  <2> QED
    BY <1>0, <1>b, <2>2, <2>3 DEF Fields
<1>3. CASE \E v \in Vars : evaluate_split(v)
  <2>1. PICK v \in Vars : evaluate_split(v)
    BY <1>3
  <2> DEFINE kids == Children(at, v)
  <2>2. /\ at \in Nodes /\ at[v] = Unset /\ Nodes' = Nodes \cup kids /\ kids \cap Nodes = {}
        /\ Inner' = Inner \cup {at} /\ \A k \in kids : k \in Templates
        /\ Inner \subseteq Nodes
    BY <2>1, SplitFacts DEF Leaves, Inner
  <2>3. at' \in Templates
    <3>1. at' = Child(at, v, 0) /\ 0 \in Values(v)
      BY <2>1, ValuesAreSet DEF evaluate_split
    <3> QED
      BY <2>2, <3>1 DEF Children
  <2>4. /\ min_cases' = [NewChildren(min_cases, at, v, MaxInt) EXCEPT ![at] = MaxInt]
        /\ new_configs' = NewChildren(new_configs, at, v, {}) /\ default_hit' = default_hit
        /\ ~is_leaf(at)
    BY <2>1 DEF evaluate_split
  <2>5. min_cases' \in [Nodes' -> Nat]
    <3>1. NewChildren(min_cases, at, v, MaxInt) \in [Nodes \cup kids -> Nat]
      BY <1>0, <1>a DEF NewChildren
    <3> QED
      BY <1>a, <2>2, <2>4, <3>1
  <2>6. new_configs' \in [Nodes' -> SUBSET Configs]
    BY <1>0, <2>2, <2>4 DEF NewChildren
  <2>7. \A n \in Nodes : hit_configs'[n] = hit_configs[n] /\ miss_configs'[n] = miss_configs[n]
    BY <2>1, SectionsFit
  <2>8. InnerMixed'
    BY <2>2, <2>4, <2>7 DEF InnerMixed, is_leaf
  <2> QED
    BY <1>0, <2>3, <2>4, <2>5, <2>6, <2>8 DEF Fields
<1>4. CASE \E p \in Nodes : evaluate_return(p)
  <2>1. PICK p \in Nodes : evaluate_return(p)
    BY <1>4
  <2> DEFINE v == splitvar[p]
  <2>2. /\ p \in Inner /\ at \in Children(p, v)
        /\ min_cases' = [min_cases EXCEPT ![p] = IF min_cases[at] < @ THEN min_cases[at] ELSE @]
        /\ at' = p \/ (at[v] + 1 \in Values(v) /\ at' = Child(p, v, at[v] + 1))
        /\ UNCHANGED <<hit_configs, miss_configs, splitvar, new_configs, default_hit>>
    BY <2>1 DEF evaluate_return
  <2>3. v \in Vars /\ Children(p, v) \subseteq Nodes
    BY <2>2, NodesAreTemplates DEF IInv, Skeleton, HasChildren
  <2>4. at' \in Templates
    BY <1>0, <2>2, <2>3 DEF Children
  <2>5. min_cases[at] \in Nat /\ min_cases[p] \in Nat
    BY <1>0, <2>2, <2>3
  <2>6. min_cases' \in [Nodes -> Nat]
    BY <1>0, <2>2, <2>5
  <2> QED
    BY <1>0, <1>b, <2>2, <2>4, <2>6 DEF Fields
<1>5. CASE \E c \in Configs, val \in BOOLEAN : test_add_config(c, val)
  <2>1. PICK c \in Configs, val \in BOOLEAN : test_add_config(c, val)
    BY <1>5
  <2>2. PICK n \in Leaves :
          /\ IF leaf_value(n) = val
             THEN /\ min_cases' = [min_cases EXCEPT ![n] = @ + 1]
                  /\ new_configs' = [new_configs EXCEPT ![n] = @ \cup {c}]
             ELSE UNCHANGED <<min_cases, new_configs>>
          /\ at' = n
    BY <2>1 DEF test_add_config
  <2>3. n \in Nodes /\ UNCHANGED <<hit_configs, miss_configs, splitvar, default_hit>>
    BY <2>1 DEF test_add_config, Leaves
  <2>4. min_cases' \in [Nodes -> Nat] /\ new_configs' \in [Nodes -> SUBSET Configs]
    <3>1. min_cases[n] + 1 \in Nat /\ new_configs[n] \cup {c} \in SUBSET Configs
      BY <1>0, <2>3
    <3> QED
      BY <1>0, <2>2, <3>1
  <2> QED
    BY <1>0, <1>b, <2>2, <2>3, <2>4 DEF Fields
<1>6. CASE climbing
  <2>1. PICK p \in Nodes : test_add_return(p)
    BY <1>6 DEF climbing
  <2>2. /\ p \in Inner /\ at' = p
        /\ \E m \in {min_cases[n] : n \in Children(p, splitvar[p])} :
              min_cases' = [min_cases EXCEPT ![p] = m]
        /\ UNCHANGED <<hit_configs, miss_configs, splitvar, new_configs, default_hit>>
    BY <2>1 DEF test_add_return
  <2>3. Children(p, splitvar[p]) \subseteq Nodes
    BY <2>2 DEF IInv, Skeleton, HasChildren
  <2>4. min_cases' \in [Nodes -> Nat]
    BY <1>0, <2>2, <2>3
  <2> QED
    BY <1>0, <1>b, <2>2, <2>4 DEF Fields
<1>7. CASE UNCHANGED tree
  BY <1>0, <1>7, <1>b DEF tree, Fields
<1> QED
  BY <1>1, <1>2, <1>3, <1>4, <1>5, <1>6, <1>7 DEF Next, evaluating

------------------------------------------------------------------------------
(* Whatever tree is built, and however far it is built, its leaves divide  *)
(* the configurations, and the runs it is built from, among them           *)
(* (create_childs, test_config).                                           *)
THEOREM Partition == Spec => []TreePartition
<1>1. IInv => TreePartition
  <2> SUFFICES ASSUME IInv PROVE TreePartition
    OBVIOUS
  <2>1. NodesHoldTheirRuns
    BY DEF IInv, Runs
  <2>2. OneLeafEach
    BY OneLeaf DEF IInv, Reached, OneLeafEach
  <2> QED
    BY <2>1, <2>2 DEF TreePartition
<1> QED
  BY InitInv, NextInv, <1>1, PTL DEF Spec

(* CHECK_NE(splitvar, -1) in evaluate_split never fails: two runs that end *)
(* in one node and differ in the result differ in an option not yet tested.*)
THEOREM SplitExists == Spec => []CanSplit
<1>1. IInv => CanSplit
  <2> SUFFICES ASSUME IInv, frame = "evaluate", ~is_leaf(at), \A v \in Vars : at[v] # Unset
               PROVE  FALSE
    BY DEF CanSplit
  <2>1. at \in Nodes /\ Root \in Nodes
    BY DEF IInv, Skeleton, TreeShape
  <2>2. PICK c \in hit_configs[at], d \in miss_configs[at] : TRUE
    BY DEF is_leaf
  <2>3. /\ c \in hit_configs[Root] /\ d \in miss_configs[Root]
        /\ Matches(c, at) /\ Matches(d, at)
    BY <2>1, <2>2 DEF IInv, Runs, NodesHoldTheirRuns
  <2>4. c \in Configs /\ d \in Configs
    BY <2>1, <2>3 DEF IInv, Skeleton, TreeShape
  <2>5. \A u \in Vars : c[u] = d[u]
    BY <2>3 DEF Matches
  <2>6. c = d
    BY <2>4, <2>5, ConfigsEqual
  <2> QED
    BY <2>3, <2>6 DEF IInv, Runs, Disjoint
<1> QED
  BY InitInv, NextInv, <1>1, PTL DEF Spec

(* A finished tree classifies every run it was built from as it was        *)
(* observed: evaluate_split leaves no leaf with both hits and misses.      *)
THEOREM TreeAgrees == Spec => []AgreesWithItsRuns
<1>1. IInv => AgreesWithItsRuns
  <2> SUFFICES ASSUME IInv, frame \in {"built", "climb"}, NEW n \in Leaves, NEW c \in Configs,
                      Matches(c, n)
               PROVE  /\ c \in hit_configs[Root] => leaf_value(n)
                      /\ c \in miss_configs[Root] => ~leaf_value(n)
    BY DEF AgreesWithItsRuns
  <2>1. n \in Nodes
    BY DEF Leaves
  <2>2. /\ c \in hit_configs[Root] => c \in hit_configs[n]
        /\ c \in miss_configs[Root] => c \in miss_configs[n]
    BY <2>1 DEF IInv, Runs, NodesHoldTheirRuns
  <2>3. hit_configs[n] = {} \/ miss_configs[n] = {}
    BY DEF IInv, SplitUp, Waits, is_leaf
  <2> QED
    BY <2>2, <2>3 DEF leaf_value
<1> QED
  BY InitInv, NextInv, <1>1, PTL DEF Spec

(* The CHECK after the sort: the runs that were moved fill the array.       *)
THEOREM SortFillsArray == Spec => []SortFills
<1>1. IInv => SortFills
  <2> SUFFICES ASSUME IInv, frame = "evaluate", NEW v \in Vars,
                      NEW R \in {hit_configs[at], miss_configs[at]}
               PROVE  curpos(R, v)[NValues[v] - 1] = Cardinality(R) + 1
    BY DEF SortFills
  <2>1. R \in SUBSET Configs
    BY DEF IInv, Skeleton, TreeShape
  <2> QED
    BY <2>1, SortEnds
<1> QED
  BY InitInv, NextInv, <1>1, PTL DEF Spec

(* What the run checks of a tree and its runs, from the theorems above.     *)
THEOREM TreeFits == Spec => []TreeFitsRuns
<1>1. CanSplit /\ SortFills /\ AgreesWithItsRuns => TreeFitsRuns
  BY DEF TreeFitsRuns
<1> QED
  BY SplitExists, SortFillsArray, TreeAgrees, <1>1, PTL

------------------------------------------------------------------------------
(* n_min_cases().  While evaluate_split runs, a node that is finished has  *)
(* its minimum, and a node on the stack that of the children it has come   *)
(* past, or MaxInt; while test_add_config returns, all but the nodes above *)
(* `at` have theirs.                                                       *)
IsLeast(m) ==
    /\ \E n \in Leaves : Below(n, m) /\ min_cases[m] = Cases(n)
    /\ \A n \in Leaves : Below(n, m) => min_cases[m] <= Cases(n)

Past(n, m, i) == n \in Leaves /\ Below(n, m) /\ n[splitvar[m]] < i

LeastUpTo(m, i) ==
    /\ \A n \in Leaves : Past(n, m, i) => min_cases[m] <= Cases(n)
    /\ min_cases[m] = MaxInt \/ \E n \in Leaves : Past(n, m, i) /\ min_cases[m] = Cases(n)

Counted == Cardinality(hit_configs[Root] \cup miss_configs[Root]) <= MaxInt

MinInv ==
    /\ frame = "built" => at = Root
    /\ frame \in {"evaluate", "return"} =>
          \A m \in Nodes : new_configs[m] = {} /\ (Stacked(m) => LeastUpTo(m, at[splitvar[m]]))
    /\ \A m \in Nodes : ~Stacked(m) /\ ~Waits(m) => IsLeast(m)

LEMMA CasesType ==
    ASSUME IInv, Fields, NEW n \in Nodes
    PROVE  Cases(n) \in Nat /\ Cardinality(new_configs[n]) \in Nat /\ n_total(n) \in Nat
<1>1. IsFiniteSet(new_configs[n])
  BY ConfigsFinite, FS_Subset DEF Fields
<1> QED
  BY <1>1, RunsFinite, FS_CardinalityType DEF Cases

(* A node has no more runs than the tree.                                  *)
LEMMA CasesFit ==
    ASSUME IInv, Counted, NEW n \in Nodes, new_configs[n] = {}, Root \in Nodes, frame # "none"
    PROVE  Cases(n) <= MaxInt
<1> DEFINE H == hit_configs[Root]
           M == miss_configs[Root]
           h == hit_configs[n]
           m == miss_configs[n]
<1>1. h \subseteq H /\ m \subseteq M /\ H \cap M = {}
  BY DEF IInv, Runs, NodesHoldTheirRuns, Disjoint
<1>2. IsFiniteSet(h) /\ IsFiniteSet(m) /\ IsFiniteSet(H) /\ IsFiniteSet(M)
  BY RunsFinite
<1> HIDE DEF h, m, H, M
<1>3. Cardinality(h) + Cardinality(m) = Cardinality(h \cup m)
  <2>1. h \cap m = {}
    BY <1>1
  <2>2. /\ Cardinality(h \cup m) = Cardinality(h) + Cardinality(m) - Cardinality(h \cap m)
        /\ Cardinality(h) \in Nat /\ Cardinality(m) \in Nat
    BY <1>2, FS_Union, FS_CardinalityType
  <2>3. Cardinality(h \cap m) = 0
    BY <2>1, FS_EmptySet
  <2> QED
    BY <2>2, <2>3
<1>4. IsFiniteSet(H \cup M) /\ h \cup m \subseteq H \cup M
  BY <1>1, <1>2, FS_Union
<1>5. Cardinality(h \cup m) <= Cardinality(H \cup M)
  BY <1>4, FS_Subset
<1>6. Cardinality(H \cup M) <= MaxInt
  BY DEF Counted, H, M
<1>7. Cardinality(H \cup M) \in Nat /\ Cardinality(h \cup m) \in Nat
  BY <1>4, FS_Subset, FS_CardinalityType
<1>8. Cardinality(new_configs[n]) = 0 /\ Cases(n) = (Cardinality(h) + Cardinality(m)) + Cardinality(new_configs[n])
  BY FS_EmptySet DEF Cases, n_total, h, m
<1> QED
  BY <1>3, <1>5, <1>6, <1>7, <1>8 DEF MaxInt

LEMMA MinInit == Init => MinInv
<1> SUFFICES ASSUME Init PROVE MinInv
  OBVIOUS
<1>1. Nodes = {} /\ frame = "none"
  BY DEF Init, Nodes
<1> QED
  BY <1>1 DEF MinInv

LEMMA MinBuild ==
    ASSUME NEW hits, NEW misses, build_tree(hits, misses)
    PROVE  MinInv'
<1>1. /\ splitvar' = [n \in {Root} |-> NoVar] /\ new_configs' = [n \in {Root} |-> {}]
      /\ frame' = "evaluate" /\ at' = Root
  BY DEF build_tree
<1>2. Nodes' = {Root} /\ Inner' = {}
  BY <1>1 DEF Nodes, Inner
<1>3. \A m : ~Stacked(m)'
  BY <1>2 DEF Stacked
<1>4. Waits(Root)' /\ new_configs'[Root] = {}
  BY <1>1 DEF Waits
<1> QED
  BY <1>1, <1>2, <1>3, <1>4 DEF MinInv

(* What a step that changes neither the leaves nor their runs leaves alone.*)
LEMMA KeepLeast ==
    ASSUME UNCHANGED <<hit_configs, miss_configs, splitvar, new_configs>>,
           NEW m \in Nodes, min_cases'[m] = min_cases[m]
    PROVE  /\ IsLeast(m)' <=> IsLeast(m)
           /\ \A i : LeastUpTo(m, i)' <=> LeastUpTo(m, i)
<1>1. Leaves' = Leaves /\ \A n : Cases(n)' = Cases(n)
  BY DEF Leaves, Nodes, Cases, n_total
<1> QED
  BY <1>1 DEF IsLeast, LeastUpTo, Past, Below

LEMMA MinLeaf ==
    ASSUME IInv, Fields, MinInv, evaluate_leaf
    PROVE  MinInv'
<1>1. /\ frame = "evaluate" /\ at' = at
      /\ frame' = (IF at = Root THEN "built" ELSE "return")
      /\ min_cases' = [min_cases EXCEPT ![at] = n_total(at)]
      /\ UNCHANGED <<hit_configs, miss_configs, splitvar, new_configs>>
  BY DEF evaluate_leaf, Returns
<1>2. at \in Leaves /\ at \in Nodes
  BY <1>1 DEF IInv, Pending, Leaves
<1>3. /\ Nodes' = Nodes /\ Leaves' = Leaves
      /\ \A m : Stacked(m)' <=> Stacked(m)
      /\ \A m, j : ToCome(m, j)' <=> ToCome(m, j)
  BY <1>1 DEF Nodes, Leaves, Stacked, Inner, ToCome
<1>4. \A m \in Nodes \ {at} : min_cases'[m] = min_cases[m]
  BY <1>1 DEF Fields
<1>5. IsLeast(at)'
  <2>1. new_configs[at] = {} /\ min_cases'[at] = n_total(at)
    BY <1>1, <1>2 DEF MinInv, Fields
  <2>2. Cases(at) = n_total(at) + 0
    BY <2>1, FS_EmptySet DEF Cases
  <2>3. min_cases'[at] = Cases(at) /\ Cases(at) \in Nat
    BY <1>2, <2>1, <2>2, CasesType
  <2>4. \A n \in Leaves : Below(n, at) => n = at
    BY <1>2 DEF IInv, Skeleton, LeavesAtBottom, Leaves
  <2>5. Below(at, at)
    BY DEF Below
  <2>6. \A n : Cases(n)' = Cases(n) /\ Below(n, at)' <=> Below(n, at)
    BY <1>1 DEF Cases, n_total, Below
  <2>7. \E n \in Leaves : Below(n, at) /\ min_cases'[at] = Cases(n)
    BY <1>2, <2>3, <2>5
  <2>8. \A n \in Leaves : Below(n, at) => min_cases'[at] <= Cases(n)
    BY <2>3, <2>4
  <2> QED
    BY <1>1, <1>3, <2>7, <2>8 DEF IsLeast, Cases, n_total, Below
<1>6. ASSUME NEW m \in Nodes, m # at, ~Stacked(m)', ~Waits(m)' PROVE IsLeast(m)'
  <2>1. ~Waits(m)
    <3> SUFFICES ASSUME NEW q \in Nodes, NEW j \in Int, Stacked(q), ToCome(q, j), m = Child(q, splitvar[q], j)
                 PROVE  FALSE
      BY <1>6 DEF Waits
    <3>1. at # Root
      BY RootDone DEF IInv
    <3>2. Stacked(q)' /\ ToCome(q, j)' /\ m = Child(q, splitvar'[q], j) /\ q \in Nodes'
      BY <1>1, <1>3
    <3>3. Waits(m)'
      BY <1>1, <3>1, <3>2 DEF Waits, Child
    <3> QED
      BY <1>6, <3>3
  <2> QED
    BY <1>1, <1>3, <1>4, <1>6, <2>1, KeepLeast DEF MinInv
<1>7. ASSUME NEW m \in Nodes, Stacked(m)' PROVE LeastUpTo(m, at[splitvar[m]])'
  <2>1. Stacked(m) /\ m # at
    BY <1>3, <1>7 DEF Stacked
  <2>2. LeastUpTo(m, at[splitvar[m]])
    BY <1>1, <2>1 DEF MinInv
  <2> QED
    BY <1>1, <1>4, <2>1, <2>2, KeepLeast
<1> QED
  BY <1>1, <1>3, <1>5, <1>6, <1>7 DEF MinInv

LEMMA MinSplit ==
    ASSUME IInv, Skeleton', Fields, MinInv, NEW v \in Vars, evaluate_split(v)
    PROVE  MinInv'
<1> DEFINE kids == Children(at, v)
<1>1. /\ at \in Leaves /\ at \in Nodes /\ at \in Templates /\ at[v] = Unset
      /\ Nodes' = Nodes \cup kids /\ kids \cap Nodes = {}
      /\ Leaves' = (Leaves \ {at}) \cup kids
      /\ Inner' = Inner \cup {at}
      /\ splitvar'[at] = v
      /\ \A n \in Inner : splitvar'[n] = splitvar[n]
      /\ \A k \in kids : k \in Templates /\ Below(k, at) /\ k # at
  BY SplitFacts DEF Leaves
<1>2. frame' = "evaluate" /\ frame = "evaluate" /\ at' = Child(at, v, 0)
  BY DEF evaluate_split
<1>3. SplitMoves(v)
  BY SplitStack
<1>4. /\ \A n \in Nodes : /\ hit_configs'[n] = hit_configs[n] /\ miss_configs'[n] = miss_configs[n]
                          /\ new_configs'[n] = new_configs[n]
      /\ \A n \in kids : new_configs'[n] = {}
  BY <1>1, SectionsFit DEF evaluate_split, NewChildren
<1>5. min_cases'[at] = MaxInt /\ \A n \in Nodes \ {at} : min_cases'[n] = min_cases[n]
  <2>1. min_cases' = [NewChildren(min_cases, at, v, MaxInt) EXCEPT ![at] = MaxInt]
    BY DEF evaluate_split
  <2> QED
    BY <1>1, <2>1 DEF NewChildren
<1>6. \A n \in Nodes : Cases(n)' = Cases(n)
  BY <1>4 DEF Cases, n_total
<1>7. \A n \in Leaves : n \in Nodes
  BY DEF Leaves
<1> HIDE DEF kids
(* The minima that stay.                                                   *)
<1>8. ASSUME NEW m \in Nodes, m # at, ~Stacked(m)', ~Waits(m)' PROVE IsLeast(m)'
  <2>1. ~Waits(m)
    BY <1>3, <1>8 DEF SplitMoves
  <2>2. ~Stacked(m) /\ ~Below(at, m)
    <3>1. CASE m \in Inner
      <4>1. Below(at, m) => Below(at', m) /\ m # at'
        BY <1>3, <3>1 DEF SplitMoves
      <4>2. Below(at, m) => Stacked(m)'
        BY <1>1, <3>1, <4>1 DEF Stacked, Below
      <4> QED
        BY <1>8, <4>2 DEF Stacked
    <3>2. CASE m \notin Inner
      <4>1. m \in Leaves
        BY <3>2 DEF Inner, Leaves
      <4> QED
        BY <1>1, <1>8, <3>2, <4>1 DEF Stacked, IInv, Skeleton, LeavesAtBottom
    <3> QED
      BY <3>1, <3>2
  <2>3. IsLeast(m)
    BY <2>1, <2>2 DEF MinInv
  <2>4. ASSUME NEW k \in kids PROVE ~Below(k, m)
    <3> SUFFICES ASSUME Below(k, m) PROVE FALSE
      OBVIOUS
    <3>1. Compatible(m, at)
      BY <1>1, BelowCompatible
    <3>2. Below(m, at) \/ Below(at, m)
      BY <1>1, <3>1 DEF IInv, Skeleton, Laminar
    <3> QED
      BY <1>1, <1>8, <2>2, <3>2 DEF IInv, Skeleton, LeavesAtBottom
  <2>5. \A n : n \in Leaves' /\ Below(n, m) <=> n \in Leaves /\ Below(n, m)
    BY <1>1, <2>2, <2>4
  <2>6. min_cases'[m] = min_cases[m]
    BY <1>5, <1>8
  <2>7. \E n \in Leaves' : Below(n, m) /\ min_cases'[m] = Cases(n)'
    BY <1>6, <1>7, <2>3, <2>5, <2>6 DEF IsLeast
  <2>8. \A n \in Leaves' : Below(n, m) => min_cases'[m] <= Cases(n)'
    BY <1>6, <1>7, <2>3, <2>5, <2>6 DEF IsLeast
  <2> QED
    BY <2>7, <2>8 DEF IsLeast, Below
(* Those above.                                                            *)
<1>9. ASSUME NEW m \in Inner, Stacked(m)' PROVE LeastUpTo(m, at[splitvar[m]])'
  <2> PICK w \in Vars : w = splitvar[m]
    BY NodesAreTemplates DEF IInv, Skeleton
  <2> PICK i \in Int : i = at[w]
    BY <1>1 DEF Templates, Values, Unset
  <2>1. /\ m # at /\ Below(at, m) /\ at'[w] = i /\ splitvar'[m] = w
        /\ Below(at', m) /\ m \in Nodes
    BY <1>1, <1>3, <1>9, NodesAreTemplates DEF SplitMoves, Stacked, Below, IInv, Skeleton
  <2>2. Stacked(m)
    BY <2>1 DEF Stacked
  <2>3. LeastUpTo(m, i)
    BY <1>2, <2>1, <2>2 DEF MinInv
  <2>4. i # Unset /\ w # v
    BY <1>1, <2>1 DEF IInv, Skeleton, BelowSplit
  <2>5. ASSUME NEW k \in kids PROVE ~(k[w] < i)
    <3>1. PICK j \in Values(v) : k = Child(at, v, j)
      BY DEF kids, Children
    <3>2. k[w] = i
      BY <1>1, <2>1, <2>4, <3>1, ChildIsTemplate
    <3> QED
      BY <2>4, <3>2
  <2>6. ~(at[w] < i)
    OBVIOUS
  <2>7. \A n : Past(n, m, i)' <=> Past(n, m, i)
    BY <1>1, <2>1, <2>5, <2>6 DEF Past, Below
  <2>8. min_cases'[m] = min_cases[m]
    BY <1>5, <2>1
  <2>9. \A n : Past(n, m, i) => n \in Leaves /\ n \in Nodes /\ Cases(n)' = Cases(n)
    BY <1>6, <1>7 DEF Past
  <2>10. \A n \in Leaves' : Past(n, m, i)' => min_cases'[m] <= Cases(n)'
    BY <2>3, <2>7, <2>8, <2>9 DEF LeastUpTo
  <2>11. min_cases'[m] = MaxInt \/ \E n \in Leaves' : Past(n, m, i)' /\ min_cases'[m] = Cases(n)'
    <3>1. ASSUME NEW n \in Leaves, Past(n, m, i), min_cases[m] = Cases(n)
          PROVE  n \in Leaves' /\ Past(n, m, i)' /\ min_cases'[m] = Cases(n)'
      <4>1. Past(n, m, i)' /\ min_cases'[m] = Cases(n)'
        BY <2>7, <2>8, <2>9, <3>1
      <4> QED
        BY <4>1 DEF Past
    <3> QED
      BY <2>3, <2>8, <3>1 DEF LeastUpTo
  <2>12. at'[splitvar'[m]] = i
    BY <2>1
  <2>13. LeastUpTo(m, i)'
    BY <2>10, <2>11 DEF LeastUpTo, Past, Below
  <2> QED
    BY <2>12, <2>13
(* And the node itself.                                                    *)
<1> PICK p \in Nodes : p = at
  BY <1>1
<1>10. LeastUpTo(p, 0)'
  <2>1. ASSUME NEW n \in Leaves', Below(n, p) PROVE ~(n[v] < 0)
    <3>1. n # p /\ n \in Nodes' /\ p \in Inner' /\ splitvar'[p] = v
      BY <1>1 DEF Leaves, Inner
    <3>2. n[v] # Unset
      BY <2>1, <3>1 DEF Skeleton, BelowSplit, Below
    <3>3. n \in Templates
      BY <3>1 DEF Skeleton, TreeShape
    <3>4. n[v] \in Values(v)
      BY <3>2, <3>3 DEF Templates
    <3> QED
      BY <3>4 DEF Values
  <2>2. \A n : ~Past(n, p, 0)'
    BY <1>1, <2>1 DEF Past, Below
  <2> QED
    BY <1>5, <2>2 DEF LeastUpTo, MaxInt
<1>11. ~Stacked(p)' => FALSE
  BY <1>3 DEF SplitMoves
<1>12. at'[splitvar'[p]] = 0
  BY <1>1, <1>3 DEF SplitMoves
<1>13. \A m \in kids : Waits(m)' /\ m \in Leaves' /\ m \notin Inner'
  BY <1>1, <1>3 DEF SplitMoves, kids, Leaves, Inner
<1>14. \A m \in Nodes' : m \in kids \/ m = p \/ (m \in Nodes /\ m # at)
  BY <1>1
<1>15. ASSUME NEW m \in Nodes'
       PROVE  new_configs'[m] = {} /\ (Stacked(m)' => LeastUpTo(m, at[splitvar[m]])')
  <2>1. new_configs'[m] = {}
    BY <1>1, <1>2, <1>4, <1>14 DEF MinInv
  <2>2. Stacked(m)' => m \in Inner'
    BY DEF Stacked
  <2>3. CASE m = p
    BY <1>10, <1>12, <2>1, <2>3
  <2>4. CASE m # p
    BY <1>1, <1>9, <2>1, <2>2, <2>4
  <2> QED
    BY <2>3, <2>4
<1>16. \A m \in Nodes' : ~Stacked(m)' /\ ~Waits(m)' => IsLeast(m)'
  BY <1>8, <1>11, <1>13, <1>14
<1> QED
  BY <1>2, <1>15, <1>16 DEF MinInv

(* The minimum of a child joins that of its parent.                        *)
LEMMA MinJoins ==
    ASSUME IInv, Fields, MinInv, NEW p \in Nodes, evaluate_return(p), Counted,
           NEW k \in Int, k = at[splitvar[p]]
    PROVE  LeastUpTo(p, k + 1)' /\ \E n \in Leaves : Past(n, p, k + 1) /\ min_cases'[p] = Cases(n)
<1> DEFINE v == splitvar[p]
           a == min_cases[at]
           b == min_cases[p]
<1>1. /\ p \in Inner /\ p \in Templates /\ v \in Vars /\ p[v] = Unset
      /\ k \in Values(v) /\ at = Child(p, v, k) /\ Stacked(p)
  BY ReturnStack DEF ReturnMoves
<1>2. /\ frame = "return" /\ UNCHANGED <<hit_configs, miss_configs, splitvar, new_configs>>
      /\ min_cases' = [min_cases EXCEPT ![p] = IF a < b THEN a ELSE b]
  BY DEF evaluate_return
<1>3. at \in Nodes /\ at[v] = k /\ Below(at, p)
  BY <1>1, <1>2, ChildIsTemplate, ChildBelow DEF IInv, Skeleton, TreeShape
<1>4. a \in Nat /\ b \in Nat
  BY <1>3 DEF Fields
<1>5. min_cases'[p] = (IF a < b THEN a ELSE b)
  BY <1>2 DEF Fields
<1>6. IsLeast(at)
  <2>1. ~Stacked(at)
    BY DEF Stacked
  <2>2. ~Waits(at)
    <3> SUFFICES ASSUME NEW m \in Nodes, NEW j \in Int, Stacked(m), ToCome(m, j), at = Child(m, splitvar[m], j)
                 PROVE  FALSE
      BY <1>2 DEF Waits
    <3>1. m \in Templates /\ splitvar[m] \in Vars /\ j \in Values(splitvar[m])
      BY NodesAreTemplates DEF Stacked, ToCome, IInv, Skeleton
    <3>2. at[splitvar[m]] = j
      BY <3>1, ChildIsTemplate
    <3> QED
      BY <3>2 DEF ToCome
  <2> QED
    BY <1>3, <2>1, <2>2 DEF MinInv
<1>7. LeastUpTo(p, k) /\ \A n \in Nodes : new_configs[n] = {}
  BY <1>1, <1>2 DEF MinInv
<1>8. \A n \in Leaves : n \in Nodes /\ n \in Templates /\ n # p /\ Cases(n) \in Nat
  BY <1>1, CasesType, NodesAreTemplates DEF IInv, Skeleton
<1>9. Leaves' = Leaves /\ \A n : Cases(n)' = Cases(n)
  BY <1>2 DEF Leaves, Nodes, Cases, n_total
(* The leaves that are past are those of before and those of the child.    *)
<1>10. \A n \in Leaves : Past(n, p, k) => Past(n, p, k + 1)
  <2> SUFFICES ASSUME NEW n \in Leaves, n[v] < k PROVE n[v] < k + 1
    BY DEF Past
  <2>1. n[v] \in Int
    BY <1>1, <1>8 DEF Templates, Values, Unset
  <2> QED
    BY <2>1
<1>11. \A n \in Leaves : Below(n, at) => Past(n, p, k + 1)
  <2> SUFFICES ASSUME NEW n \in Leaves, Below(n, at) PROVE Past(n, p, k + 1)
    OBVIOUS
  <2>1. Below(n, p)
    BY <1>3, BelowTrans
  <2>2. k # Unset
    BY <1>1, ValuesAreSet
  <2>3. n[v] = k
    BY <1>1, <1>3, <2>2 DEF Below
  <2> QED
    BY <2>1, <2>3 DEF Past
<1>12. \A n \in Leaves : Past(n, p, k + 1) => Past(n, p, k) \/ Below(n, at)
  <2> SUFFICES ASSUME NEW n \in Leaves, Below(n, p), n[v] < k + 1, ~(n[v] < k) PROVE Below(n, at)
    BY DEF Past
  <2>1. n[v] \in Int
    BY <1>1, <1>8 DEF Templates, Values, Unset
  <2>2. n[v] = k
    BY <2>1
  <2>3. \A u \in Vars \ {v} : at[u] = p[u]
    BY <1>1, ChildIsTemplate
  <2> QED
    BY <1>3, <2>2, <2>3 DEF Below
<1> HIDE DEF v
<1>13. \A n \in Leaves : Past(n, p, k + 1) => min_cases'[p] <= Cases(n)
  <2> SUFFICES ASSUME NEW n \in Leaves, Past(n, p, k + 1) PROVE min_cases'[p] <= Cases(n)
    OBVIOUS
  <2>1. b <= Cases(n) \/ a <= Cases(n)
    BY <1>6, <1>7, <1>12 DEF IsLeast, LeastUpTo
  <2>2. Cases(n) \in Nat
    BY <1>8
  <2> HIDE DEF a, b
  <2> QED
    BY <1>4, <1>5, <2>1, <2>2
<1>14. \E n \in Leaves : Past(n, p, k + 1) /\ min_cases'[p] = Cases(n)
  <2>1. PICK n \in Leaves : Below(n, at) /\ a = Cases(n)
    BY <1>6 DEF IsLeast
  <2>2. Past(n, p, k + 1)
    BY <1>11, <2>1
  <2>3. CASE a < b
    BY <1>5, <2>1, <2>2, <2>3
  <2>4. CASE ~(a < b) /\ b = MaxInt
    <3>1. Cases(n) <= MaxInt
      <4>1. Root \in Nodes /\ frame # "none"
        BY <1>2 DEF IInv, Skeleton, TreeShape
      <4> QED
        BY <1>2, <1>7, <1>8, <4>1, CasesFit
    <3>2. a = b
      BY <1>4, <2>1, <2>4, <3>1 DEF MaxInt
    <3> QED
      BY <1>5, <2>1, <2>2, <3>2
  <2>5. CASE ~(a < b) /\ b # MaxInt
    <3>1. PICK d \in Leaves : Past(d, p, k) /\ b = Cases(d)
      BY <1>7, <2>5 DEF LeastUpTo
    <3> QED
      BY <1>5, <1>10, <2>5, <3>1
  <2> QED
    BY <2>3, <2>4, <2>5
<1>15. \A n, i : Past(n, p, i)' <=> Past(n, p, i)
  BY <1>2, <1>9 DEF Past, Below
<1>16. LeastUpTo(p, k + 1)'
  <2>1. \A n \in Leaves' : Past(n, p, k + 1)' => min_cases'[p] <= Cases(n)'
    BY <1>9, <1>13, <1>15
  <2>2. \E n \in Leaves' : Past(n, p, k + 1)' /\ min_cases'[p] = Cases(n)'
    BY <1>9, <1>14, <1>15
  <2> QED
    BY <2>1, <2>2 DEF LeastUpTo
<1> QED
  BY <1>14, <1>16

LEMMA MinReturn ==
    ASSUME IInv, Fields, MinInv, Counted, NEW p \in Nodes, evaluate_return(p)
    PROVE  MinInv'
<1> PICK v \in Vars : v = splitvar[p]
  BY ReturnStack DEF ReturnMoves
<1> PICK k \in Int : k = at[v]
  BY ReturnStack DEF ReturnMoves
<1>1. ReturnMoves(p)
  BY ReturnStack
<1>2. /\ frame = "return" /\ UNCHANGED <<hit_configs, miss_configs, splitvar, new_configs>>
      /\ \A m \in Nodes \ {p} : min_cases'[m] = min_cases[m]
      /\ k + 1 \in Values(v) => at' = Child(p, v, k + 1) /\ frame' = "evaluate"
      /\ k + 1 \notin Values(v) => at' = p /\ frame' = (IF p = Root THEN "built" ELSE "return")
  BY DEF evaluate_return, Returns, Fields
<1>3. Nodes' = Nodes /\ Leaves' = Leaves /\ Inner' = Inner /\ \A n : Cases(n)' = Cases(n)
  BY <1>2 DEF Nodes, Leaves, Inner, Cases, n_total
<1>4. LeastUpTo(p, k + 1)' /\ \E n \in Leaves : Past(n, p, k + 1) /\ min_cases'[p] = Cases(n)
  BY MinJoins
<1>5. p \in Inner /\ p[v] = Unset /\ k \in Values(v)
  BY <1>1 DEF ReturnMoves
<1>6. ASSUME k + 1 \notin Values(v) PROVE IsLeast(p)'
  <2>1. ASSUME NEW n \in Leaves, Below(n, p) PROVE Past(n, p, k + 1)
    <3>1. n # p /\ n \in Nodes /\ n \in Templates
      BY <1>5, NodesAreTemplates DEF IInv, Skeleton
    <3>2. n[v] # Unset
      BY <1>5, <2>1, <3>1 DEF IInv, Skeleton, BelowSplit
    <3>3. n[v] \in Values(v)
      BY <3>1, <3>2 DEF Templates
    <3>4. NValues[v] \in Nat
      BY OptionsAssumption
    <3>5. n[v] < k + 1
      BY <1>5, <1>6, <3>3, <3>4 DEF Values
    <3> QED
      BY <2>1, <3>5 DEF Past
  <2>2. ASSUME NEW n \in Leaves, Below(n, p) PROVE min_cases'[p] <= Cases(n)
    <3>1. Past(n, p, k + 1)'
      BY <1>2, <1>3, <2>1, <2>2 DEF Past, Below
    <3>2. min_cases'[p] <= Cases(n)'
      BY <1>3, <1>4, <3>1 DEF LeastUpTo
    <3> QED
      BY <1>3, <3>2
  <2>3. \E n \in Leaves : Below(n, p) /\ min_cases'[p] = Cases(n)
    BY <1>4 DEF Past
  <2> QED
    BY <1>3, <2>2, <2>3 DEF IsLeast, Below
<1>7. ASSUME NEW m \in Nodes, m # p, ~Stacked(m)', ~Waits(m)' PROVE IsLeast(m)'
  <2>1. ~Stacked(m)
    BY <1>1, <1>7 DEF ReturnMoves, Stacked
  <2>2. ~Waits(m)
    BY <1>1, <1>7 DEF ReturnMoves
  <2>3. IsLeast(m)
    BY <2>1, <2>2 DEF MinInv
  <2> QED
    BY <1>2, <1>7, <2>3, KeepLeast
<1>8. ASSUME NEW m \in Nodes, m # p, Stacked(m)' PROVE LeastUpTo(m, at[splitvar[m]])'
  <2>1. m \in Inner
    BY <1>3, <1>8 DEF Stacked
  <2>2. Stacked(m) /\ at[splitvar[m]] = at'[splitvar[m]]
    BY <1>1, <1>8, <2>1 DEF ReturnMoves
  <2>3. LeastUpTo(m, at[splitvar[m]])
    BY <1>2, <2>2 DEF MinInv
  <2>4. \A i : LeastUpTo(m, i)' <=> LeastUpTo(m, i)
    BY <1>2, <1>8, KeepLeast
  <2>5. at'[splitvar'[m]] = at[splitvar[m]]
    BY <1>2, <2>2
  <2> QED
    BY <2>3, <2>4, <2>5
<1>9. Stacked(p)' => LeastUpTo(p, at[splitvar[p]])'
  <2> SUFFICES ASSUME Stacked(p)' PROVE LeastUpTo(p, at[splitvar[p]])'
    OBVIOUS
  <2>1. at'[v] = k + 1
    BY <1>1 DEF ReturnMoves
  <2>2. at'[splitvar'[p]] = k + 1
    BY <1>2, <2>1
  <2> QED
    BY <1>4, <2>2
<1>10. ~Stacked(p)' => IsLeast(p)'
  BY <1>1, <1>6 DEF ReturnMoves
<1>11. frame' = "built" => at' = Root
  BY <1>2
<1>12. frame' \in {"evaluate", "return"} =>
           \A m \in Nodes' : new_configs'[m] = {} /\ (Stacked(m)' => LeastUpTo(m, at[splitvar[m]])')
  BY <1>2, <1>3, <1>8, <1>9 DEF MinInv
<1>13. \A m \in Nodes' : ~Stacked(m)' /\ ~Waits(m)' => IsLeast(m)'
  BY <1>3, <1>7, <1>10
<1> QED
  BY <1>11, <1>12, <1>13 DEF MinInv

(* A run joins a leaf, which counts it: the nodes above are put right on   *)
(* the way up.                                                             *)
LEMMA MinAdd ==
    ASSUME IInv, Fields, MinInv, NEW c \in Configs, NEW val, test_add_config(c, val),
           \A n \in Leaves : c \notin new_configs[n]
    PROVE  MinInv'
<1>1. frame = "built" /\ UNCHANGED <<hit_configs, miss_configs, splitvar>>
  BY DEF test_add_config
<1> PICK n \in Leaves : /\ at' = n /\ Climbs(n)
                        /\ \/ /\ min_cases' = [min_cases EXCEPT ![n] = @ + 1]
                              /\ new_configs' = [new_configs EXCEPT ![n] = @ \cup {c}]
                           \/ UNCHANGED <<min_cases, new_configs>>
  BY DEF test_add_config
<1>2. n \in Nodes /\ Nodes' = Nodes /\ Leaves' = Leaves /\ Inner' = Inner
  BY <1>1 DEF Nodes, Leaves, Inner
<1>3. frame' = (IF n = Root THEN "built" ELSE "climb")
  BY DEF Climbs
<1>4. \A m \in Nodes : IsLeast(m)
  <2>1. \A m : ~Stacked(m)
    BY <1>1, RootDone DEF MinInv, IInv
  <2> QED
    BY <1>1, <2>1 DEF MinInv, Waits
<1>5. ASSUME NEW m \in Nodes, ~Stacked(m)' PROVE IsLeast(m)'
  <2>1. CASE UNCHANGED <<min_cases, new_configs>>
    BY <1>1, <1>4, <2>1, KeepLeast
  <2>2. CASE /\ min_cases' = [min_cases EXCEPT ![n] = @ + 1]
             /\ new_configs' = [new_configs EXCEPT ![n] = @ \cup {c}]
    <3>1. \A k \in Nodes : k # n => min_cases'[k] = min_cases[k] /\ new_configs'[k] = new_configs[k]
      BY <2>2 DEF Fields
    <3>2. \A k \in Nodes : k # n => Cases(k)' = Cases(k)
      BY <1>1, <3>1 DEF Cases, n_total
    <3>3. \A k \in Leaves : k \in Nodes
      BY DEF Leaves
    <3>4. CASE m = n
      <4>1. \A k \in Leaves : Below(k, n) => k = n
        BY <3>3 DEF IInv, Skeleton, LeavesAtBottom
      <4>2. min_cases[n] = Cases(n) /\ Below(n, n)
        BY <1>2, <1>4, <4>1 DEF IsLeast, Below
      <4>3. min_cases'[n] = min_cases[n] + 1 /\ new_configs'[n] = new_configs[n] \cup {c}
        BY <1>2, <2>2 DEF Fields
      <4>4. IsFiniteSet(new_configs[n])
        BY <1>2, ConfigsFinite, FS_Subset DEF Fields
      <4>5. Cardinality(new_configs[n] \cup {c}) = Cardinality(new_configs[n]) + 1
        BY <4>4, FS_AddElement
      <4>6. Cases(n)' = n_total(n) + (Cardinality(new_configs[n]) + 1)
        BY <1>1, <4>3, <4>5 DEF Cases, n_total
      <4>7. Cases(n) = n_total(n) + Cardinality(new_configs[n])
        BY DEF Cases
      <4>8. n_total(n) \in Nat /\ Cardinality(new_configs[n]) \in Nat
        BY <1>2, CasesType
      <4>9. min_cases'[n] = Cases(n)' /\ min_cases'[n] <= Cases(n)'
        BY <4>2, <4>3, <4>6, <4>7, <4>8
      <4>10. /\ \E k \in Leaves : Below(k, n) /\ min_cases'[n] = Cases(k)'
             /\ \A k \in Leaves : Below(k, n) => min_cases'[n] <= Cases(k)'
        BY <4>1, <4>2, <4>9
      <4> QED
        BY <1>2, <3>4, <4>10 DEF IsLeast, Below
    <3>5. CASE m # n
      <4>1. ~Below(n, m)
        <5> SUFFICES ASSUME Below(n, m) PROVE FALSE
          OBVIOUS
        <5>1. m \in Leaves \/ m \in Inner
          BY NodesAreTemplates DEF IInv, Skeleton
        <5>2. m \notin Leaves
          BY <1>2, <3>5 DEF IInv, Skeleton, LeavesAtBottom
        <5>3. m \notin Inner
          BY <1>2, <1>5, <3>5 DEF Stacked, Below
        <5> QED
          BY <5>1, <5>2, <5>3
      <4>2. \A k \in Leaves : Below(k, m) => Cases(k)' = Cases(k)
        BY <3>2, <3>3, <4>1
      <4>3. /\ \E k \in Leaves : Below(k, m) /\ min_cases'[m] = Cases(k)'
            /\ \A k \in Leaves : Below(k, m) => min_cases'[m] <= Cases(k)'
        BY <1>4, <3>1, <3>5, <4>2 DEF IsLeast
      <4> QED
        BY <1>2, <4>3 DEF IsLeast, Below
    <3> QED
      BY <3>4, <3>5
  <2> QED
    BY <2>1, <2>2
<1>6. frame' = "built" => at' = Root
  BY <1>3
<1> QED
  BY <1>2, <1>3, <1>5, <1>6 DEF MinInv

LEMMA MinClimb ==
    ASSUME IInv, Fields, MinInv, NEW p \in Nodes, test_add_return(p)
    PROVE  MinInv'
<1> PICK v \in Vars : v = splitvar[p]
  BY NodesAreTemplates DEF test_add_return, IInv, Skeleton
<1>1. /\ frame = "climb" /\ p \in Inner /\ at \in Children(p, v) /\ at' = p
      /\ frame' = (IF p = Root THEN "built" ELSE "climb")
      /\ UNCHANGED <<hit_configs, miss_configs, splitvar, new_configs>>
  BY DEF test_add_return, Climbs
<1> PICK least \in {min_cases[n] : n \in Children(p, v)} :
        /\ \A n \in Children(p, v) : least <= min_cases[n]
        /\ min_cases' = [min_cases EXCEPT ![p] = least]
  BY DEF test_add_return
<1>2. Nodes' = Nodes /\ Leaves' = Leaves /\ Inner' = Inner /\ \A n : Cases(n)' = Cases(n)
  BY <1>1 DEF Nodes, Leaves, Inner, Cases, n_total
<1>3. min_cases'[p] = least /\ \A m \in Nodes : m # p => min_cases'[m] = min_cases[m]
  BY DEF Fields
<1>4. /\ p \in Templates /\ p[v] = Unset /\ Children(p, v) \subseteq Nodes
  BY <1>1, NodesAreTemplates DEF IInv, Skeleton, HasChildren
<1>5. ASSUME NEW k \in Children(p, v) PROVE IsLeast(k) /\ k \in Nodes /\ Below(k, p)
  <2>1. PICK i \in Values(v) : k = Child(p, v, i)
    BY DEF Children
  <2>2. PICK j \in Values(v) : at = Child(p, v, j)
    BY <1>1 DEF Children
  <2>3. k[v] = i /\ at[v] = j /\ i # Unset /\ j # Unset
    BY <1>4, <2>1, <2>2, ChildIsTemplate, ValuesAreSet
  <2>4. ~Stacked(k)
    BY <2>1, <2>2, <2>3 DEF Stacked, Below
  <2>5. k \in Nodes /\ Below(k, p)
    BY <1>4, <2>1, ChildBelow
  <2> QED
    BY <1>1, <2>4, <2>5 DEF MinInv, Waits
<1>6. IsLeast(p)'
  <2>1. ASSUME NEW n \in Leaves, Below(n, p) PROVE least <= Cases(n)
    <3>1. n # p /\ n \in Nodes /\ n \in Templates
      BY <1>1, NodesAreTemplates DEF IInv, Skeleton
    <3>2. n[v] # Unset
      BY <1>1, <2>1, <3>1 DEF IInv, Skeleton, BelowSplit
    <3>3. n[v] \in Values(v)
      BY <3>1, <3>2 DEF Templates
    <3> PICK k \in Children(p, v) : k = Child(p, v, n[v])
      BY <3>3 DEF Children
    <3>4. k[v] = n[v] /\ \A u \in Vars \ {v} : k[u] = p[u]
      BY <1>4, <3>3, ChildIsTemplate
    <3>5. Below(n, k)
      BY <2>1, <3>4 DEF Below
    <3>6. least <= min_cases[k] /\ min_cases[k] <= Cases(n)
      BY <1>5, <3>5 DEF IsLeast
    <3>7. /\ least \in Nat /\ min_cases[k] \in Nat /\ Cases(n) \in Nat
      BY <1>5, <3>1, CasesType DEF Fields
    <3> QED
      BY <3>6, <3>7
  <2>2. \E n \in Leaves : Below(n, p) /\ least = Cases(n)
    <3>1. PICK k \in Children(p, v) : least = min_cases[k]
      OBVIOUS
    <3>2. PICK n \in Leaves : Below(n, k) /\ min_cases[k] = Cases(n)
      BY <1>5 DEF IsLeast
    <3>3. Below(n, p)
      BY <1>5, <3>2, BelowTrans
    <3> QED
      BY <3>1, <3>2, <3>3
  <2> QED
    BY <1>2, <1>3, <2>1, <2>2 DEF IsLeast, Below
<1>7. ASSUME NEW m \in Nodes, m # p, ~Stacked(m)' PROVE IsLeast(m)'
  <2>1. ~Stacked(m)
    <3> SUFFICES ASSUME Stacked(m) PROVE FALSE
      OBVIOUS
    <3>1. m \in Inner /\ Below(at, m) /\ at # m
      BY DEF Stacked
    <3>2. Below(p, m)
      BY <1>1, <1>7, <3>1, AboveChild DEF IInv
    <3> QED
      BY <1>1, <1>2, <1>7, <3>1, <3>2 DEF Stacked, Below
  <2>2. IsLeast(m)
    BY <1>1, <2>1 DEF MinInv, Waits
  <2> QED
    BY <1>1, <1>3, <1>7, <2>2, KeepLeast
<1> QED
  BY <1>1, <1>2, <1>6, <1>7 DEF MinInv

(* Every step, of a tree of no more runs than an int counts, to which no   *)
(* run is added twice.                                                     *)
Fresh(c) == \A n \in Leaves : c \notin new_configs[n]

LEMMA MinNext ==
    /\ IInv /\ Skeleton' /\ Fields /\ MinInv /\ (frame = "return" => Counted)
    /\ \/ UNCHANGED tree \/ evaluating \/ climbing
       \/ \E hits, misses : build_tree(hits, misses)
       \/ \E c \in Configs : Fresh(c) /\ \E val : test_add_config(c, val)
    => MinInv'
<1> SUFFICES ASSUME IInv, Skeleton', Fields, MinInv, frame = "return" => Counted,
                    \/ UNCHANGED tree \/ evaluating \/ climbing
                    \/ \E hits, misses : build_tree(hits, misses)
                    \/ \E c \in Configs : Fresh(c) /\ \E val : test_add_config(c, val)
             PROVE  MinInv'
  OBVIOUS
<1>1. CASE UNCHANGED tree
  BY <1>1 DEF tree, MinInv, Nodes, Leaves, Inner, Stacked, Waits, ToCome, IsLeast, LeastUpTo,
              Past, Cases, n_total, Below, Child
<1>2. CASE evaluating
  BY <1>2, MinLeaf, MinSplit, MinReturn DEF evaluating, evaluate_return
<1>3. CASE climbing
  BY <1>3, MinClimb DEF climbing
<1>4. CASE \E hits, misses : build_tree(hits, misses)
  BY <1>4, MinBuild
<1>5. CASE \E c \in Configs : Fresh(c) /\ \E val : test_add_config(c, val)
  BY <1>5, MinAdd DEF Fresh
<1> QED
  BY <1>1, <1>2, <1>3, <1>4, <1>5

LEMMA MinRight == MinInv /\ Skeleton => MinCasesRight
<1> SUFFICES ASSUME MinInv, Skeleton, frame = "built" PROVE \A m \in Nodes : IsLeast(m)
  BY DEF MinCasesRight, IsLeast
<1>1. \A m : ~Stacked(m)
  BY RootDone DEF MinInv
<1> QED
  BY <1>1 DEF MinInv, Waits
==============================================================================
