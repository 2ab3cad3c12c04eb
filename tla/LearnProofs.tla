----------------------------- MODULE LearnProofs -----------------------------
(***************************************************************************)
(* Proofs about LearnLocation for every program, every number of options   *)
(* and values, and every limit of the configuration file.                  *)
(***************************************************************************)
EXTENDS LearnLocation, CTreeProofs, CoveringProofs

(* Where the loop is, and what the tree and the generators do meanwhile.   *)
Control ==
    /\ pc = "init" => frame = "none" /\ generator = "domain"
    /\ pc = "gen" => frame = "built" /\ generator = "leaf"
    /\ pc \notin {"init", "gen"} => generator = "none"
    /\ pc = "idle" => frame \in {"none", "built"}
    /\ frame = "none" => need_rebuild
    /\ pc = "build" => frame \in {"evaluate", "return", "built"}
    /\ pc = "cex" => frame = "built"
    /\ pc = "test" => frame \in {"built", "climb"}

Selection ==
    /\ n_gen \in {"none", "normal", "heavy", "retry"} /\ stage \in 1 .. 3
    /\ pc \in {"cex", "gen"} => n_gen # "none"
    /\ pending \subseteq Leaves \X {1, 2} /\ (pc \notin {"cex", "gen"} => pending = {})
    /\ tries \in 0 .. RandTries /\ target \in Nat

Lists ==
    /\ hits \in SUBSET Configs /\ cov \in SUBSET Configs
    /\ need_rebuild \in BOOLEAN
    /\ pc \in {"init", "idle", "build", "cex", "gen", "test"}
    /\ cex \in Seq(Configs) /\ tested \in 0 .. Len(cex)
    /\ pc # "test" => tested = 0

Ctl == Control /\ Selection /\ Lists
CInv == Ctl /\ IInv /\ Fields /\ InnerMixed /\ GInv /\ templ \in Templates

------------------------------------------------------------------------------
(* The lists of configurations.                                            *)

LEMMA RangeOf ==
    ASSUME NEW S, NEW s \in Seq(S)
    PROVE  Range(s) = {s[i] : i \in 1 .. Len(s)} /\ Range(s) \subseteq S
BY DEF Range

Joined(list, r, seen) ==
    LET joined[k \in 0 .. Len(r)] ==
            IF k = 0 THEN list
            ELSE IF r[k] \in seen \cup Range(joined[k - 1]) THEN joined[k - 1]
                 ELSE Append(joined[k - 1], r[k])
    IN  joined

IsJoined(f, list, r, seen) ==
    /\ f \in [0 .. Len(r) -> Seq(Configs)] /\ f[0] = list
    /\ \A k \in 1 .. Len(r) :
          f[k] = IF r[k] \in seen \cup Range(f[k - 1]) THEN f[k - 1] ELSE Append(f[k - 1], r[k])

LEMMA JoinedFunction ==
    ASSUME NEW list \in Seq(Configs), NEW r \in Seq(Configs), NEW seen
    PROVE  IsJoined(Joined(list, r, seen), list, r, seen)
<1> DEFINE N == Len(r)
           S == Seq(Configs)
           put(f, k) == IF r[k] \in seen \cup Range(f) THEN f ELSE Append(f, r[k])
           step == [q \in S \X (1 .. N) |-> put(q[1], q[2])]
<1>1. N \in Nat
  OBVIOUS
<1>2. \A f \in S, k \in 1 .. N : put(f, k) \in S
  OBVIOUS
<1> HIDE DEF put, S
<1>3. step \in [S \X (1 .. N) -> S]
  BY <1>2
<1>4. \A f \in S, k \in 1 .. N : step[<<f, k>>] = put(f, k)
  OBVIOUS
<1> HIDE DEF step, N
<1>5. PICK f : IsLoop(f, N, S, list, step)
  BY <1>1, <1>3, LoopExists DEF S
<1> DEFINE Is(g) == g = [k \in 0 .. N |-> IF k = 0 THEN list ELSE put(g[k - 1], k)]
<1>6. f \in [0 .. N -> S] /\ f[0] = list /\ \A k \in 1 .. N : f[k] = put(f[k - 1], k)
  <2>1. f \in [0 .. N -> S] /\ f[0] = list /\ \A k \in 1 .. N : f[k] = step[<<f[k - 1], k>>]
    BY <1>5 DEF IsLoop
  <2>2. \A k \in 1 .. N : f[k - 1] \in S
    BY <1>1, <2>1
  <2> QED
    BY <1>4, <2>1, <2>2
<1>7. Is(f)
  <2>1. \A k \in 0 .. N : k = 0 \/ k \in 1 .. N
    BY <1>1
  <2>2. \A k \in 0 .. N : f[k] = IF k = 0 THEN list ELSE put(f[k - 1], k)
    BY <1>6, <2>1
  <2> QED
    BY <1>6, <2>2
<1> DEFINE g == Joined(list, r, seen)
<1>8. g = CHOOSE h : Is(h)
  BY DEF Joined, put, N
<1> HIDE DEF g
<1>9. Is(g)
  <2> HIDE DEF Is
  <2> QED
    BY <1>7, <1>8
<1>10. g[0] = list /\ (\A k \in 1 .. N : g[k] = put(g[k - 1], k)) /\ g = [k \in 0 .. N |-> g[k]]
  <2>1. \A k \in 0 .. N : g[k] = IF k = 0 THEN list ELSE put(g[k - 1], k)
    BY <1>9
  <2>2. 0 \in 0 .. N /\ \A k \in 1 .. N : k \in 0 .. N /\ k # 0
    BY <1>1
  <2> QED
    BY <1>9, <2>1, <2>2
<1> HIDE DEF Is
<1> DEFINE Same == {k \in 0 .. N : g[k] = f[k]}
<1>11. \A k \in 0 .. N : k \in Same
  <2>1. 0 \in Same
    BY <1>1, <1>6, <1>10
  <2>2. ASSUME NEW k \in 0 .. N - 1, k \in Same PROVE k + 1 \in Same
    <3>1. k + 1 \in 1 .. N /\ k + 1 \in 0 .. N /\ (k + 1) - 1 = k
      BY <1>1
    <3>2. g[k + 1] = f[k + 1]
      BY <1>6, <1>10, <2>2, <3>1
    <3> QED
      BY <3>1, <3>2
  <2> HIDE DEF Same
  <2> QED
    BY <1>1, <2>1, <2>2, Induction
<1>12. \A k \in 0 .. N : g[k] \in S
  BY <1>6, <1>11
<1>13. g \in [0 .. N -> S]
  BY <1>10, <1>12
<1> QED
  BY <1>10, <1>13 DEF IsJoined, g, N, S, put

(* gen_for: cex grows by configurations that are new to it and to the store*)
LEMMA GenForList ==
    ASSUME NEW list \in Seq(Configs), NEW r \in Seq(Configs), NEW seen,
           IsInjective(list), Range(list) \cap seen = {}
    PROVE  LET all == Joined(list, r, seen)[Len(r)]
           IN  all \in Seq(Configs) /\ IsInjective(all) /\ Range(all) \cap seen = {}
<1> DEFINE g == Joined(list, r, seen)
           N == Len(r)
           Good == {k \in 0 .. N : IsInjective(g[k]) /\ Range(g[k]) \cap seen = {}}
<1>1. IsJoined(g, list, r, seen)
  BY JoinedFunction
<1>2. N \in Nat
  OBVIOUS
<1> HIDE DEF g
<1>3. /\ g \in [0 .. N -> Seq(Configs)] /\ g[0] = list
      /\ \A k \in 1 .. N :
            g[k] = IF r[k] \in seen \cup Range(g[k - 1]) THEN g[k - 1] ELSE Append(g[k - 1], r[k])
  BY <1>1 DEF IsJoined
<1>4. 0 \in Good
  BY <1>2, <1>3
<1>5. ASSUME NEW k \in 0 .. N - 1, k \in Good PROVE k + 1 \in Good
  <2> DEFINE s == g[k]
             t == g[k + 1]
             c == r[k + 1]
  <2>1. k + 1 \in 1 .. N /\ k + 1 \in 0 .. N /\ (k + 1) - 1 = k /\ k \in 0 .. N
    BY <1>2
  <2>2. t = IF c \in seen \cup Range(s) THEN s ELSE Append(s, c)
    BY <1>3, <2>1
  <2>3. s \in Seq(Configs) /\ IsInjective(s) /\ Range(s) \cap seen = {} /\ c \in Configs
    BY <1>3, <1>5, <2>1
  <2> HIDE DEF s, t, c
  <2>4. IsInjective(t) /\ Range(t) \cap seen = {}
    <3>1. CASE c \in seen \cup Range(s)
      BY <2>2, <2>3, <3>1
    <3>2. CASE c \notin seen \cup Range(s)
      <4>1. /\ t \in Seq(Configs) /\ Len(t) = Len(s) + 1 /\ t[Len(s) + 1] = c
            /\ \A i \in 1 .. Len(s) : t[i] = s[i]
            /\ Len(s) \in Nat
        BY <2>2, <2>3, <3>2, AppendProperties
      <4>2. \A i \in 1 .. Len(t) : i \in 1 .. Len(s) \/ i = Len(s) + 1
        BY <4>1
      <4>3. /\ Range(s) = {s[i] : i \in 1 .. Len(s)} /\ Range(t) = {t[i] : i \in 1 .. Len(t)}
            /\ DOMAIN s = 1 .. Len(s) /\ DOMAIN t = 1 .. Len(t)
        BY <2>3, <4>1, RangeOf
      <4>4. \A i \in 1 .. Len(s) : s[i] # c
        BY <3>2, <4>3
      <4>5. IsInjective(t)
        BY <2>3, <4>1, <4>2, <4>3, <4>4 DEF IsInjective
      <4>6. Range(t) \cap seen = {}
        BY <2>3, <3>2, <4>1, <4>2, <4>3
      <4> QED
        BY <4>5, <4>6
    <3> QED
      BY <3>1, <3>2
  <2> QED
    BY <2>1, <2>4 DEF t
<1>6. \A k \in 0 .. N : k \in Good
  <2> HIDE DEF Good
  <2> QED
    BY <1>2, <1>4, <1>5, Induction
<1>7. N \in 0 .. N
  BY <1>2
<1> QED
  BY <1>3, <1>6, <1>7 DEF g

(* In LearnLocation's words; cex has nothing of the store in it.           *)
LEMMA GenFor ==
    ASSUME ret \in Seq(Configs), cex \in Seq(Configs)
    PROVE  /\ gen_for \in Seq(Configs)
           /\ IsInjective(cex) /\ Range(cex) \cap cov = {} =>
                 IsInjective(gen_for) /\ Range(gen_for) \cap cov = {}
<1>1. gen_for = Joined(cex, ret, cov)[Len(ret)]
  BY DEF gen_for, set_conf_hash, Joined
<1>2. IsJoined(Joined(cex, ret, cov), cex, ret, cov) /\ Len(ret) \in 0 .. Len(ret)
  BY JoinedFunction
<1>3. gen_for \in Seq(Configs)
  BY <1>1, <1>2 DEF IsJoined
<1> QED
  BY <1>1, <1>3, GenForList
------------------------------------------------------------------------------
(* The invariant, and that every step is one of the tree's and generators'.*)

Kinds == {"normal", "heavy", "retry"}

LEMMA GatheredLeaves ==
    ASSUME NEW kind \in Kinds
    PROVE  Gathered(kind) \subseteq Leaves \X {1, 2}
<1>1. \A lim, copy : copy \in {1, 2} => AtMost(lim, copy) \subseteq Leaves \X {1, 2}
  BY DEF AtMost
<1>2. FewCases \subseteq Leaves \X {1, 2}
  BY <1>1 DEF FewCases
<1> QED
  BY <1>1, <1>2 DEF Gathered, Kinds

LEMMA LimitsNat ==
    ASSUME NEW kind \in Kinds
    PROVE  \A i \in 1 .. 3 : Limits(kind)[i] \in Nat
BY LearnAssumption DEF Limits, Kinds

LEMMA BeginGenCex ==
    ASSUME NEW kind \in Kinds, begin_gen_cex(kind), UNCHANGED tree
    PROVE  Selection'
<1>1. /\ n_gen' = kind /\ stage' = 1 /\ pending' = Gathered(kind) /\ tries' = 0
      /\ target' = Limits(kind)[1] /\ pc' = "cex"
  BY DEF begin_gen_cex
<1>2. Leaves' = Leaves
  BY DEF tree, Leaves, Nodes
<1>3. target' \in Nat /\ tries' \in 0 .. RandTries
  BY <1>1, LimitsNat, LearnAssumption
<1>4. pending' \subseteq Leaves' \X {1, 2}
  BY <1>1, <1>2, GatheredLeaves
<1> QED
  BY <1>1, <1>3, <1>4 DEF Selection, Kinds

LEMMA NoSelectionSelects ==
    ASSUME NoSelection, pc' \notin {"cex", "gen"}
    PROVE  Selection'
<1>1. tries' \in 0 .. RandTries
  BY LearnAssumption DEF NoSelection
<1> QED
  BY <1>1 DEF NoSelection, Selection

LEMMA KeepSelection ==
    ASSUME Selection, UNCHANGED <<n_gen, stage, pending, tries, target>>,
           pending = {} \/ UNCHANGED splitvar,
           pc' \in {"cex", "gen"} => pc \in {"cex", "gen"},
           pc \in {"cex", "gen"} => pc' \in {"cex", "gen"}
    PROVE  Selection'
<1>1. pending' \subseteq Leaves' \X {1, 2}
  BY DEF Selection, Leaves, Nodes
<1> QED
  BY <1>1 DEF Selection

LEMMA InitStep ==
    ASSUME CInv, run_init_configs
    PROVE  Ctl' /\ [GNext]_<<tree, gen>>
<1>1. /\ pc = "init" /\ ~Unfinished /\ cov' = Range(ret) /\ gen_end /\ pc' = "idle"
      /\ UNCHANGED <<tree, hits, need_rebuild, interpreter, select, cex, tested>>
  BY DEF run_init_configs
<1>2. frame = "none" /\ frame' = "none" /\ generator = "domain" /\ generator' = "none"
  BY <1>1 DEF CInv, Ctl, Control, gen_end, tree
<1>3. Selection'
  BY <1>1, KeepSelection DEF CInv, Ctl, Selection, select
<1>4. cov' \in SUBSET Configs
  BY <1>1, RangeOf DEF CInv, GInv, Typed
<1> QED
  BY <1>1, <1>2, <1>3, <1>4 DEF CInv, Ctl, Control, Lists, GNext
LEMMA BuildSteps ==
    ASSUME CInv, rebuild \/ building
    PROVE  Ctl' /\ [GNext]_<<tree, gen>>
<1>1. CASE rebuild
  <2>1. /\ pc = "idle" /\ pc' = "build" /\ need_rebuild' = FALSE /\ frame' = "evaluate"
        /\ build_tree(Hits, Misses)
        /\ UNCHANGED <<gen, hits, cov, select, cex, tested>>
    BY <1>1 DEF rebuild, build_tree
  <2>2. generator = "none" /\ generator' = "none"
    BY <2>1 DEF CInv, Ctl, Control, gen
  <2>3. Next
    <3>1. Hits \in SUBSET Configs /\ Misses \in SUBSET (Configs \ Hits)
      BY DEF CInv, Ctl, Lists, Hits, Misses
    <3> QED
      BY <2>1, <3>1 DEF Next
  <2>4. Selection'
    BY <2>1, KeepSelection DEF CInv, Ctl, Selection, select
  <2> QED
    BY <2>1, <2>2, <2>3, <2>4 DEF CInv, Ctl, Control, Lists, GNext
<1>2. CASE building
  <2>1. /\ pc = "build" /\ evaluating
        /\ UNCHANGED <<gen, hits, cov, need_rebuild, interpreter, pc, select, cex, tested>>
    BY <1>2 DEF building
  <2>2. generator = "none" /\ generator' = "none"
    BY <2>1 DEF CInv, Ctl, Control, gen
  <2>3. frame' \in {"evaluate", "return", "built"}
    BY <2>1 DEF evaluating, evaluate_leaf, evaluate_split, evaluate_return, Returns
  <2>4. Selection'
    BY <2>1, KeepSelection DEF CInv, Ctl, Selection, select
  <2> QED
    BY <2>1, <2>2, <2>3, <2>4 DEF CInv, Ctl, Control, Lists, GNext, Next
<1> QED
  BY <1>1, <1>2

LEMMA BeginSteps ==
    ASSUME CInv, begin_normal \/ begin_heavy \/ retry \/ give_up
    PROVE  Ctl' /\ [GNext]_<<tree, gen>>
<1>1. /\ frame = "built" /\ generator = "none" /\ tested = 0
      /\ UNCHANGED <<tree, gen, hits, cov, need_rebuild, interpreter, cex, tested>>
  BY DEF CInv, Ctl, Control, Lists, begin_normal, begin_heavy, retry, give_up, CexDone
<1>2. frame' = "built" /\ generator' = "none"
  BY <1>1 DEF tree, gen
<1>3. CASE begin_normal \/ begin_heavy \/ retry
  <2>1. PICK kind \in Kinds : begin_gen_cex(kind)
    BY <1>3 DEF begin_normal, begin_heavy, retry, Kinds
  <2>2. Selection' /\ pc' = "cex"
    BY <1>1, <2>1, BeginGenCex DEF begin_gen_cex
  <2> QED
    BY <1>1, <1>2, <2>2 DEF CInv, Ctl, Control, Lists
<1>4. CASE give_up
  <2>1. Selection' /\ pc' = "idle"
    BY <1>4, NoSelectionSelects DEF give_up
  <2> QED
    BY <1>1, <1>2, <2>1 DEF CInv, Ctl, Control, Lists
<1> QED
  BY <1>3, <1>4

LEMMA VisitStep ==
    ASSUME CInv, visit_leaf
    PROVE  Ctl' /\ [GNext]_<<tree, gen>>
<1>1. /\ pc = "cex" /\ pc' = "gen"
      /\ UNCHANGED <<tree, hits, cov, need_rebuild, interpreter, n_gen, stage, target, cex, tested>>
  BY DEF visit_leaf
<1>2. frame = "built" /\ generator = "none" /\ frame' = "built" /\ n_gen \in Kinds
  BY <1>1 DEF CInv, Ctl, Control, Selection, tree, Kinds
<1>3. pending \subseteq Leaves \X {1, 2} /\ Gathered(n_gen) \subseteq Leaves \X {1, 2}
  BY <1>2, GatheredLeaves DEF CInv, Ctl, Selection
<1>4. PICK x \in pending \cup Gathered(n_gen) : gen_begin(x[1])
  BY DEF visit_leaf, Smallest, Largest
<1>5. x[1] \in Leaves
  BY <1>3, <1>4
<1>6. pending' \subseteq pending /\ tries' \in 0 .. RandTries
  BY LearnAssumption DEF visit_leaf, CInv, Ctl, Selection
<1>7. Selection'
  <2>1. pending' \subseteq Leaves' \X {1, 2}
    BY <1>1, <1>3, <1>6 DEF tree, Leaves, Nodes
  <2> QED
    BY <1>1, <1>6, <2>1 DEF CInv, Ctl, Selection
<1>8. generator' = "leaf"
  BY <1>4 DEF gen_begin
<1> QED
  BY <1>1, <1>2, <1>4, <1>5, <1>7, <1>8 DEF CInv, Ctl, Control, Lists, GNext

LEMMA NextLoopStep ==
    ASSUME CInv, next_loop
    PROVE  Ctl' /\ [GNext]_<<tree, gen>>
<1>1. /\ pc = "cex" /\ stage < 3 /\ stage' = stage + 1
      /\ target' = Limits(n_gen)[stage + 1] + Len(cex)
      /\ pending' = (IF stage = 1 THEN {} ELSE Gathered(n_gen))
      /\ tries' = 0
      /\ UNCHANGED <<tree, gen, hits, cov, need_rebuild, interpreter, pc, n_gen, cex, tested>>
  BY DEF next_loop
<1>2. frame = "built" /\ generator = "none" /\ frame' = "built" /\ generator' = "none" /\ n_gen \in Kinds
  BY <1>1 DEF CInv, Ctl, Control, Selection, tree, gen, Kinds
<1>3. Selection'
  <2>1. pending' \subseteq Leaves' \X {1, 2}
    BY <1>1, <1>2, GatheredLeaves DEF tree, Leaves, Nodes
  <2>2. stage + 1 \in 1 .. 3 /\ Len(cex) \in Nat
    BY <1>1 DEF CInv, Ctl, Selection, Lists
  <2>3. target' \in Nat
    <3>1. Limits(n_gen)[stage + 1] \in Nat
      BY <1>2, <2>2, LimitsNat
    <3> QED
      BY <1>1, <2>2, <3>1
  <2>4. tries' \in 0 .. RandTries
    BY <1>1, LearnAssumption
  <2> QED
    BY <1>1, <2>1, <2>2, <2>3, <2>4 DEF CInv, Ctl, Selection
<1> QED
  BY <1>1, <1>2, <1>3 DEF CInv, Ctl, Control, Lists

LEMMA GenSteps ==
    ASSUME CInv, generating \/ end_gen_for
    PROVE  Ctl' /\ [GNext]_<<tree, gen>>
<1>1. CASE generating
  <2>1. /\ round /\ UNCHANGED <<tree, hits, cov, need_rebuild, interpreter, pc, select, cex, tested>>
    BY <1>1 DEF generating
  <2>2. generator' = generator
    BY <2>1 DEF round, domain_round, leaf_round
  <2>3. Selection'
    BY <2>1, KeepSelection DEF CInv, Ctl, Selection, select, tree
  <2> QED
    BY <2>1, <2>2, <2>3 DEF CInv, Ctl, Control, Lists, GNext, tree
<1>2. CASE end_gen_for
  <2>1. /\ pc = "gen" /\ ~Unfinished /\ cex' = gen_for /\ gen_end /\ pc' = "cex"
        /\ UNCHANGED <<tree, hits, cov, need_rebuild, interpreter, select, tested>>
    BY <1>2 DEF end_gen_for
  <2>2. generator = "leaf" /\ generator' = "none" /\ frame = "built" /\ frame' = "built" /\ tested = 0
    BY <2>1 DEF CInv, Ctl, Control, Lists, gen_end, tree
  <2>3. Selection'
    BY <2>1, KeepSelection DEF CInv, Ctl, Selection, select, tree
  <2>4. cex' \in Seq(Configs) /\ 0 \in 0 .. Len(cex')
    <3>1. cex' \in Seq(Configs)
      BY <2>1, GenFor DEF CInv, Ctl, Lists, GInv, Typed
    <3> QED
      BY <3>1, LenProperties
  <2> QED
    BY <2>1, <2>2, <2>3, <2>4 DEF CInv, Ctl, Control, Lists, GNext
<1> QED
  BY <1>1, <1>2

LEMMA TestSteps ==
    ASSUME CInv, run_configs \/ test_one \/ test_climbs \/ end_test
    PROVE  Ctl' /\ [GNext]_<<tree, gen>>
<1>1. CASE run_configs
  <2>1. /\ pc = "cex" /\ cov' = cov \cup Range(cex) /\ NoSelection /\ pc' = "test"
        /\ UNCHANGED <<tree, gen, hits, need_rebuild, interpreter, cex, tested>>
    BY <1>1 DEF run_configs, CexDone
  <2>2. frame' = "built" /\ generator' = "none" /\ cov' \in SUBSET Configs
    BY <2>1, RangeOf DEF CInv, Ctl, Control, Lists, tree, gen
  <2>3. Selection'
    BY <2>1, NoSelectionSelects
  <2> QED
    BY <2>1, <2>2, <2>3 DEF CInv, Ctl, Control, Lists
<1>2. CASE test_one
  <2> DEFINE c == cex[tested + 1]
  <2>1. /\ pc = "test" /\ tested < Len(cex) /\ test_add_config(c, c \in hits)
        /\ tested' \in {tested + 1, Len(cex)} /\ need_rebuild' \in {need_rebuild, TRUE}
        /\ UNCHANGED <<gen, hits, cov, interpreter, pc, select, cex>>
    BY <1>2 DEF test_one
  <2>2. tested + 1 \in 1 .. Len(cex) /\ tested' \in 0 .. Len(cex) /\ c \in Configs
    BY <2>1 DEF CInv, Ctl, Lists
  <2>3. frame = "built" /\ frame' \in {"built", "climb"} /\ generator = "none" /\ generator' = "none"
    BY <2>1 DEF test_add_config, Climbs, CInv, Ctl, Control, gen
  <2>4. Next
    <3> DEFINE val == c \in hits
    <3>1. val \in BOOLEAN /\ c \in Configs /\ test_add_config(c, val)
      BY <2>1, <2>2
    <3> HIDE DEF c, val
    <3>2. \E d \in Configs, b \in BOOLEAN : test_add_config(d, b)
      BY <3>1
    <3> QED
      BY <3>2 DEF Next
  <2>5. Selection'
    BY <2>1, KeepSelection DEF CInv, Ctl, Selection, select, test_add_config
  <2> HIDE DEF c
  <2>6. Lists' /\ Control'
    BY <2>1, <2>2, <2>3 DEF CInv, Ctl, Lists, Control
  <2> QED
    BY <2>1, <2>3, <2>4, <2>5, <2>6 DEF Ctl, GNext
<1>3. CASE test_climbs
  <2>1. /\ pc = "test" /\ climbing
        /\ UNCHANGED <<gen, hits, cov, need_rebuild, interpreter, pc, select, cex, tested>>
    BY <1>3 DEF test_climbs
  <2>2. frame' \in {"built", "climb"} /\ generator = "none" /\ generator' = "none"
    BY <2>1 DEF climbing, test_add_return, Climbs, CInv, Ctl, Control, gen
  <2>3. Selection'
    BY <2>1, KeepSelection DEF CInv, Ctl, Selection, select
  <2> QED
    BY <2>1, <2>2, <2>3 DEF CInv, Ctl, Control, Lists, GNext, Next
<1>4. CASE end_test
  <2>1. /\ pc = "test" /\ frame = "built" /\ cex' = << >> /\ tested' = 0 /\ pc' = "idle"
        /\ UNCHANGED <<tree, gen, hits, cov, need_rebuild, interpreter, select>>
    BY <1>4 DEF end_test
  <2>2. frame' = "built" /\ generator' = "none"
    BY <2>1 DEF tree, gen, CInv, Ctl, Control
  <2>3. Selection'
    BY <2>1, KeepSelection DEF CInv, Ctl, Selection, select, tree
  <2>4. cex' \in Seq(Configs) /\ tested' \in 0 .. Len(cex')
    BY <2>1
  <2> QED
    BY <2>1, <2>2, <2>3, <2>4 DEF CInv, Ctl, Control, Lists
<1> QED
  BY <1>1, <1>2, <1>3, <1>4

LEMMA OtherRunStep ==
    ASSUME CInv, NEW c \in Configs, other_run(c)
    PROVE  Ctl' /\ [GNext]_<<tree, gen>>
<1>1. /\ pc = "idle" /\ cov' = cov \cup {c}
      /\ need_rebuild \/ frame # "none"
      /\ need_rebuild' \in BOOLEAN
      /\ UNCHANGED <<tree, gen, hits, pc, select, cex, tested>>
  BY DEF other_run, CInv, Ctl, Control, Lists
<1>2. need_rebuild => need_rebuild'
  BY DEF other_run
<1>3. frame' = frame /\ generator' = generator
  BY <1>1 DEF tree, gen
<1>4. Selection'
  BY <1>1, KeepSelection DEF CInv, Ctl, Selection, select, tree
<1> QED
  BY <1>1, <1>2, <1>3, <1>4 DEF CInv, Ctl, Control, Lists

LEMMA CInit == LInit => CInv
<1> SUFFICES ASSUME LInit PROVE CInv
  OBVIOUS
<1>1. IInv /\ Fields /\ InnerMixed /\ GInv
  BY InitInv, FieldsInit, GInitInv DEF LInit
<1>2. Control
  BY DEF LInit, Init, GenInit, Control
<1>3. Selection
  BY LearnAssumption DEF LInit, Selection
<1>4. Lists
  BY LearnAssumption DEF LInit, Lists
<1>5. templ \in Templates
  BY RootIsTemplate DEF LInit, GenInit, Root
<1> QED
  BY <1>1, <1>2, <1>3, <1>4, <1>5 DEF CInv, Ctl

LEMMA CStep == CInv /\ [LNext]_vars => Ctl' /\ [GNext]_<<tree, gen>>
<1> SUFFICES ASSUME CInv, [LNext]_vars PROVE Ctl' /\ [GNext]_<<tree, gen>>
  OBVIOUS
<1>1. CASE run_init_configs
  BY <1>1, InitStep
<1>2. CASE rebuild \/ building
  BY <1>2, BuildSteps
<1>3. CASE begin_normal \/ begin_heavy \/ retry \/ give_up
  BY <1>3, BeginSteps
<1>4. CASE visit_leaf
  BY <1>4, VisitStep
<1>5. CASE next_loop
  BY <1>5, NextLoopStep
<1>6. CASE generating \/ end_gen_for
  BY <1>6, GenSteps
<1>7. CASE run_configs \/ test_one \/ test_climbs \/ end_test
  BY <1>7, TestSteps
<1>8. CASE \E c \in Configs : other_run(c)
  BY <1>8, OtherRunStep
<1>9. CASE UNCHANGED vars
  <2>1. UNCHANGED <<tree, gen, hits, cov, need_rebuild, pc, select, cex, tested>>
    BY <1>9 DEF vars
  <2>2. Selection'
    BY <2>1, KeepSelection DEF CInv, Ctl, Selection, select, tree
  <2> QED
    BY <2>1, <2>2 DEF CInv, Ctl, Control, Lists, tree, gen
<1> QED
  BY <1>1, <1>2, <1>3, <1>4, <1>5, <1>6, <1>7, <1>8, <1>9 DEF LNext, run_one_loc

(* A step of the generators, or none, is a step of the tree or none.       *)
LEMMA TreeStep == [GNext]_<<tree, gen>> => [Next]_tree
<1> SUFFICES ASSUME [GNext]_<<tree, gen>> PROVE Next \/ UNCHANGED tree
  OBVIOUS
<1> QED
  BY DEF GNext

LEMMA CNext == CInv /\ [LNext]_vars => CInv'
<1> SUFFICES ASSUME CInv, [LNext]_vars PROVE CInv'
  OBVIOUS
<1>1. Ctl' /\ [GNext]_<<tree, gen>>
  BY CStep
<1>2. GInv'
  BY <1>1, GNextInv DEF CInv
<1>3. [Next]_tree
  BY <1>1, TreeStep
<1>4. IInv' /\ Fields' /\ InnerMixed'
  BY <1>3, NextInv, FieldsNext DEF CInv
<1>5. templ' \in Templates
  <2>1. \A n \in Leaves : n \in Templates
    BY NodesAreTemplates DEF CInv, IInv, Skeleton
  <2> QED
    BY <1>1, <2>1, RootIsTemplate
    DEF CInv, GNext, round, domain_round, leaf_round, gen_begin, gen_end, gen, Root
<1> QED
  BY <1>1, <1>2, <1>4, <1>5 DEF CInv

LEMMA Always == LSpec => []CInv
<1> QED
  BY CInit, CNext, PTL DEF LSpec

------------------------------------------------------------------------------
(* Every step of the loop leaves the tree to CTree and the generators to   *)
(* CoveringConfigs: it builds a tree only when no generator runs, adds runs*)
(* only to a finished tree, and generates only in leaves of a finished one.*)
THEOREM LoopImplementsTree == LSpec => ImplementsTree
<1>1. LInit => Init /\ GenInit
  BY DEF LInit
<1> QED
  BY <1>1, CInit, CNext, CStep, PTL DEF LSpec, ImplementsTree, GSpec
------------------------------------------------------------------------------
(* A finished tree as a value.                                             *)

Done == frame \in {"built", "climb"}

LEMMA ShapeRight ==
    ASSUME IInv, Done
    PROVE  /\ WellFormed(Shape)
           /\ \A c \in Configs, n \in Leaves :
                 Matches(c, n) => LeafOf(Shape, c) = n /\ (Predicts(Shape, c) <=> leaf_value(n))
<1>1. DOMAIN Shape = Nodes
  BY DEF Shape
<1>2. \A n \in Inner : Shape[n] = splitvar[n] /\ splitvar[n] \in Vars /\ n \in Nodes
  BY NodesAreTemplates DEF IInv, Skeleton, Shape, Inner
<1>3. \A n \in Leaves : Shape[n] = (IF leaf_value(n) THEN kInterpretHit ELSE kInterpretMiss) /\ n \in Nodes
  BY DEF Shape, Leaves
<1>4. \A v \in Vars : v \notin {kInterpretHit, kInterpretMiss}
  BY OptionsAssumption DEF Vars, kInterpretHit, kInterpretMiss
<1>5. LeavesOf(Shape) = Leaves /\ (DOMAIN Shape) \ LeavesOf(Shape) = Inner
  BY <1>1, <1>2, <1>3, <1>4, NodesAreTemplates DEF IInv, Skeleton, LeavesOf, LeafIn
<1>6. Root \in Nodes /\ Nodes \subseteq Templates
  BY DEF IInv, Skeleton, TreeShape, Done
<1>7. \A n \in Leaves, m \in Nodes : Below(m, n) => m = n
  BY DEF IInv, Skeleton, LeavesAtBottom
<1>8. ASSUME NEW n \in Inner
      PROVE  /\ Shape[n] \in Vars /\ n[Shape[n]] = Unset /\ Children(n, Shape[n]) \subseteq Nodes
             /\ \A m \in Nodes : Below(m, n) /\ m # n => m[Shape[n]] # Unset
  BY <1>2 DEF IInv, Skeleton, HasChildren, BelowSplit
<1> HIDE DEF Shape
<1>9. WellFormed(Shape)
  BY <1>1, <1>5, <1>6, <1>7, <1>8 DEF WellFormed
<1>10. ASSUME NEW c \in Configs, NEW n \in Leaves, Matches(c, n)
       PROVE  LeafOf(Shape, c) = n /\ (Predicts(Shape, c) <=> leaf_value(n))
  <2>1. LeafOf(Shape, c) = n
    BY <1>5, <1>9, <1>10, LeafOfRight
  <2>2. kInterpretHit # kInterpretMiss
    BY DEF kInterpretHit, kInterpretMiss
  <2> QED
    BY <1>3, <2>1, <2>2 DEF Predicts
<1> QED
  BY <1>9, <1>10

LEMMA SameShape ==
    ASSUME UNCHANGED <<hit_configs, miss_configs, splitvar, default_hit>>
    PROVE  Shape' = Shape /\ Leaves' = Leaves /\ \A n : leaf_value(n)' = leaf_value(n)
BY DEF Shape, Leaves, Nodes, leaf_value

------------------------------------------------------------------------------
(* What a tree that need not be rebuilt says of the runs shown to it, and  *)
(* the code that is kept for it.                                           *)

LeafAgrees(c) == \A n \in Leaves : Matches(c, n) => (leaf_value(n) <=> c \in hits)

Observed ==
    /\ pc = "build" => /\ ~need_rebuild
                       /\ hit_configs[Root] = Hits /\ miss_configs[Root] = Misses
    /\ Done /\ ~need_rebuild => \A c \in cov \ Untested : LeafAgrees(c)
    /\ interpreter # << >> => Done /\ interpreter = Code(Shape)

LEMMA KeepObserved ==
    ASSUME Observed, UNCHANGED <<hit_configs, miss_configs, splitvar, default_hit>>,
           UNCHANGED <<hits, interpreter, need_rebuild>>, Done <=> Done', pc' # "build",
           cov' \ Untested' \subseteq cov \ Untested
    PROVE  Observed'
<1>1. Shape' = Shape /\ Leaves' = Leaves /\ \A n : leaf_value(n)' = leaf_value(n)
  BY SameShape
<1>2. \A c : LeafAgrees(c)' <=> LeafAgrees(c)
  BY <1>1 DEF LeafAgrees, Matches
<1>3. Done' /\ ~need_rebuild' => \A c \in cov' \ Untested' : LeafAgrees(c)'
  BY <1>2 DEF Observed
<1>4. interpreter' # << >> => Done' /\ interpreter' = Code(Shape')
  BY <1>1 DEF Observed
<1> QED
  BY <1>3, <1>4 DEF Observed

FromItsRuns == /\ IInv /\ Done /\ cov \in SUBSET Configs
               /\ hit_configs[Root] = Hits /\ miss_configs[Root] = Misses

LEMMA FitsRuns == FromItsRuns => \A c \in cov : LeafAgrees(c)
<1> SUFFICES ASSUME FromItsRuns, NEW c \in cov, NEW n \in Leaves, Matches(c, n)
             PROVE  leaf_value(n) <=> c \in hits
  BY DEF LeafAgrees
<1>1. n \in Nodes /\ (hit_configs[n] = {} \/ miss_configs[n] = {})
  BY DEF FromItsRuns, IInv, SplitUp, Waits, is_leaf, Done, Leaves
<1>2. /\ c \in hits => c \in hit_configs[n]
      /\ c \notin hits => c \in miss_configs[n]
  BY <1>1 DEF FromItsRuns, IInv, Runs, NodesHoldTheirRuns, Hits, Misses
<1> QED
  BY <1>1, <1>2 DEF leaf_value

LEMMA EvaluatingKeeps ==
    ASSUME IInv, evaluating
    PROVE  /\ frame \in {"evaluate", "return"}
           /\ hit_configs'[Root] = hit_configs[Root] /\ miss_configs'[Root] = miss_configs[Root]
<1>1. CASE evaluate_leaf \/ \E p \in Nodes : evaluate_return(p)
  BY <1>1 DEF evaluate_leaf, evaluate_return
<1>2. CASE \E v \in Vars : evaluate_split(v)
  <2>1. PICK v \in Vars : evaluate_split(v)
    BY <1>2
  <2>2. Root \in Nodes /\ Children(at, v) \cap Nodes = {} /\ frame = "evaluate"
    BY <2>1, SplitFacts DEF IInv, Skeleton, TreeShape, evaluate_split
  <2> QED
    BY <2>1, <2>2 DEF evaluate_split, Sections
<1> QED
  BY <1>1, <1>2 DEF evaluating

LEMMA InterpretShape ==
    ASSUME IInv, Done, NEW c \in Configs
    PROVE  Interpret(Code(Shape), c) = IF Predicts(Shape, c) THEN kInterpretHit ELSE kInterpretMiss
<1>1. WellFormed(Shape)
  BY ShapeRight
<1>2. Interpret(Code(Shape), c) = Shape[LeafOf(Shape, c)]
  BY <1>1, InterpretRight
<1>3. Shape[LeafOf(Shape, c)] \in {kInterpretHit, kInterpretMiss}
  BY <1>1, LeafOfRight DEF LeavesOf, LeafIn
<1> QED
  BY <1>2, <1>3 DEF Predicts

LEMMA BuildObserved ==
    ASSUME CInv, Observed, rebuild \/ building, IInv'
    PROVE  Observed'
<1>1. CASE rebuild
  <2>1. /\ pc' = "build" /\ need_rebuild' = FALSE /\ interpreter' = << >> /\ frame' = "evaluate"
        /\ hit_configs' = [n \in {Root} |-> Hits] /\ miss_configs' = [n \in {Root} |-> Misses]
        /\ UNCHANGED <<hits, cov>>
    BY <1>1 DEF rebuild, build_tree
  <2>2. Hits' = Hits /\ Misses' = Misses
    BY <2>1 DEF Hits, Misses
  <2> QED
    BY <2>1, <2>2, SameShape DEF Observed, Done, Root, NoneSet
<1>2. CASE building
  <2>1. /\ pc = "build" /\ pc' = "build" /\ evaluating /\ UNCHANGED <<hits, cov, need_rebuild, interpreter>>
    BY <1>2 DEF building
  <2>2. /\ frame \in {"evaluate", "return"}
        /\ hit_configs'[Root] = hit_configs[Root] /\ miss_configs'[Root] = miss_configs[Root]
    BY <2>1, EvaluatingKeeps DEF CInv
  <2>3. interpreter' = << >>
    BY <2>1, <2>2 DEF Observed, Done
  <2>4. Hits' = Hits /\ Misses' = Misses /\ Root' = Root
    BY <2>1 DEF Hits, Misses, Root, NoneSet
  <2>5. (hit_configs[Root] = Hits)' /\ (miss_configs[Root] = Misses)'
    BY <2>1, <2>2, <2>4 DEF Observed
  <2>6. Done' => \A c \in cov' : LeafAgrees(c)'
    <3> SUFFICES ASSUME Done' PROVE (\A c \in cov : LeafAgrees(c))'
      OBVIOUS
    <3>1. cov' \in SUBSET Configs
      BY <2>1 DEF CInv, Ctl, Lists
    <3>2. FromItsRuns'
      BY <2>5, <3>1 DEF FromItsRuns
    <3> QED
      BY <3>2, FitsRuns, PTL
  <2> QED
    BY <2>1, <2>3, <2>5, <2>6 DEF Observed
<1> QED
  BY <1>1, <1>2
LEMMA TestObserved ==
    ASSUME CInv, Observed, test_one
    PROVE  Observed'
<1> DEFINE c == cex[tested + 1]
<1>1. /\ pc = "test" /\ pc' = "test" /\ tested < Len(cex)
      /\ test_add_config(c, c \in hits)
      /\ IF leaf_value(at') = (c \in hits)
         THEN tested' = tested + 1 /\ need_rebuild' = need_rebuild
         ELSE tested' = Len(cex) /\ need_rebuild' = TRUE
      /\ UNCHANGED <<hits, cov, interpreter, cex>>
  BY DEF test_one
<1>2. tested \in Nat /\ Len(cex) \in Nat /\ tested + 1 \in 1 .. Len(cex) /\ c \in Configs
  BY <1>1 DEF CInv, Ctl, Lists
<1>3. /\ UNCHANGED <<hit_configs, miss_configs, splitvar, default_hit>>
      /\ at' \in Leaves /\ Matches(c, at') /\ Done /\ Done'
  BY <1>1 DEF test_add_config, Climbs, Done
<1>4. /\ leaf_value(at') \in BOOLEAN /\ (c \in hits) \in BOOLEAN
      /\ IInv
  <2>1. default_hit \in BOOLEAN
    BY DEF CInv, Fields
  <2>2. \A n : leaf_value(n) \in BOOLEAN
    BY <2>1, Zenon DEF leaf_value
  <2> QED
    BY <2>2 DEF CInv
<1>5. Shape' = Shape /\ Leaves' = Leaves /\ \A n : leaf_value(n)' = leaf_value(n)
  BY <1>3, SameShape
<1>6. \A d : LeafAgrees(d)' <=> LeafAgrees(d)
  BY <1>1, <1>5 DEF LeafAgrees, Matches
<1>7. interpreter' # << >> => Done' /\ interpreter' = Code(Shape')
  BY <1>1, <1>3, <1>5 DEF Observed
<1>8. ASSUME ~need_rebuild', NEW d \in cov' \ Untested' PROVE LeafAgrees(d)
  <2>1. /\ tested' = tested + 1 /\ need_rebuild' = need_rebuild /\ (leaf_value(at') <=> c \in hits)
    BY <1>1, <1>4, <1>8
  <2>2. /\ Untested = {cex[i] : i \in tested + 1 .. Len(cex)}
        /\ Untested' = {cex[i] : i \in (tested + 1) + 1 .. Len(cex)}
    BY <1>1, <2>1 DEF Untested
  <2>3. CASE d \in Untested
    <3>1. PICK i \in tested + 1 .. Len(cex) : d = cex[i]
      BY <2>2, <2>3
    <3>2. i \notin (tested + 1) + 1 .. Len(cex)
      BY <1>8, <2>2, <3>1
    <3>3. i = tested + 1
      BY <1>2, <3>1, <3>2
    <3>4. d = c
      BY <3>1, <3>3
    <3> HIDE DEF c
    <3>5. \A n \in Leaves : Matches(c, n) => n = at'
      BY <1>3, <1>4, OneLeaf DEF IInv
    <3> QED
      BY <2>1, <3>4, <3>5 DEF LeafAgrees
  <2>4. CASE d \notin Untested
    BY <1>1, <1>3, <1>8, <2>1, <2>4 DEF Observed
  <2> QED
    BY <2>3, <2>4
<1> HIDE DEF c
<1>9. Done' /\ ~need_rebuild' => \A d \in cov' \ Untested' : LeafAgrees(d)'
  BY <1>6, <1>8
<1> QED
  BY <1>1, <1>7, <1>9 DEF Observed

LEMMA OtherObserved ==
    ASSUME CInv, Observed, NEW c \in Configs, other_run(c)
    PROVE  Observed'
<1>1. /\ pc = "idle" /\ pc' = "idle" /\ cov' = cov \cup {c}
      /\ IF need_rebuild THEN UNCHANGED <<interpreter, need_rebuild>>
         ELSE /\ interpreter' = build_interpreter
              /\ need_rebuild' = ((Interpret(interpreter', c) = kInterpretHit) # (c \in hits))
      /\ UNCHANGED <<tree, hits>>
  BY DEF other_run
<1>2. UNCHANGED <<hit_configs, miss_configs, splitvar, default_hit, frame>>
  BY <1>1 DEF tree
<1>3. Shape' = Shape /\ Leaves' = Leaves /\ \A n : leaf_value(n)' = leaf_value(n)
  BY <1>2, SameShape
<1>4. \A d : LeafAgrees(d)' <=> LeafAgrees(d)
  BY <1>1, <1>3 DEF LeafAgrees, Matches
<1>5. Untested = {} /\ Untested' = {} /\ (Done' <=> Done)
  BY <1>1, <1>2 DEF Untested, Done
<1>6. CASE need_rebuild
  <2>1. interpreter' # << >> => Done' /\ interpreter' = Code(Shape')
    BY <1>1, <1>3, <1>5, <1>6 DEF Observed
  <2> QED
    BY <1>1, <1>6, <2>1 DEF Observed
<1>7. CASE ~need_rebuild
  <2>1. Done
    BY <1>1, <1>7 DEF CInv, Ctl, Control, Done
  <2>2. interpreter' = Code(Shape)
    BY <1>1, <1>7 DEF Observed, build_interpreter
  <2>3. ASSUME ~need_rebuild' PROVE LeafAgrees(c)
    <3>1. (Interpret(Code(Shape), c) = kInterpretHit) <=> c \in hits
      BY <1>1, <1>7, <2>2, <2>3
    <3>2. kInterpretHit # kInterpretMiss
      BY DEF kInterpretHit, kInterpretMiss
    <3>3. Predicts(Shape, c) <=> c \in hits
      BY <2>1, <3>1, <3>2, InterpretShape DEF CInv
    <3>4. \A n \in Leaves : Matches(c, n) => (Predicts(Shape, c) <=> leaf_value(n))
      BY <2>1, ShapeRight DEF CInv
    <3> QED
      BY <3>3, <3>4 DEF LeafAgrees
  <2>4. ~need_rebuild' => \A d \in cov' \ Untested' : LeafAgrees(d)'
    BY <1>1, <1>4, <1>5, <1>7, <2>1, <2>3 DEF Observed
  <2> QED
    BY <1>1, <1>3, <1>5, <2>1, <2>2, <2>4 DEF Observed
<1> QED
  BY <1>6, <1>7

LEMMA ObservedInit == LInit => Observed
<1> SUFFICES ASSUME LInit PROVE Observed
  OBVIOUS
<1>1. pc = "init" /\ frame = "none" /\ interpreter = << >>
  BY DEF LInit, Init
<1> QED
  BY <1>1 DEF Observed, Done

LEMMA ObservedNext == CInv /\ Observed /\ CInv' /\ [LNext]_vars => Observed'
<1> SUFFICES ASSUME CInv, Observed, CInv', [LNext]_vars PROVE Observed'
  OBVIOUS
<1>1. CASE rebuild \/ building
  BY <1>1, BuildObserved DEF CInv
<1>2. CASE test_one
  BY <1>2, TestObserved
<1>3. CASE \E c \in Configs : other_run(c)
  BY <1>3, OtherObserved
<1>4. CASE run_init_configs
  <2>1. /\ frame = "none" /\ pc' = "idle" /\ UNCHANGED <<tree, interpreter>>
    BY <1>4 DEF CInv, Ctl, Control, run_init_configs
  <2>2. frame' = "none" /\ interpreter = << >>
    BY <2>1 DEF tree, Observed, Done
  <2> QED
    BY <2>1, <2>2 DEF Observed, Done
<1>5. CASE begin_normal \/ begin_heavy \/ retry \/ give_up \/ visit_leaf \/ next_loop \/ generating
           \/ end_gen_for
  <2>1. /\ pc # "test" /\ pc' \notin {"build", "test"}
        /\ UNCHANGED <<tree, hits, cov, need_rebuild, interpreter>>
    BY <1>5 DEF begin_normal, begin_heavy, retry, give_up, visit_leaf, next_loop, generating,
                end_gen_for, begin_gen_cex, CexDone
  <2>2. Untested = {} /\ Untested' = {}
    BY <2>1 DEF Untested
  <2> QED
    BY <2>1, <2>2, KeepObserved DEF tree, Done
<1>6. CASE run_configs
  <2>1. /\ pc = "cex" /\ cov' = cov \cup Range(cex) /\ pc' = "test" /\ tested = 0
        /\ UNCHANGED <<tree, hits, need_rebuild, interpreter, cex, tested>>
    BY <1>6 DEF run_configs, CexDone, CInv, Ctl, Lists
  <2>2. Untested = {} /\ Untested' = Range(cex)
    <3>1. Range(cex) = {cex[i] : i \in 1 .. Len(cex)}
      BY RangeOf DEF CInv, Ctl, Lists
    <3> QED
      BY <2>1, <3>1 DEF Untested
  <2> QED
    BY <2>1, <2>2, KeepObserved DEF tree, Done
<1>7. CASE test_climbs
  <2>1. /\ pc = "test" /\ pc' = "test" /\ climbing
        /\ UNCHANGED <<hits, cov, need_rebuild, interpreter, cex, tested>>
    BY <1>7 DEF test_climbs
  <2>2. UNCHANGED <<hit_configs, miss_configs, splitvar, default_hit>> /\ Done /\ Done'
    BY <2>1 DEF climbing, test_add_return, Climbs, Done
  <2>3. Untested' = Untested
    BY <2>1 DEF Untested
  <2> QED
    BY <2>1, <2>2, <2>3, KeepObserved
<1>8. CASE end_test
  <2>1. /\ pc = "test" /\ pc' = "idle" /\ tested = Len(cex)
        /\ UNCHANGED <<tree, hits, cov, need_rebuild, interpreter>>
    BY <1>8 DEF end_test
  <2>2. Untested = {} /\ Untested' = {}
    <3>1. Len(cex) \in Nat
      BY DEF CInv, Ctl, Lists
    <3>2. tested + 1 .. Len(cex) = {}
      BY <2>1, <3>1
    <3> QED
      BY <2>1, <3>2 DEF Untested
  <2> QED
    BY <2>1, <2>2, KeepObserved DEF tree, Done
<1>9. CASE UNCHANGED vars
  <2>1. UNCHANGED <<tree, hits, cov, need_rebuild, interpreter, pc, cex, tested>>
    BY <1>9 DEF vars
  <2>2. Untested' = Untested /\ Hits' = Hits /\ Misses' = Misses /\ Root' = Root /\ Shape' = Shape
    BY <2>1, SameShape DEF Untested, Hits, Misses, Root, NoneSet, tree
  <2>3. \A c : LeafAgrees(c)' <=> LeafAgrees(c)
    BY <2>1, SameShape DEF LeafAgrees, Matches, tree
  <2>4. (pc = "build")' => /\ ~need_rebuild'
                           /\ (hit_configs[Root] = Hits)' /\ (miss_configs[Root] = Misses)'
    BY <2>1, <2>2 DEF Observed, tree
  <2>5. Done' /\ ~need_rebuild' => \A c \in cov' \ Untested' : LeafAgrees(c)'
    BY <2>1, <2>2, <2>3 DEF Observed, tree, Done
  <2>6. interpreter' # << >> => Done' /\ interpreter' = Code(Shape')
    BY <2>1, <2>2 DEF Observed, tree, Done
  <2> QED
    BY <2>4, <2>5, <2>6 DEF Observed
<1> QED
  BY <1>1, <1>2, <1>3, <1>4, <1>5, <1>6, <1>7, <1>8, <1>9 DEF LNext, run_one_loc

LEMMA AlwaysObserved == LSpec => [](CInv /\ Observed)
<1> QED
  BY CInit, CNext, ObservedInit, ObservedNext, PTL DEF LSpec

------------------------------------------------------------------------------
(* The variables of the loop have their types.                             *)
THEOREM LoopTypes == LSpec => []LTypeOK
<1>1. CInv => LTypeOK
  <2> SUFFICES ASSUME CInv PROVE LTypeOK
    OBVIOUS
  <2>1. TypeOK
    BY FieldsType DEF CInv
  <2>2. GenTypeOK
    <3>1. SetVAL \in [Vars -> SUBSET AnyValue]
      BY DEF CInv, GInv, Typed, AnyValue
    <3> QED
      BY <3>1 DEF CInv, GInv, Typed, GenTypeOK
  <2>3. pending \subseteq Nodes \X {1, 2}
    BY DEF CInv, Ctl, Selection, Leaves
  <2> QED
    BY <2>1, <2>2, <2>3 DEF CInv, Ctl, Selection, Lists, LTypeOK
<1> QED
  BY Always, <1>1, PTL

(* What is proved of trees and of generators holds of those of the loop.   *)
THEOREM LoopTrees ==
    LSpec => [](TreePartition /\ TreeFitsRuns /\ GeneratedAreNew /\ ValuesCovered)
<1> QED
  BY LoopImplementsTree, TreeOnly, Partition, TreeFits, GeneratedNew, AllValuesCovered, PTL
  DEF ImplementsTree

(* A tree that is not to be rebuilt agrees with every run shown to it, in  *)
(* test_config on the results of gen_cex and in interpret on the runs that *)
(* were made for other locations (run_one_loc, run_iter).                  *)
THEOREM TreeAgreesRuns == LSpec => []TreeAgreesWithRuns
<1>1. CInv /\ Observed => TreeAgreesWithRuns
  <2> SUFFICES ASSUME CInv, Observed, frame = "built", ~need_rebuild, NEW c \in cov \ Untested
               PROVE  Predicts(Shape, c) <=> c \in hits
    BY DEF TreeAgreesWithRuns
  <2>1. Done /\ c \in Configs
    BY DEF Done, CInv, Ctl, Lists
  <2>2. PICK n \in Leaves : Matches(c, n)
    BY <2>1 DEF CInv, IInv, Reached, Done
  <2>3. Predicts(Shape, c) <=> leaf_value(n)
    BY <2>1, <2>2, ShapeRight DEF CInv
  <2>4. leaf_value(n) <=> c \in hits
    BY <2>1, <2>2 DEF Observed, LeafAgrees
  <2> QED
    BY <2>3, <2>4
<1> QED
  BY AlwaysObserved, <1>1, PTL

(* The code that CTree keeps in interpreter_ is never that of another tree *)
(* and gives every configuration what the tree gives it.                   *)
THEOREM InterpreterRight == LSpec => []InterpreterAgrees
<1>1. CInv /\ Observed => InterpreterAgrees
  BY InterpretShape DEF InterpreterAgrees, Observed, CInv
<1> QED
  BY AlwaysObserved, <1>1, PTL

(* A node that was split has a hit, and the child it went to contributes to*)
(* the formula: CHECK(!empty_res) holds.                                   *)
LEMMA AlwaysDefined ==
    ASSUME IInv, InnerMixed, Done
    PROVE  MixedDefined(Shape)
<1>1. DOMAIN Shape = Nodes
  BY DEF Shape
<1>2. \A n \in Inner : Shape[n] = splitvar[n] /\ splitvar[n] \in Vars /\ n \in Nodes
  BY NodesAreTemplates DEF IInv, Skeleton, Shape, Inner
<1>3. \A n \in Leaves : Shape[n] = IF leaf_value(n) THEN kInterpretHit ELSE kInterpretMiss
  BY DEF Shape, Leaves
<1>4. \A v \in Vars : v # kInterpretMiss
  BY OptionsAssumption DEF Vars, kInterpretMiss
<1>5. \A n \in Leaves : Shape[n] \in {kInterpretHit, kInterpretMiss}
  BY <1>3
<1>6. Nodes \subseteq Inner \cup Leaves
  BY DEF Inner, Leaves
<1>7. (DOMAIN Shape) \ LeavesOf(Shape) \subseteq Inner
  BY <1>1, <1>5, <1>6 DEF LeavesOf, LeafIn
<1> SUFFICES ASSUME NEW n \in Inner
             PROVE  \E m \in Children(n, Shape[n]) : Shape[m] # kInterpretMiss
  BY <1>7 DEF MixedDefined
<1> DEFINE v == splitvar[n]
<1>8. n \in Nodes /\ n \in Templates /\ v \in Vars /\ Shape[n] = v
  BY <1>2, NodesAreTemplates DEF IInv, Skeleton
<1>9. PICK c \in Configs : c \in hit_configs[n]
  BY <1>8 DEF InnerMixed, is_leaf, IInv, Skeleton, TreeShape
<1>10. c \in hit_configs[Root] /\ Matches(c, n)
  BY <1>8, <1>9 DEF IInv, Runs, NodesHoldTheirRuns
<1> DEFINE m == Child(n, v, c[v])
<1>11. c[v] \in Values(v) /\ m \in Nodes /\ n[v] = Unset
  BY <1>8, ConfigValue DEF IInv, Skeleton, HasChildren, Children
<1>12. Matches(c, m)
  BY <1>8, <1>10, <1>11, ChildMatches
<1>13. m \in Children(n, v)
  BY <1>11 DEF Children
<1> HIDE DEF m, v
<1>14. c \in hit_configs[m]
  BY <1>10, <1>11, <1>12 DEF IInv, Runs, NodesHoldTheirRuns
<1>15. Shape[m] # kInterpretMiss
  <2>1. CASE m \in Inner
    BY <1>2, <1>4, <2>1
  <2>2. CASE m \in Leaves
    <3>1. leaf_value(m)
      BY <1>14 DEF leaf_value
    <3> QED
      BY <1>3, <2>2, <3>1 DEF kInterpretHit, kInterpretMiss
  <2> QED
    BY <1>6, <1>11, <2>1, <2>2
<1> QED
  BY <1>8, <1>13, <1>15

(* What finish_alg writes for a tree: the formula of build_zexpr_mixed, that*)
(* of build_zexpr_disj_conj and the text of serialize all mean the tree, and*)
(* CHECK(!empty_res) of build_zexpr_mixed does not fail.                   *)
THEOREM AllForms == LSpec => []FormsAgree
<1>1. CInv => FormsAgree
  <2> SUFFICES ASSUME CInv, frame = "built"
               PROVE  /\ MixedDefined(Shape)
                      /\ Mixed(Shape) = {c \in Configs : Predicts(Shape, c)}
                      /\ DisjConj(Shape) = {c \in Configs : Predicts(Shape, c)}
                      /\ Deserialize(Serialize(Shape)) = Shape
    BY DEF FormsAgree
  <2>1. WellFormed(Shape) /\ MixedDefined(Shape)
    BY ShapeRight, AlwaysDefined DEF CInv, Done
  <2>2. Shape = [n \in DOMAIN Shape |-> Shape[n]]
    BY DEF Shape
  <2> QED
    BY <2>1, <2>2, MixedRight, DisjConjRight, DeserializeRight
<1> QED
  BY Always, <1>1, PTL

------------------------------------------------------------------------------
(* The runs that the leaves counted after the tree was built are runs the  *)
(* tree was tested on, and no configuration is generated twice: none is    *)
(* counted twice.                                                          *)
NewRuns ==
    /\ \A n \in Nodes : new_configs[n] \subseteq cov \ Untested
    /\ IsInjective(cex)
    /\ pc \in {"cex", "gen"} => Range(cex) \cap cov = {}
    /\ pc = "test" => Range(cex) \subseteq cov
    /\ pc \notin {"cex", "gen", "test"} => cex = << >>

LEMMA NewRunsInit == LInit => NewRuns
<1> SUFFICES ASSUME LInit PROVE NewRuns
  OBVIOUS
<1>1. Nodes = {} /\ cex = << >> /\ pc = "init"
  BY DEF LInit, Init, Nodes
<1> QED
  BY <1>1 DEF NewRuns, IsInjective

(* Of a step that does not touch the tree nor cex.                         *)
LEMMA KeepNewRuns ==
    ASSUME CInv, NewRuns, UNCHANGED <<splitvar, new_configs, cex>>,
           cov \ Untested \subseteq cov' \ Untested',
           pc' \in {"cex", "gen"} => Range(cex) \cap cov' = {},
           pc' = "test" => Range(cex) \subseteq cov',
           pc' \notin {"cex", "gen", "test"} => cex = << >>
    PROVE  NewRuns'
BY DEF NewRuns, Nodes

LEMMA BuildNewRuns ==
    ASSUME CInv, NewRuns, rebuild \/ building
    PROVE  NewRuns'
<1>1. CASE rebuild
  <2>1. /\ pc = "idle" /\ pc' = "build" /\ UNCHANGED <<cov, cex>>
        /\ splitvar' = [n \in {Root} |-> NoVar] /\ new_configs' = [n \in {Root} |-> {}]
    BY <1>1 DEF rebuild, build_tree
  <2>2. Nodes' = {Root}
    BY <2>1 DEF Nodes
  <2> QED
    BY <2>1, <2>2 DEF NewRuns
<1>2. CASE building
  <2>1. /\ pc = "build" /\ pc' = "build" /\ evaluating /\ UNCHANGED <<cov, cex, tested>>
    BY <1>2 DEF building
  <2>2. Untested' = Untested
    BY <2>1 DEF Untested
  <2>3. CASE evaluate_leaf \/ \E p \in Nodes : evaluate_return(p)
    <3>1. UNCHANGED <<splitvar, new_configs>>
      BY <2>3 DEF evaluate_leaf, evaluate_return
    <3> QED
      BY <2>1, <2>2, <3>1, KeepNewRuns DEF NewRuns
  <2>4. CASE \E v \in Vars : evaluate_split(v)
    <3> PICK v \in Vars : evaluate_split(v)
      BY <2>4
    <3>1. Nodes' = Nodes \cup Children(at, v) /\ Children(at, v) \cap Nodes = {}
      BY SplitFacts DEF CInv
    <3>2. new_configs' = NewChildren(new_configs, at, v, {})
      BY DEF evaluate_split
    <3>3. /\ \A n \in Nodes : new_configs'[n] = new_configs[n]
          /\ \A n \in Children(at, v) : new_configs'[n] = {}
      BY <3>1, <3>2 DEF NewChildren
    <3> QED
      BY <2>1, <2>2, <3>1, <3>3 DEF NewRuns
  <2> QED
    BY <2>1, <2>3, <2>4 DEF evaluating
<1> QED
  BY <1>1, <1>2

(* The configuration that is tested next is in no leaf yet.                *)
LEMMA TestedIsFresh ==
    ASSUME CInv, NewRuns, test_one
    PROVE  Fresh(cex[tested + 1]) /\ cex[tested + 1] \in Untested
<1>1. pc = "test" /\ tested < Len(cex) /\ tested \in Nat /\ Len(cex) \in Nat
  BY DEF test_one, CInv, Ctl, Lists
<1>2. tested + 1 \in tested + 1 .. Len(cex)
  BY <1>1
<1>3. cex[tested + 1] \in Untested
  BY <1>1, <1>2 DEF Untested
<1> QED
  BY <1>3 DEF NewRuns, Fresh, Leaves

LEMMA LaterPart ==
    ASSUME NEW t \in Nat, NEW k \in Nat, NEW len \in Nat, t >= k + 1, NEW i \in t + 1 .. len
    PROVE  i \in k + 1 .. len /\ i \in 1 .. len /\ i # k + 1
OBVIOUS

LEMMA TestNewRuns ==
    ASSUME CInv, NewRuns, test_one
    PROVE  NewRuns'
<1> PICK c \in Configs : c = cex[tested + 1]
  BY DEF CInv, Ctl, Lists, test_one
<1>1. /\ pc = "test" /\ pc' = "test" /\ tested < Len(cex)
      /\ test_add_config(c, c \in hits)
      /\ IF leaf_value(at') = (c \in hits) THEN tested' = tested + 1 ELSE tested' = Len(cex)
      /\ UNCHANGED <<hits, cov, cex>>
  BY DEF test_one
<1>2. tested \in Nat /\ Len(cex) \in Nat /\ cex \in Seq(Configs) /\ DOMAIN cex = 1 .. Len(cex)
  BY DEF CInv, Ctl, Lists
<1>3. /\ Untested = {cex[i] : i \in tested + 1 .. Len(cex)}
      /\ Untested' = {cex[i] : i \in tested' + 1 .. Len(cex)}
  BY <1>1 DEF Untested
<1>4. tested' \in Nat /\ tested' >= tested + 1
  BY <1>1, <1>2
<1>5. \A i \in tested' + 1 .. Len(cex) :
          i \in tested + 1 .. Len(cex) /\ i \in 1 .. Len(cex) /\ i # tested + 1
  BY <1>2, <1>4, LaterPart
<1>6. c \in cov \ Untested'
  <2>1. tested + 1 \in 1 .. Len(cex)
    BY <1>1, <1>2
  <2>2. c \in Range(cex) /\ Range(cex) \subseteq cov
    BY <1>1, <1>2, <2>1, RangeOf DEF NewRuns
  <2>3. \A i \in tested' + 1 .. Len(cex) : cex[i] # c
    BY <1>2, <1>5, <2>1 DEF NewRuns, IsInjective
  <2> QED
    BY <1>3, <2>2, <2>3
<1>7. Nodes' = Nodes /\ new_configs \in [Nodes -> SUBSET Configs]
  BY <1>1 DEF test_add_config, Nodes, CInv, Fields
<1>8. \A n \in Nodes : new_configs'[n] \subseteq new_configs[n] \cup {c}
  BY <1>1, <1>7 DEF test_add_config
<1>9. Untested' \subseteq Untested
  BY <1>3, <1>5
<1> QED
  BY <1>1, <1>6, <1>7, <1>8, <1>9 DEF NewRuns

LEMMA NewRunsNext == CInv /\ NewRuns /\ [LNext]_vars => NewRuns'
<1> SUFFICES ASSUME CInv, NewRuns, [LNext]_vars PROVE NewRuns'
  OBVIOUS
<1>1. CASE rebuild \/ building
  BY <1>1, BuildNewRuns
<1>2. CASE test_one
  BY <1>2, TestNewRuns
<1>3. CASE \E c \in Configs : other_run(c)
  <2>1. pc = "idle" /\ pc' = "idle" /\ cov \subseteq cov' /\ UNCHANGED <<tree, cex>>
    BY <1>3 DEF other_run
  <2> QED
    BY <2>1, KeepNewRuns DEF tree, Untested, NewRuns
<1>4. CASE run_init_configs
  <2>1. pc = "init" /\ pc' = "idle" /\ frame = "none" /\ UNCHANGED <<tree, cex>>
    BY <1>4 DEF run_init_configs, CInv, Ctl, Control
  <2>2. Nodes = {} /\ Nodes' = {}
    BY <2>1 DEF CInv, IInv, Skeleton, TreeShape, Nodes, tree
  <2> QED
    BY <2>1, <2>2 DEF NewRuns
<1>5. CASE begin_normal \/ begin_heavy \/ retry \/ give_up \/ visit_leaf \/ next_loop \/ generating
  <2>1. /\ pc # "test" /\ pc' # "test"
        /\ UNCHANGED <<tree, cov, cex>>
    BY <1>5 DEF begin_normal, begin_heavy, retry, give_up, visit_leaf, next_loop, generating,
                begin_gen_cex, CexDone
  <2>2. Untested = {} /\ Untested' = {}
    BY <2>1 DEF Untested
  <2>3. pc' \in {"cex", "gen"} => Range(cex) \cap cov = {}
    <3>1. pc \in {"cex", "gen"} \/ cex = << >>
      BY <2>1 DEF NewRuns
    <3>2. cex = << >> => Range(cex) = {}
      BY DEF Range
    <3> QED
      BY <3>1, <3>2 DEF NewRuns
  <2>4. pc' \notin {"cex", "gen"} => cex = << >>
    <3>1. CASE give_up
      BY <3>1 DEF give_up
    <3>2. CASE generating
      BY <2>1, <3>2 DEF generating, NewRuns
    <3>3. CASE begin_normal \/ begin_heavy \/ retry \/ visit_leaf \/ next_loop
      <4>1. pc' \in {"cex", "gen"}
        BY <3>3 DEF begin_normal, begin_heavy, retry, visit_leaf, next_loop, begin_gen_cex
      <4> QED
        BY <4>1
    <3> QED
      BY <1>5, <3>1, <3>2, <3>3
  <2> QED
    BY <2>1, <2>2, <2>3, <2>4, KeepNewRuns DEF tree
<1>6. CASE end_gen_for
  <2>1. /\ pc = "gen" /\ pc' = "cex" /\ cex' = gen_for /\ UNCHANGED <<tree, cov>>
    BY <1>6 DEF end_gen_for
  <2>2. IsInjective(cex') /\ Range(cex') \cap cov = {}
    BY <2>1, GenFor DEF NewRuns, CInv, Ctl, Lists, GInv, Typed
  <2>3. Untested = {} /\ Untested' = {}
    BY <2>1 DEF Untested
  <2> QED
    BY <2>1, <2>2, <2>3 DEF NewRuns, tree, Nodes
<1>7. CASE run_configs
  <2>1. /\ pc = "cex" /\ cov' = cov \cup Range(cex) /\ pc' = "test" /\ tested = 0
        /\ UNCHANGED <<tree, cex, tested>>
    BY <1>7 DEF run_configs, CexDone, CInv, Ctl, Lists
  <2>2. Untested = {} /\ Untested' = Range(cex)
    <3>1. Range(cex) = {cex[i] : i \in 1 .. Len(cex)}
      BY RangeOf DEF CInv, Ctl, Lists
    <3> QED
      BY <2>1, <3>1 DEF Untested
  <2> QED
    BY <2>1, <2>2, KeepNewRuns DEF tree, NewRuns
<1>8. CASE test_climbs
  <2>1. /\ pc = "test" /\ pc' = "test" /\ climbing /\ UNCHANGED <<cov, cex, tested>>
    BY <1>8 DEF test_climbs
  <2>2. UNCHANGED <<splitvar, new_configs>>
    BY <2>1 DEF climbing, test_add_return
  <2>3. Untested' = Untested
    BY <2>1 DEF Untested
  <2> QED
    BY <2>1, <2>2, <2>3, KeepNewRuns DEF NewRuns
<1>9. CASE end_test
  <2>1. pc = "test" /\ pc' = "idle" /\ cex' = << >> /\ UNCHANGED <<tree, cov>>
    BY <1>9 DEF end_test
  <2>2. Untested' = {}
    BY <2>1 DEF Untested
  <2>3. IsInjective(cex')
    BY <2>1 DEF IsInjective
  <2> QED
    BY <2>1, <2>2, <2>3 DEF NewRuns, tree, Nodes
<1>10. CASE UNCHANGED vars
  BY <1>10 DEF vars, tree, NewRuns, Untested, Nodes
<1> QED
  BY <1>1, <1>2, <1>3, <1>4, <1>5, <1>6, <1>7, <1>8, <1>9, <1>10 DEF LNext, run_one_loc

(* The number of runs is an int, and min_cases starts at its maximum.      *)
RunsCounted == Cardinality(cov) <= MaxInt

LInv == CInv /\ Observed /\ NewRuns

LEMMA AlwaysNew == LSpec => []LInv
<1> QED
  BY CInit, CNext, ObservedInit, ObservedNext, NewRunsInit, NewRunsNext, PTL DEF LSpec, LInv

LEMMA LoopMin == LInv /\ LInv' /\ RunsCounted /\ MinInv /\ [LNext]_vars => MinInv'
<1> SUFFICES ASSUME LInv, LInv', RunsCounted, MinInv, [LNext]_vars PROVE MinInv'
  OBVIOUS
<1>1. CInv /\ Observed /\ NewRuns /\ IInv /\ Fields /\ Skeleton'
  BY DEF LInv, CInv, IInv
<1>2. frame = "return" => Counted
  <2> SUFFICES ASSUME frame = "return" PROVE Counted
    OBVIOUS
  <2>1. pc = "build"
    BY <1>1 DEF CInv, Ctl, Control, Lists
  <2>2. hit_configs[Root] \cup miss_configs[Root] = cov
    BY <1>1, <2>1 DEF Observed, Hits, Misses
  <2> QED
    BY <2>2 DEF Counted, RunsCounted
<1>3. \/ UNCHANGED tree \/ evaluating \/ climbing
      \/ \E h, m : build_tree(h, m)
      \/ \E c \in Configs : Fresh(c) /\ \E val : test_add_config(c, val)
  <2>1. CASE rebuild \/ building \/ test_climbs
    BY <2>1 DEF rebuild, building, test_climbs
  <2>2. CASE test_one
    <3>1. Fresh(cex[tested + 1])
      BY <1>1, <2>2, TestedIsFresh
    <3>2. PICK c \in Configs : c = cex[tested + 1]
      BY <1>1, <2>2 DEF CInv, Ctl, Lists, test_one
    <3>3. test_add_config(c, c \in hits)
      BY <2>2, <3>2 DEF test_one
    <3> QED
      BY <3>1, <3>2, <3>3
  <2>3. CASE run_init_configs \/ begin_normal \/ begin_heavy \/ visit_leaf \/ next_loop \/ generating
             \/ end_gen_for \/ retry \/ give_up \/ run_configs \/ end_test
             \/ \E c \in Configs : other_run(c)
    <3>1. UNCHANGED tree
      BY <2>3 DEF run_init_configs, begin_normal, begin_heavy, visit_leaf, next_loop, generating,
                  end_gen_for, retry, give_up, run_configs, end_test, other_run
    <3> QED
      BY <3>1
  <2>4. CASE UNCHANGED vars
    BY <2>4 DEF vars
  <2> QED
    BY <2>1, <2>2, <2>3, <2>4 DEF LNext, run_one_loc
<1> QED
  BY <1>1, <1>2, <1>3, MinNext

(* n_min_cases() of a node is the least number of runs in a leaf below it, *)
(* after evaluate_split and after every test_add_config, as long as there  *)
(* are no more runs than an int counts.                                    *)
THEOREM MinCases == LSpec /\ []RunsCounted => []MinCasesRight
<1>1. LInit => MinInv
  BY MinInit DEF LInit
<1>2. LInv /\ MinInv => MinCasesRight
  BY MinRight DEF LInv, CInv, IInv
<1> QED
  BY <1>1, <1>2, AlwaysNew, LoopMin, PTL DEF LSpec
==============================================================================
