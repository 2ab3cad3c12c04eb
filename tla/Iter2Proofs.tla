----------------------------- MODULE Iter2Proofs -----------------------------
(***************************************************************************)
(* Proofs about Iter2 for any program under analysis, any options and any  *)
(* trees that agree with the runs they were built from.                    *)
(***************************************************************************)
EXTENDS Iter2, FiniteSetTheorems, SequenceTheorems, TLAPS

(* The runs of l that were made before v_loc_data was prepared.            *)
Seen(l) == CovBy(l) \cap 1 .. prev_n_conf

Counter == terminate_counter = max_terminate_counter => pc \in {"final"} \cup Terminal

(* The store: nothing is run twice, and what was generated was run.        *)
Store ==
    /\ IsInjective(configs)
    /\ pc # "abort" => set_conf_hash = Ran
    /\ pc = "init" => configs = << >> /\ v_next_iter = << >>
    /\ pc \notin {"init", "abort", "exit"} => configs # << >>
    /\ prev_n_conf <= n_configs

(* The classes: v_loc_data has the locations seen, one of each class is    *)
(* not linked, and it is the one with the least name.                      *)
Classes ==
    /\ pc \notin Terminal => DOMAIN dat = {l \in Locs : Seen(l) # {}}
    /\ pc \notin Terminal => \A l, m \in Unlinked(dat) : Seen(l) = Seen(m) => l = m
    /\ \A l \in DOMAIN dat : linked(dat[l]) =>
           /\ \E p \in Unlinked(dat) : p = dat[l].parent /\ p < l /\ Seen(l) = Seen(p)
           /\ dat[l].need_rebuild /\ ~dat[l].ignored

(* A tree that is not to be rebuilt has been built.                        *)
Trees == \A l \in DOMAIN dat : dat[l].need_rebuild \/ dat[l].tree.counted > 0

(* Only locations with a tree of their own have turns.                     *)
Members ==
    /\ pc \notin Terminal => Range(v_next_iter) \subseteq Unlinked(dat)
    /\ pc = "loc" => Range(v_this_iter) \subseteq Unlinked(dat)

Base == TypeOK /\ Counter /\ Store /\ Classes /\ Trees /\ Members

(* The locations whose turn has not ended.                                 *)
Waiting == {v_this_iter[i] : i \in meidx .. Len(v_this_iter)}

(* Between two iterations every location is queued, given up or has its tree. *)
Watch == \A l \in Unlinked(dat) :
             ~dat[l].ignored /\ l \notin Range(v_next_iter) => ~dat[l].need_rebuild

(* What is assumed of the signals: a break is never overwritten by a signal *)
(* that the algorithm does not look at.                                    *)
NoOverwrite == "SIGRTMIN+2" \notin Signals \/ Signals \cap Break = {}

(* What is assumed of the seeds: none of them is also a covering configuration. *)
FreshSeeds == \A s \in InitialConfigs : IsInjective(s \o SeedConfigs)

(* What is assumed of the signals: they all break, or none does.           *)
OneKind == Signals \cap Break = {} \/ Signals \subseteq Break

(* What is assumed of the parameters below: no location is ever run often  *)
(* enough to be messed up.  wd/iter2_config.js has it for every domain with*)
(* at most 1e4 configurations.                                             *)
NeverMessed ==
    /\ Cardinality(Configs) <= p_thr_messed_up_kickin
    /\ 0 < p_thr_messed_up_switch

(* What is assumed of the parameters: one success ends a turn, whenever it *)
(* is.  wd/iter2_config.js has it for a domain with less than 4000         *)
(* configurations (p_messed_consecutive_success is 3 there, and is never   *)
(* looked at), and for no other.                                           *)
OneSuccessEnds ==
    /\ p_consecutive_success = 1
    /\ NeverMessed \/ p_messed_consecutive_success = 1

(* The messed_up of every location before the answer is written.           *)
Calm == NeverMessed /\ pc \notin Terminal => \A l \in DOMAIN dat : dat[l].messed_up = 0

(* No break has ended this iteration.                                      *)
Unbroken == gSignalStatus = NoSignal \/ Signals \cap Break = {}

(* v_next_iter: no location is twice in it, and none was given up.         *)
NextQueue ==
    /\ IsInjective(v_next_iter)
    /\ \A l \in Range(v_next_iter) : ~dat[l].ignored

(* In an iteration: a location is waiting, queued again (and marked), given*)
(* up, or its tree is up to date.                                          *)
ThisQueue ==
    /\ IsInjective(v_this_iter)
    /\ \A l \in Waiting : ~dat[l].ignored /\ ~dat[l].queued_next
    /\ Range(v_next_iter) = {l \in Unlinked(dat) : dat[l].queued_next}
    /\ \A l \in Unlinked(dat) :
           ~dat[l].ignored /\ ~dat[l].queued_next /\ l \notin Waiting => ~dat[l].need_rebuild

Queues ==
    /\ pc \in {"init", "head", "loc", "post", "reset"} => NextQueue
    /\ pc = "loc" => ThisQueue
    /\ pc \in {"head", "reset"} => Watch
    /\ pc = "post" /\ Unbroken => Watch

(* The tree of l classifies the first k runs as they were observed.        *)
AgreesUpTo(l, k) == \A i \in 1 .. k : Agrees(l, dat[l], configs[i])

(* The trees in use.                                                       *)
Kept == {l \in Unlinked(dat) : ~dat[l].ignored /\ ~dat[l].need_rebuild}

(* The trees in use agree with the runs that were shown to them.           *)
Agreed ==
    /\ pc = "loc" => /\ \A l \in Kept : AgreesUpTo(l, prev_n_conf)
                     /\ \A l \in Unlinked(dat) : dat[l].queued_next => dat[l].need_rebuild
                     /\ c_success = 0
    /\ pc \in {"head", "reset"} => \A l \in Kept : AgreesUpTo(l, n_configs)
    /\ pc \in {"post", "final"} /\ Unbroken => \A l \in Kept : AgreesUpTo(l, n_configs)
    /\ pc = "done" /\ Unbroken => \A l \in Unlinked(dat) : AgreesUpTo(l, n_configs)

(* A location that is given up loses its tree until the answer is written. *)
IgnoredRebuilt == pc \notin Terminal =>
    \A l \in Unlinked(dat) : dat[l].ignored => dat[l].need_rebuild

------------------------------------------------------------------------------
(* Sets of numbers and sequences.                                          *)

(* A set of natural numbers has a least element.                           *)
LEMMA MinExists ==
    ASSUME NEW S \in SUBSET Nat, S # {}
    PROVE  Min(S) \in S /\ \A x \in S : Min(S) <= x
<1>1. PICK m \in S : \A x \in S : <<x, m>> \notin OpToRel(<, Nat)
  BY WFMin, NatLessThanWellFounded, Zenon
<1>2. m \in Nat /\ \A x \in S : x \in Nat /\ ~(x < m)
  BY <1>1, Zenon DEF OpToRel
<1>3. \A x \in S : m <= x
  BY <1>2
<1> QED BY <1>3 DEF Min

(* A bijection from 1..n is a sequence of its elements without repetition. *)
LEMMA BijectionSeq ==
    ASSUME NEW S, IsFiniteSet(S), NEW s \in Bijection(1 .. Cardinality(S), S)
    PROVE  s \in Seq(S) /\ Range(s) = S /\ IsInjective(s)
<1>1. Cardinality(S) \in Nat
  BY FS_CardinalityType
<1>2. s \in [1 .. Cardinality(S) -> S] /\ IsInjective(s)
      /\ \A x \in S : \E i \in 1 .. Cardinality(S) : s[i] = x
  BY DEF Bijection, Injection, Surjection
<1>3. s \in Seq(S)
  BY <1>1, <1>2, SeqDef
<1> QED BY <1>2, <1>3 DEF Range

(* What a sequence has is at one of its positions.                         *)
LEMMA SeqRange ==
    ASSUME NEW S, NEW s \in Seq(S)
    PROVE  Range(s) = {s[i] : i \in 1 .. Len(s)} /\ Range(s) \subseteq S
BY DEF Range

(* Joining two sequences with different elements.                          *)
LEMMA ConcatInjective ==
    ASSUME NEW S, NEW s \in Seq(S), NEW u \in Seq(S), IsInjective(s), IsInjective(u),
           Range(s) \cap Range(u) = {}
    PROVE  IsInjective(s \o u)
<1> DEFINE w == s \o u
<1>1. w \in Seq(S) /\ Len(w) = Len(s) + Len(u)
      /\ \A i \in 1 .. Len(s) + Len(u) : w[i] = IF i <= Len(s) THEN s[i] ELSE u[i - Len(s)]
  BY ConcatProperties
<1> HIDE DEF w
<1>2. ASSUME NEW i \in 1 .. Len(s) + Len(u), NEW j \in 1 .. Len(s) + Len(u), i < j
      PROVE  w[i] # w[j]
  <2>1. \A k \in 1 .. Len(s) : s[k] \in Range(s)
    BY DEF Range
  <2>2. \A k \in 1 .. Len(u) : u[k] \in Range(u)
    BY DEF Range
  <2>3. CASE j <= Len(s)
    BY <1>1, <1>2, <2>3 DEF IsInjective
  <2>4. CASE i > Len(s)
    <3>1. /\ i - Len(s) \in 1 .. Len(u) /\ j - Len(s) \in 1 .. Len(u)
          /\ i - Len(s) # j - Len(s)
      BY <1>2, <2>4
    <3>2. w[i] = u[i - Len(s)] /\ w[j] = u[j - Len(s)]
      BY <1>1, <1>2, <2>4
    <3> QED BY <3>1, <3>2 DEF IsInjective
  <2>5. CASE i <= Len(s) /\ j > Len(s)
    <3>1. i \in 1 .. Len(s) /\ j - Len(s) \in 1 .. Len(u)
      BY <1>2, <2>5
    <3>2. w[i] = s[i] /\ w[j] = u[j - Len(s)]
      BY <1>1, <1>2, <2>5
    <3> QED BY <2>1, <2>2, <3>1, <3>2
  <2> QED BY <2>3, <2>4, <2>5
<1>3. \A i, j \in 1 .. Len(s) + Len(u) : i # j => i < j \/ j < i
  OBVIOUS
<1>4. DOMAIN w = 1 .. Len(s) + Len(u)
  BY <1>1
<1>5. IsInjective(w)
  BY <1>2, <1>3, <1>4 DEF IsInjective
<1> QED BY <1>5 DEF w

(* Appending an element that is not there yet.                             *)
LEMMA AppendInjectiveSeq ==
    ASSUME NEW S, NEW s \in Seq(S), NEW e \in S, IsInjective(s), e \notin Range(s)
    PROVE  IsInjective(Append(s, e))
<1>1. <<e>> \in Seq(S) /\ Range(<<e>>) = {e} /\ IsInjective(<<e>>)
  BY DEF Range, IsInjective
<1>2. Append(s, e) = s \o <<e>>
  BY AppendIsConcat
<1>3. Range(s) \cap Range(<<e>>) = {}
  BY <1>1
<1>4. IsInjective(s \o <<e>>)
  BY <1>1, <1>3, ConcatInjective
<1> QED BY <1>2, <1>4

LEMMA RangeAppend ==
    ASSUME NEW S, NEW s \in Seq(S), NEW e \in S
    PROVE  Range(Append(s, e)) = Range(s) \cup {e}
<1> DEFINE u == <<e>>
<1>1. u \in Seq(S) /\ Range(u) = {e}
  BY DEF Range
<1>2. Append(s, e) = s \o u
  BY AppendIsConcat
<1> HIDE DEF u
<1>3. Range(s \o u) = Range(s) \cup Range(u)
  BY <1>1, RangeConcatenation
<1> QED BY <1>1, <1>2, <1>3

------------------------------------------------------------------------------
(* The store and LocData.                                                  *)

(* The store is a function of the runs.                                    *)
LEMMA StoreFacts ==
    ASSUME TypeOK
    PROVE  /\ n_configs \in Nat /\ Ran \subseteq Configs
           /\ Ran = {configs[k] : k \in 1 .. n_configs}
           /\ \A l : CovBy(l) = {k \in 1 .. n_configs : l \in Cover[configs[k]]}
           /\ Known = {l \in Locs : CovBy(l) # {}}
           /\ IsFiniteSet(Known)
<1>1. n_configs \in Nat /\ DOMAIN configs = 1 .. n_configs
      /\ \A k \in 1 .. n_configs : configs[k] \in Configs
  BY DEF TypeOK, n_configs
<1>2. Ran = {configs[k] : k \in 1 .. n_configs} /\ Ran \subseteq Configs
  BY <1>1 DEF Ran, Range
<1>3. \A l : CovBy(l) = {k \in 1 .. n_configs : l \in Cover[configs[k]]}
  BY <1>1 DEF CovBy
<1>4. \A c \in Configs : Cover[c] \subseteq Locs
  BY DomainAssumption
<1>5. Known = {l \in Locs : CovBy(l) # {}}
  BY <1>1, <1>2, <1>3, <1>4 DEF Known
<1>6. IsFiniteSet(Known)
  BY <1>5, DomainAssumption, FS_Subset
<1> QED BY <1>1, <1>2, <1>3, <1>5, <1>6

(* What happens to the runs and to what was seen when runs are added.      *)
LEMMA MoreRuns ==
    ASSUME TypeOK, NEW cex \in Seq(Configs), configs' = configs \o cex
    PROVE  /\ configs' \in Seq(Configs) /\ n_configs' = n_configs + Len(cex)
           /\ Ran' = Ran \cup Range(cex)
           /\ \A k \in 1 .. n_configs : configs'[k] = configs[k]
           /\ \A l : CovBy(l)' \cap 1 .. n_configs = CovBy(l)
<1>1. configs \in Seq(Configs)
  BY DEF TypeOK
<1>2. /\ configs' \in Seq(Configs) /\ n_configs' = n_configs + Len(cex)
      /\ \A k \in 1 .. n_configs : configs'[k] = configs[k]
  BY <1>1, ConcatProperties DEF n_configs
<1>3. Ran' = Ran \cup Range(cex)
  BY <1>1, RangeConcatenation DEF Ran
<1>4. n_configs \in Nat /\ Len(cex) \in Nat
  BY <1>1 DEF n_configs
<1>5. DOMAIN configs = 1 .. n_configs /\ DOMAIN configs' = 1 .. n_configs'
  BY <1>1, <1>2 DEF n_configs
<1>6. \A l : CovBy(l)' \cap 1 .. n_configs = CovBy(l)
  <2> SUFFICES ASSUME NEW l, NEW k PROVE k \in CovBy(l)' \cap 1 .. n_configs <=> k \in CovBy(l)
    OBVIOUS
  <2>1. k \in CovBy(l)' <=> k \in 1 .. n_configs' /\ l \in Cover[configs'[k]]
    BY <1>5 DEF CovBy
  <2>2. k \in CovBy(l) <=> k \in 1 .. n_configs /\ l \in Cover[configs[k]]
    BY <1>5 DEF CovBy
  <2>3. k \in 1 .. n_configs => k \in 1 .. n_configs' /\ configs'[k] = configs[k]
    <3>1. \A m, p, q : m \in Nat /\ p \in Nat /\ q = m + p /\ k \in 1 .. m => k \in 1 .. q
      OBVIOUS
    <3> QED BY <1>2, <1>4, <3>1
  <2> QED BY <2>1, <2>2, <2>3
<1> QED BY <1>2, <1>3, <1>6

(* What a tree may make of the configurations that have not run.           *)
GuessedHits == SUBSET (Configs \ Ran)

(* A tree that is built agrees with the runs and is not to be rebuilt.     *)
LEMMA BuiltFields ==
    ASSUME TypeOK, NEW l, NEW d \in LocDataType, NEW guess \in GuessedHits
    PROVE  /\ Built(l, d, guess) \in LocDataType
           /\ Built(l, d, guess).parent = d.parent
           /\ Built(l, d, guess).queued_next = d.queued_next
           /\ Built(l, d, guess).ignored = d.ignored
           /\ Built(l, d, guess).need_rebuild = FALSE
           /\ Built(l, d, guess).tree.counted = n_configs
           /\ \A c \in Ran : Agrees(l, Built(l, d, guess), c)
<1>1. n_configs \in Nat /\ Ran \subseteq Configs
  BY StoreFacts
<1> DEFINE tr == [hits |-> {c \in Ran : l \in Cover[c]} \cup guess, counted |-> n_configs]
<1>2. tr \in [hits : SUBSET Configs, counted : Nat]
  BY <1>1 DEF GuessedHits
<1>3. Built(l, d, guess) = [d EXCEPT !.tree = tr, !.need_rebuild = FALSE]
  BY DEF Built
<1>4. \A c \in Ran : (c \in tr.hits) = (l \in Cover[c])
  BY DEF GuessedHits
<1>5. tr.counted = n_configs
  OBVIOUS
<1> HIDE DEF tr
<1>6. Built(l, d, guess) \in LocDataType
  BY <1>2, <1>3 DEF LocDataType
<1>7. /\ Built(l, d, guess).parent = d.parent
      /\ Built(l, d, guess).queued_next = d.queued_next
      /\ Built(l, d, guess).ignored = d.ignored
      /\ Built(l, d, guess).need_rebuild = FALSE
      /\ Built(l, d, guess).tree = tr
  BY <1>3 DEF LocDataType
<1> QED BY <1>4, <1>5, <1>6, <1>7 DEF Agrees

(* enqueue_next gives up or queues, and touches neither class nor tree.    *)
LEMMA EnqueuedFields ==
    ASSUME TypeOK, NEW d \in LocDataType, NEW n \in Nat
    PROVE  LET e == Enqueued(d, n)
           IN  /\ e \in LocDataType /\ e.parent = d.parent /\ e.tree = d.tree
               /\ e.need_rebuild <=> d.need_rebuild \/ e.ignored
               /\ e.queued_next <=> d.queued_next \/ ~e.ignored
<1> DEFINE kick_messed == terminate_counter > 0 /\ n > p_thr_messed_up_kickin
           kick_stuck == n > p_thr_stuck_kickin
           up == d.messed_up + IF kick_messed THEN terminate_counter * p_messed_up_factor ELSE 0
           stuck == d.n_stuck + IF kick_stuck THEN 1 ELSE 0
           ig == \/ kick_messed /\ up >= p_max_messed_up
                 \/ kick_stuck /\ stuck >= p_max_stuck
<1>1. Enqueued(d, n) = [d EXCEPT !.messed_up = up, !.n_stuck = stuck, !.ignored = ig,
                             !.need_rebuild = @ \/ ig, !.queued_next = @ \/ ~ig]
  BY DEF Enqueued
<1>2. d.messed_up \in Nat /\ d.n_stuck \in Nat
  BY DEF LocDataType
<1>3. terminate_counter \in Nat /\ p_messed_up_factor \in Nat /\ max_terminate_counter \in Nat
  BY ParamAssumption DEF TypeOK
<1>4. terminate_counter * p_messed_up_factor \in Nat
  BY <1>3
<1>5. up \in Nat
  BY <1>2, <1>4
<1>6. stuck \in Nat
  BY <1>2
<1>7. ig \in BOOLEAN
  OBVIOUS
<1> HIDE DEF up, stuck, ig
<1>8. Enqueued(d, n) \in LocDataType
  <2>1. (d.need_rebuild \/ ig) \in BOOLEAN /\ (d.queued_next \/ ~ig) \in BOOLEAN
    OBVIOUS
  <2> QED BY <1>1, <1>5, <1>6, <1>7, <2>1, Zenon DEF LocDataType
<1>9. /\ Enqueued(d, n).parent = d.parent /\ Enqueued(d, n).tree = d.tree
      /\ Enqueued(d, n).ignored = ig
      /\ Enqueued(d, n).need_rebuild = (d.need_rebuild \/ ig)
      /\ Enqueued(d, n).queued_next = (d.queued_next \/ ~ig)
  BY <1>1, Zenon DEF LocDataType
<1> QED BY <1>8, <1>9

(* A counterexample is a sequence of configurations never generated before.*)
LEMMA CexSeq ==
    ASSUME NEW cex \in Cex
    PROVE  /\ cex \in Seq(Configs) /\ IsInjective(cex)
           /\ Range(cex) \cap set_conf_hash = {} /\ Range(cex) \subseteq Configs
<1>1. PICK k \in 0 .. MaxCex : cex \in [1 .. k -> Configs \ set_conf_hash]
  BY DEF Cex
<1>2. k \in Nat
  BY ParamAssumption
<1>3. cex \in Seq(Configs \ set_conf_hash)
  BY <1>1, <1>2, SeqDef
<1>4. IsInjective(cex)
  BY DEF Cex
<1> QED BY <1>3, <1>4 DEF Range

(* The test of a tree on counterexamples changes its count and whether it  *)
(* has to be rebuilt.                                                      *)
LEMMA TestedFields ==
    ASSUME TypeOK, NEW l, NEW d \in LocDataType, NEW cex \in Cex
    PROVE  LET e == Tested(l, d, cex)
           IN  /\ e \in LocDataType /\ e.parent = d.parent
               /\ e.queued_next = d.queued_next /\ e.ignored = d.ignored
               /\ e.need_rebuild = (~Success(l, d, cex))
               /\ e.tree.hits = d.tree.hits /\ e.tree.counted >= d.tree.counted
<1> DEFINE more == IF Refuting(l, d, cex) = {} THEN Len(cex) ELSE Min(Refuting(l, d, cex))
<1>1. more \in Nat
  <2>1. cex \in Seq(Configs)
    BY CexSeq
  <2>2. Refuting(l, d, cex) \in SUBSET Nat /\ Len(cex) \in Nat
    BY <2>1 DEF Refuting
  <2> QED BY <2>2, MinExists
<1>2. d.tree \in [hits : SUBSET Configs, counted : Nat]
  BY DEF LocDataType
<1> DEFINE tr == [d.tree EXCEPT !.counted = @ + more]
<1> HIDE DEF more
<1>3. tr \in [hits : SUBSET Configs, counted : Nat] /\ tr.hits = d.tree.hits
      /\ tr.counted = d.tree.counted + more
  BY <1>1, <1>2
<1>4. Tested(l, d, cex) = [d EXCEPT !.tree = tr, !.need_rebuild = ~Success(l, d, cex)]
  BY DEF Tested, more, LocDataType
<1> HIDE DEF tr
<1>5. Success(l, d, cex) \in BOOLEAN
  BY DEF Success
<1>6. Tested(l, d, cex) \in LocDataType
  BY <1>3, <1>4, <1>5, Zenon DEF LocDataType
<1>7. /\ Tested(l, d, cex).parent = d.parent
      /\ Tested(l, d, cex).queued_next = d.queued_next
      /\ Tested(l, d, cex).ignored = d.ignored
      /\ Tested(l, d, cex).need_rebuild = (~Success(l, d, cex))
      /\ Tested(l, d, cex).tree = tr
  BY <1>4, Zenon DEF LocDataType
<1>8. tr.counted >= d.tree.counted
  BY <1>1, <1>2, <1>3
<1> QED BY <1>3, <1>6, <1>7, <1>8

------------------------------------------------------------------------------
(* prepare_vec_loc_data.                                                   *)

(* The representative of a location is the first of its class.             *)
LEMMA RepFacts ==
    ASSUME TypeOK, NEW l \in Known
    PROVE  /\ Rep(l) \in Known /\ CovBy(Rep(l)) = CovBy(l) /\ Rep(l) <= l
           /\ Rep(Rep(l)) = Rep(l)
           /\ \A m \in Known : CovBy(m) = CovBy(l) => Rep(m) = Rep(l)
           /\ Rep(l) \in Nat /\ l \in Nat /\ l # 0 /\ Rep(l) # 0
<1> DEFINE Class(x) == {m \in Known : SameHash(x, m)}
<1>1. Known \subseteq Nat \ {0}
  BY StoreFacts, DomainAssumption
<1>2. l \in Class(l) /\ Class(l) \in SUBSET Nat
  BY <1>1 DEF SameHash
<1>3. Min(Class(l)) \in Class(l) /\ \A x \in Class(l) : Min(Class(l)) <= x
  <2> HIDE DEF Class
  <2> QED BY <1>2, MinExists
<1>4. \A x : Rep(x) = Min(Class(x))
  BY DEF Rep
<1>5. Rep(l) \in Class(l) /\ Rep(l) <= l
  BY <1>2, <1>3, <1>4
<1>6. \A m \in Known : CovBy(m) = CovBy(l) => Class(m) = Class(l)
  BY DEF SameHash
<1>7. \A m \in Known : CovBy(m) = CovBy(l) => Rep(m) = Rep(l)
  BY <1>4, <1>6
<1>8. Rep(l) \in Known /\ CovBy(Rep(l)) = CovBy(l)
  BY <1>5 DEF SameHash
<1> QED BY <1>1, <1>5, <1>7, <1>8

(* A LocData that is new has no class, no tree and no history.             *)
LEMMA NewFields ==
    /\ NewLocData \in LocDataType /\ ~linked(NewLocData)
    /\ NewLocData.need_rebuild /\ ~NewLocData.ignored
<1>1. NoTree \in [hits : SUBSET Configs, counted : Nat]
  BY DEF NoTree
<1> HIDE DEF NoTree
<1>2. NewLocData \in LocDataType
  BY <1>1 DEF NewLocData, LocDataType, NoLoc
<1> QED BY <1>2 DEF NewLocData, linked

(* link_to takes the tree away.                                            *)
LEMMA LinkFields ==
    ASSUME NEW d \in LocDataType, NEW p \in Locs \cup {NoLoc}
    PROVE  LET e == link_to(d, p)
           IN  /\ e \in LocDataType /\ e.parent = p /\ e.need_rebuild
               /\ e.ignored = d.ignored
<1>1. NoTree \in [hits : SUBSET Configs, counted : Nat]
  BY DEF NoTree
<1> QED BY <1>1 DEF link_to, LocDataType

(* Classes only split: a location with a tree of its own stays the first   *)
(* of its class.                                                           *)
LEMMA UnlinkedStays ==
    ASSUME TypeOK, Store, Classes, pc \notin Terminal, NEW l \in Unlinked(dat)
    PROVE  l \in Known /\ Rep(l) = l
<1>1. l \in DOMAIN dat /\ ~linked(dat[l]) /\ l \in Locs /\ Seen(l) # {}
  BY DEF Unlinked, Classes
<1>2. l \in Known
  BY <1>1, StoreFacts DEF Seen
<1> DEFINE m == Rep(l)
<1>3. m \in Known /\ CovBy(m) = CovBy(l) /\ m <= l /\ m \in Nat /\ l \in Nat
  BY <1>2, RepFacts
<1>4. Seen(m) = Seen(l)
  BY <1>3 DEF Seen
<1>5. m \in DOMAIN dat
  BY <1>1, <1>3, <1>4, StoreFacts DEF Classes
<1>6. CASE ~linked(dat[m])
  <2>1. m \in Unlinked(dat)
    BY <1>5, <1>6 DEF Unlinked
  <2> QED BY <1>2, <1>4, <2>1 DEF Classes
<1>7. CASE linked(dat[m])
  <2>1. PICK p \in Unlinked(dat) : p < m /\ Seen(p) = Seen(m)
    BY <1>5, <1>7 DEF Classes
  <2>2. p = l
    BY <1>4, <2>1 DEF Classes
  <2> QED BY <1>2, <1>3, <2>1, <2>2
<1> QED BY <1>6, <1>7

(* Everything there is to know about the prepared v_loc_data.              *)
LEMMA Prepared ==
    ASSUME TypeOK, Store, Classes, Trees, pc \notin Terminal
    PROVE  /\ DOMAIN PreparedDat = Known /\ PreparedDat \in [Known -> LocDataType]
           /\ Unlinked(PreparedDat) = {l \in Known : Rep(l) = l}
           /\ \A l \in Known : Rep(l) # l => /\ PreparedDat[l].parent = Rep(l)
                                             /\ PreparedDat[l].need_rebuild
                                             /\ ~PreparedDat[l].ignored
           /\ \A l \in Unlinked(dat) : l \in Known /\ Rep(l) = l /\ PreparedDat[l] = dat[l]
           /\ NewDats = Unlinked(PreparedDat) \ Unlinked(dat)
           /\ \A l \in NewDats : PreparedDat[l].need_rebuild /\ ~PreparedDat[l].ignored
<1> DEFINE D(l) == IF l \in DOMAIN dat THEN dat[l] ELSE NewLocData
<1>1. DOMAIN PreparedDat = Known
  BY DEF PreparedDat
<1>2. \A l \in Known : PreparedDat[l] = IF Rep(l) # l THEN link_to(D(l), Rep(l))
                                        ELSE IF linked(D(l)) THEN link_to(D(l), NoLoc) ELSE D(l)
  BY DEF PreparedDat
<1>3. Known \subseteq Locs
  BY StoreFacts
<1>4. \A l \in Known : D(l) \in LocDataType
  BY NewFields DEF TypeOK
<1>5. \A l \in Unlinked(dat) : l \in Known /\ Rep(l) = l /\ l \in DOMAIN dat /\ ~linked(dat[l])
  BY UnlinkedStays DEF Unlinked
<1>6. \A l \in Known : l \notin Unlinked(dat) => ~D(l).ignored
  BY NewFields DEF Classes, Unlinked
<1>7. \A l \in Known : l \notin Unlinked(dat) /\ ~linked(D(l)) => D(l) = NewLocData
  BY DEF Unlinked
<1> HIDE DEF D
<1>8. ASSUME NEW l \in Known
      PROVE  /\ PreparedDat[l] \in LocDataType
             /\ linked(PreparedDat[l]) <=> Rep(l) # l
             /\ Rep(l) # l => /\ PreparedDat[l].parent = Rep(l)
                              /\ PreparedDat[l].need_rebuild
                              /\ ~PreparedDat[l].ignored
             /\ l \notin Unlinked(dat) => PreparedDat[l].need_rebuild /\ ~PreparedDat[l].ignored
  <2>1. Rep(l) \in Locs /\ Rep(l) # 0
    BY <1>3, RepFacts
  <2>2. CASE Rep(l) # l
    <3>1. PreparedDat[l] = link_to(D(l), Rep(l)) /\ l \notin Unlinked(dat)
      BY <1>2, <1>5, <2>2
    <3> QED BY <1>4, <1>6, <2>1, <2>2, <3>1, LinkFields DEF linked, NoLoc
  <2>3. CASE Rep(l) = l /\ linked(D(l))
    <3>1. PreparedDat[l] = link_to(D(l), NoLoc)
      BY <1>2, <2>3
    <3> QED BY <1>4, <1>6, <2>3, <3>1, LinkFields DEF linked, NoLoc
  <2>4. CASE Rep(l) = l /\ ~linked(D(l))
    <3>1. PreparedDat[l] = D(l)
      BY <1>2, <2>4
    <3> QED BY <1>4, <1>7, <2>4, <3>1, NewFields
  <2> QED BY <2>2, <2>3, <2>4
<1>9. PreparedDat \in [Known -> LocDataType]
  BY <1>1, <1>8 DEF PreparedDat
<1>10. Unlinked(PreparedDat) = {l \in Known : Rep(l) = l}
  BY <1>1, <1>8 DEF Unlinked
<1>11. \A l \in Unlinked(dat) : PreparedDat[l] = dat[l]
  BY <1>2, <1>5 DEF D
<1>12. NewDats = Unlinked(PreparedDat) \ Unlinked(dat)
  BY <1>10 DEF NewDats, Unlinked
<1> QED BY <1>1, <1>5, <1>8, <1>9, <1>10, <1>11, <1>12

------------------------------------------------------------------------------
(* The steps that keep the classes.                                        *)

(* The first runs are known, and there is at least one.                    *)
LEMMA InitConfigsSeq ==
    ASSUME mode \in Modes, NEW s \in InitConfigs
    PROVE  s \in Seq(Configs) /\ s # << >>
<1>1. Cardinality(Configs) \in Nat /\ ExistsBijection(1 .. Cardinality(Configs), Configs)
  BY FS_CardinalityType, DomainAssumption
<1>2. Cardinality(Configs) >= 1 /\ NRand \in Nat /\ NRand >= 1
  BY <1>1, DomainAssumption
<1>3. CASE mode = "full"
  <2>1. \E f \in [1 .. Cardinality(Configs) -> Configs] : IsInjective(f)
    BY <1>1 DEF ExistsBijection, Bijection, Injection
  <2>2. SetToSeq(Configs) \in [1 .. Cardinality(Configs) -> Configs]
    BY <2>1, Zenon DEF SetToSeq
  <2>3. s \in [1 .. Cardinality(Configs) -> Configs]
    BY <1>3, <2>2 DEF InitConfigs
  <2>4. s \in Seq(Configs) /\ Len(s) = Cardinality(Configs)
    BY <1>1, <2>3
  <2> QED BY <1>2, <2>4
<1>4. CASE mode = "rand"
  <2>1. s \in [1 .. NRand -> Configs]
    BY <1>4 DEF InitConfigs, RandConfigs
  <2>2. s \in Seq(Configs) /\ Len(s) = NRand
    BY <1>2, <2>1
  <2> QED BY <1>2, <2>2
<1>5. CASE mode \notin {"full", "rand"}
  <2>1. PICK i \in InitialConfigs : s = i \o SeedConfigs
    BY <1>5 DEF InitConfigs
  <2>2. i \in Seq(Configs) /\ i # << >> /\ SeedConfigs \in Seq(Configs)
    BY DomainAssumption
  <2> QED BY <2>1, <2>2, ConcatProperties, ConcatEqualIffEmpty
<1> QED BY <1>3, <1>4, <1>5

(* Runs added later do not change what was seen.                           *)
LEMMA SeenKept ==
    ASSUME TypeOK, Store, NEW cex \in Seq(Configs), configs' = configs \o cex,
           prev_n_conf' = prev_n_conf
    PROVE  \A l : Seen(l)' = Seen(l)
<1>1. \A l : CovBy(l)' \cap 1 .. n_configs = CovBy(l)
  BY MoreRuns
<1>2. n_configs \in Nat /\ prev_n_conf \in Nat /\ prev_n_conf <= n_configs
  BY StoreFacts DEF TypeOK, Store
<1>3. 1 .. prev_n_conf \subseteq 1 .. n_configs
  BY <1>2
<1>4. ASSUME NEW l
      PROVE  CovBy(l)' \cap 1 .. prev_n_conf = CovBy(l) \cap 1 .. prev_n_conf
  BY <1>1, <1>3
<1> QED BY <1>4 DEF Seen

(* A step that changes no parent and no linked location keeps the classes. *)
LEMMA ClassesKept ==
    ASSUME Classes, DOMAIN dat' = DOMAIN dat,
           \A l \in DOMAIN dat : dat'[l].parent = dat[l].parent,
           \A l \in DOMAIN dat : linked(dat[l]) => dat'[l] = dat[l],
           \A l : Seen(l)' = Seen(l),
           pc' \notin Terminal => pc \notin Terminal
    PROVE  Classes' /\ Unlinked(dat') = Unlinked(dat)
<1>1. Unlinked(dat') = Unlinked(dat)
  BY DEF Unlinked, linked
<1>2. \A l \in DOMAIN dat : linked(dat'[l]) <=> linked(dat[l])
  BY DEF linked
<1>3. pc' \notin Terminal => DOMAIN dat' = {l \in Locs : Seen(l)' # {}}
  BY DEF Classes
<1>4. pc' \notin Terminal =>
          \A l, m \in Unlinked(dat') : Seen(l)' = Seen(m)' => l = m
  BY <1>1 DEF Classes
<1>5. ASSUME NEW l \in DOMAIN dat', linked(dat'[l])
      PROVE  /\ \E p \in Unlinked(dat') : p = dat'[l].parent /\ p < l /\ Seen(l)' = Seen(p)'
             /\ dat'[l].need_rebuild /\ ~dat'[l].ignored
  <2>1. dat'[l] = dat[l] /\ linked(dat[l]) /\ l \in DOMAIN dat
    BY <1>2, <1>5
  <2> QED BY <1>1, <2>1 DEF Classes
<1>6. \A l \in DOMAIN dat' : linked(dat'[l]) =>
           /\ \E p \in Unlinked(dat') : p = dat'[l].parent /\ p < l /\ Seen(l)' = Seen(p)'
           /\ dat'[l].need_rebuild /\ ~dat'[l].ignored
  BY <1>5
<1> QED BY <1>1, <1>3, <1>4, <1>6 DEF Classes

(* The second loop adds to the count of a tree.                            *)
LEMMA ShownFields ==
    ASSUME TypeOK, Store, NEW l \in Watched
    PROVE  LET e == Shown(l)
           IN  /\ e \in LocDataType /\ e.parent = dat[l].parent
               /\ e.ignored = dat[l].ignored /\ e.need_rebuild = dat[l].need_rebuild
               /\ e.queued_next = dat[l].queued_next /\ e.messed_up = dat[l].messed_up
               /\ e.tree.hits = dat[l].tree.hits /\ e.tree.counted >= dat[l].tree.counted
<1>1. /\ dat[l] \in LocDataType /\ ~dat[l].queued_next /\ ~dat[l].ignored
      /\ dat[l].tree \in [hits : SUBSET Configs, counted : Nat]
  BY DEF Watched, Unlinked, TypeOK, LocDataType
<1>2. n_configs \in Nat /\ prev_n_conf \in Nat /\ NewRuns \in SUBSET Nat
  BY StoreFacts DEF TypeOK, NewRuns
<1>3. Cardinality(NewRuns) \in Nat
  BY <1>2, FS_Interval, FS_CardinalityType DEF NewRuns
<1> DEFINE more == IF Refuted(l) = {} THEN Cardinality(NewRuns)
                   ELSE Min(Refuted(l)) - prev_n_conf
<1>4. more \in Nat
  <2>1. CASE Refuted(l) = {}
    BY <1>3, <2>1
  <2>2. CASE Refuted(l) # {}
    <3>1. Refuted(l) \in SUBSET Nat /\ \A k \in Refuted(l) : k > prev_n_conf
      BY <1>2 DEF Refuted, NewRuns
    <3>2. Min(Refuted(l)) \in Nat /\ Min(Refuted(l)) > prev_n_conf
      BY <2>2, <3>1, MinExists
    <3> QED BY <1>2, <2>2, <3>2
  <2> QED BY <2>1, <2>2
<1> DEFINE tr == [dat[l].tree EXCEPT !.counted = @ + more]
<1> HIDE DEF more
<1>5. tr \in [hits : SUBSET Configs, counted : Nat] /\ tr.hits = dat[l].tree.hits
      /\ tr.counted = dat[l].tree.counted + more
  BY <1>1, <1>4
<1>6. tr.counted >= dat[l].tree.counted
  BY <1>1, <1>4, <1>5
<1>7. Shown(l) = [dat[l] EXCEPT !.tree = tr]
  BY DEF Shown, more, LocDataType
<1> HIDE DEF tr
<1>8. /\ Shown(l) \in LocDataType /\ Shown(l).tree = tr /\ Shown(l).parent = dat[l].parent
      /\ Shown(l).ignored = dat[l].ignored /\ Shown(l).need_rebuild = dat[l].need_rebuild
      /\ Shown(l).queued_next = dat[l].queued_next /\ Shown(l).messed_up = dat[l].messed_up
  BY <1>1, <1>5, <1>7, Zenon DEF LocDataType
<1> QED BY <1>5, <1>6, <1>8

(* It gives up or queues a location whose tree is refuted.                 *)
LEMMA RecheckedFields ==
    ASSUME TypeOK, Store, NEW l \in Watched
    PROVE  LET e == Rechecked(l)
           IN  /\ e \in LocDataType /\ e.parent = dat[l].parent
               /\ e.tree.hits = dat[l].tree.hits /\ e.tree.counted >= dat[l].tree.counted
               /\ Refuted(l) = {} => /\ e.ignored = dat[l].ignored
                                     /\ e.need_rebuild = dat[l].need_rebuild
                                     /\ e.queued_next = dat[l].queued_next
               /\ Refuted(l) # {} => e.need_rebuild /\ (e.queued_next <=> ~e.ignored)
<1>1. n_configs \in Nat /\ ~dat[l].queued_next
  BY StoreFacts DEF Watched
<1>2. LET e == Shown(l)
      IN  /\ e \in LocDataType /\ e.parent = dat[l].parent
          /\ e.ignored = dat[l].ignored /\ e.need_rebuild = dat[l].need_rebuild
          /\ e.queued_next = dat[l].queued_next
          /\ e.tree.hits = dat[l].tree.hits /\ e.tree.counted >= dat[l].tree.counted
  BY ShownFields
<1>3. CASE Refuted(l) = {}
  <2>1. Rechecked(l) = Shown(l)
    BY <1>3 DEF Rechecked
  <2> QED BY <1>2, <1>3, <2>1
<1>4. CASE Refuted(l) # {}
  <2> DEFINE s == [Shown(l) EXCEPT !.need_rebuild = TRUE]
  <2>1. s \in LocDataType /\ s.tree = Shown(l).tree /\ s.parent = dat[l].parent
        /\ s.need_rebuild /\ s.queued_next = dat[l].queued_next
    BY <1>2, Zenon DEF LocDataType
  <2>2. Rechecked(l) = Enqueued(s, n_configs)
    BY <1>4 DEF Rechecked
  <2> HIDE DEF s
  <2>3. /\ Enqueued(s, n_configs) \in LocDataType
        /\ Enqueued(s, n_configs).parent = s.parent
        /\ Enqueued(s, n_configs).tree = s.tree
        /\ Enqueued(s, n_configs).need_rebuild <=> s.need_rebuild \/ Enqueued(s, n_configs).ignored
        /\ Enqueued(s, n_configs).queued_next <=> s.queued_next \/ ~Enqueued(s, n_configs).ignored
    BY <1>1, <2>1, EnqueuedFields
  <2>4. Rechecked(l).need_rebuild /\ (Rechecked(l).queued_next <=> ~Rechecked(l).ignored)
    BY <1>1, <2>1, <2>2, <2>3
  <2>5. Rechecked(l) \in LocDataType /\ Rechecked(l).parent = dat[l].parent
        /\ Rechecked(l).tree = Shown(l).tree
    BY <2>1, <2>2, <2>3
  <2> QED BY <1>2, <1>4, <2>4, <2>5
<1> QED BY <1>3, <1>4

------------------------------------------------------------------------------
(* What each action does to v_loc_data and to the queues.                  *)

(* A set of locations in some order is a sequence of them.                 *)
LEMMA OrderFacts ==
    ASSUME NEW S \in SUBSET Locs, NEW s \in InIdOrder(S) \cup InRefutedOrder(S)
    PROVE  s \in Seq(Locs) /\ Range(s) = S /\ IsInjective(s)
<1>1. IsFiniteSet(S)
  BY DomainAssumption, FS_Subset
<1>2. s \in Bijection(1 .. Cardinality(S), S)
  BY DEF InIdOrder, InRefutedOrder
<1>3. s \in Seq(S) /\ Range(s) = S /\ IsInjective(s)
  BY <1>1, <1>2, BijectionSeq
<1> QED BY <1>3, SeqMonotonic

(* One LocData changes, and its class stays.                               *)
LEMMA SetLocData ==
    ASSUME TypeOK, NEW l \in Unlinked(dat), NEW x \in LocDataType,
           x.parent = dat[l].parent, dat' = [dat EXCEPT ![l] = x]
    PROVE  /\ DOMAIN dat' = DOMAIN dat /\ dat' \in [DOMAIN dat' -> LocDataType]
           /\ dat'[l] = x /\ \A m \in DOMAIN dat : m # l => dat'[m] = dat[m]
           /\ \A m \in DOMAIN dat : dat'[m].parent = dat[m].parent
           /\ \A m \in DOMAIN dat : linked(dat[m]) => dat'[m] = dat[m]
<1>1. l \in DOMAIN dat /\ ~linked(dat[l]) /\ dat \in [DOMAIN dat -> LocDataType]
  BY DEF Unlinked, TypeOK
<1>2. DOMAIN dat' = DOMAIN dat
  BY <1>1
<1>3. dat'[l] = x /\ \A m \in DOMAIN dat : m # l => dat'[m] = dat[m]
  BY <1>1
<1>4. dat' \in [DOMAIN dat' -> LocDataType]
  BY <1>1, <1>2
<1> QED BY <1>1, <1>2, <1>3, <1>4

(* The tree of a turn is built, or is the one there is.                    *)
LEMMA TurnTree ==
    ASSUME Base, NEW l \in Unlinked(dat), NEW d \in OneLocTrees(l),
           pc \notin {"init", "abort", "exit"}
    PROVE  /\ d \in LocDataType /\ d.parent = dat[l].parent /\ d.ignored = dat[l].ignored
           /\ d.queued_next = dat[l].queued_next /\ d.tree.counted > 0
           /\ dat[l].need_rebuild => \A c \in Ran : Agrees(l, d, c)
           /\ ~dat[l].need_rebuild => d = dat[l]
<1>1. l \in DOMAIN dat /\ dat[l] \in LocDataType /\ TypeOK
  BY DEF Unlinked, TypeOK, Base
<1>2. n_configs > 0
  BY DEF Base, Store, TypeOK, n_configs
<1>3. CASE dat[l].need_rebuild
  <2>1. PICK g \in SUBSET (Configs \ Ran) : d = Built(l, dat[l], g)
    BY <1>3 DEF OneLocTrees
  <2>2. /\ d \in LocDataType /\ d.parent = dat[l].parent
        /\ d.queued_next = dat[l].queued_next /\ d.ignored = dat[l].ignored
        /\ d.tree.counted = n_configs /\ \A c \in Ran : Agrees(l, d, c)
    <3> DEFINE e == dat[l]
    <3>1. e \in LocDataType /\ d = Built(l, e, g) /\ g \in GuessedHits /\ TypeOK
      BY <1>1, <2>1 DEF GuessedHits
    <3> HIDE DEF e
    <3>2. /\ d \in LocDataType /\ d.parent = e.parent
          /\ d.queued_next = e.queued_next /\ d.ignored = e.ignored
          /\ d.tree.counted = n_configs /\ \A c \in Ran : Agrees(l, d, c)
      BY <3>1, BuiltFields
    <3> QED BY <3>2 DEF e
  <2> QED BY <1>2, <1>3, <2>2
<1>4. CASE ~dat[l].need_rebuild
  BY <1>1, <1>4 DEF OneLocTrees, Base, Trees
<1> QED BY <1>3, <1>4

(* What one round of the loop over t does to the location whose turn it is.*)
TurnGoesOn(l, d, cex, x) ==
    /\ x.need_rebuild = (~Success(l, d, cex)) /\ x.ignored = d.ignored
    /\ x.queued_next = d.queued_next
    /\ (IF Success(l, d, cex) THEN c_success + 1 ELSE 0) # ConsecutiveSuccess(d)
    /\ c_success' = IF Success(l, d, cex) THEN c_success + 1 ELSE 0
    /\ t' = t + 1 /\ meidx' = meidx /\ v_next_iter' = v_next_iter

TurnSucceeds(l, d, cex, x) ==
    /\ x.need_rebuild = FALSE /\ x.ignored = d.ignored /\ x.queued_next = d.queued_next
    /\ Success(l, d, cex)
    /\ t' = 1 /\ c_success' = 0 /\ meidx' = meidx + 1 /\ v_next_iter' = v_next_iter

TurnFails(l, d, cex, x) ==
    /\ x.need_rebuild <=> ~Success(l, d, cex) \/ x.ignored
    /\ x.queued_next <=> d.queued_next \/ ~x.ignored
    /\ ~(Success(l, d, cex) /\ c_success + 1 = ConsecutiveSuccess(d))
    /\ v_next_iter' = IF x.ignored THEN v_next_iter ELSE Append(v_next_iter, l)
    /\ t' = 1 /\ c_success' = 0 /\ meidx' = meidx + 1

LEMMA AttemptFacts ==
    ASSUME Base, attempt
    PROVE  \E l \in Unlinked(dat), cex \in Cex, x \in LocDataType :
           \E d \in OneLocTrees(l) :
              /\ l = v_this_iter[meidx] /\ meidx \in 1 .. Len(v_this_iter) /\ pc = "loc"
              /\ dat' = [dat EXCEPT ![l] = x] /\ x.parent = dat[l].parent
              /\ x.tree.hits = d.tree.hits /\ x.tree.counted > 0
              /\ run_configs(cex)
              /\ \/ TurnGoesOn(l, d, cex, x) \/ TurnSucceeds(l, d, cex, x)
                 \/ TurnFails(l, d, cex, x)
              /\ pc' = "loc" \/ pc' = "abort"
              /\ OneLocChecks(l) /\ ~dat[l].ignored => pc' = "loc"
              /\ UNCHANGED <<loop, v_this_iter, prev_n_conf, quiet, gSignalStatus, n_signals>>
<1> DEFINE l == v_this_iter[meidx]
<1>1. pc = "loc" /\ meidx \in 1 .. Len(v_this_iter) /\ TypeOK
  BY DEF attempt, InFirstLoop, Base, TypeOK
<1>2. l \in Unlinked(dat)
  BY <1>1 DEF Base, Members, TypeOK, Range
<1>3. PICK d \in OneLocTrees(l), cex \in Cex :
          /\ run_configs(cex)
          /\ turn_goes_on(l, d, cex) \/ turn_succeeds(l, d, cex) \/ turn_fails(l, d, cex)
  BY DEF attempt
<1>4. UNCHANGED <<loop, v_this_iter, prev_n_conf, quiet, gSignalStatus, n_signals>>
  BY DEF attempt
<1> HIDE DEF l
<1>5. d \in LocDataType /\ d.parent = dat[l].parent /\ d.tree.counted > 0 /\ d.tree.counted \in Nat
  <2>1. d \in LocDataType /\ d.parent = dat[l].parent /\ d.tree.counted > 0
    BY <1>1, <1>2, TurnTree
  <2> QED BY <2>1 DEF LocDataType
<1> DEFINE e == Tested(l, d, cex)
<1>6. /\ e \in LocDataType /\ e.parent = d.parent
      /\ e.queued_next = d.queued_next /\ e.ignored = d.ignored
      /\ e.need_rebuild = (~Success(l, d, cex))
      /\ e.tree.hits = d.tree.hits /\ e.tree.counted >= d.tree.counted
  BY <1>1, <1>5, TestedFields
<1> HIDE DEF e
<1>7. e.tree.counted > 0
  BY <1>5, <1>6 DEF LocDataType
<1>8. CASE turn_goes_on(l, d, cex)
  <2>1. dat' = [dat EXCEPT ![l] = e] /\ pc' = IF OneLocChecks(l) THEN "loc" ELSE "abort"
    BY <1>8 DEF turn_goes_on, e
  <2>2. TurnGoesOn(l, d, cex, e)
    BY <1>6, <1>8 DEF turn_goes_on, TurnGoesOn
  <2> QED BY <1>1, <1>2, <1>3, <1>4, <1>5, <1>6, <1>7, <2>1, <2>2 DEF l
<1>9. CASE turn_succeeds(l, d, cex)
  <2> DEFINE x == [e EXCEPT !.n_stuck = 0]
  <2>1. dat' = [dat EXCEPT ![l] = x] /\ pc' = IF OneLocChecks(l) THEN "loc" ELSE "abort"
    BY <1>9 DEF turn_succeeds, e
  <2>2. x \in LocDataType /\ x.parent = e.parent /\ x.tree = e.tree
        /\ x.need_rebuild = e.need_rebuild /\ x.ignored = e.ignored
        /\ x.queued_next = e.queued_next
    BY <1>6 DEF LocDataType
  <2> HIDE DEF x
  <2>3. TurnSucceeds(l, d, cex, x)
    BY <1>6, <1>9, <2>2 DEF turn_succeeds, TurnSucceeds, end_turn
  <2> QED BY <1>1, <1>2, <1>3, <1>4, <1>5, <1>6, <1>7, <2>1, <2>2, <2>3 DEF l
<1>10. CASE turn_fails(l, d, cex)
  <2> DEFINE x == Enqueued(e, n_configs + Len(cex))
  <2>1. x = Enqueued(Tested(l, d, cex), n_configs + Len(cex))
    BY DEF e
  <2> HIDE DEF x
  <2>2. dat' = [dat EXCEPT ![l] = x]
    BY <1>10, <2>1 DEF turn_fails
  <2>3. pc' = IF OneLocChecks(l) /\ ~dat[l].ignored THEN "loc" ELSE "abort"
    BY <1>10 DEF turn_fails
  <2>4. v_next_iter' = IF x.ignored THEN v_next_iter ELSE Append(v_next_iter, l)
    BY <1>10, <2>1 DEF turn_fails
  <2>5. t' = 1 /\ c_success' = 0 /\ meidx' = meidx + 1
    BY <1>10 DEF turn_fails, end_turn
  <2>6. ~(Success(l, d, cex) /\ c_success + 1 = ConsecutiveSuccess(d))
    BY <1>10 DEF turn_fails
  <2> USE DEF x
  <2>7. n_configs + Len(cex) \in Nat
    BY <1>1, StoreFacts, CexSeq
  <2>8. /\ x \in LocDataType /\ x.parent = e.parent /\ x.tree = e.tree
        /\ x.need_rebuild <=> e.need_rebuild \/ x.ignored
        /\ x.queued_next <=> e.queued_next \/ ~x.ignored
    BY <1>1, <1>6, <2>7, EnqueuedFields
  <2> HIDE DEF x
  <2>9. TurnFails(l, d, cex, x)
    BY <1>6, <2>4, <2>5, <2>6, <2>8, Zenon DEF TurnFails
  <2> QED BY <1>1, <1>2, <1>3, <1>4, <1>5, <1>6, <1>7, <2>2, <2>3, <2>8, <2>9 DEF l
<1> QED BY <1>3, <1>8, <1>9, <1>10

------------------------------------------------------------------------------
(* The base of the invariants.                                             *)

(* The initial states.                                                     *)
LEMMA BaseInit == Init => Base
<1> SUFFICES ASSUME Init PROVE Base
  OBVIOUS
<1> USE DEF Init
<1>1. DOMAIN dat = {} /\ Unlinked(dat) = {} /\ Range(v_next_iter) = {} /\ n_configs = 0
      /\ configs \in Seq(Configs) /\ Ran = {}
  BY DEF Unlinked, Range, n_configs, Ran
<1>2. TypeOK
  <2>1. max_terminate_counter \in Nat /\ MaxSignals \in Nat
    BY ParamAssumption
  <2>2. dat \in [DOMAIN dat -> LocDataType] /\ v_this_iter \in Seq(Locs) /\ v_next_iter \in Seq(Locs)
    BY <1>1
  <2>3. mode \in Modes /\ pc \in PC /\ iter \in Nat /\ terminate_counter \in 0 .. max_terminate_counter
    BY <2>1 DEF PC
  <2>4. meidx \in Nat \ {0} /\ t \in Nat \ {0} /\ c_success \in Nat /\ prev_n_conf \in Nat
    OBVIOUS
  <2>5. quiet \in BOOLEAN /\ unflushed \in BOOLEAN /\ set_conf_hash \subseteq Configs
    OBVIOUS
  <2>6. gSignalStatus \in Signals \cup {NoSignal} /\ n_signals \in 0 .. MaxSignals
    BY <2>1
  <2>7. configs \in Seq(Configs) /\ DOMAIN dat \subseteq Locs
    BY <1>1
  <2> QED BY <2>2, <2>3, <2>4, <2>5, <2>6, <2>7, Zenon DEF TypeOK
<1>3. Counter
  BY ParamAssumption DEF Counter
<1>4. Store
  BY <1>1 DEF Store, IsInjective
<1>5. Classes
  <2>1. \A l : Seen(l) = {}
    BY DEF Seen
  <2> QED BY <1>1, <2>1 DEF Classes
<1>6. Trees /\ Members
  BY <1>1 DEF Trees, Members
<1> QED BY <1>2, <1>3, <1>4, <1>5, <1>6 DEF Base

(* A step that leaves the runs and v_loc_data alone.                       *)
LEMMA BaseQuietStep ==
    ASSUME Base, TypeOK', Counter', UNCHANGED <<configs, set_conf_hash, dat, prev_n_conf>>,
           pc' = pc \/ (pc \notin Terminal \cup {"init"} /\ pc' # "init"
                        /\ (pc' = "loc" => pc = "loc")) \/ (pc' = "exit" /\ pc \notin Terminal),
           pc = "init" => v_next_iter' = v_next_iter,
           pc' \notin Terminal => Range(v_next_iter') \subseteq Unlinked(dat),
           v_this_iter' = v_this_iter
    PROVE  Base'
<1>1. \A l : CovBy(l)' = CovBy(l)
  BY DEF CovBy
<1>2. \A l : Seen(l)' = Seen(l)
  BY <1>1 DEF Seen
<1>3. n_configs' = n_configs /\ Ran' = Ran /\ Unlinked(dat') = Unlinked(dat)
  BY DEF n_configs, Ran
<1>4. pc' \notin Terminal => pc \notin Terminal
  BY DEF Terminal
<1>5. Classes'
  BY <1>2, <1>4, ClassesKept DEF Base
<1>6. Store'
  <2>1. IsInjective(configs') /\ prev_n_conf' <= n_configs'
    BY <1>3 DEF Base, Store
  <2>2. pc' # "abort" => set_conf_hash' = Ran'
    BY <1>3 DEF Base, Store, Terminal
  <2>3. pc' = "init" => configs' = << >> /\ v_next_iter' = << >>
    BY DEF Base, Store
  <2>4. pc' \notin {"init", "abort", "exit"} => configs' # << >>
    BY DEF Base, Store, Terminal
  <2> QED BY <2>1, <2>2, <2>3, <2>4 DEF Store
<1>7. Trees' /\ Members'
  BY <1>3 DEF Base, Trees, Members, Terminal
<1> QED BY <1>5, <1>6, <1>7 DEF Base

(* A step after which the store holds the new runs as well.                *)
LEMMA StoreGrows ==
    ASSUME Base, NEW cex \in Cex, run_configs(cex), prev_n_conf' = prev_n_conf,
           pc = "loc", pc' \in {"loc", "abort"}
    PROVE  Store'
<1>1. configs' = configs \o cex /\ set_conf_hash' = set_conf_hash \cup Range(cex)
  BY DEF run_configs
<1>2. /\ cex \in Seq(Configs) /\ IsInjective(cex) /\ Range(cex) \cap set_conf_hash = {}
  BY CexSeq
<1>3. configs \in Seq(Configs) /\ IsInjective(configs) /\ set_conf_hash = Ran /\ configs # << >>
      /\ prev_n_conf <= n_configs /\ prev_n_conf \in Nat /\ TypeOK
  BY DEF Base, Store, TypeOK
<1>4. n_configs' = n_configs + Len(cex) /\ Ran' = Ran \cup Range(cex)
  BY <1>1, <1>2, <1>3, MoreRuns
<1>5. IsInjective(configs')
  BY <1>1, <1>2, <1>3, ConcatInjective DEF Ran
<1>6. configs' # << >>
  BY <1>1, <1>2, <1>3, ConcatEqualIffEmpty
<1>7. prev_n_conf' <= n_configs'
  <2>1. n_configs \in Nat /\ Len(cex) \in Nat
    BY <1>2, <1>3, StoreFacts
  <2> QED BY <1>3, <1>4, <2>1
<1> QED BY <1>1, <1>3, <1>4, <1>5, <1>6, <1>7 DEF Store

(* Each action keeps the base.                                             *)
LEMMA BaseInitConfigs == Base /\ run_init_configs => Base'
<1> SUFFICES ASSUME Base, run_init_configs PROVE Base'
  OBVIOUS
<1>1. PICK s \in InitConfigs :
          /\ pc' = IF IsInjective(s) THEN "head" ELSE "abort"
          /\ set_conf_hash' = Range(s)
          /\ configs' = IF IsInjective(s) THEN s ELSE configs
  BY DEF run_init_configs
<1>2. /\ pc = "init" /\ unflushed' = ~pregen_configs
      /\ UNCHANGED <<loop, dat, v_this_iter, v_next_iter, cursor, quiet, gSignalStatus, n_signals>>
  BY DEF run_init_configs
<1>3. s \in Seq(Configs) /\ s # << >>
  BY InitConfigsSeq DEF Base, TypeOK
<1>4. configs = << >> /\ v_next_iter = << >> /\ n_configs = 0 /\ prev_n_conf = 0
  BY <1>2 DEF Base, Store, TypeOK, n_configs
<1>5. \A l : Seen(l) = {} /\ Seen(l)' = {}
  BY <1>2, <1>4 DEF Seen, cursor
<1>6. TypeOK'
  <2>1. configs' \in Seq(Configs) /\ set_conf_hash' \subseteq Configs /\ unflushed' \in BOOLEAN
    BY <1>1, <1>2, <1>3, <1>4, SeqRange DEF pregen_configs
  <2>2. pc' \in PC
    BY <1>1 DEF PC
  <2> QED BY <1>2, <2>1, <2>2 DEF Base, TypeOK, loop, cursor
<1>7. Counter'
  BY <1>1, <1>2 DEF Base, Counter, Terminal, loop
<1>8. Store'
  <2>1. IsInjective(configs')
    BY <1>1, <1>4 DEF IsInjective
  <2>2. prev_n_conf' = 0 /\ n_configs' \in Nat
    BY <1>1, <1>2, <1>3, <1>4 DEF cursor, n_configs
  <2>3. pc' # "abort" => configs' = s /\ set_conf_hash' = Ran'
    BY <1>1 DEF Ran
  <2>4. pc' # "init" /\ pc' \in {"head", "abort"}
    BY <1>1
  <2> QED BY <1>3, <2>1, <2>2, <2>3, <2>4 DEF Store
<1>9. Classes'
  <2>1. pc \notin Terminal
    BY <1>2 DEF Terminal
  <2> QED BY <1>2, <1>5, <2>1, ClassesKept DEF Base
<1>10. Trees' /\ Members'
  BY <1>1, <1>2, <1>4 DEF Base, Trees, Members, Terminal
<1> QED BY <1>6, <1>7, <1>8, <1>9, <1>10 DEF Base

LEMMA ResetFields ==
    ASSUME NEW D, D \in [DOMAIN D -> LocDataType]
    PROVE  /\ DOMAIN ResetQueued(D) = DOMAIN D
           /\ ResetQueued(D) \in [DOMAIN D -> LocDataType]
           /\ Unlinked(ResetQueued(D)) = Unlinked(D)
           /\ \A l \in DOMAIN D : /\ ResetQueued(D)[l].parent = D[l].parent
                                  /\ ResetQueued(D)[l].tree = D[l].tree
                                  /\ ResetQueued(D)[l].need_rebuild = D[l].need_rebuild
                                  /\ ResetQueued(D)[l].ignored = D[l].ignored
                                  /\ ResetQueued(D)[l].queued_next = FALSE
<1>1. DOMAIN ResetQueued(D) = DOMAIN D
  BY DEF ResetQueued
<1>2. ASSUME NEW l \in DOMAIN D
      PROVE  /\ ResetQueued(D)[l] \in LocDataType
             /\ ResetQueued(D)[l].parent = D[l].parent
             /\ ResetQueued(D)[l].tree = D[l].tree
             /\ ResetQueued(D)[l].need_rebuild = D[l].need_rebuild
             /\ ResetQueued(D)[l].ignored = D[l].ignored
             /\ ResetQueued(D)[l].queued_next = FALSE
  <2> DEFINE d == D[l]
  <2>1. d \in LocDataType /\ ResetQueued(D)[l] = [d EXCEPT !.queued_next = FALSE]
    BY DEF ResetQueued
  <2> HIDE DEF d
  <2>2. LET e == [d EXCEPT !.queued_next = FALSE]
        IN  /\ e \in LocDataType /\ e.parent = d.parent /\ e.tree = d.tree
            /\ e.need_rebuild = d.need_rebuild /\ e.ignored = d.ignored
            /\ e.queued_next = FALSE
    BY <2>1 DEF LocDataType
  <2> QED BY <2>1, <2>2 DEF d
<1>3. ResetQueued(D) \in [DOMAIN D -> LocDataType]
  BY <1>2 DEF ResetQueued
<1>4. Unlinked(ResetQueued(D)) = Unlinked(D)
  BY <1>1, <1>2 DEF Unlinked, linked
<1> QED BY <1>1, <1>2, <1>3, <1>4

(* What begin_iter leaves behind.                                          *)
LEMMA BeginFacts ==
    ASSUME Base, begin_iter
    PROVE  /\ DOMAIN dat' = Known /\ dat' \in [Known -> LocDataType]
           /\ Unlinked(dat') = {l \in Known : Rep(l) = l}
           /\ Unlinked(dat) \subseteq Unlinked(dat')
           /\ NewDats = Unlinked(dat') \ Unlinked(dat)
           /\ \A l \in DOMAIN dat' : dat'[l].queued_next = FALSE
           /\ \A l \in Known : Rep(l) # l => /\ dat'[l].parent = Rep(l)
                                             /\ dat'[l].need_rebuild /\ ~dat'[l].ignored
           /\ \A l \in NewDats : dat'[l].need_rebuild /\ ~dat'[l].ignored
           /\ \A l \in Unlinked(dat) : /\ dat'[l].tree = dat[l].tree
                                       /\ dat'[l].need_rebuild = dat[l].need_rebuild
                                       /\ dat'[l].ignored = dat[l].ignored
           /\ \E s \in Seq(Locs) : /\ v_this_iter' = v_next_iter \o s
                                   /\ Range(s) = NewDats /\ IsInjective(s)
           /\ v_this_iter' \in Seq(Locs)
           /\ Range(v_this_iter') = Range(v_next_iter) \cup NewDats
           /\ \A l : CovBy(l)' = CovBy(l) /\ Seen(l)' = CovBy(l)
           /\ n_configs' = n_configs /\ Ran' = Ran /\ prev_n_conf' = n_configs
           /\ v_next_iter' = << >>
<1>1. pc = "head" /\ pc \notin Terminal /\ TypeOK /\ Store /\ Classes /\ Trees /\ Members
  BY DEF Base, begin_iter, Terminal
<1> DEFINE P == PreparedDat
<1>2. /\ DOMAIN P = Known /\ P \in [Known -> LocDataType]
      /\ Unlinked(P) = {l \in Known : Rep(l) = l}
      /\ \A l \in Known : Rep(l) # l => /\ P[l].parent = Rep(l)
                                        /\ P[l].need_rebuild /\ ~P[l].ignored
      /\ \A l \in Unlinked(dat) : l \in Known /\ Rep(l) = l /\ P[l] = dat[l]
      /\ NewDats = Unlinked(P) \ Unlinked(dat)
      /\ \A l \in NewDats : P[l].need_rebuild /\ ~P[l].ignored
  BY <1>1, Prepared
<1> HIDE DEF P
<1>3. dat' = ResetQueued(P) /\ prev_n_conf' = n_configs /\ v_next_iter' = << >>
      /\ UNCHANGED <<loop, store, quiet, gSignalStatus, n_signals>>
  BY DEF begin_iter, P
<1>4. /\ DOMAIN dat' = Known /\ dat' \in [Known -> LocDataType]
      /\ Unlinked(dat') = Unlinked(P)
      /\ \A l \in Known : /\ dat'[l].parent = P[l].parent
                          /\ dat'[l].tree = P[l].tree
                          /\ dat'[l].need_rebuild = P[l].need_rebuild
                          /\ dat'[l].ignored = P[l].ignored
                          /\ dat'[l].queued_next = FALSE
  BY <1>2, <1>3, ResetFields
<1>5. Unlinked(P) \subseteq Known /\ NewDats \subseteq Known
  BY <1>2
<1>6. PICK s \in InIdOrder(NewDats) : v_this_iter' = v_next_iter \o s
  BY DEF begin_iter
<1>7. NewDats \subseteq Locs
  BY <1>1, <1>5, StoreFacts
<1>8. s \in Seq(Locs) /\ Range(s) = NewDats /\ IsInjective(s)
  BY <1>6, <1>7, OrderFacts
<1>9. v_this_iter' \in Seq(Locs) /\ Range(v_this_iter') = Range(v_next_iter) \cup NewDats
  <2>1. v_next_iter \in Seq(Locs)
    BY <1>1 DEF TypeOK
  <2> QED BY <1>6, <1>8, <2>1, ConcatProperties, RangeConcatenation
<1>10. \A l : CovBy(l)' = CovBy(l)
  BY <1>3 DEF CovBy, store
<1>11. \A l : Seen(l)' = CovBy(l)
  <2>1. \A l : CovBy(l) \subseteq 1 .. n_configs
    BY <1>1, StoreFacts
  <2> QED BY <1>3, <1>10, <2>1 DEF Seen
<1>12. n_configs' = n_configs /\ Ran' = Ran
  BY <1>3 DEF n_configs, Ran, store
<1>13. /\ Unlinked(dat') = {l \in Known : Rep(l) = l}
       /\ Unlinked(dat) \subseteq Unlinked(dat')
       /\ NewDats = Unlinked(dat') \ Unlinked(dat)
  BY <1>2, <1>4
<1>14. \A l \in Known : Rep(l) # l => /\ dat'[l].parent = Rep(l)
                                      /\ dat'[l].need_rebuild /\ ~dat'[l].ignored
  BY <1>2, <1>4
<1>15. \A l \in NewDats : dat'[l].need_rebuild /\ ~dat'[l].ignored
  BY <1>2, <1>4, <1>5
<1>16. \A l \in Unlinked(dat) : /\ dat'[l].tree = dat[l].tree
                                /\ dat'[l].need_rebuild = dat[l].need_rebuild
                                /\ dat'[l].ignored = dat[l].ignored
  BY <1>2, <1>4
<1>17. \E u \in Seq(Locs) : /\ v_this_iter' = v_next_iter \o u
                            /\ Range(u) = NewDats /\ IsInjective(u)
  BY <1>6, <1>8
<1>18. \A l \in DOMAIN dat' : dat'[l].queued_next = FALSE
  BY <1>4
<1> QED BY <1>3, <1>4, <1>9, <1>10, <1>11, <1>12, <1>13, <1>14, <1>15, <1>16, <1>17, <1>18

LEMMA BaseBeginIter == Base /\ begin_iter => Base'
<1> SUFFICES ASSUME Base, begin_iter PROVE Base'
  OBVIOUS
<1>1. /\ pc = "head" /\ pc' \in {"loc", "abort"}
      /\ meidx' = 1 /\ t' = 1 /\ c_success' = 0
      /\ UNCHANGED <<loop, store, quiet, gSignalStatus, n_signals>>
  BY DEF begin_iter
<1>2. n_configs \in Nat /\ Known = {l \in Locs : CovBy(l) # {}} /\ TypeOK
  BY StoreFacts DEF Base
<1>3. TypeOK'
  <2>1. DOMAIN dat' \subseteq Locs /\ dat' \in [DOMAIN dat' -> LocDataType]
        /\ v_this_iter' \in Seq(Locs) /\ v_next_iter' \in Seq(Locs)
        /\ prev_n_conf' \in Nat
    BY <1>2, BeginFacts
  <2>2. pc' \in PC
    BY <1>1 DEF PC
  <2>3. meidx' \in Nat \ {0} /\ t' \in Nat \ {0} /\ c_success' \in Nat
    BY <1>1
  <2> QED BY <1>1, <1>2, <2>1, <2>2, <2>3 DEF TypeOK, loop, store
<1>4. Counter'
  BY <1>1 DEF Base, Counter, Terminal, loop
<1>5. Store'
  <2>1. configs' = configs /\ set_conf_hash' = set_conf_hash /\ Ran' = Ran
        /\ prev_n_conf' = n_configs' /\ n_configs' \in Nat
    BY <1>1, <1>2, BeginFacts DEF store
  <2> QED BY <1>1, <2>1 DEF Base, Store
<1>6. Classes'
  <2>1. \A l : Seen(l)' = CovBy(l)
    BY BeginFacts
  <2>2. DOMAIN dat' = {l \in Locs : Seen(l)' # {}}
    BY <1>2, <2>1, BeginFacts
  <2>3. ASSUME NEW l \in Unlinked(dat'), NEW m \in Unlinked(dat'), Seen(l)' = Seen(m)'
        PROVE  l = m
    <3>1. l \in Known /\ m \in Known /\ Rep(l) = l /\ Rep(m) = m /\ CovBy(l) = CovBy(m)
      BY <2>1, <2>3, BeginFacts
    <3> QED BY <1>2, <3>1, RepFacts
  <2>4. ASSUME NEW l \in DOMAIN dat', linked(dat'[l])
        PROVE  /\ \E p \in Unlinked(dat') : p = dat'[l].parent /\ p < l /\ Seen(l)' = Seen(p)'
               /\ dat'[l].need_rebuild /\ ~dat'[l].ignored
    <3>1. l \in Known /\ l \notin Unlinked(dat')
      BY <2>4, BeginFacts DEF Unlinked
    <3>2. Rep(l) # l
      BY <3>1, BeginFacts
    <3>3. dat'[l].parent = Rep(l) /\ dat'[l].need_rebuild /\ ~dat'[l].ignored
      BY <3>1, <3>2, BeginFacts
    <3>4. Rep(l) \in Known /\ CovBy(Rep(l)) = CovBy(l) /\ Rep(l) <= l /\ Rep(Rep(l)) = Rep(l)
          /\ Rep(l) \in Nat /\ l \in Nat
      BY <1>2, <3>1, RepFacts
    <3>5. Rep(l) \in Unlinked(dat')
      BY <3>4, BeginFacts
    <3>6. Rep(l) < l
      BY <3>2, <3>4
    <3>7. \A p : p = Rep(l) => Seen(p)' = Seen(l)'
      BY <2>1, <3>4
    <3> QED BY <3>3, <3>5, <3>6, <3>7
  <2> QED BY <2>2, <2>3, <2>4 DEF Classes
<1>7. Trees'
  <2>1. ASSUME NEW l \in DOMAIN dat' PROVE dat'[l].need_rebuild \/ dat'[l].tree.counted > 0
    <3>1. l \in Known
      BY BeginFacts
    <3>2. CASE l \in Unlinked(dat)
      <4>1. dat'[l].tree = dat[l].tree /\ dat'[l].need_rebuild = dat[l].need_rebuild
        BY <3>2, BeginFacts
      <4>2. dat[l].need_rebuild \/ dat[l].tree.counted > 0
        BY <3>2 DEF Unlinked, Base, Trees
      <4> QED BY <4>1, <4>2
    <3>3. CASE l \in NewDats
      BY <3>3, BeginFacts
    <3>4. CASE Rep(l) # l
      BY <3>1, <3>4, BeginFacts
    <3> QED BY <3>1, <3>2, <3>3, <3>4, BeginFacts
  <2> QED BY <2>1 DEF Trees
<1>8. Members'
  <2>1. Range(v_next_iter) \subseteq Unlinked(dat)
    BY <1>1 DEF Base, Members, Terminal
  <2>2. Range(v_this_iter') \subseteq Unlinked(dat')
    BY <2>1, BeginFacts
  <2>3. Range(v_next_iter') = {}
    BY BeginFacts DEF Range
  <2> QED BY <2>2, <2>3 DEF Members
<1> QED BY <1>3, <1>4, <1>5, <1>6, <1>7, <1>8 DEF Base

LEMMA BaseAttempt == Base /\ attempt => Base'
<1> SUFFICES ASSUME Base, attempt PROVE Base'
  OBVIOUS
<1>1. PICK l \in Unlinked(dat), cex \in Cex, x \in LocDataType : \E d \in OneLocTrees(l) :
              /\ l = v_this_iter[meidx] /\ meidx \in 1 .. Len(v_this_iter) /\ pc = "loc"
              /\ dat' = [dat EXCEPT ![l] = x] /\ x.parent = dat[l].parent
              /\ x.tree.hits = d.tree.hits /\ x.tree.counted > 0
              /\ run_configs(cex)
              /\ \/ TurnGoesOn(l, d, cex, x) \/ TurnSucceeds(l, d, cex, x)
                 \/ TurnFails(l, d, cex, x)
              /\ pc' = "loc" \/ pc' = "abort"
              /\ OneLocChecks(l) /\ ~dat[l].ignored => pc' = "loc"
              /\ UNCHANGED <<loop, v_this_iter, prev_n_conf, quiet, gSignalStatus, n_signals>>
  BY AttemptFacts
<1>2. TypeOK /\ Store /\ Classes /\ Trees /\ Members
  BY DEF Base
<1>3. /\ DOMAIN dat' = DOMAIN dat /\ dat' \in [DOMAIN dat' -> LocDataType]
      /\ dat'[l] = x /\ \A m \in DOMAIN dat : m # l => dat'[m] = dat[m]
      /\ \A m \in DOMAIN dat : dat'[m].parent = dat[m].parent
      /\ \A m \in DOMAIN dat : linked(dat[m]) => dat'[m] = dat[m]
  BY <1>1, <1>2, SetLocData
<1>4. /\ configs' = configs \o cex /\ cex \in Seq(Configs)
      /\ set_conf_hash' = set_conf_hash \cup Range(cex) /\ Range(cex) \subseteq Configs
      /\ unflushed' = (unflushed \/ cex # << >>)
  BY <1>1, CexSeq DEF run_configs
<1>5. /\ t' \in Nat \ {0} /\ c_success' \in Nat /\ meidx' \in Nat \ {0}
      /\ v_next_iter' = v_next_iter \/ v_next_iter' = Append(v_next_iter, l)
  <2>1. t \in Nat /\ c_success \in Nat /\ meidx \in Nat
    BY <1>2 DEF TypeOK
  <2> QED BY <1>1, <2>1 DEF TurnGoesOn, TurnSucceeds, TurnFails
<1>6. l \in Locs /\ v_next_iter \in Seq(Locs)
  BY <1>2 DEF Unlinked, TypeOK
<1>7. v_next_iter' \in Seq(Locs) /\ Range(v_next_iter') \subseteq Range(v_next_iter) \cup {l}
  <2>1. CASE v_next_iter' = v_next_iter
    BY <1>6, <2>1
  <2>2. CASE v_next_iter' = Append(v_next_iter, l)
    <3>1. v_next_iter' \in Seq(Locs)
      BY <1>6, <2>2, AppendProperties
    <3>2. Range(Append(v_next_iter, l)) = Range(v_next_iter) \cup {l}
      BY <1>6, RangeAppend
    <3> QED BY <2>2, <3>1, <3>2
  <2> QED BY <1>5, <2>1, <2>2
<1>8. TypeOK'
  <2>1. configs' \in Seq(Configs) /\ set_conf_hash' \subseteq Configs
    BY <1>2, <1>4, ConcatProperties DEF TypeOK
  <2>2. unflushed' \in BOOLEAN
    BY <1>4
  <2>3. pc' \in PC
    BY <1>1 DEF PC
  <2>4. DOMAIN dat' \subseteq Locs
    BY <1>2, <1>3 DEF TypeOK
  <2> QED BY <1>1, <1>2, <1>3, <1>5, <1>7, <2>1, <2>2, <2>3, <2>4 DEF TypeOK, loop
<1>9. Counter'
  BY <1>1 DEF Base, Counter, Terminal, loop
<1>10. Store'
  BY <1>1, StoreGrows
<1>11. Classes' /\ Unlinked(dat') = Unlinked(dat)
  <2>1. \A m : Seen(m)' = Seen(m)
    BY <1>1, <1>2, <1>4, SeenKept
  <2>2. pc \notin Terminal
    BY <1>1 DEF Terminal
  <2> QED BY <1>2, <1>3, <2>1, <2>2, ClassesKept
<1>12. Trees'
  BY <1>1, <1>2, <1>3 DEF Trees
<1>13. Members'
  BY <1>1, <1>2, <1>7, <1>11 DEF Members, Terminal
<1> QED BY <1>8, <1>9, <1>10, <1>11, <1>12, <1>13 DEF Base

(* What the second loop leaves behind.                                     *)
Requeued == {l \in Watched : Refuted(l) # {} /\ ~Rechecked(l).ignored}

LEMMA RecheckFacts ==
    ASSUME Base, recheck
    PROVE  /\ DOMAIN dat' = DOMAIN dat /\ dat' \in [DOMAIN dat' -> LocDataType]
           /\ \A l \in DOMAIN dat : dat'[l].parent = dat[l].parent
           /\ \A l \in DOMAIN dat : dat'[l].tree.hits = dat[l].tree.hits
           /\ \A l \in DOMAIN dat : l \notin Watched => dat'[l] = dat[l]
           /\ \A l \in Watched : Refuted(l) = {} =>
                  /\ dat'[l].ignored = dat[l].ignored
                  /\ dat'[l].need_rebuild = dat[l].need_rebuild
                  /\ dat'[l].queued_next = dat[l].queued_next
           /\ \A l \in Watched : Refuted(l) # {} =>
                  dat'[l].need_rebuild /\ (dat'[l].queued_next <=> ~dat'[l].ignored)
           /\ \A l \in DOMAIN dat : dat'[l].need_rebuild \/ dat'[l].tree.counted > 0
           /\ Watched \subseteq Unlinked(dat) /\ Unlinked(dat) \subseteq DOMAIN dat
           /\ Requeued = {l \in Watched : Refuted(l) # {} /\ ~dat'[l].ignored}
           /\ \E s \in Seq(Locs) : /\ v_next_iter' = v_next_iter \o s
                                   /\ Range(s) = Requeued /\ IsInjective(s)
           /\ v_next_iter' \in Seq(Locs)
           /\ Range(v_next_iter') = Range(v_next_iter) \cup Requeued
           /\ quiet' = (v_next_iter' = << >>)
<1>1. TypeOK /\ Store /\ Trees /\ Classes
  BY DEF Base
<1>2. /\ dat' = [l \in DOMAIN dat |-> IF l \in Watched THEN Rechecked(l) ELSE dat[l]]
      /\ \E s \in InRefutedOrder(Requeued) : v_next_iter' = v_next_iter \o s
      /\ quiet' = (v_next_iter' = << >>)
  BY DEF recheck, Requeued
<1>3. Watched \subseteq Unlinked(dat) /\ Unlinked(dat) \subseteq DOMAIN dat
      /\ DOMAIN dat \subseteq Locs
  BY <1>1 DEF Watched, Unlinked, TypeOK
<1>4. DOMAIN dat' = DOMAIN dat
  BY <1>2
<1>5. \A l \in Watched : dat'[l] = Rechecked(l)
  BY <1>2, <1>3
<1>6. \A l \in DOMAIN dat : l \notin Watched => dat'[l] = dat[l]
  BY <1>2
<1>7. ASSUME NEW l \in Watched
      PROVE  /\ dat'[l] \in LocDataType /\ dat'[l].parent = dat[l].parent
             /\ dat'[l].tree.hits = dat[l].tree.hits
             /\ dat'[l].tree.counted >= dat[l].tree.counted
             /\ Refuted(l) = {} => /\ dat'[l].ignored = dat[l].ignored
                                   /\ dat'[l].need_rebuild = dat[l].need_rebuild
                                   /\ dat'[l].queued_next = dat[l].queued_next
             /\ Refuted(l) # {} =>
                    dat'[l].need_rebuild /\ (dat'[l].queued_next <=> ~dat'[l].ignored)
  <2> DEFINE e == Rechecked(l)
  <2>1. /\ e \in LocDataType /\ e.parent = dat[l].parent
        /\ e.tree.hits = dat[l].tree.hits /\ e.tree.counted >= dat[l].tree.counted
        /\ Refuted(l) = {} => /\ e.ignored = dat[l].ignored
                              /\ e.need_rebuild = dat[l].need_rebuild
                              /\ e.queued_next = dat[l].queued_next
        /\ Refuted(l) # {} => e.need_rebuild /\ (e.queued_next <=> ~e.ignored)
    BY <1>1, RecheckedFields
  <2>2. dat'[l] = e
    BY <1>5
  <2> HIDE DEF e
  <2> QED BY <2>1, <2>2
<1>8. \A l \in DOMAIN dat : dat[l] \in LocDataType
  BY <1>1 DEF TypeOK
<1>9. dat' \in [DOMAIN dat' -> LocDataType]
  <2>1. \A l \in DOMAIN dat' : dat'[l] \in LocDataType
    BY <1>4, <1>6, <1>7, <1>8
  <2> QED BY <1>2, <1>4, <2>1
<1>10. \A l \in DOMAIN dat : dat'[l].need_rebuild \/ dat'[l].tree.counted > 0
  <2> SUFFICES ASSUME NEW l \in DOMAIN dat PROVE dat'[l].need_rebuild \/ dat'[l].tree.counted > 0
    OBVIOUS
  <2>1. dat[l].need_rebuild \/ dat[l].tree.counted > 0
    BY <1>1 DEF Trees
  <2>2. CASE l \notin Watched
    BY <1>6, <2>1, <2>2
  <2>3. CASE l \in Watched /\ Refuted(l) # {}
    BY <1>7, <2>3
  <2>4. CASE l \in Watched /\ Refuted(l) = {}
    <3>1. dat'[l].need_rebuild = dat[l].need_rebuild
          /\ dat'[l].tree.counted >= dat[l].tree.counted
      BY <1>7, <2>4
    <3>2. dat'[l].tree.counted \in Nat /\ dat[l].tree.counted \in Nat
      BY <1>4, <1>8, <1>9 DEF LocDataType
    <3> QED BY <2>1, <3>1, <3>2
  <2> QED BY <2>2, <2>3, <2>4
<1>11. Requeued = {l \in Watched : Refuted(l) # {} /\ ~dat'[l].ignored}
  BY <1>5 DEF Requeued
<1>12. PICK s \in InRefutedOrder(Requeued) : v_next_iter' = v_next_iter \o s
  BY <1>2
<1>13. Requeued \subseteq Locs
  BY <1>3 DEF Requeued
<1>14. s \in Seq(Locs) /\ Range(s) = Requeued /\ IsInjective(s)
  BY <1>12, <1>13, OrderFacts
<1>15. v_next_iter' \in Seq(Locs) /\ Range(v_next_iter') = Range(v_next_iter) \cup Requeued
  <2>1. v_next_iter \in Seq(Locs)
    BY <1>1 DEF TypeOK
  <2> QED BY <1>12, <1>14, <2>1, ConcatProperties, RangeConcatenation
<1>16. \A l \in DOMAIN dat : dat'[l].parent = dat[l].parent
                             /\ dat'[l].tree.hits = dat[l].tree.hits
  BY <1>6, <1>7
<1> QED BY <1>2, <1>3, <1>4, <1>6, <1>7, <1>9, <1>10, <1>11, <1>12, <1>14, <1>15, <1>16

LEMMA BaseRecheck == Base /\ recheck => Base'
<1> SUFFICES ASSUME Base, recheck PROVE Base'
  OBVIOUS
<1>1. /\ pc = "loc" /\ pc' \in {"abort", "post"}
      /\ UNCHANGED <<loop, store, v_this_iter, cursor, gSignalStatus, n_signals>>
  BY DEF recheck
<1>2. TypeOK /\ Store /\ Classes /\ Members
  BY DEF Base
<1>3. TypeOK'
  <2>1. DOMAIN dat' \subseteq Locs /\ dat' \in [DOMAIN dat' -> LocDataType]
        /\ v_next_iter' \in Seq(Locs) /\ quiet' \in BOOLEAN
    BY <1>2, RecheckFacts DEF TypeOK
  <2>2. pc' \in PC
    BY <1>1 DEF PC
  <2> QED BY <1>1, <1>2, <2>1, <2>2 DEF TypeOK, loop, store, cursor
<1>4. Counter'
  BY <1>1 DEF Base, Counter, Terminal, loop
<1>5. n_configs' = n_configs /\ Ran' = Ran /\ \A l : Seen(l)' = Seen(l)
  BY <1>1 DEF n_configs, Ran, Seen, CovBy, store, cursor
<1>6. Store'
  BY <1>1, <1>2, <1>5 DEF Store, store, cursor
<1>7. Classes' /\ Unlinked(dat') = Unlinked(dat)
  <2>1. \A l \in DOMAIN dat : linked(dat[l]) => dat'[l] = dat[l]
    BY RecheckFacts DEF Unlinked
  <2>2. pc \notin Terminal
    BY <1>1 DEF Terminal
  <2> QED BY <1>2, <1>5, <2>1, <2>2, RecheckFacts, ClassesKept
<1>8. Trees'
  BY RecheckFacts DEF Trees
<1>9. Members'
  <2>1. Range(v_next_iter) \subseteq Unlinked(dat)
    BY <1>1, <1>2 DEF Members, Terminal
  <2>2. Range(v_next_iter') \subseteq Unlinked(dat')
    BY <1>7, <2>1, RecheckFacts DEF Requeued
  <2> QED BY <1>1, <2>2 DEF Members
<1> QED BY <1>3, <1>4, <1>6, <1>7, <1>8, <1>9 DEF Base

(* What is queued after run_iter.                                          *)
LEMMA AfterFacts ==
    ASSUME Base, pc = "post", ~EarlyBreak, after_run_iter
    PROVE  /\ terminate_counter' \in 0 .. max_terminate_counter
           /\ terminate_counter' # max_terminate_counter
           /\ v_next_iter' \in Seq(Locs) /\ Range(v_next_iter') \subseteq Unlinked(dat)
           /\ ~quiet => v_next_iter' = v_next_iter
           /\ quiet => /\ IsInjective(v_next_iter')
                       /\ Range(v_next_iter') = {l \in Unlinked(dat) : ~dat[l].ignored}
<1>1. /\ terminate_counter \in 0 .. max_terminate_counter
      /\ terminate_counter # max_terminate_counter
      /\ max_terminate_counter \in Nat \ {0}
      /\ v_next_iter \in Seq(Locs) /\ Range(v_next_iter) \subseteq Unlinked(dat)
      /\ Unlinked(dat) \subseteq Locs
  BY ParamAssumption DEF Base, TypeOK, Counter, Terminal, Members, Unlinked
<1>2. CASE ~quiet
  BY <1>1, <1>2 DEF after_run_iter
<1>3. CASE quiet
  <2> DEFINE S == {l \in Unlinked(dat) : ~dat[l].ignored}
  <2>1. v_next_iter' \in InIdOrder(S) /\ terminate_counter' = terminate_counter + 1
    BY <1>3 DEF after_run_iter, enqueue_all
  <2>2. S \subseteq Locs /\ S \subseteq Unlinked(dat)
    BY <1>1
  <2>3. v_next_iter' \in Seq(Locs) /\ Range(v_next_iter') = S /\ IsInjective(v_next_iter')
    BY <2>1, <2>2, OrderFacts
  <2>4. terminate_counter + 1 # max_terminate_counter
    BY <1>3 DEF EarlyBreak
  <2>5. terminate_counter' \in 0 .. max_terminate_counter
        /\ terminate_counter' # max_terminate_counter
    BY <1>1, <2>1, <2>4
  <2> QED BY <1>3, <2>2, <2>3, <2>5
<1> QED BY <1>2, <1>3

(* R is D with the trees rebuilt that had to be.                           *)
RebuiltFrom(R, D) ==
    /\ DOMAIN R = DOMAIN D /\ R \in [DOMAIN D -> LocDataType]
    /\ \A l \in DOMAIN D : R[l].parent = D[l].parent
    /\ Unlinked(R) = Unlinked(D)
    /\ \A l \in DOMAIN D : l \notin ToRebuild(D) => R[l] = D[l]
    /\ \A l \in ToRebuild(D) : /\ R[l].need_rebuild = FALSE
                               /\ R[l].ignored = D[l].ignored
                               /\ R[l].tree.counted = n_configs
                               /\ \A c \in Ran : Agrees(l, R[l], c)

LEMMA RebuildFields ==
    ASSUME TypeOK, NEW D, D \in [DOMAIN D -> LocDataType],
           NEW guess \in Guesses(ToRebuild(D))
    PROVE  RebuiltFrom(Rebuild(D, ToRebuild(D), guess), D)
<1> DEFINE R == Rebuild(D, ToRebuild(D), guess)
<1>1. R = [l \in DOMAIN D |-> IF l \in ToRebuild(D) THEN Built(l, D[l], guess[l]) ELSE D[l]]
  BY DEF Rebuild
<1> HIDE DEF R
<1>2. ToRebuild(D) \subseteq Unlinked(D) /\ Unlinked(D) \subseteq DOMAIN D
  BY DEF ToRebuild, Unlinked
<1>3. \A l \in ToRebuild(D) : guess[l] \in SUBSET (Configs \ Ran)
  BY DEF Guesses
<1>4. DOMAIN R = DOMAIN D
  BY <1>1
<1>5. \A l \in DOMAIN D : l \notin ToRebuild(D) => R[l] = D[l]
  BY <1>1
<1>6. ASSUME NEW l \in ToRebuild(D)
      PROVE  /\ R[l] \in LocDataType /\ R[l].parent = D[l].parent
             /\ R[l].need_rebuild = FALSE /\ R[l].ignored = D[l].ignored
             /\ R[l].tree.counted = n_configs /\ \A c \in Ran : Agrees(l, R[l], c)
  <2> DEFINE d == D[l]  g == guess[l]  r == R[l]
  <2>1. r = Built(l, d, g) /\ d \in LocDataType /\ g \in GuessedHits
    BY <1>1, <1>2, <1>3 DEF GuessedHits
  <2> HIDE DEF d, g, r
  <2>2. /\ r \in LocDataType /\ r.parent = d.parent
        /\ r.need_rebuild = FALSE /\ r.ignored = d.ignored
        /\ r.tree.counted = n_configs /\ \A c \in Ran : Agrees(l, r, c)
    BY <2>1, BuiltFields
  <2> QED BY <2>2 DEF d, r
<1>7. R \in [DOMAIN D -> LocDataType]
  <2>1. \A l \in DOMAIN D : R[l] \in LocDataType
    BY <1>5, <1>6
  <2> QED BY <1>1, <1>4, <2>1
<1>8. \A l \in DOMAIN D : R[l].parent = D[l].parent
  BY <1>5, <1>6
<1>9. Unlinked(R) = Unlinked(D)
  BY <1>4, <1>8 DEF Unlinked, linked
<1>10. RebuiltFrom(R, D)
  BY <1>4, <1>5, <1>6, <1>7, <1>8, <1>9 DEF RebuiltFrom
<1> QED BY <1>10 DEF R

(* What a temporary answer leaves behind.                                  *)
LEMMA TempFacts ==
    ASSUME Base, temp_finish
    PROVE  /\ DOMAIN dat' = DOMAIN dat /\ dat' \in [DOMAIN dat' -> LocDataType]
           /\ \A l \in DOMAIN dat : dat'[l].parent = dat[l].parent
           /\ \A l \in DOMAIN dat : dat'[l].ignored = dat[l].ignored
           /\ \A l \in Unlinked(dat) : dat'[l].need_rebuild = FALSE
           /\ \A l \in DOMAIN dat : l \notin ToRebuild(dat) => dat'[l] = dat[l]
           /\ \A l \in ToRebuild(dat) : /\ dat'[l].tree.counted = n_configs
                                        /\ \A c \in Ran : Agrees(l, dat'[l], c)
<1>1. TypeOK /\ dat \in [DOMAIN dat -> LocDataType]
  BY DEF Base, TypeOK
<1>2. PICK guess \in Guesses(ToRebuild(dat)) : dat' = Rebuild(dat, ToRebuild(dat), guess)
  BY DEF temp_finish
<1>3. /\ DOMAIN dat' = DOMAIN dat /\ dat' \in [DOMAIN dat -> LocDataType]
      /\ \A l \in DOMAIN dat : dat'[l].parent = dat[l].parent
      /\ \A l \in DOMAIN dat : l \notin ToRebuild(dat) => dat'[l] = dat[l]
      /\ \A l \in ToRebuild(dat) : /\ dat'[l].need_rebuild = FALSE
                                   /\ dat'[l].ignored = dat[l].ignored
                                   /\ dat'[l].tree.counted = n_configs
                                   /\ \A c \in Ran : Agrees(l, dat'[l], c)
  <2>1. RebuiltFrom(dat', dat)
    BY <1>1, <1>2, RebuildFields
  <2> QED BY <2>1 DEF RebuiltFrom
<1>4. \A l \in DOMAIN dat : dat'[l].ignored = dat[l].ignored
  BY <1>3
<1>5. ASSUME NEW l \in Unlinked(dat) PROVE dat'[l].need_rebuild = FALSE
  <2>1. l \in DOMAIN dat /\ dat[l] \in LocDataType
    BY <1>1 DEF Unlinked
  <2>2. CASE l \in ToRebuild(dat)
    BY <1>3, <2>2
  <2>3. CASE l \notin ToRebuild(dat)
    <3>1. dat'[l] = dat[l] /\ ~dat[l].need_rebuild
      BY <1>3, <2>1, <2>3 DEF ToRebuild
    <3>2. dat[l].need_rebuild \in BOOLEAN
      BY <2>1, Zenon DEF LocDataType
    <3> QED BY <3>1, <3>2
  <2> QED BY <2>2, <2>3
<1> QED BY <1>3, <1>4, <1>5

LEMMA BaseTempFinish == Base /\ temp_finish => Base'
<1> SUFFICES ASSUME Base, temp_finish PROVE Base'
  OBVIOUS
<1>1. /\ pc = "post" /\ ~EarlyBreak /\ after_run_iter /\ pc' \in {"reset", "abort"}
      /\ UNCHANGED <<mode, iter, store, v_this_iter, cursor, quiet, gSignalStatus, n_signals>>
  BY DEF temp_finish
<1>2. TypeOK /\ Store /\ Classes /\ Trees
  BY DEF Base
<1>3. TypeOK'
  <2>1. DOMAIN dat' \subseteq Locs /\ dat' \in [DOMAIN dat' -> LocDataType]
    BY <1>2, TempFacts DEF TypeOK
  <2>2. v_next_iter' \in Seq(Locs) /\ terminate_counter' \in 0 .. max_terminate_counter
    BY <1>1, AfterFacts
  <2>3. pc' \in PC
    BY <1>1 DEF PC
  <2> QED BY <1>1, <1>2, <2>1, <2>2, <2>3 DEF TypeOK, store, cursor
<1>4. Counter'
  BY <1>1, AfterFacts DEF Counter
<1>5. n_configs' = n_configs /\ Ran' = Ran /\ \A l : Seen(l)' = Seen(l)
  BY <1>1 DEF n_configs, Ran, Seen, CovBy, store, cursor
<1>6. Store'
  BY <1>1, <1>2, <1>5 DEF Store, store, cursor
<1>7. Classes' /\ Unlinked(dat') = Unlinked(dat)
  <2>1. \A l \in DOMAIN dat : linked(dat[l]) => dat'[l] = dat[l]
    BY TempFacts DEF Unlinked, ToRebuild
  <2>2. pc \notin Terminal
    BY <1>1 DEF Terminal
  <2> QED BY <1>2, <1>5, <2>1, <2>2, TempFacts, ClassesKept
<1>8. Trees'
  <2>1. n_configs > 0
    BY <1>1, <1>2 DEF Store, TypeOK, n_configs
  <2>2. ASSUME NEW l \in DOMAIN dat PROVE dat'[l].need_rebuild \/ dat'[l].tree.counted > 0
    <3>1. CASE l \in ToRebuild(dat)
      BY <2>1, <3>1, TempFacts
    <3>2. CASE l \notin ToRebuild(dat)
      BY <1>2, <3>2, TempFacts DEF Trees
    <3> QED BY <3>1, <3>2
  <2> QED BY <2>2, TempFacts DEF Trees
<1>9. Members'
  BY <1>1, <1>7, AfterFacts DEF Members
<1> QED BY <1>3, <1>4, <1>6, <1>7, <1>8, <1>9 DEF Base

(* What the final answer is made of.                                       *)
LEMMA FinishFacts ==
    ASSUME Base, finish
    PROVE  \E D : \E guess \in Guesses(ToRebuild(D)) :
              /\ D = IF DOMAIN dat = {} THEN PreparedDat ELSE dat
              /\ D \in [DOMAIN D -> LocDataType] /\ DOMAIN D \subseteq Locs
              /\ dat' = Rebuild(D, ToRebuild(D), guess)
              /\ pc' = IF FinishChecks(D) THEN "done" ELSE "abort"
              /\ \A l \in DOMAIN D : D[l].need_rebuild \/ D[l].tree.counted > 0
              /\ \A l \in DOMAIN D : linked(D[l]) =>
                     /\ \E p \in Unlinked(D) : p = D[l].parent /\ p < l /\ Seen(l) = Seen(p)
                     /\ D[l].need_rebuild /\ ~D[l].ignored
              /\ DOMAIN dat = {} => \A l \in Unlinked(D) : D[l].need_rebuild /\ ~D[l].ignored
<1> DEFINE D == IF DOMAIN dat = {} THEN PreparedDat ELSE dat
<1>1. TypeOK /\ Store /\ Classes /\ Trees /\ pc \notin Terminal
  BY DEF Base, finish, Terminal
<1>2. PICK guess \in Guesses(ToRebuild(D)) : dat' = Rebuild(D, ToRebuild(D), guess)
  BY DEF finish
<1>3. pc' = IF FinishChecks(D) THEN "done" ELSE "abort"
  BY DEF finish
<1>4. CASE DOMAIN dat # {}
  <2>1. D = dat
    BY <1>4
  <2> HIDE DEF D
  <2>2. D \in [DOMAIN D -> LocDataType] /\ DOMAIN D \subseteq Locs
    BY <1>1, <2>1 DEF TypeOK
  <2>3. \A l \in DOMAIN D : D[l].need_rebuild \/ D[l].tree.counted > 0
    BY <1>1, <2>1 DEF Trees
  <2>4. \A l \in DOMAIN D : linked(D[l]) =>
            /\ \E p \in Unlinked(D) : p = D[l].parent /\ p < l /\ Seen(l) = Seen(p)
            /\ D[l].need_rebuild /\ ~D[l].ignored
    BY <1>1, <2>1 DEF Classes
  <2> QED BY <1>2, <1>3, <1>4, <2>1, <2>2, <2>3, <2>4
<1>5. CASE DOMAIN dat = {}
  <2>1. D = PreparedDat
    BY <1>5
  <2>2. Unlinked(dat) = {}
    BY <1>5 DEF Unlinked
  <2> HIDE DEF D
  <2>3. /\ DOMAIN D = Known /\ D \in [Known -> LocDataType]
        /\ Unlinked(D) = {l \in Known : Rep(l) = l}
        /\ \A l \in Known : Rep(l) # l => /\ D[l].parent = Rep(l)
                                          /\ D[l].need_rebuild /\ ~D[l].ignored
        /\ \A l \in Unlinked(D) : D[l].need_rebuild /\ ~D[l].ignored
    BY <1>1, <2>1, <2>2, Prepared
  <2>4. DOMAIN D \subseteq Locs
    BY <1>1, <2>3, StoreFacts
  <2>5. \A l \in DOMAIN D : D[l].need_rebuild \/ D[l].tree.counted > 0
    BY <2>3
  <2>6. ASSUME NEW l \in DOMAIN D, linked(D[l])
        PROVE  /\ \E p \in Unlinked(D) : p = D[l].parent /\ p < l /\ Seen(l) = Seen(p)
               /\ D[l].need_rebuild /\ ~D[l].ignored
    <3>1. l \in Known /\ Rep(l) # l
      BY <2>3, <2>6 DEF Unlinked
    <3>2. Rep(l) \in Known /\ CovBy(Rep(l)) = CovBy(l) /\ Rep(l) <= l /\ Rep(Rep(l)) = Rep(l)
          /\ Rep(l) \in Nat /\ l \in Nat
      BY <1>1, <3>1, RepFacts
    <3>3. Rep(l) < l
      BY <3>1, <3>2
    <3>4. Seen(l) = Seen(Rep(l))
      BY <3>2 DEF Seen
    <3> QED BY <2>3, <3>1, <3>2, <3>3, <3>4
  <2> QED BY <1>2, <1>3, <1>5, <2>1, <2>3, <2>4, <2>5, <2>6
<1> QED BY <1>4, <1>5

LEMMA BaseFinish == Base /\ finish => Base'
<1> SUFFICES ASSUME Base, finish PROVE Base'
  OBVIOUS
<1>1. PICK D : \E guess \in Guesses(ToRebuild(D)) :
              /\ D = IF DOMAIN dat = {} THEN PreparedDat ELSE dat
              /\ D \in [DOMAIN D -> LocDataType] /\ DOMAIN D \subseteq Locs
              /\ dat' = Rebuild(D, ToRebuild(D), guess)
              /\ pc' = IF FinishChecks(D) THEN "done" ELSE "abort"
              /\ \A l \in DOMAIN D : D[l].need_rebuild \/ D[l].tree.counted > 0
              /\ \A l \in DOMAIN D : linked(D[l]) =>
                     /\ \E p \in Unlinked(D) : p = D[l].parent /\ p < l /\ Seen(l) = Seen(p)
                     /\ D[l].need_rebuild /\ ~D[l].ignored
  BY FinishFacts
<1>2. /\ pc = "final" /\ pc' \in {"done", "abort"} /\ unflushed' = FALSE
      /\ UNCHANGED <<loop, configs, set_conf_hash, v_this_iter, v_next_iter, cursor, quiet,
                     gSignalStatus, n_signals>>
  BY DEF finish
<1>3. TypeOK /\ Store
  BY DEF Base
<1>4. PICK guess \in Guesses(ToRebuild(D)) : dat' = Rebuild(D, ToRebuild(D), guess)
  BY <1>1
<1>5. D \in [DOMAIN D -> LocDataType]
  BY <1>1
<1>6. /\ DOMAIN dat' = DOMAIN D /\ dat' \in [DOMAIN D -> LocDataType]
      /\ \A l \in DOMAIN D : dat'[l].parent = D[l].parent
      /\ Unlinked(dat') = Unlinked(D)
      /\ \A l \in DOMAIN D : l \notin ToRebuild(D) => dat'[l] = D[l]
      /\ \A l \in ToRebuild(D) : dat'[l].tree.counted = n_configs
  <2>1. RebuiltFrom(dat', D)
    BY <1>3, <1>4, <1>5, RebuildFields
  <2> QED BY <2>1 DEF RebuiltFrom
<1>7. TypeOK'
  <2>1. DOMAIN dat' \subseteq Locs /\ dat' \in [DOMAIN dat' -> LocDataType]
    BY <1>1, <1>6
  <2>2. pc' \in PC /\ unflushed' \in BOOLEAN
    BY <1>2 DEF PC
  <2> QED BY <1>2, <1>3, <2>1, <2>2 DEF TypeOK, loop, cursor
<1>8. Counter'
  BY <1>2 DEF Counter, Terminal
<1>9. n_configs' = n_configs /\ Ran' = Ran /\ \A l : Seen(l)' = Seen(l)
  BY <1>2 DEF n_configs, Ran, Seen, CovBy, cursor
<1>10. Store'
  BY <1>2, <1>3, <1>9 DEF Store, cursor
<1>11. Classes'
  <2>1. \A l \in DOMAIN dat' : linked(dat'[l]) =>
            /\ \E p \in Unlinked(dat') : p = dat'[l].parent /\ p < l /\ Seen(l)' = Seen(p)'
            /\ dat'[l].need_rebuild /\ ~dat'[l].ignored
    <3> SUFFICES ASSUME NEW l \in DOMAIN dat', linked(dat'[l])
                 PROVE  /\ \E p \in Unlinked(dat') : p = dat'[l].parent /\ p < l
                                                     /\ Seen(l)' = Seen(p)'
                        /\ dat'[l].need_rebuild /\ ~dat'[l].ignored
      OBVIOUS
    <3>1. l \in DOMAIN D /\ linked(D[l]) /\ l \notin ToRebuild(D)
      BY <1>6 DEF linked, ToRebuild, Unlinked
    <3>2. dat'[l] = D[l]
      BY <1>6, <3>1
    <3> QED BY <1>1, <1>6, <1>9, <3>1, <3>2
  <2> QED BY <1>2, <2>1 DEF Classes, Terminal
<1>12. Trees'
  <2>1. n_configs > 0
    BY <1>2, <1>3 DEF Store, TypeOK, n_configs
  <2>2. ASSUME NEW l \in DOMAIN D PROVE dat'[l].need_rebuild \/ dat'[l].tree.counted > 0
    <3>1. CASE l \in ToRebuild(D)
      BY <1>6, <2>1, <3>1
    <3>2. CASE l \notin ToRebuild(D)
      BY <1>1, <1>6, <3>2
    <3> QED BY <3>1, <3>2
  <2> QED BY <1>6, <2>2 DEF Trees
<1>13. Members'
  BY <1>2 DEF Members, Terminal
<1> QED BY <1>7, <1>8, <1>10, <1>11, <1>12, <1>13 DEF Base

LEMMA BaseEndRounds == Base /\ end_rounds => Base'
<1> SUFFICES ASSUME Base, end_rounds PROVE Base'
  OBVIOUS
<1>1. /\ pc = "head" /\ pc' = "final"
      /\ UNCHANGED <<loop, store, dat, v_this_iter, v_next_iter, cursor, quiet,
                     gSignalStatus, n_signals>>
  BY DEF end_rounds
<1>2. TypeOK'
  BY <1>1 DEF Base, TypeOK, PC, loop, store, cursor
<1>3. Counter'
  BY <1>1 DEF Counter
<1>4. Range(v_next_iter') \subseteq Unlinked(dat)
  BY <1>1 DEF Base, Members, Terminal
<1> QED BY <1>1, <1>2, <1>3, <1>4, BaseQuietStep DEF store, cursor, Terminal

LEMMA BaseBreakIter == Base /\ break_iter => Base'
<1> SUFFICES ASSUME Base, break_iter PROVE Base'
  OBVIOUS
<1>1. /\ pc = "loc" /\ pc' \in {"abort", "post"} /\ quiet' = FALSE
      /\ UNCHANGED <<loop, store, dat, v_this_iter, v_next_iter, cursor, gSignalStatus, n_signals>>
  BY DEF break_iter, InFirstLoop
<1>2. TypeOK'
  BY <1>1 DEF Base, TypeOK, PC, loop, store, cursor
<1>3. Counter'
  BY <1>1 DEF Base, Counter, Terminal, loop
<1>4. Range(v_next_iter') \subseteq Unlinked(dat)
  BY <1>1 DEF Base, Members, Terminal
<1> QED BY <1>1, <1>2, <1>3, <1>4, BaseQuietStep DEF store, cursor, Terminal

LEMMA BaseEarlyBreak == Base /\ early_break => Base'
<1> SUFFICES ASSUME Base, early_break PROVE Base'
  OBVIOUS
<1>1. /\ pc = "post" /\ pc' = "final" /\ terminate_counter' = terminate_counter + 1
      /\ terminate_counter + 1 = max_terminate_counter
      /\ UNCHANGED <<mode, iter, store, dat, v_this_iter, v_next_iter, cursor, quiet,
                     gSignalStatus, n_signals>>
  BY DEF early_break, EarlyBreak
<1>2. terminate_counter' \in 0 .. max_terminate_counter
  BY <1>1, ParamAssumption
<1>3. TypeOK'
  BY <1>1, <1>2 DEF Base, TypeOK, PC, store, cursor
<1>4. Counter'
  BY <1>1 DEF Counter
<1>5. Range(v_next_iter') \subseteq Unlinked(dat)
  BY <1>1 DEF Base, Members, Terminal
<1> QED BY <1>1, <1>3, <1>4, <1>5, BaseQuietStep DEF store, cursor, Terminal

LEMMA BaseGoOn == Base /\ go_on => Base'
<1> SUFFICES ASSUME Base, go_on PROVE Base'
  OBVIOUS
<1>1. /\ pc = "post" /\ ~EarlyBreak /\ after_run_iter /\ CountIter /\ pc' = NextIter(dat)
      /\ UNCHANGED <<mode, store, dat, v_this_iter, cursor, quiet, gSignalStatus, n_signals>>
  BY DEF go_on
<1>2. pc' \in {"abort", "head"}
  BY <1>1 DEF NextIter
<1>3. iter' \in Nat
  BY <1>1 DEF Base, TypeOK, CountIter
<1>4. TypeOK'
  <2>1. v_next_iter' \in Seq(Locs) /\ terminate_counter' \in 0 .. max_terminate_counter
    BY <1>1, AfterFacts
  <2> QED BY <1>1, <1>2, <1>3, <2>1 DEF Base, TypeOK, PC, store, cursor
<1>5. Counter'
  BY <1>1, AfterFacts DEF Counter
<1>6. Range(v_next_iter') \subseteq Unlinked(dat)
  BY <1>1, AfterFacts
<1> QED BY <1>1, <1>2, <1>4, <1>5, <1>6, BaseQuietStep DEF store, cursor, Terminal

LEMMA BaseRequestedBreak == Base /\ requested_break => Base'
<1> SUFFICES ASSUME Base, requested_break PROVE Base'
  OBVIOUS
<1>1. /\ pc = "post" /\ ~EarlyBreak /\ after_run_iter /\ unflushed' = FALSE /\ pc' = "final"
      /\ UNCHANGED <<mode, iter, configs, set_conf_hash, dat, v_this_iter, cursor, quiet,
                     gSignalStatus, n_signals>>
  BY DEF requested_break
<1>2. TypeOK'
  <2>1. v_next_iter' \in Seq(Locs) /\ terminate_counter' \in 0 .. max_terminate_counter
    BY <1>1, AfterFacts
  <2> QED BY <1>1, <2>1 DEF Base, TypeOK, PC, cursor
<1>3. Counter'
  BY <1>1 DEF Counter
<1>4. Range(v_next_iter') \subseteq Unlinked(dat)
  BY <1>1, AfterFacts
<1> QED BY <1>1, <1>2, <1>3, <1>4, BaseQuietStep DEF cursor, Terminal

LEMMA BaseResetSignal == Base /\ reset_signal => Base'
<1> SUFFICES ASSUME Base, reset_signal PROVE Base'
  OBVIOUS
<1>1. /\ pc = "reset" /\ gSignalStatus' = NoSignal /\ CountIter /\ pc' = NextIter(dat)
      /\ UNCHANGED <<mode, terminate_counter, store, dat, v_this_iter, v_next_iter, cursor, quiet,
                     n_signals>>
  BY DEF reset_signal
<1>2. pc' \in {"abort", "head"}
  BY <1>1 DEF NextIter
<1>3. iter' \in Nat
  BY <1>1 DEF Base, TypeOK, CountIter
<1>4. TypeOK'
  BY <1>1, <1>2, <1>3 DEF Base, TypeOK, PC, store, cursor
<1>5. Counter'
  BY <1>1 DEF Base, Counter, Terminal
<1>6. Range(v_next_iter') \subseteq Unlinked(dat)
  BY <1>1 DEF Base, Members, Terminal
<1> QED BY <1>1, <1>2, <1>4, <1>5, <1>6, BaseQuietStep DEF store, cursor, Terminal

LEMMA BaseSignal ==
    ASSUME Base, NEW s \in Signals, signal(s)
    PROVE  Base'
<1>1. /\ pc \notin Terminal /\ n_signals < MaxSignals /\ n_signals' = n_signals + 1
      /\ \/ pc' = "exit" /\ gSignalStatus' = gSignalStatus
         \/ pc' = pc /\ gSignalStatus' = s
      /\ UNCHANGED <<loop, store, dat, v_this_iter, v_next_iter, cursor, quiet>>
  BY DEF signal
<1>2. TypeOK'
  <2>1. n_signals' \in 0 .. MaxSignals
    <3>1. MaxSignals \in Nat /\ n_signals \in 0 .. MaxSignals
      BY ParamAssumption DEF Base, TypeOK
    <3>2. n_signals < MaxSignals /\ n_signals' = n_signals + 1
      BY <1>1
    <3> QED BY <3>1, <3>2
  <2>2. pc' \in PC /\ gSignalStatus' \in Signals \cup {NoSignal}
    BY <1>1 DEF Base, TypeOK, PC
  <2> QED BY <1>1, <2>1, <2>2 DEF Base, TypeOK, loop, store, cursor
<1>3. Counter'
  BY <1>1 DEF Base, Counter, Terminal, loop
<1>4. Range(v_next_iter') \subseteq Unlinked(dat)
  BY <1>1 DEF Base, Members
<1> QED BY <1>1, <1>2, <1>3, <1>4, BaseQuietStep DEF store, cursor

(* A step that changes nothing.                                            *)
LEMMA BaseStutter == Base /\ UNCHANGED vars => Base'
<1> SUFFICES ASSUME Base, UNCHANGED vars PROVE Base'
  OBVIOUS
<1>1. UNCHANGED <<pc, mode, iter, terminate_counter, configs, set_conf_hash, unflushed, dat,
                  v_this_iter, v_next_iter, meidx, t, c_success, prev_n_conf, quiet,
                  gSignalStatus, n_signals>>
  BY DEF vars, loop, store, cursor
<1>2. TypeOK' /\ Counter'
  BY <1>1 DEF Base, TypeOK, Counter
<1>3. pc' \notin Terminal => Range(v_next_iter') \subseteq Unlinked(dat)
  BY <1>1 DEF Base, Members
<1> QED BY <1>1, <1>2, <1>3, BaseQuietStep

LEMMA BaseNext == Base /\ [Next]_vars => Base'
<1> SUFFICES ASSUME Base, [Next]_vars PROVE Base'
  OBVIOUS
<1>1. CASE run_init_configs
  BY <1>1, BaseInitConfigs
<1>2. CASE begin_iter
  BY <1>2, BaseBeginIter
<1>3. CASE end_rounds
  BY <1>3, BaseEndRounds
<1>4. CASE break_iter
  BY <1>4, BaseBreakIter
<1>5. CASE attempt
  BY <1>5, BaseAttempt
<1>6. CASE recheck
  BY <1>6, BaseRecheck
<1>7. CASE early_break
  BY <1>7, BaseEarlyBreak
<1>8. CASE go_on
  BY <1>8, BaseGoOn
<1>9. CASE requested_break
  BY <1>9, BaseRequestedBreak
<1>10. CASE temp_finish
  BY <1>10, BaseTempFinish
<1>11. CASE reset_signal
  BY <1>11, BaseResetSignal
<1>12. CASE finish
  BY <1>12, BaseFinish
<1>13. CASE \E s \in Signals : signal(s)
  BY <1>13, BaseSignal
<1>14. CASE UNCHANGED vars
  BY <1>14, BaseStutter
<1> QED BY <1>1, <1>2, <1>3, <1>4, <1>5, <1>6, <1>7, <1>8, <1>9, <1>10, <1>11, <1>12,
           <1>13, <1>14 DEF Next, Algorithm, terminated

LEMMA BaseAlways == Spec => []Base
BY BaseInit, BaseNext, PTL DEF Spec

(* Every variable of the algorithm keeps its type: in particular no count  *)
(* of quiet iterations passes max_terminate_counter, whatever the signals  *)
(* (Iter2.cpp:159-176).                                                    *)
THEOREM TypeCorrect == Spec => []TypeOK
<1>1. Base => TypeOK
  BY DEF Base
<1> QED BY <1>1, BaseAlways, PTL

(* The parent of a linked location has a tree of its own and was covered   *)
(* by the same runs (Iter2.cpp:375-378, 460-483).                          *)
THEOREM ClassesCorrect == Spec => []ClassesSound
<1>1. Base => ClassesSound
  <2> SUFFICES ASSUME Base, NEW l \in DOMAIN dat, linked(dat[l])
               PROVE  LET p == dat[l].parent
                      IN  /\ p \in DOMAIN dat /\ ~linked(dat[p])
                          /\ CovBy(l) \cap 1 .. prev_n_conf = CovBy(p) \cap 1 .. prev_n_conf
    BY DEF ClassesSound
  <2>1. PICK p \in Unlinked(dat) : p = dat[l].parent /\ Seen(l) = Seen(p)
    BY DEF Base, Classes
  <2> QED BY <2>1 DEF Seen, Unlinked
<1> QED BY <1>1, BaseAlways, PTL

(* A location that has a tree of its own never loses it to a class: two    *)
(* locations that were told apart once stay apart (Iter2.cpp:460-466).     *)
THEOREM SplitsCorrect == Spec => ClassesOnlySplit
<1>1. Base /\ [Next]_vars => [\A l \in Unlinked(dat) : l \in Unlinked(dat')]_vars
  <2> SUFFICES ASSUME Base, [Next]_vars PROVE Unlinked(dat) \subseteq Unlinked(dat')
    BY Zenon
  <2>1. CASE begin_iter
    BY <2>1, BeginFacts
  <2>2. CASE attempt
    <3>1. PICK l \in Unlinked(dat), x \in LocDataType :
              dat' = [dat EXCEPT ![l] = x] /\ x.parent = dat[l].parent
      BY <2>2, AttemptFacts
    <3>2. DOMAIN dat' = DOMAIN dat /\ \A m \in DOMAIN dat : dat'[m].parent = dat[m].parent
      BY <3>1, SetLocData DEF Base
    <3> QED BY <3>2 DEF Unlinked, linked
  <2>3. CASE recheck
    BY <2>3, RecheckFacts DEF Unlinked, linked
  <2>4. CASE temp_finish
    BY <2>4, TempFacts DEF Unlinked, linked
  <2>5. CASE finish
    <3>1. CASE DOMAIN dat = {}
      BY <3>1 DEF Unlinked
    <3>2. CASE DOMAIN dat # {}
      <4>1. PICK guess \in Guesses(ToRebuild(dat)) : dat' = Rebuild(dat, ToRebuild(dat), guess)
        BY <2>5, <3>2 DEF finish
      <4>2. TypeOK /\ dat \in [DOMAIN dat -> LocDataType]
        BY DEF Base, TypeOK
      <4>3. RebuiltFrom(dat', dat)
        BY <4>1, <4>2, RebuildFields
      <4> QED BY <4>3 DEF RebuiltFrom
    <3> QED BY <3>1, <3>2
  <2>6. CASE \/ run_init_configs \/ end_rounds \/ break_iter \/ early_break \/ go_on
             \/ requested_break \/ reset_signal \/ (\E s \in Signals : signal(s))
             \/ UNCHANGED vars
    <3>1. dat' = dat
      BY <2>6 DEF run_init_configs, end_rounds, break_iter, early_break, go_on,
                  requested_break, reset_signal, signal, vars
    <3> QED BY <3>1
  <2> QED BY <2>1, <2>2, <2>3, <2>4, <2>5, <2>6 DEF Next, Algorithm, terminated
<1> QED BY <1>1, BaseAlways, PTL DEF Spec, ClassesOnlySplit

------------------------------------------------------------------------------
(* The queues.                                                             *)

(* The locations whose turn is still to come, in the positions.            *)
LEMMA WaitingFacts ==
    ASSUME TypeOK, IsInjective(v_this_iter), meidx \in 1 .. Len(v_this_iter),
           v_this_iter' = v_this_iter
    PROVE  /\ v_this_iter[meidx] \in Waiting
           /\ meidx' = meidx => Waiting' = Waiting
           /\ meidx' = meidx + 1 => Waiting' = Waiting \ {v_this_iter[meidx]}
<1>1. v_this_iter \in Seq(Locs) /\ meidx \in Nat /\ Len(v_this_iter) \in Nat
      /\ DOMAIN v_this_iter = 1 .. Len(v_this_iter)
  BY DEF TypeOK
<1>2. v_this_iter[meidx] \in Waiting
  BY <1>1 DEF Waiting
<1>3. meidx' = meidx => Waiting' = Waiting
  BY DEF Waiting
<1>4. ASSUME meidx' = meidx + 1 PROVE Waiting' = Waiting \ {v_this_iter[meidx]}
  <2>1. \A i : i \in meidx .. Len(v_this_iter) <=> i = meidx \/ i \in meidx + 1 .. Len(v_this_iter)
    BY <1>1
  <2>2. \A i \in meidx + 1 .. Len(v_this_iter) : i \in 1 .. Len(v_this_iter) /\ i # meidx
    BY <1>1
  <2>3. \A i \in meidx + 1 .. Len(v_this_iter) : v_this_iter[i] # v_this_iter[meidx]
    BY <1>1, <2>2 DEF IsInjective
  <2>4. Waiting' = {v_this_iter[i] : i \in meidx + 1 .. Len(v_this_iter)}
    BY <1>4 DEF Waiting
  <2>5. \A e : e \in Waiting <=> e = v_this_iter[meidx] \/ e \in Waiting'
    BY <2>1, <2>4 DEF Waiting
  <2>6. v_this_iter[meidx] \notin Waiting'
    BY <2>3, <2>4
  <2> QED BY <2>5, <2>6
<1> QED BY <1>2, <1>3, <1>4

LEMMA QueuesInit == Init => Queues
BY DEF Init, Queues, NextQueue, Range, IsInjective

(* A step that leaves v_loc_data and the queues alone.                     *)
LEMMA QueuesQuietStep ==
    ASSUME Queues, UNCHANGED <<dat, v_this_iter, v_next_iter, meidx>>,
           pc' \in {"init", "head", "loc", "post", "reset"}
               => pc \in {"init", "head", "loc", "post", "reset"},
           pc' = "loc" => pc = "loc",
           pc' \in {"head", "reset"} => pc \in {"head", "reset"},
           pc' = "post" /\ Unbroken' => pc = "post" /\ Unbroken
    PROVE  Queues'
<1>1. Waiting' = Waiting
  BY DEF Waiting
<1>2. NextQueue => NextQueue'
  BY DEF NextQueue
<1>3. ThisQueue => ThisQueue'
  BY <1>1 DEF ThisQueue
<1>4. Watch => Watch'
  BY DEF Watch
<1> QED BY <1>2, <1>3, <1>4 DEF Queues

LEMMA QueuesInitConfigs == Base /\ Queues /\ run_init_configs => Queues'
<1> SUFFICES ASSUME Base, Queues, run_init_configs PROVE Queues'
  OBVIOUS
<1>1. /\ pc = "init" /\ pc' \in {"head", "abort"}
      /\ UNCHANGED <<dat, v_this_iter, v_next_iter>>
  BY DEF run_init_configs
<1>2. DOMAIN dat = {}
  <2>1. n_configs = 0
    BY <1>1 DEF Base, Store, n_configs
  <2>2. \A l : Seen(l) = {}
    BY <2>1 DEF Seen, CovBy, n_configs, Base, TypeOK
  <2> QED BY <1>1, <2>2 DEF Base, Classes, Terminal
<1>3. Watch'
  BY <1>1, <1>2 DEF Watch, Unlinked
<1>4. NextQueue'
  BY <1>1 DEF Queues, NextQueue
<1> QED BY <1>1, <1>3, <1>4 DEF Queues

LEMMA QueuesBeginIter ==
    ASSUME Base, Queues, begin_iter
    PROVE  Queues' /\ IsInjective(v_this_iter')
<1>1. /\ pc = "head" /\ pc' \in {"loc", "abort"} /\ meidx' = 1 /\ v_next_iter' = << >>
  BY DEF begin_iter
<1>2. NextQueue /\ Watch
  BY <1>1 DEF Queues
<1>3. Range(v_next_iter) \subseteq Unlinked(dat) /\ v_next_iter \in Seq(Locs)
  BY <1>1 DEF Base, Members, Terminal, TypeOK
<1>4. PICK s \in Seq(Locs) : /\ v_this_iter' = v_next_iter \o s
                             /\ Range(s) = NewDats /\ IsInjective(s)
  BY BeginFacts
<1>5. IsInjective(v_this_iter')
  <2>1. Range(v_next_iter) \cap Range(s) = {}
    BY <1>3, <1>4, BeginFacts
  <2> QED BY <1>2, <1>3, <1>4, <2>1, ConcatInjective DEF NextQueue
<1>6. Waiting' = Range(v_next_iter) \cup NewDats
  <2>1. v_this_iter' \in Seq(Locs) /\ Range(v_this_iter') = Range(v_next_iter) \cup NewDats
    BY BeginFacts
  <2>2. Waiting' = Range(v_this_iter')
    BY <1>1, <2>1, SeqRange DEF Waiting
  <2> QED BY <2>1, <2>2
<1>7. NextQueue' /\ Range(v_next_iter') = {}
  BY <1>1 DEF NextQueue, Range, IsInjective
<1>8. Unlinked(dat') \subseteq DOMAIN dat'
  BY DEF Unlinked
<1>9. ThisQueue'
  <2>1. \A l \in Waiting' : ~dat'[l].ignored /\ ~dat'[l].queued_next
    <3> SUFFICES ASSUME NEW l \in Waiting' PROVE ~dat'[l].ignored /\ ~dat'[l].queued_next
      OBVIOUS
    <3>1. l \in Unlinked(dat')
      BY <1>3, <1>6, BeginFacts
    <3>2. ~dat'[l].queued_next
      BY <1>8, <3>1, BeginFacts
    <3>3. CASE l \in Range(v_next_iter)
      <4>1. ~dat[l].ignored /\ l \in Unlinked(dat)
        BY <1>2, <1>3, <3>3 DEF NextQueue
      <4> QED BY <3>2, <4>1, BeginFacts
    <3>4. CASE l \in NewDats
      BY <3>2, <3>4, BeginFacts
    <3> QED BY <1>6, <3>3, <3>4
  <2>2. Range(v_next_iter') = {l \in Unlinked(dat') : dat'[l].queued_next}
    BY <1>7, <1>8, BeginFacts
  <2>3. \A l \in Unlinked(dat') :
           ~dat'[l].ignored /\ ~dat'[l].queued_next /\ l \notin Waiting' => ~dat'[l].need_rebuild
    <3> SUFFICES ASSUME NEW l \in Unlinked(dat'), ~dat'[l].ignored, l \notin Waiting'
                 PROVE  ~dat'[l].need_rebuild
      OBVIOUS
    <3>1. l \in Unlinked(dat) /\ l \notin Range(v_next_iter)
      BY <1>6, BeginFacts
    <3>2. dat'[l].need_rebuild = dat[l].need_rebuild /\ dat'[l].ignored = dat[l].ignored
      BY <3>1, BeginFacts
    <3> QED BY <1>2, <3>1, <3>2 DEF Watch
  <2> QED BY <1>5, <2>1, <2>2, <2>3 DEF ThisQueue
<1> QED BY <1>1, <1>5, <1>7, <1>9 DEF Queues

(* The location whose turn it is, is neither given up nor queued.          *)
LEMMA TurnFacts ==
    ASSUME Base, Queues, pc = "loc", meidx \in 1 .. Len(v_this_iter)
    PROVE  /\ ~dat[v_this_iter[meidx]].ignored /\ ~dat[v_this_iter[meidx]].queued_next
           /\ v_this_iter[meidx] \notin Range(v_next_iter)
           /\ v_this_iter[meidx] \in Waiting
<1>1. ThisQueue /\ meidx \in Nat /\ Len(v_this_iter) \in Nat
  BY DEF Queues, Base, TypeOK
<1>2. v_this_iter[meidx] \in Waiting
  BY <1>1 DEF Waiting
<1> QED BY <1>1, <1>2 DEF ThisQueue

LEMMA QueuesAttempt == Base /\ Queues /\ attempt => Queues'
<1> SUFFICES ASSUME Base, Queues, attempt PROVE Queues'
  OBVIOUS
<1>1. PICK l \in Unlinked(dat), cex \in Cex, x \in LocDataType : \E d \in OneLocTrees(l) :
              /\ l = v_this_iter[meidx] /\ meidx \in 1 .. Len(v_this_iter) /\ pc = "loc"
              /\ dat' = [dat EXCEPT ![l] = x] /\ x.parent = dat[l].parent
              /\ \/ TurnGoesOn(l, d, cex, x) \/ TurnSucceeds(l, d, cex, x)
                 \/ TurnFails(l, d, cex, x)
              /\ pc' = "loc" \/ pc' = "abort"
              /\ v_this_iter' = v_this_iter
  BY AttemptFacts
<1>2. PICK d \in OneLocTrees(l) :
              \/ TurnGoesOn(l, d, cex, x) \/ TurnSucceeds(l, d, cex, x)
              \/ TurnFails(l, d, cex, x)
  BY <1>1
<1>3. TypeOK /\ NextQueue /\ ThisQueue
  BY <1>1 DEF Base, Queues
<1>4. ~dat[l].ignored /\ ~dat[l].queued_next /\ l \notin Range(v_next_iter) /\ l \in Waiting
  BY <1>1, TurnFacts
<1>5. d.ignored = dat[l].ignored /\ d.queued_next = dat[l].queued_next
  BY <1>1, TurnTree
<1>6. /\ dat'[l] = x /\ \A m \in DOMAIN dat : m # l => dat'[m] = dat[m]
      /\ DOMAIN dat' = DOMAIN dat /\ Unlinked(dat') = Unlinked(dat)
  <2>1. /\ dat'[l] = x /\ \A m \in DOMAIN dat : m # l => dat'[m] = dat[m]
        /\ DOMAIN dat' = DOMAIN dat /\ \A m \in DOMAIN dat : dat'[m].parent = dat[m].parent
    BY <1>1, <1>3, SetLocData
  <2> QED BY <2>1 DEF Unlinked, linked
<1>7. /\ meidx' = meidx => Waiting' = Waiting
      /\ meidx' = meidx + 1 => Waiting' = Waiting \ {l}
  BY <1>1, <1>3, WaitingFacts DEF ThisQueue
<1>8. Unlinked(dat) \subseteq DOMAIN dat /\ l \in Locs /\ v_next_iter \in Seq(Locs)
      /\ Range(v_next_iter) \subseteq Unlinked(dat)
  BY <1>1, <1>3 DEF Unlinked, TypeOK, Base, Members, Terminal
<1>9. \A m \in Waiting : m # l => ~dat'[m].ignored /\ ~dat'[m].queued_next
  <2>1. Waiting \subseteq Unlinked(dat)
    BY <1>1, <1>3 DEF Waiting, Base, Members, TypeOK, Range
  <2> QED BY <1>3, <1>6, <1>8, <2>1 DEF ThisQueue
<1>10. CASE TurnGoesOn(l, d, cex, x)
  <2>1. meidx' = meidx /\ v_next_iter' = v_next_iter /\ ~x.ignored /\ ~x.queued_next
    BY <1>4, <1>5, <1>10 DEF TurnGoesOn
  <2>2. Waiting' = Waiting
    BY <1>7, <2>1
  <2>3. NextQueue'
    BY <1>3, <1>6, <1>8, <2>1 DEF NextQueue
  <2>4. ThisQueue'
    BY <1>1, <1>3, <1>4, <1>6, <1>8, <1>9, <2>1, <2>2 DEF ThisQueue
  <2> QED BY <1>1, <2>3, <2>4 DEF Queues
<1>11. CASE TurnSucceeds(l, d, cex, x)
  <2>1. meidx' = meidx + 1 /\ v_next_iter' = v_next_iter /\ ~x.ignored /\ ~x.queued_next
        /\ ~x.need_rebuild
    BY <1>4, <1>5, <1>11 DEF TurnSucceeds
  <2>2. Waiting' = Waiting \ {l}
    BY <1>7, <2>1
  <2>3. NextQueue'
    BY <1>3, <1>6, <1>8, <2>1 DEF NextQueue
  <2>4. ThisQueue'
    BY <1>1, <1>3, <1>4, <1>6, <1>8, <1>9, <2>1, <2>2 DEF ThisQueue
  <2> QED BY <1>1, <2>3, <2>4 DEF Queues
<1>12. CASE TurnFails(l, d, cex, x)
  <2>1. /\ meidx' = meidx + 1
        /\ x.queued_next <=> ~x.ignored
        /\ v_next_iter' = IF x.ignored THEN v_next_iter ELSE Append(v_next_iter, l)
    BY <1>4, <1>5, <1>12 DEF TurnFails
  <2>2. Waiting' = Waiting \ {l}
    BY <1>7, <2>1
  <2>3. Range(v_next_iter') = Range(v_next_iter) \cup {m \in {l} : ~x.ignored}
    <3>1. CASE x.ignored
      BY <2>1, <3>1
    <3>2. CASE ~x.ignored
      <4>1. v_next_iter' = Append(v_next_iter, l)
        BY <2>1, <3>2
      <4>2. Range(Append(v_next_iter, l)) = Range(v_next_iter) \cup {l}
        BY <1>8, RangeAppend
      <4> QED BY <3>2, <4>1, <4>2
    <3> QED BY <3>1, <3>2
  <2>4. IsInjective(v_next_iter')
    BY <1>3, <1>4, <1>8, <2>1, AppendInjectiveSeq DEF NextQueue
  <2>5. NextQueue'
    <3>1. \A m \in Range(v_next_iter) : ~dat'[m].ignored
      <4>1. \A m \in Range(v_next_iter) : ~dat[m].ignored /\ m \in DOMAIN dat /\ m # l
        BY <1>3, <1>4, <1>8 DEF NextQueue
      <4> QED BY <1>6, <4>1
    <3>2. ~x.ignored => ~dat'[l].ignored
      BY <1>6
    <3>3. \A m \in Range(v_next_iter') : m \in Range(v_next_iter) \/ (m = l /\ ~x.ignored)
      BY <2>3
    <3> QED BY <2>4, <3>1, <3>2, <3>3 DEF NextQueue
  <2>6. ThisQueue'
    <3>1. Range(v_next_iter') = {m \in Unlinked(dat') : dat'[m].queued_next}
      BY <1>1, <1>3, <1>4, <1>6, <1>8, <2>1, <2>3 DEF ThisQueue
    <3>2. \A m \in Unlinked(dat') :
           ~dat'[m].ignored /\ ~dat'[m].queued_next /\ m \notin Waiting' => ~dat'[m].need_rebuild
      BY <1>1, <1>3, <1>6, <1>8, <2>1, <2>2 DEF ThisQueue
    <3>3. \A m \in Waiting' : ~dat'[m].ignored /\ ~dat'[m].queued_next
      BY <1>9, <2>2
    <3>4. IsInjective(v_this_iter')
      BY <1>1, <1>3 DEF ThisQueue
    <3> QED BY <3>1, <3>2, <3>3, <3>4 DEF ThisQueue
  <2> QED BY <1>1, <2>5, <2>6 DEF Queues
<1> QED BY <1>2, <1>10, <1>11, <1>12

LEMMA QueuesRecheck == Base /\ Queues /\ recheck => Queues'
<1> SUFFICES ASSUME Base, Queues, recheck PROVE Queues'
  OBVIOUS
<1>1. /\ pc = "loc" /\ pc' \in {"abort", "post"} /\ meidx > Len(v_this_iter)
  BY DEF recheck
<1>2. NextQueue /\ ThisQueue
  BY <1>1 DEF Queues
<1>3. Waiting = {}
  <2>1. meidx \in Nat /\ Len(v_this_iter) \in Nat
    BY DEF Base, TypeOK
  <2> QED BY <1>1, <2>1 DEF Waiting
<1>4. v_next_iter \in Seq(Locs) /\ Range(v_next_iter) = {l \in Unlinked(dat) : dat[l].queued_next}
  BY <1>2 DEF ThisQueue, Base, TypeOK
<1>5. Unlinked(dat') = Unlinked(dat)
  BY RecheckFacts DEF Unlinked, linked
<1>6. \A l : l \in Watched <=> l \in Unlinked(dat) /\ ~dat[l].queued_next /\ ~dat[l].ignored
  BY DEF Watched
<1>7. NextQueue'
  <2>1. PICK s \in Seq(Locs) : /\ v_next_iter' = v_next_iter \o s
                               /\ Range(s) = Requeued /\ IsInjective(s)
    BY RecheckFacts
  <2>2. Range(v_next_iter) \cap Requeued = {}
    BY <1>4, <1>6 DEF Requeued
  <2>3. IsInjective(v_next_iter')
    BY <1>2, <1>4, <2>1, <2>2, ConcatInjective DEF NextQueue
  <2>4. \A l \in Range(v_next_iter') : ~dat'[l].ignored
    <3>1. \A l \in Range(v_next_iter) : l \in DOMAIN dat /\ l \notin Watched /\ ~dat[l].ignored
      BY <1>2, <1>4, <1>6, RecheckFacts DEF NextQueue
    <3>2. \A l \in Range(v_next_iter) : ~dat'[l].ignored
      BY <3>1, RecheckFacts
    <3>3. \A l \in Requeued : ~dat'[l].ignored
      BY RecheckFacts
    <3> QED BY <3>2, <3>3, RecheckFacts
  <2> QED BY <2>3, <2>4 DEF NextQueue
<1>8. Watch'
  <2> SUFFICES ASSUME NEW l \in Unlinked(dat), ~dat'[l].ignored, l \notin Range(v_next_iter')
               PROVE  ~dat'[l].need_rebuild
    BY <1>5 DEF Watch
  <2>1. l \notin Range(v_next_iter) /\ l \notin Requeued
    BY RecheckFacts
  <2>2. ~dat[l].queued_next
    BY <1>4, <2>1
  <2>3. CASE l \in Watched
    <3>1. Refuted(l) = {}
      BY <2>1, <2>3, RecheckFacts
    <3>2. dat'[l].need_rebuild = dat[l].need_rebuild
      BY <2>3, <3>1, RecheckFacts
    <3>3. ~dat[l].need_rebuild
      BY <1>2, <1>3, <1>6, <2>3 DEF ThisQueue
    <3> QED BY <3>2, <3>3
  <2>4. CASE l \notin Watched
    <3>1. dat'[l] = dat[l] /\ dat[l].ignored
      BY <1>6, <2>2, <2>4, RecheckFacts
    <3> QED BY <3>1
  <2> QED BY <2>3, <2>4
<1> QED BY <1>1, <1>7, <1>8 DEF Queues

(* The queue after run_iter, when no break ended it.                       *)
LEMMA QueuesAfter ==
    ASSUME Base, Queues, pc = "post", ~EarlyBreak, after_run_iter, UNCHANGED dat
    PROVE  NextQueue' /\ (Unbroken => Watch')
<1>1. NextQueue /\ (Unbroken => Watch) /\ quiet \in BOOLEAN
  BY DEF Queues, Base, TypeOK
<1>2. CASE ~quiet
  BY <1>1, <1>2, AfterFacts DEF NextQueue, Watch
<1>3. CASE quiet
  BY <1>3, AfterFacts DEF NextQueue, Watch
<1> QED BY <1>1, <1>2, <1>3

LEMMA QueuesGoOn == ASSUME NoOverwrite PROVE Base /\ Queues /\ go_on => Queues'
<1> SUFFICES ASSUME Base, Queues, go_on PROVE Queues'
  OBVIOUS
<1>1. /\ pc = "post" /\ ~EarlyBreak /\ after_run_iter /\ pc' \in {"abort", "head"} /\ UNCHANGED dat
      /\ gSignalStatus \notin Break \cup TempFinish
  BY DEF go_on, NextIter
<1>2. Unbroken
  BY <1>1, ParamAssumption DEF Unbroken, NoOverwrite, Base, TypeOK, Break, TempFinish
<1> QED BY <1>1, <1>2, QueuesAfter DEF Queues

LEMMA QueuesTempFinish == Base /\ Queues /\ temp_finish => Queues'
<1> SUFFICES ASSUME Base, Queues, temp_finish PROVE Queues'
  OBVIOUS
<1>1. /\ pc = "post" /\ ~EarlyBreak /\ after_run_iter /\ pc' \in {"reset", "abort"}
  BY DEF temp_finish
<1>2. Unlinked(dat') = Unlinked(dat)
  BY TempFacts DEF Unlinked, linked
<1>3. Watch'
  BY <1>2, TempFacts DEF Watch
<1>4. NextQueue'
  <2>1. Unlinked(dat) \subseteq DOMAIN dat /\ quiet \in BOOLEAN
    BY DEF Unlinked, Base, TypeOK
  <2>2. CASE quiet
    BY <1>1, <2>1, <2>2, AfterFacts, TempFacts DEF NextQueue
  <2>3. CASE ~quiet
    <3>1. v_next_iter' = v_next_iter /\ NextQueue /\ Range(v_next_iter) \subseteq Unlinked(dat)
      BY <1>1, <2>3, AfterFacts DEF Queues, Base, Members, Terminal
    <3> QED BY <2>1, <3>1, TempFacts DEF NextQueue
  <2> QED BY <2>1, <2>2, <2>3
<1> QED BY <1>1, <1>3, <1>4 DEF Queues

LEMMA QueuesNext == ASSUME NoOverwrite PROVE Base /\ Queues /\ [Next]_vars => Queues'
<1> SUFFICES ASSUME Base, Queues, [Next]_vars PROVE Queues'
  OBVIOUS
<1>1. CASE run_init_configs
  BY <1>1, QueuesInitConfigs
<1>2. CASE begin_iter
  BY <1>2, QueuesBeginIter
<1>3. CASE attempt
  BY <1>3, QueuesAttempt
<1>4. CASE recheck
  BY <1>4, QueuesRecheck
<1>5. CASE go_on
  BY <1>5, QueuesGoOn
<1>6. CASE temp_finish
  BY <1>6, QueuesTempFinish
<1>7. CASE break_iter
  <2>1. /\ pc = "loc" /\ pc' \in {"abort", "post"} /\ gSignalStatus \in Break
        /\ gSignalStatus' = gSignalStatus
        /\ UNCHANGED <<dat, v_this_iter, v_next_iter, meidx>>
    BY <1>7 DEF break_iter, InFirstLoop, cursor
  <2>2. ~Unbroken'
    BY <2>1 DEF Unbroken, Break, NoSignal, Base, TypeOK
  <2> QED BY <2>1, <2>2, QueuesQuietStep
<1>8. CASE end_rounds \/ early_break \/ requested_break \/ finish
  <2>1. pc' \in {"final", "done", "abort"}
    BY <1>8 DEF end_rounds, early_break, requested_break, finish
  <2> QED BY <2>1 DEF Queues
<1>9. CASE reset_signal
  BY <1>9, QueuesQuietStep DEF reset_signal, NextIter, cursor
<1>10. CASE \E s \in Signals : signal(s)
  <2>1. PICK s \in Signals : signal(s)
    BY <1>10
  <2>2. /\ pc' = "exit" \/ (pc' = pc /\ gSignalStatus' = s)
        /\ UNCHANGED <<dat, v_this_iter, v_next_iter, meidx>>
    BY <2>1 DEF signal, cursor
  <2>3. s # NoSignal
    BY ParamAssumption DEF NoSignal
  <2>4. pc' = "post" /\ Unbroken' => pc = "post" /\ Unbroken
    BY <2>2, <2>3 DEF Unbroken
  <2> QED BY <2>2, <2>4, QueuesQuietStep
<1>11. CASE UNCHANGED vars
  BY <1>11, QueuesQuietStep DEF vars, cursor, Unbroken
<1> QED BY <1>1, <1>2, <1>3, <1>4, <1>5, <1>6, <1>7, <1>8, <1>9, <1>10, <1>11
        DEF Next, Algorithm, terminated

LEMMA QueuesAlways == ASSUME NoOverwrite PROVE Spec => []Queues
BY BaseAlways, QueuesInit, QueuesNext, PTL DEF Spec

(* Between two iterations a location that nobody will look at again has a  *)
(* tree, whatever the signals, if none of them hides a break               *)
(* (Iter2.cpp:330-334).                                                    *)
THEOREM WatchedCorrect == ASSUME NoOverwrite PROVE Spec => []WatchedHaveTrees
<1>1. Base /\ Queues => WatchedHaveTrees
  <2> SUFFICES ASSUME Base, Queues, pc = "head", NEW l \in Unlinked(dat),
                      ~dat[l].ignored, l \notin Range(v_next_iter)
               PROVE  ~dat[l].need_rebuild /\ dat[l].tree # NoTree
    BY DEF WatchedHaveTrees
  <2>1. ~dat[l].need_rebuild
    BY DEF Queues, Watch
  <2>2. dat[l].tree.counted > 0
    BY <2>1 DEF Base, Trees, Unlinked
  <2> QED BY <2>1, <2>2 DEF NoTree
<1> QED BY <1>1, BaseAlways, QueuesAlways, PTL

------------------------------------------------------------------------------
(* A location is messed up only after p_thr_messed_up_kickin runs.         *)

(* No configuration is run twice, so there are not more runs than          *)
(* configurations.                                                         *)
LEMMA RunsBounded ==
    ASSUME NEW s \in Seq(Configs), IsInjective(s)
    PROVE  Len(s) \in Nat /\ Len(s) <= Cardinality(Configs)
<1>1. Len(s) \in Nat /\ s \in Injection(1 .. Len(s), Configs)
  BY DEF Injection
<1>2. Cardinality(1 .. Len(s)) <= Cardinality(Configs)
  BY <1>1, DomainAssumption, FS_Injection
<1>3. Cardinality(1 .. Len(s)) = Len(s)
  <2> DEFINE n == Len(s)
  <2>1. n \in Nat
    BY <1>1
  <2> HIDE DEF n
  <2>2. Cardinality(1 .. n) = IF 1 > n THEN 0 ELSE n - 1 + 1
    BY <2>1, FS_Interval
  <2>3. Cardinality(1 .. n) = n
    BY <2>1, <2>2
  <2> QED BY <2>3 DEF n
<1> QED BY <1>1, <1>2, <1>3

(* There are never so many that a location counts as messed up.            *)
LEMMA RunsBelowKickin ==
    ASSUME NeverMessed, NEW s \in Seq(Configs), IsInjective(s)
    PROVE  Len(s) \in Nat /\ Len(s) <= p_thr_messed_up_kickin
<1>1. Len(s) \in Nat /\ Len(s) <= Cardinality(Configs)
  BY RunsBounded
<1>2. Cardinality(Configs) \in Nat /\ p_thr_messed_up_kickin \in Nat
  BY DomainAssumption, ParamAssumption, FS_CardinalityType
<1> QED BY <1>1, <1>2 DEF NeverMessed

(* Everything but enqueue_next leaves messed_up alone.                     *)
LEMMA SameMessed ==
    ASSUME NEW l, NEW d \in LocDataType
    PROVE  /\ \A p : link_to(d, p).messed_up = d.messed_up
           /\ \A g : Built(l, d, g).messed_up = d.messed_up
           /\ \A cex : Tested(l, d, cex).messed_up = d.messed_up
<1>1. ASSUME NEW tr, NEW nr PROVE [d EXCEPT !.tree = tr, !.need_rebuild = nr].messed_up = d.messed_up
  BY Zenon DEF LocDataType
<1>2. ASSUME NEW p, NEW tr, NEW nr
      PROVE  [d EXCEPT !.parent = p, !.tree = tr, !.need_rebuild = nr].messed_up = d.messed_up
  BY Zenon DEF LocDataType
<1>3. ASSUME NEW p PROVE link_to(d, p).messed_up = d.messed_up
  BY <1>2, Zenon DEF link_to
<1>4. ASSUME NEW g PROVE Built(l, d, g).messed_up = d.messed_up
  BY <1>1, Zenon DEF Built
<1>5. ASSUME NEW cex PROVE Tested(l, d, cex).messed_up = d.messed_up
  <2> DEFINE tr == [d.tree EXCEPT !.counted = @ + IF Refuting(l, d, cex) = {} THEN Len(cex)
                                                  ELSE Min(Refuting(l, d, cex))]
  <2>1. Tested(l, d, cex) = [d EXCEPT !.tree = tr, !.need_rebuild = ~Success(l, d, cex)]
    BY DEF Tested, LocDataType
  <2> HIDE DEF tr
  <2> QED BY <1>1, <2>1
<1> QED BY <1>3, <1>4, <1>5

(* enqueue_next counts only above the threshold.                           *)
LEMMA EnqueuedCalm ==
    ASSUME NEW d \in LocDataType, NEW n \in Nat, n <= p_thr_messed_up_kickin, d.messed_up = 0
    PROVE  Enqueued(d, n).messed_up = 0
<1> DEFINE kick_messed == terminate_counter > 0 /\ n > p_thr_messed_up_kickin
           kick_stuck == n > p_thr_stuck_kickin
           up == d.messed_up + IF kick_messed THEN terminate_counter * p_messed_up_factor ELSE 0
           stuck == d.n_stuck + IF kick_stuck THEN 1 ELSE 0
           ig == \/ kick_messed /\ up >= p_max_messed_up
                 \/ kick_stuck /\ stuck >= p_max_stuck
<1>1. Enqueued(d, n) = [d EXCEPT !.messed_up = up, !.n_stuck = stuck, !.ignored = ig,
                             !.need_rebuild = @ \/ ig, !.queued_next = @ \/ ~ig]
  BY DEF Enqueued
<1>2. p_thr_messed_up_kickin \in Nat
  BY ParamAssumption
<1>3. up = 0
  BY <1>2
<1> HIDE DEF up, stuck, ig
<1>4. Enqueued(d, n).messed_up = up
  BY <1>1, Zenon DEF LocDataType
<1> QED BY <1>3, <1>4

(* prepare_vec_loc_data keeps the counters, and a new location has none.   *)
LEMMA CalmBeginIter ==
    ASSUME Base, begin_iter, \A l \in DOMAIN dat : dat[l].messed_up = 0
    PROVE  \A l \in DOMAIN dat' : dat'[l].messed_up = 0
<1> DEFINE P == PreparedDat
           D(l) == IF l \in DOMAIN dat THEN dat[l] ELSE NewLocData
<1>1. TypeOK /\ Store /\ Classes /\ Trees /\ pc \notin Terminal
  BY DEF Base, begin_iter, Terminal
<1>2. DOMAIN P = Known /\ P \in [Known -> LocDataType]
  BY <1>1, Prepared
<1>3. \A l \in Known : P[l] = IF Rep(l) # l THEN link_to(D(l), Rep(l))
                              ELSE IF linked(D(l)) THEN link_to(D(l), NoLoc) ELSE D(l)
  BY DEF PreparedDat
<1>4. \A l : D(l) \in LocDataType /\ D(l).messed_up = 0
  <2>1. NewLocData.messed_up = 0
    BY DEF NewLocData
  <2> QED BY <1>1, <2>1, NewFields DEF TypeOK
<1>5. dat' = ResetQueued(P)
  BY DEF begin_iter
<1> HIDE DEF P, D
<1>6. ASSUME NEW l \in Known PROVE P[l].messed_up = 0
  <2>1. D(l) \in LocDataType /\ D(l).messed_up = 0
    BY <1>4
  <2>2. \A p : link_to(D(l), p).messed_up = D(l).messed_up
    BY <2>1, SameMessed
  <2> QED BY <1>3, <2>1, <2>2
<1>7. ASSUME NEW d \in LocDataType PROVE [d EXCEPT !.queued_next = FALSE].messed_up = d.messed_up
  BY Zenon DEF LocDataType
<1>8. DOMAIN dat' = Known /\ \A l \in Known : dat'[l] = [P[l] EXCEPT !.queued_next = FALSE]
  BY <1>2, <1>5 DEF ResetQueued
<1>9. ASSUME NEW l \in Known PROVE dat'[l].messed_up = 0
  <2> DEFINE d == P[l]
  <2>1. d \in LocDataType /\ d.messed_up = 0 /\ dat'[l] = [d EXCEPT !.queued_next = FALSE]
    BY <1>2, <1>6, <1>8
  <2> HIDE DEF d
  <2> QED BY <1>7, <2>1
<1> QED BY <1>8, <1>9

(* The tree of a turn has the counters of its location.                    *)
LEMMA TurnMessed ==
    ASSUME TypeOK, NEW l \in Unlinked(dat), NEW d \in OneLocTrees(l)
    PROVE  d.messed_up = dat[l].messed_up
<1> DEFINE e == dat[l]
<1>1. e \in LocDataType
  BY DEF Unlinked, TypeOK
<1>2. d = e \/ \E g \in SUBSET (Configs \ Ran) : d = Built(l, e, g)
  BY DEF OneLocTrees
<1> HIDE DEF e
<1>3. d.messed_up = e.messed_up
  BY <1>1, <1>2, SameMessed
<1> QED BY <1>3 DEF e

LEMMA CalmAttempt ==
    ASSUME Base, attempt, NeverMessed, configs' \in Seq(Configs), IsInjective(configs'),
           \A l \in DOMAIN dat : dat[l].messed_up = 0
    PROVE  \A l \in DOMAIN dat' : dat'[l].messed_up = 0
<1> DEFINE l == v_this_iter[meidx]
<1>1. pc = "loc" /\ meidx \in 1 .. Len(v_this_iter) /\ TypeOK
  BY DEF attempt, InFirstLoop, Base, TypeOK
<1>2. l \in Unlinked(dat)
  BY <1>1 DEF Base, Members, TypeOK, Range
<1>3. PICK d \in OneLocTrees(l), cex \in Cex :
          /\ run_configs(cex)
          /\ turn_goes_on(l, d, cex) \/ turn_succeeds(l, d, cex) \/ turn_fails(l, d, cex)
  BY DEF attempt
<1> HIDE DEF l
<1>4. l \in DOMAIN dat /\ d \in LocDataType /\ d.messed_up = 0
  <2>1. d \in LocDataType
    BY <1>1, <1>2, TurnTree
  <2> QED BY <1>1, <1>2, <2>1, TurnMessed DEF Unlinked
<1> DEFINE e == Tested(l, d, cex)
<1>5. e \in LocDataType /\ e.messed_up = 0
  <2>1. e \in LocDataType
    BY <1>1, <1>4, TestedFields
  <2>2. \A u : Tested(l, d, u).messed_up = d.messed_up
    BY <1>4, SameMessed
  <2> QED BY <1>4, <2>1, <2>2
<1>6. n_configs + Len(cex) \in Nat /\ n_configs + Len(cex) <= p_thr_messed_up_kickin
  <2>1. n_configs' = n_configs + Len(cex)
    BY <1>1, <1>3, CexSeq, MoreRuns DEF run_configs
  <2>2. Len(configs') \in Nat /\ Len(configs') <= p_thr_messed_up_kickin
    BY RunsBelowKickin
  <2> QED BY <2>1, <2>2 DEF n_configs
<1>7. \E x : dat' = [dat EXCEPT ![l] = x] /\ x.messed_up = 0
  <2> HIDE DEF e
  <2>1. CASE turn_goes_on(l, d, cex)
    BY <1>5, <2>1 DEF turn_goes_on, e
  <2>2. CASE turn_succeeds(l, d, cex)
    <3>1. dat' = [dat EXCEPT ![l] = [e EXCEPT !.n_stuck = 0]]
      BY <2>2 DEF turn_succeeds, e
    <3>2. [e EXCEPT !.n_stuck = 0].messed_up = e.messed_up
      BY <1>5, Zenon DEF LocDataType
    <3> QED BY <1>5, <3>1, <3>2
  <2>3. CASE turn_fails(l, d, cex)
    <3>1. dat' = [dat EXCEPT ![l] = Enqueued(e, n_configs + Len(cex))]
      BY <2>3 DEF turn_fails, e
    <3>2. Enqueued(e, n_configs + Len(cex)).messed_up = 0
      BY <1>5, <1>6, EnqueuedCalm
    <3> QED BY <3>1, <3>2
  <2> QED BY <1>3, <2>1, <2>2, <2>3
<1> QED BY <1>4, <1>7

LEMMA CalmRecheck ==
    ASSUME Base, recheck, NeverMessed, \A l \in DOMAIN dat : dat[l].messed_up = 0
    PROVE  \A l \in DOMAIN dat' : dat'[l].messed_up = 0
<1>1. TypeOK /\ Store
  BY DEF Base
<1>2. n_configs \in Nat /\ n_configs <= p_thr_messed_up_kickin
  BY <1>1, RunsBelowKickin DEF TypeOK, Store, n_configs
<1>3. dat' = [l \in DOMAIN dat |-> IF l \in Watched THEN Rechecked(l) ELSE dat[l]]
  BY DEF recheck
<1>4. ASSUME NEW l \in Watched PROVE Rechecked(l).messed_up = 0
  <2> DEFINE s == Shown(l)
  <2>3. s.messed_up = 0
    <3>1. s.messed_up = dat[l].messed_up /\ l \in DOMAIN dat
      BY <1>1, ShownFields DEF Watched, Unlinked
    <3> QED BY <3>1
  <2>4. CASE Refuted(l) = {}
    BY <2>3, <2>4 DEF Rechecked
  <2>5. CASE Refuted(l) # {}
    <3> DEFINE r == [s EXCEPT !.need_rebuild = TRUE]
    <3>1. s \in LocDataType
      BY <1>1, ShownFields
    <3>2. Rechecked(l) = Enqueued(r, n_configs)
      BY <2>5 DEF Rechecked
    <3> HIDE DEF s
    <3>3. r \in LocDataType
      BY <3>1, Zenon DEF LocDataType
    <3>4. r.messed_up = s.messed_up
      BY <3>1, Zenon DEF LocDataType
    <3> HIDE DEF r
    <3>5. Enqueued(r, n_configs).messed_up = 0
      BY <1>2, <2>3, <3>3, <3>4, EnqueuedCalm
    <3> QED BY <3>2, <3>5
  <2> QED BY <2>4, <2>5
<1>5. \A l \in DOMAIN dat : dat'[l].messed_up = 0
  BY <1>3, <1>4
<1> QED BY <1>3, <1>5

LEMMA CalmNext == Base /\ Calm /\ [Next]_vars => Calm'
<1> SUFFICES ASSUME Base, Calm, [Next]_vars, NeverMessed, pc' \notin Terminal
             PROVE  \A l \in DOMAIN dat' : dat'[l].messed_up = 0
  BY DEF Calm
<1> DEFINE AllCalm == \A l \in DOMAIN dat : dat[l].messed_up = 0
<1>1. pc \notin Terminal \/ UNCHANGED vars
  BY DEF Next, Algorithm, terminated, run_init_configs, begin_iter, end_rounds, break_iter,
         InFirstLoop, attempt, recheck, early_break, go_on, requested_break, temp_finish,
         reset_signal, finish, signal, Terminal
<1>2. AllCalm
  BY <1>1 DEF Calm, vars
<1>3. CASE UNCHANGED dat
  BY <1>2, <1>3
<1>4. CASE begin_iter
  BY <1>2, <1>4, CalmBeginIter
<1>5. CASE attempt
  <2>1. Base'
    BY BaseNext
  <2>2. configs' \in Seq(Configs) /\ IsInjective(configs')
    BY <2>1 DEF Base, TypeOK, Store
  <2> QED BY <1>2, <1>5, <2>2, CalmAttempt
<1>6. CASE recheck
  BY <1>2, <1>6, CalmRecheck
<1>7. CASE temp_finish
  <2>1. PICK guess \in Guesses(ToRebuild(dat)) : dat' = Rebuild(dat, ToRebuild(dat), guess)
    BY <1>7 DEF temp_finish
  <2>2. /\ DOMAIN dat' = DOMAIN dat
        /\ \A l \in DOMAIN dat : \/ dat'[l] = dat[l]
                                  \/ dat'[l] = Built(l, dat[l], guess[l])
    BY <2>1 DEF Rebuild
  <2>3. \A l \in DOMAIN dat : dat[l] \in LocDataType
    BY DEF Base, TypeOK
  <2>4. ASSUME NEW l \in DOMAIN dat PROVE dat'[l].messed_up = 0
    <3> DEFINE d == dat[l]
    <3>1. d \in LocDataType /\ d.messed_up = 0
      BY <1>2, <2>3
    <3>2. dat'[l] = d \/ dat'[l] = Built(l, d, guess[l])
      BY <2>2
    <3> HIDE DEF d
    <3> QED BY <3>1, <3>2, SameMessed
  <2> QED BY <2>2, <2>4
<1>8. CASE finish
  BY <1>8 DEF finish, Terminal
<1>9. UNCHANGED dat \/ begin_iter \/ attempt \/ recheck \/ temp_finish \/ finish
  BY DEF Next, Algorithm, terminated, run_init_configs, end_rounds, break_iter, early_break,
         go_on, requested_break, reset_signal, signal, vars
<1> QED BY <1>3, <1>4, <1>5, <1>6, <1>7, <1>8, <1>9

LEMMA CalmAlways == Spec => []Calm
<1>1. Init => Calm
  BY DEF Init, Calm
<1> QED BY <1>1, BaseAlways, CalmNext, PTL DEF Spec

(* One success ends the turn of a location.                                *)
LEMMA OneSuccess ==
    ASSUME OneSuccessEnds, Calm, pc \notin Terminal, TypeOK,
           NEW l \in Unlinked(dat), NEW d \in OneLocTrees(l)
    PROVE  ConsecutiveSuccess(d) = 1
<1>1. CASE p_messed_consecutive_success = 1
  BY <1>1 DEF OneSuccessEnds, ConsecutiveSuccess
<1>2. CASE NeverMessed
  <2>1. d.messed_up = 0
    BY <1>2, TurnMessed DEF Calm, Unlinked
  <2>2. ~Messed(d)
    BY <1>2, <2>1, ParamAssumption DEF Messed, NeverMessed
  <2> QED BY <2>2 DEF OneSuccessEnds, ConsecutiveSuccess
<1> QED BY <1>1, <1>2 DEF OneSuccessEnds

------------------------------------------------------------------------------
(* The trees that are kept agree with the runs.                            *)

LEMMA OneKindNoOverwrite == OneKind => NoOverwrite
BY DEF OneKind, NoOverwrite, Break

(* A tree that agrees with all the runs agrees with each of them.          *)
LEMMA AgreesRan ==
    ASSUME TypeOK, NEW l
    PROVE  (\A c \in Ran : Agrees(l, dat[l], c)) <=> AgreesUpTo(l, n_configs)
BY StoreFacts DEF AgreesUpTo

LEMMA AgreedInit == Init => Agreed
BY DEF Init, Agreed

(* A step that changes neither the runs nor v_loc_data.                    *)
LEMMA AgreedQuietStep ==
    ASSUME Agreed, UNCHANGED <<configs, dat, prev_n_conf, c_success>>,
           pc' = "loc" => pc = "loc",
           pc' \in {"head", "reset"} => \/ pc \in {"head", "reset"}
                                        \/ pc = "post" /\ Unbroken,
           pc' \in {"post", "final"} /\ Unbroken' =>
               \/ pc \in {"head", "reset"}
               \/ pc \in {"post", "final"} /\ Unbroken,
           pc' = "done" => pc = "done" /\ (Unbroken' => Unbroken)
    PROVE  Agreed'
<1>1. n_configs' = n_configs /\ Kept' = Kept /\ Unlinked(dat') = Unlinked(dat)
  BY DEF n_configs, Kept
<1>2. \A l, k : AgreesUpTo(l, k) => AgreesUpTo(l, k)'
  BY DEF AgreesUpTo
<1> QED BY <1>1, <1>2 DEF Agreed

LEMMA AgreedInitConfigs == Base /\ run_init_configs => Agreed'
<1> SUFFICES ASSUME Base, run_init_configs PROVE Agreed'
  OBVIOUS
<1>1. pc = "init" /\ pc' \in {"head", "abort"} /\ UNCHANGED dat
  BY DEF run_init_configs
<1>2. n_configs = 0
  BY <1>1 DEF Base, Store, n_configs
<1>3. \A l : Seen(l) = {}
  BY <1>2 DEF Seen, CovBy, n_configs, Base, TypeOK
<1>4. DOMAIN dat = {}
  BY <1>1, <1>3 DEF Base, Classes, Terminal
<1>5. Kept' = {}
  BY <1>1, <1>4 DEF Kept, Unlinked
<1> QED BY <1>1, <1>5 DEF Agreed

LEMMA AgreedBeginIter == Base /\ Agreed /\ begin_iter => Agreed'
<1> SUFFICES ASSUME Base, Agreed, begin_iter PROVE Agreed'
  OBVIOUS
<1>1. pc = "head" /\ pc' \in {"loc", "abort"} /\ c_success' = 0 /\ configs' = configs
  BY DEF begin_iter, store
<1>2. \A l \in Unlinked(dat') : dat'[l].queued_next = FALSE
  BY BeginFacts DEF Unlinked
<1>3. ASSUME NEW l \in Kept' PROVE AgreesUpTo(l, prev_n_conf)'
  <2>1. l \in Unlinked(dat') /\ ~dat'[l].ignored /\ ~dat'[l].need_rebuild
    BY <1>3 DEF Kept
  <2>2. l \in Unlinked(dat)
    BY <2>1, BeginFacts
  <2>3. dat'[l].tree = dat[l].tree /\ l \in Kept
    BY <2>1, <2>2, BeginFacts DEF Kept
  <2>4. AgreesUpTo(l, n_configs) /\ prev_n_conf' = n_configs
    BY <1>1, <2>3, BeginFacts DEF Agreed
  <2> QED BY <1>1, <2>3, <2>4 DEF AgreesUpTo, Agrees
<1> QED BY <1>1, <1>2, <1>3 DEF Agreed

LEMMA AgreedAttempt ==
    ASSUME OneSuccessEnds
    PROVE  Base /\ Queues /\ Calm /\ Agreed /\ attempt => Agreed'
<1> SUFFICES ASSUME Base, Queues, Calm, Agreed, attempt PROVE Agreed'
  OBVIOUS
<1>1. PICK l \in Unlinked(dat), cex \in Cex, x \in LocDataType : \E d \in OneLocTrees(l) :
              /\ l = v_this_iter[meidx] /\ meidx \in 1 .. Len(v_this_iter) /\ pc = "loc"
              /\ dat' = [dat EXCEPT ![l] = x] /\ x.parent = dat[l].parent
              /\ x.tree.hits = d.tree.hits
              /\ run_configs(cex)
              /\ \/ TurnGoesOn(l, d, cex, x) \/ TurnSucceeds(l, d, cex, x)
                 \/ TurnFails(l, d, cex, x)
              /\ pc' = "loc" \/ pc' = "abort"
              /\ prev_n_conf' = prev_n_conf
  BY AttemptFacts
<1>2. PICK d \in OneLocTrees(l) :
              /\ x.tree.hits = d.tree.hits
              /\ \/ TurnGoesOn(l, d, cex, x) \/ TurnSucceeds(l, d, cex, x)
                 \/ TurnFails(l, d, cex, x)
  BY <1>1
<1>3. TypeOK /\ ~dat[l].ignored /\ ~dat[l].queued_next /\ c_success = 0
  BY <1>1, TurnFacts DEF Base, Agreed
<1>4. /\ d.ignored = dat[l].ignored /\ d.queued_next = dat[l].queued_next
      /\ dat[l].need_rebuild => \A c \in Ran : Agrees(l, d, c)
      /\ ~dat[l].need_rebuild => d = dat[l]
  BY <1>1, TurnTree
<1>5. ConsecutiveSuccess(d) = 1
  BY <1>1, <1>3, OneSuccess DEF Terminal
<1>6. /\ dat'[l] = x /\ \A m \in DOMAIN dat : m # l => dat'[m] = dat[m]
      /\ DOMAIN dat' = DOMAIN dat /\ Unlinked(dat') = Unlinked(dat)
  <2>1. /\ dat'[l] = x /\ \A m \in DOMAIN dat : m # l => dat'[m] = dat[m]
        /\ DOMAIN dat' = DOMAIN dat /\ \A m \in DOMAIN dat : dat'[m].parent = dat[m].parent
    BY <1>1, <1>3, SetLocData
  <2> QED BY <2>1 DEF Unlinked, linked
<1>7. c_success' = 0 /\ (x.queued_next => x.need_rebuild)
  <2>1. CASE TurnGoesOn(l, d, cex, x)
    BY <1>3, <1>4, <1>5, <2>1 DEF TurnGoesOn
  <2>2. CASE TurnSucceeds(l, d, cex, x)
    BY <1>3, <1>4, <2>2 DEF TurnSucceeds
  <2>3. CASE TurnFails(l, d, cex, x)
    BY <1>3, <1>5, <2>3 DEF TurnFails
  <2> QED BY <1>2, <2>1, <2>2, <2>3
<1>8. \A k \in 1 .. prev_n_conf : configs'[k] = configs[k] /\ configs[k] \in Ran
  <2>1. cex \in Seq(Configs) /\ configs' = configs \o cex
    BY <1>1, CexSeq DEF run_configs
  <2>2. n_configs \in Nat /\ prev_n_conf \in Nat /\ prev_n_conf <= n_configs
    BY <1>3, StoreFacts DEF Base, Store, TypeOK
  <2>3. \A k \in 1 .. n_configs : configs'[k] = configs[k] /\ configs[k] \in Ran
    BY <1>3, <2>1, MoreRuns, StoreFacts
  <2> QED BY <2>2, <2>3
<1>9. ~dat[l].need_rebuild => \A k \in 1 .. prev_n_conf : Agrees(l, d, configs[k])
  <2> SUFFICES ASSUME ~dat[l].need_rebuild PROVE \A k \in 1 .. prev_n_conf : Agrees(l, d, configs[k])
    OBVIOUS
  <2>1. l \in Kept
    BY <1>3 DEF Kept
  <2>2. AgreesUpTo(l, prev_n_conf)
    BY <1>1, <2>1 DEF Agreed
  <2> QED BY <1>4, <2>2 DEF AgreesUpTo
<1>10. \A k \in 1 .. prev_n_conf : Agrees(l, d, configs[k])
  BY <1>4, <1>8, <1>9
<1>11. ASSUME NEW m \in Kept' PROVE AgreesUpTo(m, prev_n_conf)'
  <2>1. m \in Unlinked(dat) /\ m \in DOMAIN dat /\ ~dat'[m].ignored /\ ~dat'[m].need_rebuild
    BY <1>6, <1>11 DEF Kept, Unlinked
  <2>2. CASE m = l
    <3>1. \A k \in 1 .. prev_n_conf : Agrees(l, dat'[l], configs'[k])
      BY <1>2, <1>6, <1>8, <1>10 DEF Agrees
    <3> QED BY <1>1, <2>2, <3>1 DEF AgreesUpTo
  <2>3. CASE m # l
    <3>1. dat'[m] = dat[m] /\ m \in Kept
      BY <1>6, <2>1, <2>3 DEF Kept
    <3>2. AgreesUpTo(m, prev_n_conf)
      BY <1>1, <3>1 DEF Agreed
    <3> QED BY <1>1, <1>8, <3>1, <3>2 DEF AgreesUpTo
  <2> QED BY <2>2, <2>3
<1>12. \A m \in Unlinked(dat') : dat'[m].queued_next => dat'[m].need_rebuild
  <2>1. \A m \in Unlinked(dat) : dat[m].queued_next => dat[m].need_rebuild
    BY <1>1 DEF Agreed
  <2> QED BY <1>6, <1>7, <2>1 DEF Unlinked
<1> QED BY <1>1, <1>7, <1>11, <1>12 DEF Agreed

LEMMA AgreedRecheck == Base /\ Agreed /\ recheck => Agreed'
<1> SUFFICES ASSUME Base, Agreed, recheck PROVE Agreed'
  OBVIOUS
<1>1. pc = "loc" /\ pc' \in {"abort", "post"} /\ configs' = configs
  BY DEF recheck, store
<1>2. Unlinked(dat') = Unlinked(dat) /\ n_configs' = n_configs
  BY <1>1, RecheckFacts DEF Unlinked, linked, n_configs
<1>3. n_configs \in Nat /\ prev_n_conf \in Nat /\ prev_n_conf <= n_configs
  BY StoreFacts DEF Base, TypeOK, Store
<1>4. ASSUME NEW l \in Kept' PROVE AgreesUpTo(l, n_configs)'
  <2>1. l \in Unlinked(dat) /\ ~dat'[l].ignored /\ ~dat'[l].need_rebuild
    BY <1>2, <1>4 DEF Kept
  <2>2. l \in DOMAIN dat /\ dat'[l].tree.hits = dat[l].tree.hits
    BY <2>1, RecheckFacts DEF Unlinked
  <2>3. l \in Watched
    <3> SUFFICES ASSUME l \notin Watched PROVE FALSE
      OBVIOUS
    <3>1. dat'[l] = dat[l]
      BY <2>2, RecheckFacts
    <3>2. dat[l].queued_next
      BY <2>1, <3>1 DEF Watched
    <3>3. dat[l].need_rebuild
      BY <1>1, <2>1, <3>2 DEF Agreed
    <3> QED BY <2>1, <3>1, <3>3
  <2>4. Refuted(l) = {}
    BY <2>1, <2>3, RecheckFacts
  <2>5. \A k \in prev_n_conf + 1 .. n_configs : Agrees(l, dat[l], configs[k])
    BY <2>4 DEF Refuted, NewRuns
  <2>6. l \in Kept
    BY <2>1, <2>3, <2>4, RecheckFacts DEF Kept, Watched
  <2>7. \A k \in 1 .. prev_n_conf : Agrees(l, dat[l], configs[k])
    BY <1>1, <2>6 DEF Agreed, AgreesUpTo
  <2>8. \A k \in 1 .. n_configs : k \in 1 .. prev_n_conf \/ k \in prev_n_conf + 1 .. n_configs
    BY <1>3
  <2>9. \A k \in 1 .. n_configs : Agrees(l, dat[l], configs[k])
    BY <2>5, <2>7, <2>8
  <2> QED BY <1>1, <1>2, <2>2, <2>9 DEF AgreesUpTo, Agrees
<1> QED BY <1>1, <1>4 DEF Agreed

LEMMA AgreedTempFinish == ASSUME OneKind PROVE Base /\ Agreed /\ temp_finish => Agreed'
<1> SUFFICES ASSUME Base, Agreed, temp_finish PROVE Agreed'
  OBVIOUS
<1>1. /\ pc = "post" /\ pc' \in {"reset", "abort"} /\ configs' = configs
      /\ gSignalStatus \in TempFinish
  BY DEF temp_finish, store
<1>2. Unlinked(dat') = Unlinked(dat) /\ n_configs' = n_configs /\ TypeOK
  BY <1>1, TempFacts DEF Unlinked, linked, n_configs, Base
<1>3. Unbroken
  BY <1>1, <1>2 DEF Unbroken, OneKind, TypeOK, TempFinish, Break, NoSignal
<1>4. ASSUME NEW l \in Kept' PROVE AgreesUpTo(l, n_configs)'
  <2>1. l \in Unlinked(dat) /\ l \in DOMAIN dat /\ ~dat'[l].ignored
    BY <1>2, <1>4 DEF Kept, Unlinked
  <2>2. CASE l \in ToRebuild(dat)
    <3>1. \A c \in Ran : Agrees(l, dat'[l], c)
      BY <2>2, TempFacts
    <3> QED BY <1>1, <1>2, <3>1, StoreFacts DEF AgreesUpTo
  <2>3. CASE l \notin ToRebuild(dat)
    <3>1. dat'[l] = dat[l] /\ l \in Kept
      BY <2>1, <2>3, TempFacts DEF Kept, ToRebuild
    <3>2. AgreesUpTo(l, n_configs)
      BY <1>1, <1>3, <3>1 DEF Agreed
    <3> QED BY <1>1, <1>2, <3>1, <3>2 DEF AgreesUpTo
  <2> QED BY <2>2, <2>3
<1> QED BY <1>1, <1>4 DEF Agreed

LEMMA AgreedFinish == ASSUME OneKind PROVE Base /\ Agreed /\ finish => Agreed'
<1> SUFFICES ASSUME Base, Agreed, finish PROVE Agreed'
  OBVIOUS
<1>1. PICK D : \E guess \in Guesses(ToRebuild(D)) :
              /\ D = IF DOMAIN dat = {} THEN PreparedDat ELSE dat
              /\ D \in [DOMAIN D -> LocDataType]
              /\ dat' = Rebuild(D, ToRebuild(D), guess)
              /\ pc' = IF FinishChecks(D) THEN "done" ELSE "abort"
              /\ DOMAIN dat = {} => \A l \in Unlinked(D) : D[l].need_rebuild /\ ~D[l].ignored
  BY FinishFacts
<1>2. PICK guess \in Guesses(ToRebuild(D)) : dat' = Rebuild(D, ToRebuild(D), guess)
  BY <1>1
<1>3. TypeOK /\ D \in [DOMAIN D -> LocDataType]
  BY <1>1 DEF Base
<1>4. RebuiltFrom(dat', D)
  BY <1>2, <1>3, RebuildFields
<1>5. pc = "final" /\ configs' = configs /\ gSignalStatus' = gSignalStatus
  BY DEF finish
<1>6. n_configs' = n_configs /\ (Unbroken' <=> Unbroken)
  BY <1>5 DEF n_configs, Unbroken
<1>7. ASSUME pc' = "done", Unbroken, NEW l \in Unlinked(dat')
      PROVE  AgreesUpTo(l, n_configs)'
  <2>1. l \in Unlinked(D) /\ l \in DOMAIN D
    BY <1>4, <1>7 DEF RebuiltFrom, Unlinked
  <2>2. CASE l \in ToRebuild(D)
    <3>1. \A c \in Ran : Agrees(l, dat'[l], c)
      BY <1>4, <2>2 DEF RebuiltFrom
    <3> QED BY <1>3, <1>5, <1>6, <3>1, StoreFacts DEF AgreesUpTo
  <2>3. CASE l \notin ToRebuild(D)
    <3>1. dat'[l] = D[l] /\ ~D[l].need_rebuild
      BY <1>4, <2>1, <2>3 DEF RebuiltFrom, ToRebuild
    <3>2. D = dat
      BY <1>1, <2>1, <3>1
    <3>3. FinishChecks(D)
      BY <1>1, <1>7
    <3>4. l \in Kept
      BY <2>1, <3>1, <3>2, <3>3 DEF Kept, FinishChecks
    <3>5. AgreesUpTo(l, n_configs)
      BY <1>5, <1>7, <3>4 DEF Agreed
    <3> QED BY <1>5, <1>6, <3>1, <3>2, <3>5 DEF AgreesUpTo
  <2> QED BY <2>2, <2>3
<1>8. pc' \in {"done", "abort"}
  BY <1>1
<1> QED BY <1>6, <1>7, <1>8 DEF Agreed

LEMMA AgreedNext ==
    ASSUME OneKind, OneSuccessEnds
    PROVE  Base /\ Queues /\ Calm /\ Agreed /\ [Next]_vars => Agreed'
<1> SUFFICES ASSUME Base, Queues, Calm, Agreed, [Next]_vars PROVE Agreed'
  OBVIOUS
<1> USE DEF cursor, store
<1>1. CASE run_init_configs
  BY <1>1, AgreedInitConfigs
<1>2. CASE begin_iter
  BY <1>2, AgreedBeginIter
<1>3. CASE attempt
  BY <1>3, AgreedAttempt
<1>4. CASE recheck
  BY <1>4, AgreedRecheck
<1>5. CASE temp_finish
  BY <1>5, AgreedTempFinish
<1>6. CASE finish
  BY <1>6, AgreedFinish
<1>7. CASE break_iter
  <2>1. /\ pc = "loc" /\ pc' \in {"abort", "post"} /\ gSignalStatus \in Break
        /\ gSignalStatus' = gSignalStatus
        /\ UNCHANGED <<configs, dat, prev_n_conf, c_success>>
    BY <1>7 DEF break_iter, InFirstLoop
  <2>2. ~Unbroken'
    BY <2>1 DEF Unbroken, Break, NoSignal, Base, TypeOK
  <2> QED BY <2>1, <2>2, AgreedQuietStep
<1>8. CASE end_rounds
  BY <1>8, AgreedQuietStep DEF end_rounds
<1>9. CASE early_break
  BY <1>9, AgreedQuietStep DEF early_break, Unbroken
<1>10. CASE go_on
  <2>1. /\ pc = "post" /\ gSignalStatus \notin Break \cup TempFinish
        /\ pc' \in {"abort", "head"}
        /\ UNCHANGED <<configs, dat, prev_n_conf, c_success>>
    BY <1>10 DEF go_on, NextIter
  <2>2. Unbroken
    BY <2>1 DEF Unbroken, OneKind, Base, TypeOK
  <2> QED BY <2>1, <2>2, AgreedQuietStep
<1>11. CASE requested_break
  BY <1>11, AgreedQuietStep DEF requested_break, Unbroken
<1>12. CASE reset_signal
  BY <1>12, AgreedQuietStep DEF reset_signal, NextIter
<1>13. CASE \E s \in Signals : signal(s)
  <2>1. PICK s \in Signals : signal(s)
    BY <1>13
  <2>2. s # NoSignal
    BY ParamAssumption DEF NoSignal
  <2>3. /\ pc \notin Terminal /\ (pc' = "exit" \/ (pc' = pc /\ gSignalStatus' = s))
        /\ UNCHANGED <<configs, dat, prev_n_conf, c_success>>
    BY <2>1 DEF signal
  <2>4. pc' = pc /\ pc' # "exit" /\ Unbroken' => Unbroken
    BY <2>2, <2>3 DEF Unbroken
  <2> QED BY <2>3, <2>4, AgreedQuietStep DEF Terminal
<1>14. CASE UNCHANGED vars
  BY <1>14, AgreedQuietStep DEF vars, Unbroken
<1> QED BY <1>1, <1>2, <1>3, <1>4, <1>5, <1>6, <1>7, <1>8, <1>9, <1>10, <1>11, <1>12,
           <1>13, <1>14 DEF Next, Algorithm, terminated

LEMMA AgreedAlways ==
    ASSUME OneKind, OneSuccessEnds
    PROVE  Spec => []Agreed
<1>1. NoOverwrite
  BY OneKindNoOverwrite
<1> QED BY <1>1, BaseAlways, QueuesAlways, CalmAlways, AgreedInit, AgreedNext, PTL DEF Spec

(* Between two iterations the trees that nobody will look at again classify*)
(* every run so far as it was observed (Iter2.cpp:319-341), if the signals *)
(* either always or never break an iteration and one success ends a turn.  *)
(* The shipped parameters give the latter for a domain with less than 4000 *)
(* configurations only.  With two or three successes it may fail: a turn   *)
(* that ends by its last attempt, a success that does not suffice, leaves  *)
(* in v_next_iter a tree that was not refuted, which the second loop does  *)
(* not look at (Iter2.cpp:305, 330) and the next turn does not rebuild.    *)
THEOREM SettledCorrect ==
    ASSUME OneKind, OneSuccessEnds
    PROVE  Spec => []Settled
<1>1. NoOverwrite
  BY OneKindNoOverwrite
<1>2. Base /\ Queues /\ Agreed => Settled
  <2> SUFFICES ASSUME Base, Queues, Agreed, pc = "head", NEW l \in Unlinked(dat),
                      ~dat[l].ignored, l \notin Range(v_next_iter)
               PROVE  ~dat[l].need_rebuild /\ \A c \in Ran : Agrees(l, dat[l], c)
    BY DEF Settled
  <2>1. ~dat[l].need_rebuild
    BY DEF Queues, Watch
  <2>2. AgreesUpTo(l, n_configs)
    BY <2>1 DEF Kept, Agreed
  <2> QED BY <2>1, <2>2, AgreesRan DEF Base
<1> QED BY <1>1, <1>2, BaseAlways, QueuesAlways, AgreedAlways, PTL

(* The final answer contradicts no run, the trees of the locations given up*)
(* included, under the same assumptions (Iter2.cpp:408-412): signals of one*)
(* kind, and the parameters shipped for less than 4000 configurations.  For*)
(* larger domains such a tree may also be what is written.                 *)
THEOREM AnswerCorrect ==
    ASSUME OneKind, OneSuccessEnds
    PROVE  Spec => []AnswerAgreesWithRuns
<1>1. Base /\ Agreed => AnswerAgreesWithRuns
  <2> SUFFICES ASSUME Base, Agreed, pc = "done", gSignalStatus \notin Break,
                      NEW l \in Unlinked(dat)
               PROVE  \A c \in Ran : Agrees(l, dat[l], c)
    BY DEF AnswerAgreesWithRuns
  <2>1. Unbroken
    BY DEF Unbroken, OneKind, Base, TypeOK
  <2>2. AgreesUpTo(l, n_configs)
    BY <2>1 DEF Agreed
  <2> QED BY <2>2, AgreesRan DEF Base
<1> QED BY <1>1, BaseAlways, AgreedAlways, PTL

------------------------------------------------------------------------------
(* No check fails.                                                         *)

Checked == pc # "abort" /\ IgnoredRebuilt

(* The CHECKs of finish_alg hold for what is queued, given up and built.   *)
LEMMA FinishChecksHold ==
    ASSUME Base, IgnoredRebuilt, pc \notin Terminal
    PROVE  FinishChecks(dat)
<1> SUFFICES ASSUME NEW l \in Unlinked(dat)
             PROVE  /\ dat[l].ignored => dat[l].need_rebuild
                    /\ dat[l].need_rebuild \/ dat[l].tree # NoTree
  BY DEF FinishChecks
<1>1. dat[l].ignored => dat[l].need_rebuild
  BY DEF IgnoredRebuilt
<1>2. dat[l].need_rebuild \/ dat[l].tree.counted > 0
  BY DEF Base, Trees, Unlinked
<1> QED BY <1>1, <1>2 DEF NoTree

LEMMA CheckedInit == Init => Checked
BY DEF Init, Checked, IgnoredRebuilt, Unlinked

LEMMA CheckedInitConfigs == ASSUME FreshSeeds PROVE Base /\ Checked /\ run_init_configs => Checked'
<1> SUFFICES ASSUME Base, Checked, run_init_configs PROVE Checked'
  OBVIOUS
<1>1. PICK s \in InitConfigs : pc' = IF IsInjective(s) THEN "head" ELSE "abort"
  BY DEF run_init_configs
<1>2. UNCHANGED dat /\ pc = "init"
  BY DEF run_init_configs
<1>3. IsInjective(s)
  <2>1. CASE mode = "full"
    <3>1. ExistsBijection(1 .. Cardinality(Configs), Configs)
      BY FS_CardinalityType, DomainAssumption
    <3>2. \E f \in [1 .. Cardinality(Configs) -> Configs] : IsInjective(f)
      BY <3>1 DEF ExistsBijection, Bijection, Injection
    <3>3. IsInjective(SetToSeq(Configs))
      BY <3>2, Zenon DEF SetToSeq
    <3> QED BY <2>1, <3>3 DEF InitConfigs
  <2>2. CASE mode = "rand"
    BY <2>2 DEF InitConfigs, RandConfigs
  <2>3. CASE mode \notin {"full", "rand"}
    BY <2>3 DEF InitConfigs, FreshSeeds
  <2> QED BY <2>1, <2>2, <2>3
<1> QED BY <1>1, <1>2, <1>3 DEF Checked, IgnoredRebuilt, Terminal

LEMMA CheckedBeginIter == Base /\ Queues /\ Checked /\ begin_iter => Checked'
<1> SUFFICES ASSUME Base, Queues, Checked, begin_iter PROVE Checked'
  OBVIOUS
<1>1. pc = "head" /\ set_conf_hash = Ran
  BY DEF begin_iter, Base, Store
<1>2. pc' = "loc"
  BY <1>1, QueuesBeginIter DEF begin_iter
<1>3. \A l \in Unlinked(dat) : dat[l].ignored => dat[l].need_rebuild
  BY <1>1 DEF Checked, IgnoredRebuilt, Terminal
<1>4. \A l \in Unlinked(dat') : dat'[l].ignored => dat'[l].need_rebuild
  <2>1. \A l \in Unlinked(dat') : l \in Unlinked(dat) \/ l \in NewDats
    BY BeginFacts
  <2> QED BY <1>3, <2>1, BeginFacts
<1> QED BY <1>2, <1>4 DEF Checked, IgnoredRebuilt

LEMMA CheckedAttempt == Base /\ Queues /\ Checked /\ attempt => Checked'
<1> SUFFICES ASSUME Base, Queues, Checked, attempt PROVE Checked'
  OBVIOUS
<1>1. PICK l \in Unlinked(dat), cex \in Cex, x \in LocDataType : \E d \in OneLocTrees(l) :
              /\ l = v_this_iter[meidx] /\ meidx \in 1 .. Len(v_this_iter) /\ pc = "loc"
              /\ dat' = [dat EXCEPT ![l] = x] /\ x.parent = dat[l].parent
              /\ \/ TurnGoesOn(l, d, cex, x) \/ TurnSucceeds(l, d, cex, x)
                 \/ TurnFails(l, d, cex, x)
              /\ OneLocChecks(l) /\ ~dat[l].ignored => pc' = "loc"
  BY AttemptFacts
<1>2. PICK d \in OneLocTrees(l) :
              \/ TurnGoesOn(l, d, cex, x) \/ TurnSucceeds(l, d, cex, x)
              \/ TurnFails(l, d, cex, x)
  BY <1>1
<1>3. ~dat[l].ignored
  BY <1>1, TurnFacts
<1>4. OneLocChecks(l)
  <2>1. ~linked(dat[l]) /\ (dat[l].need_rebuild \/ dat[l].tree.counted > 0)
    BY DEF Unlinked, Base, Trees
  <2> QED BY <2>1 DEF OneLocChecks, NoTree
<1>5. d.ignored = dat[l].ignored
  BY <1>1, TurnTree
<1>6. x.ignored => x.need_rebuild
  BY <1>2, <1>3, <1>5 DEF TurnGoesOn, TurnSucceeds, TurnFails
<1>7. /\ dat'[l] = x /\ \A m \in DOMAIN dat : m # l => dat'[m] = dat[m]
      /\ DOMAIN dat' = DOMAIN dat /\ Unlinked(dat') = Unlinked(dat)
  <2>1. /\ dat'[l] = x /\ \A m \in DOMAIN dat : m # l => dat'[m] = dat[m]
        /\ DOMAIN dat' = DOMAIN dat /\ \A m \in DOMAIN dat : dat'[m].parent = dat[m].parent
    BY <1>1, SetLocData DEF Base
  <2> QED BY <2>1 DEF Unlinked, linked
<1>8. \A m \in Unlinked(dat) : dat[m].ignored => dat[m].need_rebuild
  BY <1>1 DEF Checked, IgnoredRebuilt, Terminal
<1>9. \A m \in Unlinked(dat') : dat'[m].ignored => dat'[m].need_rebuild
  BY <1>6, <1>7, <1>8 DEF Unlinked
<1> QED BY <1>1, <1>3, <1>4, <1>9 DEF Checked, IgnoredRebuilt

LEMMA CheckedRecheck == Base /\ Queues /\ Checked /\ recheck => Checked'
<1> SUFFICES ASSUME Base, Queues, Checked, recheck PROVE Checked'
  OBVIOUS
<1>1. pc = "loc" /\ meidx > Len(v_this_iter)
      /\ pc' = IF NewRuns # {} /\ \E l \in Watched : dat[l].tree = NoTree THEN "abort" ELSE "post"
  BY DEF recheck
<1>2. Waiting = {}
  <2>1. meidx \in Nat /\ Len(v_this_iter) \in Nat
    BY DEF Base, TypeOK
  <2> QED BY <1>1, <2>1 DEF Waiting
<1>3. ASSUME NEW l \in Watched PROVE dat[l].tree # NoTree
  <2>1. ~dat[l].need_rebuild
    BY <1>1, <1>2 DEF Queues, ThisQueue, Watched
  <2>2. dat[l].tree.counted > 0
    BY <2>1 DEF Base, Trees, Watched, Unlinked
  <2> QED BY <2>2 DEF NoTree
<1>4. pc' = "post"
  BY <1>1, <1>3
<1>5. Unlinked(dat') = Unlinked(dat)
  BY RecheckFacts DEF Unlinked, linked
<1>6. \A l \in Unlinked(dat) : dat[l].ignored => dat[l].need_rebuild
  BY <1>1 DEF Checked, IgnoredRebuilt, Terminal
<1>7. \A l \in Unlinked(dat) : dat'[l].ignored => dat'[l].need_rebuild
  <2> SUFFICES ASSUME NEW l \in Unlinked(dat), dat'[l].ignored PROVE dat'[l].need_rebuild
    OBVIOUS
  <2>1. CASE l \notin Watched
    BY <1>6, <2>1, RecheckFacts DEF Unlinked
  <2>2. CASE l \in Watched /\ Refuted(l) = {}
    BY <1>6, <2>2, RecheckFacts
  <2>3. CASE l \in Watched /\ Refuted(l) # {}
    BY <2>3, RecheckFacts
  <2> QED BY <2>1, <2>2, <2>3
<1> QED BY <1>4, <1>5, <1>7 DEF Checked, IgnoredRebuilt

LEMMA CheckedFinish == Base /\ Checked /\ finish => Checked'
<1> SUFFICES ASSUME Base, Checked, finish PROVE Checked'
  OBVIOUS
<1>1. PICK D : /\ D = IF DOMAIN dat = {} THEN PreparedDat ELSE dat
               /\ pc' = IF FinishChecks(D) THEN "done" ELSE "abort"
               /\ DOMAIN dat = {} => \A l \in Unlinked(D) : D[l].need_rebuild /\ ~D[l].ignored
  BY FinishFacts
<1>2. pc = "final"
  BY DEF finish
<1>3. FinishChecks(D)
  <2>1. CASE DOMAIN dat = {}
    BY <1>1, <2>1 DEF FinishChecks
  <2>2. CASE DOMAIN dat # {}
    BY <1>1, <1>2, <2>2, FinishChecksHold DEF Checked, Terminal
  <2> QED BY <2>1, <2>2
<1> QED BY <1>1, <1>3 DEF Checked, IgnoredRebuilt, Terminal

LEMMA CheckedNext ==
    ASSUME FreshSeeds, Signals \cap TempFinish = {}
    PROVE  Base /\ Queues /\ Checked /\ [Next]_vars => Checked'
<1> SUFFICES ASSUME Base, Queues, Checked, [Next]_vars PROVE Checked'
  OBVIOUS
<1>1. CASE run_init_configs
  BY <1>1, CheckedInitConfigs
<1>2. CASE begin_iter
  BY <1>2, CheckedBeginIter
<1>3. CASE attempt
  BY <1>3, CheckedAttempt
<1>4. CASE recheck
  BY <1>4, CheckedRecheck
<1>5. CASE finish
  BY <1>5, CheckedFinish
<1>6. CASE temp_finish
  BY <1>6 DEF temp_finish, Base, TypeOK, TempFinish, NoSignal
<1>7. CASE break_iter
  <2>1. pc = "loc" /\ meidx \in 1 .. Len(v_this_iter)
    BY <1>7 DEF break_iter, InFirstLoop, Base, TypeOK
  <2>2. v_this_iter[meidx] \in Unlinked(dat)
    BY <2>1 DEF Base, Members, TypeOK, Range
  <2>3. pc' = "post" /\ UNCHANGED dat
    BY <1>7, <2>2 DEF break_iter, Unlinked
  <2> QED BY <2>1, <2>3 DEF Checked, IgnoredRebuilt, Terminal
<1>8. CASE go_on \/ reset_signal
  <2>1. pc \in {"post", "reset"} /\ pc' = NextIter(dat) /\ UNCHANGED dat
    BY <1>8 DEF go_on, reset_signal
  <2>2. pc' = "head"
    BY <2>1, FinishChecksHold DEF NextIter, Checked, Terminal
  <2> QED BY <2>1, <2>2 DEF Checked, IgnoredRebuilt, Terminal
<1>9. CASE end_rounds \/ early_break \/ requested_break
  BY <1>9 DEF end_rounds, early_break, requested_break, Checked, IgnoredRebuilt, Terminal
<1>10. CASE \E s \in Signals : signal(s)
  BY <1>10 DEF signal, Checked, IgnoredRebuilt, Terminal
<1>11. CASE UNCHANGED vars
  BY <1>11 DEF vars, Checked, IgnoredRebuilt
<1> QED BY <1>1, <1>2, <1>3, <1>4, <1>5, <1>6, <1>7, <1>8, <1>9, <1>10, <1>11
        DEF Next, Algorithm, terminated

(* No CHECK of the algorithm fails, if no seed is also a covering          *)
(* configuration, nobody asks for a temporary answer and no signal hides a *)
(* break (Iter2.cpp:131, 292, 296, 331, 347, 411, 422, 497).               *)
THEOREM NoCheckFails ==
    ASSUME FreshSeeds, NoOverwrite, Signals \cap TempFinish = {}
    PROVE  Spec => []ChecksHold
<1>1. Checked => ChecksHold
  BY DEF Checked, ChecksHold
<1> QED BY <1>1, BaseAlways, QueuesAlways, CheckedInit, CheckedNext, PTL DEF Spec
==============================================================================
