----------------------------- MODULE CoveringProofs -----------------------------
(***************************************************************************)
(* Proofs about CoveringConfigs for every number of options and values and *)
(* for every tree.                                                         *)
(***************************************************************************)
EXTENDS CoveringConfigs, TLAPS

Typed ==
    /\ ret \in Seq(Configs)
    /\ SetVAL \in [Vars -> SUBSET Int]
    /\ \A v \in Vars : SetVAL[v] \subseteq Values(v)
    /\ \A v \in Vars : templ[v] # Unset => SetVAL[v] = {}
    /\ generator \in {"domain", "leaf", "none"}
    /\ generator = "none" => ret = << >>

InTemplate == \A k \in 1 .. Len(ret) : Matches(ret[k], templ)

(* What has been drawn is not drawn again while there is something else.   *)
NotDrawnYet == \A v \in Vars, k \in 1 .. Len(ret) : ret[k][v] \notin SetVAL[v]

Different == \A j, k \in 1 .. Len(ret) : ret[j] = ret[k] => j = k

NotRun ==
    generator = "leaf" /\ use_solver => \A k \in 1 .. Len(ret) : ret[k] \notin LeafRuns

(* A value that was drawn occurs.                                          *)
Seen == {ret[k] : k \in 1 .. Len(ret)} \cup (IF generator = "leaf" THEN LeafRuns ELSE {})
DrawnOccur ==
    generator # "none" =>
        \A v \in Vars : templ[v] = Unset =>
            \A i \in Values(v) \ SetVAL[v] : \E c \in Seen : c[v] = i

GInv == Typed /\ InTemplate /\ NotDrawnYet /\ Different /\ NotRun /\ DrawnOccur

------------------------------------------------------------------------------
LEMMA RetRange == ret \in Seq(Configs) => Range(ret) = {ret[k] : k \in 1 .. Len(ret)}
BY DEF Range

LEMMA EmptyInv ==
    ASSUME ret = << >>, generator \in {"domain", "leaf", "none"},
           SetVAL \in [Vars -> SUBSET Int],
           \A v \in Vars : SetVAL[v] \subseteq Values(v),
           \A v \in Vars : templ[v] # Unset => SetVAL[v] = {},
           generator # "none" => \A v \in Vars : templ[v] = Unset => SetVAL[v] = Values(v)
    PROVE  GInv
<1>1. ret \in Seq(Configs) /\ Len(ret) = 0
  OBVIOUS
<1>2. Typed
  BY <1>1 DEF Typed
<1>3. InTemplate /\ NotDrawnYet /\ Different /\ NotRun
  BY <1>1 DEF InTemplate, NotDrawnYet, Different, NotRun
<1>4. DrawnOccur
  BY DEF DrawnOccur
<1> QED
  BY <1>2, <1>3, <1>4 DEF GInv

(* A round that returns c for the configuration d that was drawn; they     *)
(* differ in options of which nothing is left to draw.                     *)
LEMMA AppendInv ==
    ASSUME GInv, generator # "none", NEW d \in Draws, NEW c \in Configs,
           Drawn(d), ret' = Append(ret, c), UNCHANGED <<templ, generator>>, UNCHANGED tree,
           \A v \in Vars \ vrand : c[v] = d[v],
           \A k \in 1 .. Len(ret) : ret[k] # c,
           generator = "leaf" /\ use_solver => c \notin LeafRuns,
           d = c \/ d \in Seen
    PROVE  GInv'
<1> DEFINE n == Len(ret)
<1>1. ret \in Seq(Configs) /\ n \in Nat
  BY DEF GInv, Typed
<1>2. /\ ret' \in Seq(Configs) /\ Len(ret') = n + 1 /\ ret'[n + 1] = c
      /\ \A k \in 1 .. n : ret'[k] = ret[k]
  BY <1>1
<1>3. SetVAL' = [v \in Vars |-> SetVAL[v] \ {d[v]}]
  BY DEF Drawn
<1>4. d \in Configs /\ \A v \in Vars : templ[v] # Unset => d[v] = templ[v]
  BY DEF Draws
<1>5. \A k \in 1 .. n + 1 : k \in 1 .. n \/ k = n + 1
  BY <1>1
<1>6. Typed'
  BY <1>2, <1>3 DEF GInv, Typed
<1>7. Matches(c, templ)
  <2> SUFFICES ASSUME NEW v \in Vars, templ[v] # Unset PROVE c[v] = templ[v]
    BY DEF Matches
  <2>1. v \notin vrand
    BY DEF vrand
  <2> QED
    BY <1>4, <2>1
<1>8. InTemplate'
  BY <1>2, <1>5, <1>7 DEF GInv, InTemplate, Matches
<1>9. NotDrawnYet'
  <2> SUFFICES ASSUME NEW v \in Vars, NEW k \in 1 .. n + 1
               PROVE  ret'[k][v] \notin SetVAL'[v]
    BY <1>2 DEF NotDrawnYet
  <2>1. CASE k \in 1 .. n
    BY <1>2, <1>3, <2>1 DEF GInv, NotDrawnYet
  <2>2. CASE k = n + 1
    <3>1. CASE v \in vrand
      BY <1>3, <3>1 DEF vrand
    <3>2. CASE v \notin vrand
      BY <1>2, <1>3, <2>2, <3>2
    <3> QED
      BY <3>1, <3>2
  <2> QED
    BY <1>5, <2>1, <2>2
<1>10. Different'
  BY <1>2, <1>5 DEF GInv, Different
<1>11. LeafRuns' = LeafRuns /\ (use_solver' <=> use_solver)
  BY DEF LeafRuns, use_solver, Cases, n_total, tree
<1>12. NotRun'
  BY <1>2, <1>5, <1>11 DEF GInv, NotRun
<1>13. Seen \subseteq Seen' /\ c \in Seen'
  BY <1>1, <1>2, <1>11 DEF Seen
<1>14. DrawnOccur'
  <2> SUFFICES ASSUME NEW v \in Vars, templ[v] = Unset, NEW i \in Values(v) \ SetVAL'[v]
               PROVE  \E x \in Seen' : x[v] = i
    BY DEF DrawnOccur, Values
  <2>1. CASE i \notin SetVAL[v]
    BY <1>13, <2>1 DEF GInv, DrawnOccur
  <2>2. CASE i \in SetVAL[v]
    <3>1. i = d[v]
      BY <1>3, <2>2
    <3>2. d \in Seen'
      BY <1>13
    <3> QED
      BY <3>1, <3>2
  <2> QED
    BY <2>1, <2>2
<1> QED
  BY <1>6, <1>8, <1>9, <1>10, <1>12, <1>14 DEF GInv

(* A round that returns nothing.                                           *)
LEMMA DropInv ==
    ASSUME GInv, NEW d \in Draws, d \in Seen, Drawn(d), UNCHANGED <<ret, templ, generator>>,
           UNCHANGED tree
    PROVE  GInv'
<1>1. SetVAL' = [v \in Vars |-> SetVAL[v] \ {d[v]}]
  BY DEF Drawn
<1>2. LeafRuns' = LeafRuns /\ (use_solver' <=> use_solver) /\ Seen' = Seen
  BY DEF LeafRuns, use_solver, Cases, n_total, tree, Seen
<1>3. Typed'
  BY <1>1 DEF GInv, Typed
<1>4. InTemplate' /\ Different' /\ NotRun'
  BY <1>2 DEF GInv, InTemplate, Different, NotRun
<1>5. NotDrawnYet'
  BY <1>1 DEF GInv, NotDrawnYet
<1>6. DrawnOccur'
  BY <1>1, <1>2 DEF GInv, DrawnOccur, Values
<1> QED
  BY <1>3, <1>4, <1>5, <1>6 DEF GInv

LEMMA DomainRoundInv ==
    ASSUME GInv, domain_round, UNCHANGED tree
    PROVE  GInv'
<1>1. PICK c \in Draws : Drawn(c) /\ ret' = Append(ret, c)
  BY DEF domain_round
<1>2. generator = "domain" /\ UNCHANGED <<templ, generator>>
  BY DEF domain_round
<1>3. c \in Configs
  BY DEF Draws
<1>4. PICK v \in Vars : SetVAL[v] # {}
  BY DEF domain_round, Unfinished
<1>5. c[v] \in SetVAL[v]
  BY <1>4 DEF Draws, GInv, Typed
<1>6. \A k \in 1 .. Len(ret) : ret[k] # c
  BY <1>5 DEF GInv, NotDrawnYet
<1> QED
  BY <1>1, <1>2, <1>3, <1>6, AppendInv

LEMMA LeafRoundInv ==
    ASSUME GInv, leaf_round, UNCHANGED tree
    PROVE  GInv'
<1>1. generator = "leaf" /\ UNCHANGED <<templ, generator>>
  BY DEF leaf_round
<1>2. PICK c \in Draws :
          /\ Drawn(c)
          /\ IF c \notin shash(Range(ret)) THEN ret' = Append(ret, c)
             ELSE IF use_solver /\ Instead(c) # {} THEN \E d \in Instead(c) : ret' = Append(ret, d)
             ELSE UNCHANGED ret
  BY DEF leaf_round
<1>3. c \in Configs
  BY DEF Draws
<1>4. /\ Range(ret) = {ret[k] : k \in 1 .. Len(ret)}
      /\ \A x : x \in shash(Range(ret)) => x \in Seen
      /\ \A x : x \notin shash(Range(ret)) =>
            /\ \A k \in 1 .. Len(ret) : ret[k] # x
            /\ use_solver => x \notin LeafRuns
  BY <1>1, RetRange DEF GInv, Typed, shash, Seen
<1>5. CASE c \notin shash(Range(ret))
  BY <1>1, <1>2, <1>3, <1>4, <1>5, AppendInv
<1>6. CASE c \in shash(Range(ret)) /\ use_solver /\ Instead(c) # {}
  <2>1. PICK d \in Instead(c) : ret' = Append(ret, d)
    BY <1>2, <1>6
  <2>2. d \in Configs /\ (\A v \in Vars \ vrand : d[v] = c[v]) /\ d \notin shash(Range(ret))
    BY DEF Instead
  <2> QED
    BY <1>1, <1>2, <1>4, <1>6, <2>1, <2>2, AppendInv
<1>7. CASE c \in shash(Range(ret)) /\ ~(use_solver /\ Instead(c) # {})
  BY <1>1, <1>2, <1>4, <1>7, DropInv
<1> QED
  BY <1>5, <1>6, <1>7

LEMMA GInitInv == GenInit => GInv
<1> SUFFICES ASSUME GenInit PROVE GInv
  OBVIOUS
<1>1. /\ ret = << >> /\ generator = "domain" /\ SetVAL = [v \in Vars |-> Values(v)]
      /\ \A v \in Vars : templ[v] = Unset
  BY DEF GenInit, NoneSet
<1>2. SetVAL \in [Vars -> SUBSET Int]
  BY <1>1, OptionsAssumption DEF Values
<1> QED
  BY <1>1, <1>2, EmptyInv

LEMMA GNextInv == GInv /\ [GNext]_<<tree, gen>> => GInv'
<1> SUFFICES ASSUME GInv, [GNext]_<<tree, gen>> PROVE GInv'
  OBVIOUS
<1>1. CASE round /\ UNCHANGED tree
  BY <1>1, DomainRoundInv, LeafRoundInv DEF round
<1>2. CASE (\E n \in Leaves : gen_begin(n)) /\ UNCHANGED tree
  <2>1. PICK n \in Leaves : gen_begin(n)
    BY <1>2
  <2>2. /\ ret' = << >> /\ generator' = "leaf" /\ templ' = n
        /\ SetVAL' = [v \in Vars |-> IF n[v] = Unset THEN Values(v) ELSE {}]
    BY <2>1 DEF gen_begin
  <2>3. SetVAL' \in [Vars -> SUBSET Int]
    BY <2>2, OptionsAssumption DEF Values
  <2>4. /\ \A v \in Vars : SetVAL'[v] \subseteq Values(v)
        /\ \A v \in Vars : templ'[v] # Unset => SetVAL'[v] = {}
        /\ \A v \in Vars : templ'[v] = Unset => SetVAL'[v] = Values(v)
    BY <2>2
  <2>5. ret' \in Seq(Configs) /\ Len(ret') = 0
    BY <2>2
  <2>6. Typed' /\ InTemplate' /\ NotDrawnYet' /\ Different' /\ NotRun' /\ DrawnOccur'
    BY <2>2, <2>3, <2>4, <2>5 DEF Typed, InTemplate, NotDrawnYet, Different, NotRun, DrawnOccur, Values
  <2> QED
    BY <2>6 DEF GInv
<1>3. CASE gen_end /\ UNCHANGED tree
  <2>1. /\ ret' = << >> /\ generator' = "none" /\ SetVAL' = [v \in Vars |-> {}]
    BY <1>3 DEF gen_end
  <2>2. ret' \in Seq(Configs) /\ Len(ret') = 0
    BY <2>1
  <2>3. Typed' /\ InTemplate' /\ NotDrawnYet' /\ Different' /\ NotRun' /\ DrawnOccur'
    BY <2>1, <2>2 DEF Typed, InTemplate, NotDrawnYet, Different, NotRun, DrawnOccur
  <2> QED
    BY <2>3 DEF GInv
<1>4. CASE generator = "none" /\ Next /\ UNCHANGED gen
  <2>1. generator' = "none" /\ UNCHANGED <<ret, templ, SetVAL>>
    BY <1>4 DEF gen
  <2> QED
    BY <1>4, <2>1 DEF GInv, Typed, InTemplate, NotDrawnYet, Different, NotRun, DrawnOccur
<1>5. CASE UNCHANGED <<tree, gen>>
  <2>1. UNCHANGED <<ret, templ, SetVAL, generator>>
    BY <1>5 DEF gen
  <2>2. LeafRuns' = LeafRuns /\ (use_solver' <=> use_solver) /\ Seen' = Seen
    BY <1>5, <2>1 DEF LeafRuns, use_solver, Cases, n_total, tree, Seen
  <2> QED
    BY <2>1, <2>2 DEF GInv, Typed, InTemplate, NotDrawnYet, Different, NotRun, DrawnOccur
<1> QED
  BY <1>1, <1>2, <1>3, <1>4, <1>5 DEF GNext

------------------------------------------------------------------------------
(* The generators leave the tree to the steps of CTree, so what is proved  *)
(* of a tree there holds here.                                             *)
THEOREM TreeOnly == GSpec => Spec
<1>1. [GNext]_<<tree, gen>> => [Next]_tree
  <2> SUFFICES ASSUME [GNext]_<<tree, gen>> PROVE Next \/ UNCHANGED tree
    OBVIOUS
  <2> QED
    BY DEF GNext, gen_end, gen_begin
<1> QED
  BY <1>1, PTL DEF GSpec, Spec

(* Both generators return different configurations of the template, and for*)
(* a leaf none that was run before, as long as the leaf is small enough for*)
(* the solver to be asked (CHECK(insert_res) in CNode.cpp).                *)
THEOREM GeneratedNew == GSpec => []GeneratedAreNew
<1>1. GInv => GeneratedAreNew
  <2> SUFFICES ASSUME GInv PROVE GeneratedAreNew
    OBVIOUS
  <2>1. Range(ret) = {ret[k] : k \in 1 .. Len(ret)} /\ DOMAIN ret = 1 .. Len(ret)
    BY RetRange DEF GInv, Typed
  <2>2. IsInjective(ret)
    BY <2>1 DEF GInv, Different, IsInjective
  <2>3. /\ \A c \in Range(ret) : Matches(c, templ)
        /\ (generator = "leaf" /\ use_solver) => Range(ret) \cap LeafRuns = {}
    BY <2>1 DEF GInv, InTemplate, NotRun
  <2> QED
    BY <2>2, <2>3 DEF GeneratedAreNew
<1> QED
  BY GInitInv, GNextInv, <1>1, PTL DEF GSpec

(* When a generator is done, every value of every free option occurs, be it*)
(* in a configuration returned or, where that was a repetition, in a run of*)
(* the leaf.                                                               *)
THEOREM AllValuesCovered == GSpec => []ValuesCovered
<1>1. GInv => ValuesCovered
  <2> SUFFICES ASSUME GInv, generator # "none", ~Unfinished,
                      NEW v \in Free(templ), NEW i \in Values(v)
               PROVE  \E c \in Range(ret) \cup (IF generator = "leaf" THEN LeafRuns ELSE {}) : c[v] = i
    BY DEF ValuesCovered
  <2>1. v \in Vars /\ templ[v] = Unset /\ SetVAL[v] = {}
    BY DEF Free, Unfinished
  <2>2. \E c \in Seen : c[v] = i
    BY <2>1 DEF GInv, DrawnOccur
  <2>3. Seen = Range(ret) \cup (IF generator = "leaf" THEN LeafRuns ELSE {})
    BY RetRange DEF GInv, Typed, Seen
  <2> QED
    BY <2>2, <2>3
<1> QED
  BY GInitInv, GNextInv, <1>1, PTL DEF GSpec
==============================================================================
