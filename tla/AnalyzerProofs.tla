---------------------------- MODULE AnalyzerProofs ----------------------------
(***************************************************************************)
(* Proofs about the analyzer for every number of options and values, every *)
(* answer that finish_alg may write, every size of the batches and every   *)
(* order in which locations and models come: reading a file, comparing two *)
(* answers, validating one and reducing one to few configurations.         *)
(***************************************************************************)
EXTENDS Analyzer, TreeFormsProofs

------------------------------------------------------------------------------
(* The recursive functions of FlattenSeq and of read_file.                 *)

LEMMA FlattenFunction ==
    ASSUME NEW S, NEW seqs \in Seq(Seq(S)), Len(seqs) # 0
    PROVE  \E f : /\ f[1] = seqs[1] /\ FlattenSeq(seqs) = f[Len(seqs)]
                  /\ \A i \in 2 .. Len(seqs) : f[i] = f[i - 1] \o seqs[i]
<1> DEFINE N == Len(seqs)
           Q == Seq(S)
           step == [q \in Q \X (1 .. N - 1) |-> q[1] \o seqs[q[2] + 1]]
           Is(f) == f = [i \in 1 .. N |-> IF i = 1 THEN seqs[i] ELSE f[i - 1] \o seqs[i]]
<1>1. N \in Nat /\ N - 1 \in Nat /\ 1 \in 1 .. N /\ \A i \in 1 .. N : seqs[i] \in Q
  OBVIOUS
<1>2. \A x \in Q, y \in Q : x \o y \in Q
  OBVIOUS
<1> HIDE DEF Q, N
<1>3. \A k \in 1 .. N - 1 : k + 1 \in 1 .. N
  BY <1>1
<1>4. step \in [Q \X (1 .. N - 1) -> Q]
  BY <1>1, <1>2, <1>3
<1>5. \A x \in Q, k \in 1 .. N - 1 : step[<<x, k>>] = x \o seqs[k + 1]
  OBVIOUS
<1> HIDE DEF step
<1>6. PICK h : IsLoop(h, N - 1, Q, seqs[1], step)
  BY <1>1, <1>4, LoopExists
<1>7. /\ h \in [0 .. N - 1 -> Q] /\ h[0] = seqs[1]
      /\ \A k \in 1 .. N - 1 : h[k] = h[k - 1] \o seqs[k + 1]
  <2>1. \A k \in 1 .. N - 1 : k - 1 \in 0 .. N - 1
    BY <1>1
  <2> QED
    BY <1>5, <1>6, <2>1 DEF IsLoop
<1> DEFINE F == [i \in 1 .. N |-> h[i - 1]]
<1>8. Is(F)
  <2>1. ASSUME NEW i \in 1 .. N PROVE F[i] = IF i = 1 THEN seqs[i] ELSE F[i - 1] \o seqs[i]
    <3>1. CASE i = 1
      BY <1>7, <3>1
    <3>2. CASE i # 1
      <4>1. i - 1 \in 1 .. N - 1 /\ i - 1 \in 1 .. N /\ (i - 1) + 1 = i
        BY <1>1, <3>2
      <4>2. F[i] = h[i - 1] /\ F[i - 1] = h[(i - 1) - 1]
        BY <4>1
      <4>3. h[i - 1] = h[(i - 1) - 1] \o seqs[i]
        BY <1>7, <4>1
      <4> QED
        BY <3>2, <4>2, <4>3
    <3> QED
      BY <3>1, <3>2
  <2>2. F = [i \in 1 .. N |-> F[i]]
    OBVIOUS
  <2> HIDE DEF F
  <2> QED
    BY <2>1, <2>2
<1> DEFINE f == CHOOSE g : Is(g)
<1>9. Is(f)
  <2> HIDE DEF Is, F
  <2> QED
    BY <1>8
<1>10. FlattenSeq(seqs) = f[N]
  BY DEF FlattenSeq, N
<1> HIDE DEF f
<1>11. f[1] = seqs[1] /\ \A i \in 2 .. N : f[i] = f[i - 1] \o seqs[i]
  <2>1. \A i \in 1 .. N : f[i] = IF i = 1 THEN seqs[i] ELSE f[i - 1] \o seqs[i]
    BY <1>9
  <2>2. \A i \in 2 .. N : i \in 1 .. N /\ i # 1
    BY <1>1
  <2> QED
    BY <1>1, <2>1, <2>2
<1> QED
  BY <1>10, <1>11 DEF N

Reading(f, lines, n) ==
    f[0] = StartReading /\ \A k \in 1 .. n : f[k] = read_line(f[k - 1], lines[k])

LEMMA ReadingFunction ==
    ASSUME NEW lines, Len(lines) \in Nat
    PROVE  \E f : Reading(f, lines, Len(lines)) /\ read_file(lines) = f[Len(lines)]
<1> DEFINE N == Len(lines)
           Good == {n \in 0 .. N : \E f : Reading(f, lines, n)}
           Is(f) == f = [k \in 0 .. N |-> IF k = 0 THEN StartReading ELSE read_line(f[k - 1], lines[k])]
<1>1. 0 \in Good
  <2> DEFINE f == [k \in 0 .. 0 |-> StartReading]
  <2>1. f[0] = StartReading /\ 1 .. 0 = {}
    OBVIOUS
  <2> HIDE DEF f
  <2>2. Reading(f, lines, 0)
    BY <2>1 DEF Reading
  <2> QED
    BY <2>2
<1>2. ASSUME NEW n \in 0 .. N - 1, n \in Good PROVE n + 1 \in Good
  <2>1. PICK f : Reading(f, lines, n)
    BY <1>2
  <2> DEFINE g == [k \in 0 .. n + 1 |-> IF k = n + 1 THEN read_line(f[n], lines[n + 1]) ELSE f[k]]
  <2>2. g[n + 1] = read_line(f[n], lines[n + 1]) /\ \A k \in 0 .. n : g[k] = f[k]
    OBVIOUS
  <2> HIDE DEF g
  <2>3. ASSUME NEW k \in 1 .. n + 1 PROVE g[k] = read_line(g[k - 1], lines[k])
    <3>1. CASE k = n + 1
      <4>1. k - 1 = n /\ n \in 0 .. n
        BY <3>1
      <4> QED
        BY <2>2, <3>1, <4>1
    <3>2. CASE k # n + 1
      <4>1. k \in 1 .. n /\ k \in 0 .. n /\ k - 1 \in 0 .. n
        BY <3>2
      <4>2. g[k] = f[k] /\ g[k - 1] = f[k - 1]
        BY <2>2, <4>1
      <4>3. f[k] = read_line(f[k - 1], lines[k])
        BY <2>1, <4>1 DEF Reading
      <4> QED
        BY <4>2, <4>3
    <3> QED
      BY <3>1, <3>2
  <2>4. g[0] = StartReading
    <3>1. 0 \in 0 .. n
      OBVIOUS
    <3> QED
      BY <2>1, <2>2, <3>1 DEF Reading
  <2>5. Reading(g, lines, n + 1) /\ n + 1 \in 0 .. N
    BY <2>3, <2>4 DEF Reading
  <2> QED
    BY <2>5
<1>3. N \in Good
  <2>1. N \in Nat
    OBVIOUS
  <2> HIDE DEF Good, N
  <2>2. \A k \in 0 .. N : k \in Good
    BY <1>1, <1>2, <2>1, Induction
  <2> QED
    BY <2>1, <2>2
<1> HIDE DEF N
<1>4. PICK h : Reading(h, lines, N)
  BY <1>3
<1> DEFINE F == [k \in 0 .. N |-> h[k]]
<1>5. N \in Nat
  BY DEF N
<1>6. Is(F)
  <2>1. ASSUME NEW k \in 0 .. N
        PROVE  F[k] = IF k = 0 THEN StartReading ELSE read_line(F[k - 1], lines[k])
    <3>1. k # 0 => k \in 1 .. N /\ k - 1 \in 0 .. N
      BY <1>5
    <3>2. F[k] = h[k] /\ (k # 0 => F[k - 1] = h[k - 1])
      BY <3>1
    <3> HIDE DEF F
    <3> QED
      BY <1>4, <3>1, <3>2 DEF Reading
  <2>2. F = [k \in 0 .. N |-> F[k]]
    OBVIOUS
  <2> HIDE DEF F
  <2> QED
    BY <2>1, <2>2
<1> DEFINE f == CHOOSE g : Is(g)
<1>7. Is(f)
  <2> HIDE DEF Is, F
  <2> QED
    BY <1>6
<1>8. read_file(lines) = f[N]
  BY DEF read_file, N
<1> HIDE DEF f
<1>9. Reading(f, lines, N)
  <2>1. \A k \in 0 .. N : f[k] = IF k = 0 THEN StartReading ELSE read_line(f[k - 1], lines[k])
    BY <1>7
  <2>2. 0 \in 0 .. N /\ \A k \in 1 .. N : k \in 0 .. N /\ k # 0
    BY <1>5
  <2> HIDE DEF Is
  <2> QED
    BY <2>1, <2>2 DEF Reading
<1> QED
  BY <1>8, <1>9 DEF N

(* Reading goes on where it stopped.                                       *)
ReadsFrom(h, st, lines) ==
    h[0] = st /\ \A j \in 1 .. Len(lines) : h[j] = read_line(h[j - 1], lines[j])

LEMMA ReadConcat ==
    ASSUME NEW S, NEW s \in Seq(S), NEW t \in Seq(S)
    PROVE  \E h : ReadsFrom(h, read_file(s), t) /\ read_file(s \o t) = h[Len(t)]
<1> DEFINE M == Len(s)
           N == Len(t)
           st == s \o t
<1>1. /\ M \in Nat /\ N \in Nat /\ Len(st) = M + N /\ Len(st) \in Nat
      /\ \A k \in 1 .. M : st[k] = s[k]
      /\ \A j \in 1 .. N : st[M + j] = t[j]
  BY ConcatProperties
<1> HIDE DEF st
<1>2. PICK f : Reading(f, st, M + N) /\ read_file(st) = f[M + N]
  BY <1>1, ReadingFunction
<1>3. PICK g : Reading(g, s, M) /\ read_file(s) = g[M]
  BY <1>1, ReadingFunction
<1> HIDE DEF M, N
<1> DEFINE Same == {k \in 0 .. M : f[k] = g[k]}
<1>4. \A k \in 0 .. M : k \in Same
  <2>1. 0 \in Same
    BY <1>1, <1>2, <1>3 DEF Reading
  <2>2. ASSUME NEW k \in 0 .. M - 1, k \in Same PROVE k + 1 \in Same
    <3>1. k + 1 \in 1 .. M /\ k + 1 \in 1 .. M + N /\ (k + 1) - 1 = k /\ k + 1 \in 0 .. M
      BY <1>1
    <3>2. f[k + 1] = read_line(f[k], st[k + 1]) /\ g[k + 1] = read_line(g[k], s[k + 1])
      BY <1>2, <1>3, <3>1 DEF Reading
    <3> QED
      BY <1>1, <2>2, <3>1, <3>2
  <2> HIDE DEF Same
  <2> QED
    BY <1>1, <2>1, <2>2, Induction
<1> DEFINE h == [j \in 0 .. N |-> f[M + j]]
<1>5. h[0] = read_file(s)
  <2>1. M \in 0 .. M /\ 0 \in 0 .. N /\ M + 0 = M
    BY <1>1
  <2> QED
    BY <1>3, <1>4, <2>1
<1>6. ASSUME NEW j \in 1 .. N PROVE h[j] = read_line(h[j - 1], t[j])
  <2>1. M + j \in 1 .. M + N /\ (M + j) - 1 = M + (j - 1) /\ j \in 0 .. N /\ j - 1 \in 0 .. N
    BY <1>1
  <2>2. f[M + j] = read_line(f[M + (j - 1)], st[M + j])
    BY <1>2, <2>1 DEF Reading
  <2> QED
    BY <1>1, <2>1, <2>2
<1>7. h[N] = f[M + N]
  BY <1>1
<1> HIDE DEF h
<1>8. ReadsFrom(h, read_file(s), t)
  BY <1>5, <1>6 DEF ReadsFrom, N
<1> QED
  BY <1>2, <1>7, <1>8 DEF st, N

------------------------------------------------------------------------------
(* A block is read line by line.                                           *)

State(rs, locs, sexpr, stree, ignored, id, ids, res) ==
    [read_state |-> rs, locs |-> locs, sexpr |-> sexpr, stree |-> stree, ignored |-> ignored,
     cur_id |-> id, sexprid |-> ids, failed |-> FALSE, res |-> res]

(* State with any mark of failure: the provers do not see that two records *)
(* agree when a field is a truth value.                                    *)
AnyState(rs, locs, sexpr, stree, ignored, id, ids, failed, res) ==
    [read_state |-> rs, locs |-> locs, sexpr |-> sexpr, stree |-> stree, ignored |-> ignored,
     cur_id |-> id, sexprid |-> ids, failed |-> failed, res |-> res]

LEMMA SetReadState ==
    \A rs, l, x, t, ig, id, ids, res, v :
        [State(rs, l, x, t, ig, id, ids, res) EXCEPT !.read_state = v]
            = State(v, l, x, t, ig, id, ids, res)
<1> TAKE rs, l, x, t, ig, id, ids, res, v
<1>1. PICK no : no = FALSE
  OBVIOUS
<1>2. \A rr, ll, xx, tt : State(rr, ll, xx, tt, ig, id, ids, res)
                              = AnyState(rr, ll, xx, tt, ig, id, ids, no, res)
  BY <1>1 DEF State, AnyState
<1>3. [AnyState(rs, l, x, t, ig, id, ids, no, res) EXCEPT !.read_state = v]
         = AnyState(v, l, x, t, ig, id, ids, no, res)
  BY DEF AnyState
<1> QED
  BY <1>2, <1>3

LEMMA SetLocs ==
    \A rs, l, x, t, ig, id, ids, res, v :
        [State(rs, l, x, t, ig, id, ids, res) EXCEPT !.locs = v]
            = State(rs, v, x, t, ig, id, ids, res)
<1> TAKE rs, l, x, t, ig, id, ids, res, v
<1>1. PICK no : no = FALSE
  OBVIOUS
<1>2. \A rr, ll, xx, tt : State(rr, ll, xx, tt, ig, id, ids, res)
                              = AnyState(rr, ll, xx, tt, ig, id, ids, no, res)
  BY <1>1 DEF State, AnyState
<1>3. [AnyState(rs, l, x, t, ig, id, ids, no, res) EXCEPT !.locs = v]
         = AnyState(rs, v, x, t, ig, id, ids, no, res)
  BY DEF AnyState
<1> QED
  BY <1>2, <1>3

LEMMA SetSexpr ==
    \A rs, l, x, t, ig, id, ids, res, v :
        [State(rs, l, x, t, ig, id, ids, res) EXCEPT !.sexpr = v]
            = State(rs, l, v, t, ig, id, ids, res)
<1> TAKE rs, l, x, t, ig, id, ids, res, v
<1>1. PICK no : no = FALSE
  OBVIOUS
<1>2. \A rr, ll, xx, tt : State(rr, ll, xx, tt, ig, id, ids, res)
                              = AnyState(rr, ll, xx, tt, ig, id, ids, no, res)
  BY <1>1 DEF State, AnyState
<1>3. [AnyState(rs, l, x, t, ig, id, ids, no, res) EXCEPT !.sexpr = v]
         = AnyState(rs, l, v, t, ig, id, ids, no, res)
  BY DEF AnyState
<1> QED
  BY <1>2, <1>3

LEMMA SetStree ==
    \A rs, l, x, t, ig, id, ids, res, v :
        [State(rs, l, x, t, ig, id, ids, res) EXCEPT !.stree = v]
            = State(rs, l, x, v, ig, id, ids, res)
<1> TAKE rs, l, x, t, ig, id, ids, res, v
<1>1. PICK no : no = FALSE
  OBVIOUS
<1>2. \A rr, ll, xx, tt : State(rr, ll, xx, tt, ig, id, ids, res)
                              = AnyState(rr, ll, xx, tt, ig, id, ids, no, res)
  BY <1>1 DEF State, AnyState
<1>3. [AnyState(rs, l, x, t, ig, id, ids, no, res) EXCEPT !.stree = v]
         = AnyState(rs, l, x, v, ig, id, ids, no, res)
  BY DEF AnyState
<1> QED
  BY <1>2, <1>3

Quiet == Comment(FALSE)
Marked == Comment(TRUE)

LEMMA QuietComment ==
    ASSUME NEW rs, NEW locs, NEW x, NEW t, NEW ig \in BOOLEAN, NEW id, NEW ids, NEW res
    PROVE  read_line(State(rs, locs, x, t, ig, id, ids, res), Quiet)
               = State(rs, locs, x, t, ig, id, ids, res)
BY DEF read_line, State, Comment, Quiet, Marked

LEMMA MarkComment ==
    ASSUME NEW rs, NEW locs, NEW x, NEW t, NEW id, NEW ids, NEW res
    PROVE  read_line(State(rs, locs, x, t, FALSE, id, ids, res), Marked)
               = State(rs, locs, x, t, TRUE, id, ids, res)
BY DEF read_line, State, Comment, Quiet, Marked

LEMMA MinusLine ==
    ASSUME NEW rs \in {0, 1}, NEW locs, NEW x, NEW t, NEW ig, NEW id, NEW ids, NEW res,
           rs = 0 => locs # << >>, rs = 1 => x # << >>
    PROVE  read_line(State(rs, locs, x, t, ig, id, ids, res), Rule("-"))
               = State(rs + 1, locs, x, t, ig, id, ids, res)
<1>1. read_line(State(rs, locs, x, t, ig, id, ids, res), Rule("-"))
         = rule_minus(State(rs, locs, x, t, ig, id, ids, res))
  BY DEF read_line, State, Rule
<1> DEFINE st == State(rs, locs, x, t, ig, id, ids, res)
<1>2. st.read_state = rs /\ st.locs = locs /\ st.sexpr = x
  BY DEF State
<1>3. [st EXCEPT !.read_state = rs + 1] = State(rs + 1, locs, x, t, ig, id, ids, res)
  BY SetReadState
<1> HIDE DEF st
<1>4. rs = 0 => rule_minus(st) = [st EXCEPT !.read_state = 1]
  BY <1>2 DEF rule_minus
<1>5. rs = 1 => rule_minus(st) = [st EXCEPT !.read_state = 2]
  BY <1>2 DEF rule_minus
<1>6. (rs = 0 /\ rs + 1 = 1) \/ (rs = 1 /\ rs + 1 = 2)
  OBVIOUS
<1> QED
  BY <1>1, <1>3, <1>4, <1>5, <1>6 DEF st

LEMMA MinusLines ==
    /\ \A locs, x, t, ig, id, ids, res : locs # << >> =>
          read_line(State(0, locs, x, t, ig, id, ids, res), Rule("-")) = State(1, locs, x, t, ig, id, ids, res)
    /\ \A locs, x, t, ig, id, ids, res : x # << >> =>
          read_line(State(1, locs, x, t, ig, id, ids, res), Rule("-")) = State(2, locs, x, t, ig, id, ids, res)
<1>1. 0 \in {0, 1} /\ 1 \in {0, 1} /\ 0 + 1 = 1 /\ 1 + 1 = 2 /\ ~(0 = 1) /\ ~(1 = 0)
  OBVIOUS
<1> QED
  BY <1>1, MinusLine

LEMMA TextLocs ==
    ASSUME NEW locs, locs \in Seq(Range(locs)), NEW x, NEW t, NEW ig, NEW id, NEW ids, NEW res
    PROVE  read_line(State(0, << >>, x, t, ig, id, ids, res), Text(locs)) = State(0, locs, x, t, ig, id, ids, res)
<1> DEFINE st == State(0, << >>, x, t, ig, id, ids, res)
<1>1. st.failed = FALSE /\ st.read_state = 0 /\ st.locs = << >>
  BY DEF State
<1>2. [st EXCEPT !.locs = locs] = State(0, locs, x, t, ig, id, ids, res)
  BY SetLocs
<1> HIDE DEF st
<1>3. read_line(st, Text(locs)) = text_line(st, locs)
  BY <1>1 DEF read_line, Text
<1>4. text_line(st, locs) = [st EXCEPT !.locs = locs]
  <2>1. << >> \o locs = locs
    BY ConcatEmptySeq
  <2> QED
    BY <1>1, <2>1 DEF text_line
<1> QED
  BY <1>2, <1>3, <1>4 DEF st

LEMMA TextFormula ==
    ASSUME NEW locs, NEW t, NEW of, NEW ig, NEW id, NEW ids, NEW res
    PROVE  read_line(State(1, locs, << >>, t, ig, id, ids, res), Text(of)) = State(1, locs, <<of>>, t, ig, id, ids, res)
<1> DEFINE st == State(1, locs, << >>, t, ig, id, ids, res)
<1>1. st.failed = FALSE /\ st.read_state = 1 /\ st.sexpr = << >>
  BY DEF State
<1>2. [st EXCEPT !.sexpr = <<of>>] = State(1, locs, <<of>>, t, ig, id, ids, res)
  BY SetSexpr
<1> HIDE DEF st
<1>3. read_line(st, Text(of)) = text_line(st, of)
  BY <1>1 DEF read_line, Text
<1>4. text_line(st, of) = [st EXCEPT !.sexpr = <<of>>]
  <2>1. Append(<< >>, of) = <<of>>
    OBVIOUS
  <2> QED
    BY <1>1, <2>1 DEF text_line
<1> QED
  BY <1>2, <1>3, <1>4 DEF st

LEMMA TextTree ==
    ASSUME NEW locs, NEW x, NEW of, NEW ig, NEW id, NEW ids, NEW res
    PROVE  read_line(State(2, locs, x, << >>, ig, id, ids, res), Text(of)) = State(2, locs, x, <<of>>, ig, id, ids, res)
<1> DEFINE st == State(2, locs, x, << >>, ig, id, ids, res)
<1>1. st.failed = FALSE /\ st.read_state = 2 /\ st.stree = << >>
  BY DEF State
<1>2. [st EXCEPT !.stree = <<of>>] = State(2, locs, x, <<of>>, ig, id, ids, res)
  BY SetStree
<1> HIDE DEF st
<1>3. read_line(st, Text(of)) = text_line(st, of)
  BY <1>1 DEF read_line, Text
<1>4. text_line(st, of) = [st EXCEPT !.stree = <<of>>]
  BY <1>1 DEF text_line
<1> QED
  BY <1>2, <1>3, <1>4 DEF st

Data(b, l, id) ==
    [e |-> b.e, tree |-> b.tree, ignored |-> b.ignored, is_first |-> l = b.locs[1], id |-> id]

IsBlock(b) ==
    /\ b.locs \in Seq(Range(b.locs)) /\ b.locs # << >> /\ IsInjective(b.locs)
    /\ b.e \in (SUBSET Configs) \ {{}}
    /\ b.tree = [n \in DOMAIN b.tree |-> b.tree[n]]
    /\ WellFormed(b.tree) /\ Mixed(b.tree) = b.e
    /\ b.ignored \in BOOLEAN

AddBlock(res, b, id) ==
    [l \in Range(b.locs) \cup DOMAIN res |-> IF l \in Range(b.locs) THEN Data(b, l, id) ELSE res[l]]

LEMMA EndLine ==
    ASSUME NEW b, IsBlock(b), NEW id, NEW ids, NEW res, b.e \notin ids, Range(b.locs) \cap DOMAIN res = {}
    PROVE  read_line(State(2, b.locs, <<b.e>>, <<Serialize(b.tree)>>, b.ignored, id, ids, res), Rule("="))
               = State(0, << >>, << >>, << >>, FALSE, id + 1, ids \cup {b.e}, AddBlock(res, b, id))
<1> DEFINE text == Serialize(b.tree)
           st == State(2, b.locs, <<b.e>>, <<text>>, b.ignored, id, ids, res)
<1>1. Deserialize(text) = b.tree
  BY DeserializeRight DEF IsBlock
<1> HIDE DEF text
<1>2. /\ st.locs = b.locs /\ st.sexpr = <<b.e>> /\ st.stree = <<text>> /\ st.ignored = b.ignored
      /\ st.cur_id = id /\ st.sexprid = ids /\ st.res = res /\ st.failed = FALSE
  BY DEF State
<1> HIDE DEF st
<1>3. read_line(st, Rule("=")) = end_block(st)
  BY <1>2 DEF read_line, Rule, IsBlock
<1>4. Head(st.sexpr) = b.e /\ Deserialize(Head(st.stree)) = b.tree /\ Head(st.locs) = b.locs[1]
  BY <1>1, <1>2 DEF IsBlock
<1>5. ~ (\/ st.sexpr = << >> \/ st.stree = << >>
         \/ b.e \in st.sexprid \/ Mixed(b.tree) # b.e
         \/ ~IsInjective(st.locs) \/ Range(st.locs) \cap DOMAIN st.res # {})
  BY <1>2 DEF IsBlock
<1>6. end_block(st) =
        [StartReading EXCEPT
            !.cur_id = id + 1, !.sexprid = ids \cup {b.e},
            !.res = [l \in Range(b.locs) \cup DOMAIN res |->
                        IF l \in Range(b.locs)
                        THEN [e |-> b.e, tree |-> b.tree, ignored |-> b.ignored,
                              is_first |-> (l = b.locs[1]), id |-> id]
                        ELSE res[l]]]
  BY <1>2, <1>4, <1>5 DEF end_block
<1>7. end_block(st) = [StartReading EXCEPT !.cur_id = id + 1, !.sexprid = ids \cup {b.e},
                                           !.res = AddBlock(res, b, id)]
  BY <1>6 DEF AddBlock, Data
<1>8. end_block(st) = State(0, << >>, << >>, << >>, FALSE, id + 1, ids \cup {b.e}, AddBlock(res, b, id))
  BY <1>7 DEF StartReading, State
<1> QED
  BY <1>3, <1>8 DEF st, text

(* The lines of a block after the comment that only an ignored class has.  *)
BlockBody(b) ==
    <<Quiet, Quiet, Text(b.locs), Rule("-"), Text(b.e), Rule("-"),
      Text(Serialize(b.tree)), Rule("=")>>

LEMMA ReadBody ==
    ASSUME NEW b, IsBlock(b), NEW id, NEW ids, NEW res,
           b.e \notin ids, Range(b.locs) \cap DOMAIN res = {},
           NEW h, ReadsFrom(h, State(0, << >>, << >>, << >>, b.ignored, id, ids, res), BlockBody(b))
    PROVE  h[8] = State(0, << >>, << >>, << >>, FALSE, id + 1, ids \cup {b.e}, AddBlock(res, b, id))
<1> DEFINE ig == b.ignored
           text == Serialize(b.tree)
           body == BlockBody(b)
<1>1. ig \in BOOLEAN /\ (ig \/ FALSE) = ig /\ b.locs \in Seq(Range(b.locs)) /\ b.locs # << >>
  BY DEF IsBlock
<1>2. /\ Len(body) = 8
      /\ body[1] = Quiet /\ body[2] = Quiet /\ body[3] = Text(b.locs)
      /\ body[4] = Rule("-") /\ body[5] = Text(b.e) /\ body[6] = Rule("-")
      /\ body[7] = Text(text) /\ body[8] = Rule("=")
  BY DEF BlockBody
<1> HIDE DEF body
<1>3. /\ h[0] = State(0, << >>, << >>, << >>, ig, id, ids, res)
      /\ h[1] = read_line(h[0], Quiet) /\ h[2] = read_line(h[1], Quiet)
      /\ h[3] = read_line(h[2], Text(b.locs)) /\ h[4] = read_line(h[3], Rule("-"))
      /\ h[5] = read_line(h[4], Text(b.e)) /\ h[6] = read_line(h[5], Rule("-"))
      /\ h[7] = read_line(h[6], Text(text)) /\ h[8] = read_line(h[7], Rule("="))
  <2>1. ReadsFrom(h, State(0, << >>, << >>, << >>, ig, id, ids, res), body)
    BY DEF body
  <2>2. \A j \in 1 .. 8 : h[j] = read_line(h[j - 1], body[j])
    BY <1>2, <2>1 DEF ReadsFrom
  <2> HIDE DEF text, ig
  <2>3. h[0] = State(0, << >>, << >>, << >>, ig, id, ids, res)
    BY <2>1 DEF ReadsFrom
  <2>4. h[1] = read_line(h[0], body[1]) /\ h[2] = read_line(h[1], body[2])
    BY <2>2
  <2>5. h[3] = read_line(h[2], body[3]) /\ h[4] = read_line(h[3], body[4])
    BY <2>2
  <2>6. h[5] = read_line(h[4], body[5]) /\ h[6] = read_line(h[5], body[6])
    BY <2>2
  <2>7. h[7] = read_line(h[6], body[7]) /\ h[8] = read_line(h[7], body[8])
    BY <2>2
  <2> QED
    BY <1>2, <2>3, <2>4, <2>5, <2>6, <2>7
<1> HIDE DEF text, ig
<1>4. h[1] = State(0, << >>, << >>, << >>, ig, id, ids, res)
  <2>1. read_line(State(0, << >>, << >>, << >>, ig, id, ids, res), Quiet) = State(0, << >>, << >>, << >>, ig, id, ids, res)
    BY <1>1, QuietComment
  <2> QED
    BY <1>3, <2>1
<1>5. h[2] = State(0, << >>, << >>, << >>, ig, id, ids, res)
  <2>1. read_line(State(0, << >>, << >>, << >>, ig, id, ids, res), Quiet) = State(0, << >>, << >>, << >>, ig, id, ids, res)
    BY <1>1, QuietComment
  <2> QED
    BY <1>3, <1>4, <2>1
<1>6. h[3] = State(0, b.locs, << >>, << >>, ig, id, ids, res)
  <2>1. read_line(State(0, << >>, << >>, << >>, ig, id, ids, res), Text(b.locs)) = State(0, b.locs, << >>, << >>, ig, id, ids, res)
    BY <1>1, TextLocs
  <2> QED
    BY <1>3, <1>5, <2>1
<1>7. h[4] = State(1, b.locs, << >>, << >>, ig, id, ids, res)
  <2>1. read_line(State(0, b.locs, << >>, << >>, ig, id, ids, res), Rule("-")) = State(1, b.locs, << >>, << >>, ig, id, ids, res)
    BY <1>1, MinusLines
  <2> QED
    BY <1>3, <1>6, <2>1
<1>8. h[5] = State(1, b.locs, <<b.e>>, << >>, ig, id, ids, res)
  <2>1. read_line(State(1, b.locs, << >>, << >>, ig, id, ids, res), Text(b.e)) = State(1, b.locs, <<b.e>>, << >>, ig, id, ids, res)
    BY <1>1, TextFormula
  <2> QED
    BY <1>3, <1>7, <2>1
<1>9. h[6] = State(2, b.locs, <<b.e>>, << >>, ig, id, ids, res)
  <2>1. read_line(State(1, b.locs, <<b.e>>, << >>, ig, id, ids, res), Rule("-")) = State(2, b.locs, <<b.e>>, << >>, ig, id, ids, res)
    BY <1>1, MinusLines
  <2> QED
    BY <1>3, <1>8, <2>1
<1>10. h[7] = State(2, b.locs, <<b.e>>, <<text>>, ig, id, ids, res)
  <2>1. read_line(State(2, b.locs, <<b.e>>, << >>, ig, id, ids, res), Text(text)) = State(2, b.locs, <<b.e>>, <<text>>, ig, id, ids, res)
    BY <1>1, TextTree
  <2> QED
    BY <1>3, <1>9, <2>1
<1> QED
  BY <1>3, <1>10, EndLine DEF text, ig

(* The reader between two blocks.                                          *)
Between(id, ids, res) == State(0, << >>, << >>, << >>, FALSE, id, ids, res)

LEMMA ReadBlock ==
    ASSUME NEW b, IsBlock(b), NEW id \in Nat, NEW ids, NEW res,
           b.e \notin ids, Range(b.locs) \cap DOMAIN res = {},
           NEW S, NEW s \in Seq(S), BlockBody(b) \in Seq(S), Marked \in S,
           read_file(s) = Between(id, ids, res)
    PROVE  /\ s \o BlockLines(b) \in Seq(S)
           /\ read_file(s \o BlockLines(b))
                 = Between(id + 1, ids \cup {b.e}, AddBlock(res, b, id))
<1> USE DEF Between
<1> DEFINE body == BlockBody(b)
           mark == <<Marked>>
           Rest(t) == read_file(t \o body)
                         = State(0, << >>, << >>, << >>, FALSE, id + 1, ids \cup {b.e}, AddBlock(res, b, id))
<1>1. b.ignored \in BOOLEAN
  BY DEF IsBlock
<1>2. body \in Seq(S) /\ mark \in Seq(S) /\ Len(body) = 8
  <2>1. mark \in Seq(S) /\ body \in Seq(S)
    OBVIOUS
  <2>2. Len(body) = 8
    BY DEF BlockBody
  <2> QED
    BY <2>1, <2>2
<1>3. BlockLines(b) = (IF b.ignored THEN mark ELSE << >>) \o body
  BY DEF BlockLines, BlockBody, Quiet, Marked
<1>4. ASSUME NEW t \in Seq(S),
             read_file(t) = State(0, << >>, << >>, << >>, b.ignored, id, ids, res)
      PROVE  Rest(t)
  <2>1. PICK h : ReadsFrom(h, read_file(t), body) /\ read_file(t \o body) = h[Len(body)]
    <3> HIDE DEF body
    <3> QED
      BY <1>2, ReadConcat
  <2>2. ReadsFrom(h, State(0, << >>, << >>, << >>, b.ignored, id, ids, res), BlockBody(b))
    BY <1>4, <2>1
  <2>3. h[8] = State(0, << >>, << >>, << >>, FALSE, id + 1, ids \cup {b.e}, AddBlock(res, b, id))
    BY <2>2, ReadBody
  <2> QED
    BY <1>2, <2>1, <2>3
<1> HIDE DEF body
<1>5. CASE ~b.ignored
  <2>1. b.ignored = FALSE /\ BlockLines(b) = body
    BY <1>1, <1>2, <1>3, <1>5
  <2>2. read_file(s) = State(0, << >>, << >>, << >>, b.ignored, id, ids, res)
    BY <2>1
  <2>3. Rest(s)
    <3> HIDE DEF Rest
    <3> QED
      BY <1>4, <2>2
  <2> QED
    BY <1>2, <2>1, <2>3
<1>6. CASE b.ignored
  <2>1. b.ignored = TRUE /\ BlockLines(b) = mark \o body
    BY <1>1, <1>3, <1>6
  <2>2. PICK h : ReadsFrom(h, read_file(s), mark) /\ read_file(s \o mark) = h[Len(mark)]
    <3> HIDE DEF mark
    <3> QED
      BY <1>2, ReadConcat
  <2>3. h[0] = read_file(s) /\ h[1] = read_line(h[0], Marked) /\ Len(mark) = 1
    <3>1. Len(mark) = 1 /\ mark[1] = Marked /\ 1 - 1 = 0
      OBVIOUS
    <3> HIDE DEF mark
    <3>2. h[1] = read_line(h[1 - 1], mark[1])
      BY <2>2, <3>1 DEF ReadsFrom
    <3> QED
      BY <2>2, <3>1, <3>2 DEF ReadsFrom
  <2>4. h[1] = State(0, << >>, << >>, << >>, TRUE, id, ids, res)
    <3>1. (FALSE \/ TRUE) = TRUE /\ FALSE \in BOOLEAN /\ TRUE \in BOOLEAN
      OBVIOUS
    <3> HIDE DEF mark
    <3> QED
      BY <2>3, <3>1, MarkComment
  <2> HIDE DEF mark
  <2>5. s \o mark \in Seq(S)
    BY <1>2
  <2>6. Rest(s \o mark)
    BY <1>4, <2>1, <2>2, <2>3, <2>4, <2>5
  <2>7. (s \o mark) \o body = s \o (mark \o body)
    BY <1>2, ConcatAssociative
  <2>8. (s \o mark) \o body \in Seq(S)
    BY <1>2, <2>5
  <2> QED
    BY <2>1, <2>6, <2>7, <2>8
<1> QED
  BY <1>5, <1>6

(* What the reader holds after i blocks.                                   *)
Holding(res, answer, i) ==
    /\ DOMAIN res = UNION {Range(answer[j].locs) : j \in 1 .. i}
    /\ \A j \in 1 .. i : \A l \in Range(answer[j].locs) : res[l] = Data(answer[j], l, j - 1)

LEMMA HoldMore ==
    ASSUME NEW answer, IsAnswer(answer), NEW i \in Nat, i + 1 \in 1 .. Len(answer),
           NEW res, Holding(res, answer, i)
    PROVE  /\ Range(answer[i + 1].locs) \cap DOMAIN res = {}
           /\ Holding(AddBlock(res, answer[i + 1], i), answer, i + 1)
<1> DEFINE b == answer[i + 1]
           Locs(j) == Range(answer[j].locs)
           new == AddBlock(res, b, i)
<1>1. Len(answer) \in Nat /\ DOMAIN answer = 1 .. Len(answer)
  BY DEF IsAnswer
<1>2. \A j \in 1 .. i : j \in DOMAIN answer /\ i + 1 \in DOMAIN answer /\ j # i + 1
  BY <1>1
<1>3. \A j \in 1 .. i : Locs(j) \cap Locs(i + 1) = {}
  BY <1>2 DEF IsAnswer
<1>4. 1 .. i + 1 = (1 .. i) \cup {i + 1} /\ (i + 1) - 1 = i
  OBVIOUS
<1>5. DOMAIN res = UNION {Locs(j) : j \in 1 .. i}
  BY DEF Holding
<1> HIDE DEF Locs
<1>6. Locs(i + 1) \cap DOMAIN res = {}
  BY <1>3, <1>5
<1>7. /\ DOMAIN new = Locs(i + 1) \cup DOMAIN res
      /\ \A l \in Locs(i + 1) : new[l] = Data(b, l, i)
      /\ \A l \in DOMAIN res : new[l] = res[l]
  BY <1>6 DEF AddBlock, Locs
<1> HIDE DEF new
<1>8. DOMAIN new = UNION {Locs(j) : j \in 1 .. i + 1}
  BY <1>4, <1>5, <1>7
<1>9. ASSUME NEW j \in 1 .. i + 1, NEW l \in Locs(j) PROVE new[l] = Data(answer[j], l, j - 1)
  <2>1. CASE j = i + 1
    BY <1>4, <1>7, <2>1
  <2>2. CASE j # i + 1
    <3>1. j \in 1 .. i
      BY <1>4, <2>2
    <3>2. l \in DOMAIN res
      BY <1>5, <3>1
    <3>3. res[l] = Data(answer[j], l, j - 1)
      BY <3>1 DEF Holding, Locs
    <3> QED
      BY <1>7, <3>2, <3>3
  <2> QED
    BY <2>1, <2>2
<1> QED
  BY <1>6, <1>8, <1>9 DEF Holding, Locs, new

Header == <<Quiet, Quiet, Quiet, Rule("=")>>

LEMMA ReadHeader == read_file(Header) = Between(0, {}, none)
<1>1. Len(Header) = 4 /\ Header[1] = Quiet /\ Header[2] = Quiet /\ Header[3] = Quiet /\ Header[4] = Rule("=")
  BY DEF Header
<1> USE DEF Between
<1> DEFINE st == Between(0, {}, none)
<1>2. PICK f : Reading(f, Header, 4) /\ read_file(Header) = f[4]
  <2>1. Len(Header) \in Nat
    BY <1>1
  <2>2. PICK g : Reading(g, Header, Len(Header)) /\ read_file(Header) = g[Len(Header)]
    BY <2>1, ReadingFunction
  <2> QED
    BY <1>1, <2>2
<1>3. /\ f[0] = StartReading
      /\ f[1] = read_line(f[0], Quiet) /\ f[2] = read_line(f[1], Quiet) /\ f[3] = read_line(f[2], Quiet)
      /\ f[4] = read_line(f[3], Rule("="))
  <2>1. \A k \in 1 .. 4 : f[k] = read_line(f[k - 1], Header[k])
    BY <1>2 DEF Reading
  <2>2. f[1] = read_line(f[0], Header[1]) /\ f[2] = read_line(f[1], Header[2])
    BY <2>1
  <2>3. f[3] = read_line(f[2], Header[3]) /\ f[4] = read_line(f[3], Header[4])
    BY <2>1
  <2> QED
    BY <1>1, <1>2, <2>2, <2>3 DEF Reading
<1>4. StartReading = st
  BY DEF StartReading, State, none
<1>5. read_line(st, Quiet) = st
  BY QuietComment
<1>6. read_line(st, Rule("=")) = st
  <2>1. st.failed = FALSE /\ st.locs = << >>
    BY DEF State
  <2> HIDE DEF st
  <2> QED
    BY <2>1 DEF read_line, Rule
<1> HIDE DEF st
<1> QED
  BY <1>2, <1>3, <1>4, <1>5, <1>6 DEF st

(* Every file finish_alg writes is read without a failing CHECK, and every *)
(* location gets the data of its block.                                    *)
LEMMA ReadWritten ==
    ASSUME NEW answer, IsAnswer(answer)
    PROVE  /\ ~read_file(Written(answer)).failed
           /\ Holding(read_file(Written(answer)).res, answer, Len(answer))
<1> DEFINE N == Len(answer)
           B(i) == BlockLines(answer[i])
           blocks == [i \in DOMAIN answer |-> B(i)]
           seqs == <<Header>> \o blocks
           S == {Quiet, Marked, Rule("-"), Rule("=")}
                   \cup {Text(answer[i].locs) : i \in DOMAIN answer}
                   \cup {Text(answer[i].e) : i \in DOMAIN answer}
                   \cup {Text(Serialize(answer[i].tree)) : i \in DOMAIN answer}
           E(i) == {answer[j].e : j \in 1 .. i}
           Sofar(lines, i) ==
              /\ lines \in Seq(S)
              /\ \E res : /\ read_file(lines) = Between(i, E(i), res)
                         /\ Holding(res, answer, i)
<1>1. N \in Nat /\ DOMAIN answer = 1 .. N /\ \A i \in 1 .. N : IsBlock(answer[i])
  BY DEF IsAnswer, IsBlock
<1>2. \A i \in 1 .. N : BlockBody(answer[i]) \in Seq(S)
  <2> TAKE i \in 1 .. N
  <2> DEFINE b == answer[i]
             text == Text(Serialize(b.tree))
  <2>1. /\ Quiet \in S /\ Rule("-") \in S /\ Rule("=") \in S
        /\ Text(b.locs) \in S /\ Text(b.e) \in S /\ text \in S
    BY <1>1
  <2>2. BlockBody(b) = <<Quiet, Quiet, Text(b.locs), Rule("-"), Text(b.e), Rule("-"), text, Rule("=")>>
    BY DEF BlockBody
  <2> HIDE DEF S, text, b
  <2> QED
    BY <2>1, <2>2 DEF b
<1>3. Marked \in S /\ Header \in Seq(S)
  <2>1. Quiet \in S /\ Rule("=") \in S /\ Marked \in S
    OBVIOUS
  <2> HIDE DEF S
  <2> QED
    BY <2>1 DEF Header
<1> HIDE DEF S
<1>4. \A i \in 1 .. N : B(i) \in Seq(S)
  <2> TAKE i \in 1 .. N
  <2> DEFINE body == BlockBody(answer[i])
             mark == <<Marked>>
  <2>1. B(i) = (IF answer[i].ignored THEN mark ELSE << >>) \o body
    BY DEF BlockLines, BlockBody, Quiet, Marked
  <2>2. mark \in Seq(S) /\ << >> \in Seq(S) /\ body \in Seq(S)
    BY <1>2, <1>3
  <2> HIDE DEF body, mark, B
  <2> QED
    BY <2>1, <2>2
<1> HIDE DEF B
<1>5. /\ seqs \in Seq(Seq(S)) /\ Len(seqs) = N + 1 /\ seqs[1] = Header
      /\ \A i \in 1 .. N : seqs[i + 1] = B(i)
  <2>1. blocks \in Seq(Seq(S)) /\ Len(blocks) = N /\ <<Header>> \in Seq(Seq(S)) /\ Len(<<Header>>) = 1
    BY <1>1, <1>3, <1>4
  <2>2. \A i \in 1 .. N : blocks[i] = B(i)
    BY <1>1
  <2> HIDE DEF blocks
  <2> QED
    BY <1>1, <2>1, <2>2
<1>6. Written(answer) = FlattenSeq(seqs)
  BY DEF Written, Header, Quiet, B
<1> HIDE DEF seqs
<1>7. PICK f : /\ f[1] = Header /\ Written(answer) = f[N + 1]
               /\ \A i \in 2 .. N + 1 : f[i] = f[i - 1] \o seqs[i]
  <2>1. Len(seqs) # 0
    BY <1>1, <1>5
  <2>2. PICK g : /\ g[1] = seqs[1] /\ FlattenSeq(seqs) = g[Len(seqs)]
                 /\ \A i \in 2 .. Len(seqs) : g[i] = g[i - 1] \o seqs[i]
    <3> HIDE DEF N
    <3> QED
      BY <1>5, <2>1, FlattenFunction
  <2> QED
    BY <1>5, <1>6, <2>2
<1>8. \A i \in 1 .. N : f[i + 1] = f[i] \o B(i)
  <2> TAKE i \in 1 .. N
  <2>1. i + 1 \in 2 .. N + 1 /\ (i + 1) - 1 = i
    BY <1>1
  <2> QED
    BY <1>5, <1>7, <2>1
<1> DEFINE Good == {i \in 0 .. N : Sofar(f[i + 1], i)}
<1>9. 0 \in Good
  <2>1. E(0) = {} /\ 1 .. 0 = {} /\ 0 + 1 = 1
    OBVIOUS
  <2>2. Holding(none, answer, 0)
    BY <2>1 DEF Holding, none
  <2> HIDE DEF E
  <2>3. Sofar(Header, 0)
    BY <1>3, <2>1, <2>2, ReadHeader
  <2> HIDE DEF Sofar
  <2> QED
    BY <1>1, <1>7, <2>1, <2>3
<1>10. ASSUME NEW i \in 0 .. N - 1, i \in Good PROVE i + 1 \in Good
  <2> DEFINE b == answer[i + 1]
             lines == f[i + 1]
  <2>1. i \in Nat /\ i + 1 \in 1 .. N /\ i + 1 \in 0 .. N
    BY <1>1
  <2>2. PICK res : /\ read_file(lines) = Between(i, E(i), res)
                   /\ Holding(res, answer, i)
    BY <1>10
  <2>3. lines \in Seq(S)
    BY <1>10
  <2>4. Range(b.locs) \cap DOMAIN res = {} /\ Holding(AddBlock(res, b, i), answer, i + 1)
    BY <2>1, <2>2, HoldMore
  <2>5. b.e \notin E(i) /\ E(i) \cup {b.e} = E(i + 1)
    <3>1. \A j \in 1 .. i : j \in DOMAIN answer /\ i + 1 \in DOMAIN answer /\ j # i + 1
      BY <1>1, <2>1
    <3>2. \A j \in 1 .. i : answer[j].e # b.e
      BY <3>1 DEF IsAnswer
    <3>3. 1 .. i + 1 = (1 .. i) \cup {i + 1}
      BY <2>1
    <3> QED
      BY <3>2, <3>3
  <2>6. IsBlock(b) /\ BlockBody(b) \in Seq(S)
    BY <1>1, <1>2, <2>1
  <2> HIDE DEF b, lines, E
  <2>7. /\ lines \o BlockLines(b) \in Seq(S)
        /\ read_file(lines \o BlockLines(b))
              = Between(i + 1, E(i) \cup {b.e}, AddBlock(res, b, i))
    <3>1. PICK ids : ids = E(i)
      OBVIOUS
    <3>2. IsBlock(b) /\ b.e \notin ids /\ Range(b.locs) \cap DOMAIN res = {}
      BY <2>4, <2>5, <2>6, <3>1
    <3>3. Marked \in S /\ lines \in Seq(S) /\ BlockBody(b) \in Seq(S)
      BY <1>3, <2>3, <2>6
    <3>4. read_file(lines) = Between(i, ids, res)
      BY <2>2, <3>1
    <3> HIDE DEF S
    <3>5. lines \o BlockLines(b) \in Seq(S)
      <4>1. BlockLines(b) \in Seq(S)
        BY <1>4, <2>1 DEF b, B
      <4> QED
        BY <3>3, <4>1
    <3>6. read_file(lines \o BlockLines(b))
              = Between(i + 1, ids \cup {b.e}, AddBlock(res, b, i))
      BY <2>1, <3>2, <3>3, <3>4, ReadBlock
    <3> QED
      BY <3>1, <3>5, <3>6
  <2>8. f[(i + 1) + 1] = lines \o BlockLines(b)
    BY <1>8, <2>1 DEF lines, b, B
  <2>9. Sofar(f[(i + 1) + 1], i + 1)
    BY <2>4, <2>5, <2>7, <2>8
  <2> HIDE DEF Sofar
  <2> QED
    BY <2>1, <2>9
<1> HIDE DEF Sofar
<1>11. Sofar(f[N + 1], N)
  <2>1. N \in 0 .. N
    BY <1>1
  <2>2. \A k \in 0 .. N : k \in Good
    <3> HIDE DEF Good, N
    <3> QED
      BY <1>1, <1>9, <1>10, Induction
  <2> QED
    BY <2>1, <2>2
<1>12. PICK res : /\ read_file(Written(answer)) = Between(N, E(N), res)
                  /\ Holding(res, answer, N)
  BY <1>7, <1>11 DEF Sofar
<1>13. Between(N, E(N), res).failed = FALSE
  BY DEF State, Between
<1>14. Between(N, E(N), res).res = res
  BY DEF State, Between
<1> HIDE DEF E, N
<1> QED
  BY <1>12, <1>13, <1>14 DEF N

(* The runs of the analyzer begin with answers as finish_alg writes them.  *)
Inputs ==
    /\ alg_version \in {0, 1, 4}
    /\ IsAnswer(written[1])
    /\ alg_version = 0 => DOMAIN written = {1, 2} /\ IsAnswer(written[2])
    /\ alg_version # 0 => DOMAIN written = {1}

RInv == Inputs /\ AnswerReadBack

LEMMA HoldingHolds ==
    ASSUME NEW answer, IsAnswer(answer), NEW m, Holding(m, answer, Len(answer))
    PROVE  Holds(m, answer)
<1>1. DOMAIN answer = 1 .. Len(answer)
  BY DEF IsAnswer
<1>2. \A i \in DOMAIN answer : \A l \in Range(answer[i].locs) : m[l] = Data(answer[i], l, i - 1)
  BY <1>1 DEF Holding
<1>3. DOMAIN m = UNION {Range(answer[i].locs) : i \in DOMAIN answer}
  BY <1>1 DEF Holding
<1> QED
  BY <1>2, <1>3 DEF Holds, Data

LEMMA InitRead == Init => RInv
<1> SUFFICES ASSUME Init PROVE RInv
  OBVIOUS
<1>1. read = "no" /\ alg_version \in {0, 1, 4}
  BY DEF Init
<1>2. CASE alg_version = 0
  <2>1. PICK a \in Answers, b \in Answers : written = <<a, b>>
    BY <1>2 DEF Init
  <2>2. DOMAIN written = {1, 2} /\ written[1] = a /\ written[2] = b
    BY <2>1
  <2> QED
    BY <1>1, <1>2, <2>2, AnswersAssumption DEF RInv, Inputs, AnswerReadBack
<1>3. CASE alg_version # 0
  <2>1. PICK a \in Answers : written = <<a>>
    BY <1>3 DEF Init
  <2>2. DOMAIN written = {1} /\ written[1] = a
    BY <2>1
  <2> QED
    BY <1>1, <1>3, <2>2, AnswersAssumption DEF RInv, Inputs, AnswerReadBack
<1> QED
  BY <1>2, <1>3

LEMMA NextRead == RInv /\ [Next]_vars => RInv'
<1> SUFFICES ASSUME RInv, [Next]_vars PROVE RInv'
  OBVIOUS
<1>1. CASE read_inputs
  <2> DEFINE results == [k \in DOMAIN written |-> read_file(Written(written[k]))]
  <2>1. /\ ma' = results[1].res
        /\ mb' = IF alg_version = 0 THEN results[2].res ELSE none
        /\ read' = IF \E k \in DOMAIN written : results[k].failed THEN "failed" ELSE "yes"
        /\ alg_version' = alg_version /\ written' = written
    BY <1>1 DEF read_inputs
  <2>2. 1 \in DOMAIN written /\ (alg_version = 0 => 2 \in DOMAIN written)
        /\ \A k \in DOMAIN written : IsAnswer(written[k])
    BY DEF RInv, Inputs
  <2>3. \A k \in DOMAIN written :
           ~results[k].failed /\ Holds(results[k].res, written[k])
    <3> TAKE k \in DOMAIN written
    <3>1. results[k] = read_file(Written(written[k]))
      OBVIOUS
    <3> HIDE DEF results
    <3> QED
      BY <2>2, <3>1, ReadWritten, HoldingHolds
  <2> HIDE DEF results
  <2>4. read' = "yes" /\ Holds(ma', written'[1]) /\ (alg_version' = 0 => Holds(mb', written'[2]))
    BY <2>1, <2>2, <2>3
  <2> QED
    BY <2>1, <2>4 DEF RInv, Inputs, AnswerReadBack
<1>2. CASE UNCHANGED <<alg_version, written, read, ma, mb>>
  BY <1>2 DEF RInv, Inputs, AnswerReadBack, Holds
<1> QED
  BY <1>1, <1>2 DEF Next, run_alg, vars

(* What is read is what was written, for every answer finish_alg writes:   *)
(* no CHECK of read_file fails and every location gets the formula, the    *)
(* tree, the class and the mark of its block.                              *)
THEOREM ReadBack == Spec => []AnswerReadBack
<1>1. Spec => []RInv
  BY InitRead, NextRead, PTL DEF Spec
<1>2. RInv => AnswerReadBack
  BY DEF RInv
<1> QED
  BY <1>1, <1>2, PTL

------------------------------------------------------------------------------
(* The product of the numbers of values of the options a model leaves open *)
(* is the number of configurations it stands for.                          *)

(* The settings of the options in s.                                       *)
Box(s) == {c \in [s -> AnyValue] : \A v \in s : c[v] \in Values(v)}

LEMMA ValuesSize ==
    ASSUME NEW v \in Vars
    PROVE  IsFiniteSet(Values(v)) /\ Cardinality(Values(v)) = NValues[v] /\ NValues[v] \in Nat
<1>1. NValues[v] \in Nat \ {0}
  BY OptionsAssumption
<1>2. 0 \in Int /\ NValues[v] - 1 \in Int /\ ~(0 > NValues[v] - 1) /\ (NValues[v] - 1) - 0 + 1 = NValues[v]
  BY <1>1
<1> QED
  BY <1>1, <1>2, FS_Interval DEF Values

LEMMA EmptyBox == IsFiniteSet(Box({})) /\ Cardinality(Box({})) = 1
<1> DEFINE c == [v \in {} |-> Unset]
<1>1. Box({}) = {c}
  BY DEF Box
<1> HIDE DEF c
<1> QED
  BY <1>1, FS_Singleton

LEMMA BoxGrows ==
    ASSUME NEW s \in SUBSET Vars, NEW x \in s, IsFiniteSet(Box(s \ {x}))
    PROVE  IsFiniteSet(Box(s)) /\ Cardinality(Box(s)) = NValues[x] * Cardinality(Box(s \ {x}))
<1> DEFINE r == s \ {x}
           P == Values(x) \X Box(r)
           f == [p \in P |-> [v \in s |-> IF v = x THEN p[1] ELSE p[2][v]]]
<1>1. IsFiniteSet(P) /\ Cardinality(P) = NValues[x] * Cardinality(Box(r))
  BY ValuesSize, FS_Product
<1>2. Values(x) \subseteq AnyValue
  BY DEF AnyValue
<1>3. ASSUME NEW i \in Values(x), NEW c \in Box(r)
      PROVE  /\ f[<<i, c>>] \in Box(s) /\ f[<<i, c>>][x] = i
             /\ \A v \in r : f[<<i, c>>][v] = c[v]
  <2> DEFINE g == [v \in s |-> IF v = x THEN i ELSE c[v]]
  <2>1. f[<<i, c>>] = g
    OBVIOUS
  <2>2. g[x] = i /\ \A v \in r : g[v] = c[v]
    OBVIOUS
  <2>3. g \in Box(s)
    BY <1>2 DEF Box
  <2> HIDE DEF f, g
  <2> QED
    BY <2>1, <2>2, <2>3
<1>4. DOMAIN f = P
  OBVIOUS
<1>5. f \in [P -> Box(s)]
  <2>1. \A p \in P : f[p] \in Box(s)
    <3> TAKE p \in P
    <3>1. p = <<p[1], p[2]>> /\ p[1] \in Values(x) /\ p[2] \in Box(r)
      OBVIOUS
    <3> HIDE DEF f
    <3> QED
      BY <1>3, <3>1
  <2> QED
    BY <2>1
<1>6. ASSUME NEW p \in P, NEW q \in P, f[p] = f[q] PROVE p = q
  <2>1. /\ p = <<p[1], p[2]>> /\ p[1] \in Values(x) /\ p[2] \in Box(r)
        /\ q = <<q[1], q[2]>> /\ q[1] \in Values(x) /\ q[2] \in Box(r)
    OBVIOUS
  <2> HIDE DEF f, P
  <2>2. p[1] = q[1] /\ \A v \in r : p[2][v] = q[2][v]
    BY <1>3, <1>6, <2>1
  <2>3. p[2] = q[2]
    BY <2>1, <2>2 DEF Box
  <2> QED
    BY <2>1, <2>2, <2>3
<1>7. ASSUME NEW c \in Box(s) PROVE \E p \in P : f[p] = c
  <2> DEFINE d == [v \in r |-> c[v]]
  <2>1. c[x] \in Values(x) /\ d \in Box(r)
    BY DEF Box
  <2>2. \A v \in r : d[v] = c[v]
    OBVIOUS
  <2> HIDE DEF d
  <2>3. <<c[x], d>> \in P
    BY <2>1
  <2>4. f[<<c[x], d>>] = c
    <3> DEFINE g == f[<<c[x], d>>]
    <3>1. g \in Box(s) /\ g[x] = c[x] /\ \A v \in r : g[v] = c[v]
      BY <1>3, <2>1, <2>2
    <3> HIDE DEF g
    <3>2. g = c
      BY <3>1 DEF Box
    <3> QED
      BY <3>2 DEF g
  <2> QED
    BY <2>3, <2>4
<1> HIDE DEF f, P
<1>8. f \in Bijection(P, Box(s))
  BY <1>5, <1>6, <1>7 DEF Bijection, Injection, Surjection, IsInjective
<1> QED
  BY <1>1, <1>8, FS_Bijection DEF ExistsBijection

LEMMA VarsFinite == IsFiniteSet(Vars) /\ Cardinality(Vars) \in Nat
<1>1. 0 \in Int /\ NumVars - 1 \in Int
  BY OptionsAssumption
<1>2. IsFiniteSet(Vars)
  BY <1>1, FS_Interval DEF Vars
<1> QED
  BY <1>2, FS_CardinalityType

LEMMA BoxFinite ==
    ASSUME NEW s \in SUBSET Vars
    PROVE  IsFiniteSet(Box(s))
<1> DEFINE f == [c \in Configs |-> [v \in s |-> c[v]]]
<1>1. f \in [Configs -> Box(s)]
  BY DEF Configs, Box
<1>2. IsFiniteSet({f[c] : c \in Configs})
  <2> HIDE DEF f
  <2> QED
    BY <1>1, ConfigsFinite, ImageFinite
<1>3. ASSUME NEW b \in Box(s) PROVE \E c \in Configs : f[c] = b
  <2> DEFINE c == [v \in Vars |-> IF v \in s THEN b[v] ELSE 0]
  <2>1. \A v \in Vars : 0 \in Values(v)
    BY OptionsAssumption DEF Values
  <2>2. \A v \in Vars : c[v] \in Values(v) /\ (v \in s => c[v] = b[v])
    BY <2>1 DEF Box
  <2>3. c \in [Vars -> AnyValue]
    BY <2>2 DEF AnyValue
  <2>4. c \in Configs
    BY <2>2, <2>3 DEF Configs
  <2> HIDE DEF c
  <2>5. f[c] = [v \in s |-> c[v]]
    BY <2>4
  <2>6. [v \in s |-> c[v]] = b
    BY <2>2 DEF Box
  <2> QED
    BY <2>4, <2>5, <2>6
<1> HIDE DEF f
<1>4. Box(s) \subseteq {f[c] : c \in Configs}
  BY <1>3
<1> QED
  BY <1>2, <1>4, FS_Subset

Picked(s) == CHOOSE x \in s : TRUE

(* What FoldFunctionOnSet computes with.                                   *)
Folds(g, S) == g = [s \in SUBSET S |-> IF s = {} THEN 1 ELSE NValues[Picked(s)] * g[s \ {Picked(s)}]]

LEMMA FoldIsBox ==
    ASSUME NEW S \in SUBSET Vars, NEW g, Folds(g, S)
    PROVE  g[S] = Cardinality(Box(S))
<1>1. IsFiniteSet(S)
  BY VarsFinite, FS_Subset
<1>2. \A s \in SUBSET S : IsFiniteSet(s) /\ Cardinality(s) \in Nat
  BY <1>1, FS_Subset, FS_CardinalityType
<1> DEFINE Good == {k \in 0 .. Cardinality(S) :
                       \A s \in SUBSET S : Cardinality(s) = k => g[s] = Cardinality(Box(s))}
<1>3. 0 \in Good
  <2>1. g[{}] = 1
    BY DEF Folds
  <2>2. \A s \in SUBSET S : Cardinality(s) = 0 => s = {}
    BY <1>2, FS_EmptySet
  <2>3. 0 \in 0 .. Cardinality(S)
    BY <1>2
  <2> QED
    BY <2>1, <2>2, <2>3, EmptyBox
<1>4. ASSUME NEW k \in 0 .. Cardinality(S) - 1, k \in Good PROVE k + 1 \in Good
  <2>1. ASSUME NEW s \in SUBSET S, Cardinality(s) = k + 1 PROVE g[s] = Cardinality(Box(s))
    <3>1. s # {}
      BY <2>1, FS_EmptySet
    <3>2. Picked(s) \in s
      BY <3>1 DEF Picked
    <3> DEFINE x == Picked(s)
    <3>3. g[s] = NValues[x] * g[s \ {x}]
      BY <3>1 DEF Folds
    <3> HIDE DEF x
    <3>4. s \ {x} \in SUBSET S /\ Cardinality(s \ {x}) = k
      <4>1. Cardinality(s \ {x}) = Cardinality(s) - 1
        BY <1>2, <3>2, FS_RemoveElement DEF x
      <4> QED
        BY <2>1, <4>1
    <3>5. g[s \ {x}] = Cardinality(Box(s \ {x}))
      BY <1>4, <3>4
    <3>6. Cardinality(Box(s)) = NValues[x] * Cardinality(Box(s \ {x}))
      <4>1. s \in SUBSET Vars /\ s \ {x} \in SUBSET Vars /\ x \in s
        BY <3>2 DEF x
      <4> QED
        BY <4>1, BoxFinite, BoxGrows
    <3> QED
      BY <3>3, <3>5, <3>6
  <2>2. k + 1 \in 0 .. Cardinality(S)
    BY <1>2
  <2> QED
    BY <2>1, <2>2
<1> HIDE DEF Good
<1>5. \A k \in 0 .. Cardinality(S) : k \in Good
  <2>1. Cardinality(S) \in Nat
    BY <1>2
  <2> QED
    BY <1>3, <1>4, <2>1, Induction
<1>6. Cardinality(S) \in Good
  BY <1>2, <1>5
<1> QED
  BY <1>6 DEF Good

LEMMA FoldExists ==
    ASSUME NEW S \in SUBSET Vars
    PROVE  \E g : Folds(g, S)
<1> DEFINE g == [s \in SUBSET S |-> Cardinality(Box(s))]
<1>1. ASSUME NEW s \in SUBSET S
      PROVE  g[s] = IF s = {} THEN 1 ELSE NValues[Picked(s)] * g[s \ {Picked(s)}]
  <2>1. CASE s = {}
    BY <2>1, EmptyBox
  <2>2. CASE s # {}
    <3>1. Picked(s) \in s
      BY <2>2 DEF Picked
    <3>2. Cardinality(Box(s)) = NValues[Picked(s)] * Cardinality(Box(s \ {Picked(s)}))
      <4>1. s \in SUBSET Vars /\ s \ {Picked(s)} \in SUBSET Vars
        OBVIOUS
      <4> QED
        BY <3>1, <4>1, BoxFinite, BoxGrows
    <3>3. g[s] = Cardinality(Box(s)) /\ g[s \ {Picked(s)}] = Cardinality(Box(s \ {Picked(s)}))
      OBVIOUS
    <3> HIDE DEF g
    <3> QED
      BY <2>2, <3>2, <3>3
  <2> QED
    BY <2>1, <2>2
<1>2. g = [s \in SUBSET S |-> g[s]]
  OBVIOUS
<1> HIDE DEF g
<1>3. Folds(g, S)
  BY <1>1, <1>2 DEF Folds
<1> QED
  BY <1>3

LEMMA CexIsBox ==
    ASSUME NEW t
    PROVE  this_cex(t) = Cardinality(Box(Free(t)))
<1> DEFINE S == Free(t)
           g == CHOOSE h : Folds(h, S)
<1>1. S \in SUBSET Vars
  BY DEF Free
<1>2. this_cex(t) = g[S]
  BY DEF this_cex, FoldFunctionOnSet, MapThenFoldSet, Folds, Picked
<1>3. Folds(g, S)
  <2> HIDE DEF S
  <2> QED
    BY <1>1, FoldExists
<1> HIDE DEF g, S
<1>4. g[S] = Cardinality(Box(S))
  BY <1>1, <1>3, FoldIsBox
<1> QED
  BY <1>2, <1>4 DEF S

(* A model stands for as many configurations as this_cex says.             *)
LEMMA CubeSize ==
    ASSUME NEW t \in Templates
    PROVE  IsFiniteSet(Cube(t)) /\ Cardinality(Cube(t)) = this_cex(t)
<1> DEFINE F == Free(t)
           f == [c \in Cube(t) |-> [v \in F |-> c[v]]]
<1>1. F \in SUBSET Vars /\ \A v \in Vars \ F : t[v] \in Values(v) /\ t[v] # Unset
  BY DEF Free, Templates
<1>2. \A c \in Cube(t) : c \in Configs /\ (\A v \in Vars \ F : c[v] = t[v]) /\ f[c] = [v \in F |-> c[v]]
  BY DEF Cube, Matches, Free
<1>3. f \in [Cube(t) -> Box(F)]
  <2>1. \A c \in Cube(t) : [v \in F |-> c[v]] \in Box(F)
    BY <1>1, <1>2 DEF Box, Configs
  <2> QED
    BY <2>1
<1> HIDE DEF f
<1>4. ASSUME NEW c \in Cube(t), NEW d \in Cube(t), f[c] = f[d] PROVE c = d
  <2>1. \A v \in F : c[v] = d[v]
    <3>1. f[c] = [v \in F |-> c[v]]
      BY <1>2
    <3>2. f[d] = [v \in F |-> d[v]]
      BY <1>2
    <3> HIDE DEF F
    <3>3. \A v \in F : f[c][v] = c[v]
      BY <3>1
    <3>4. \A v \in F : f[d][v] = d[v]
      BY <3>2
    <3> QED
      BY <1>4, <3>3, <3>4
  <2>2. \A v \in Vars : c[v] = d[v]
    BY <1>2, <2>1
  <2> QED
    BY <1>2, <2>2, ConfigsEqual
<1>5. ASSUME NEW b \in Box(F) PROVE \E c \in Cube(t) : f[c] = b
  <2> DEFINE c == [v \in Vars |-> IF v \in F THEN b[v] ELSE t[v]]
  <2>1. \A v \in F : b[v] \in Values(v) /\ t[v] = Unset
    BY DEF Box, Free
  <2>2. \A v \in Vars : /\ c[v] \in Values(v) /\ t[v] \in {c[v], Unset}
                         /\ (v \in F => c[v] = b[v])
    BY <1>1, <2>1
  <2>3. c \in [Vars -> AnyValue]
    BY <2>2 DEF AnyValue
  <2>4. c \in Cube(t)
    BY <2>2, <2>3 DEF Cube, Configs, Matches
  <2>5. [v \in F |-> c[v]] = b
    BY <1>1, <2>2 DEF Box
  <2> HIDE DEF c
  <2> QED
    BY <1>2, <2>4, <2>5
<1>6. f \in Injection(Cube(t), Box(F)) /\ f \in Surjection(Cube(t), Box(F))
  BY <1>3, <1>4, <1>5 DEF Injection, Surjection, IsInjective
<1>7. IsFiniteSet(Box(F))
  BY <1>1, BoxFinite
<1>8. IsFiniteSet(Cube(t)) /\ Cardinality(Cube(t)) = Cardinality(Box(F))
  BY <1>6, <1>7, FS_Injection
<1> QED
  BY <1>8, CexIsBox DEF F

------------------------------------------------------------------------------
(* What an answer that was read is known to be.                            *)
Known(m) ==
    /\ IsFiniteSet(DOMAIN m)
    /\ \A l \in DOMAIN m : /\ m[l].e \in (SUBSET Configs) \ {{}}
                           /\ WellFormed(m[l].tree) /\ Mixed(m[l].tree) = m[l].e
                           /\ m[l].ignored \in BOOLEAN

LEMMA HeldIsKnown ==
    ASSUME NEW answer, IsAnswer(answer), NEW m, Holds(m, answer)
    PROVE  Known(m)
<1> DEFINE D == DOMAIN answer
           Locs(i) == Range(answer[i].locs)
           locs == [i \in D |-> Locs(i)]
<1>1. DOMAIN answer = 1 .. Len(answer) /\ Len(answer) \in Nat /\ \A i \in D : answer[i] \in Range(answer)
  BY DEF IsAnswer, Range
<1>2. \A i \in D : IsFiniteSet(Locs(i))
  <2> TAKE i \in D
  <2> DEFINE s == answer[i].locs
  <2>1. s \in Seq(Range(s))
    BY <1>1 DEF IsAnswer
  <2>2. IsFiniteSet(DOMAIN s) /\ s \in [DOMAIN s -> Range(s)]
    <3>1. Len(s) \in Nat /\ DOMAIN s = 1 .. Len(s) /\ s \in [1 .. Len(s) -> Range(s)]
      BY <2>1
    <3>2. 1 \in Int /\ Len(s) \in Int
      BY <3>1
    <3> QED
      BY <3>1, <3>2, FS_Interval
  <2> HIDE DEF s
  <2>3. IsFiniteSet({s[x] : x \in DOMAIN s})
    BY <2>2, ImageFinite
  <2> QED
    BY <2>3 DEF Range, s
<1>3. IsFiniteSet(DOMAIN m)
  <2>1. IsFiniteSet(D)
    BY <1>1, FS_Interval
  <2>2. locs \in [D -> {Locs(i) : i \in D}]
    OBVIOUS
  <2> HIDE DEF locs
  <2>3. IsFiniteSet({locs[i] : i \in D})
    BY <2>1, <2>2, ImageFinite
  <2>4. \A T \in {locs[i] : i \in D} : IsFiniteSet(T)
    BY <1>2 DEF locs
  <2>5. IsFiniteSet(UNION {locs[i] : i \in D})
    BY <2>3, <2>4, FS_UNION
  <2>6. DOMAIN m = UNION {locs[i] : i \in D}
    BY DEF Holds, locs
  <2> QED
    BY <2>5, <2>6
<1>4. ASSUME NEW l \in DOMAIN m
      PROVE  /\ m[l].e \in (SUBSET Configs) \ {{}}
             /\ WellFormed(m[l].tree) /\ Mixed(m[l].tree) = m[l].e
             /\ m[l].ignored \in BOOLEAN
  <2>1. PICK i \in D : l \in Range(answer[i].locs)
    BY DEF Holds
  <2>2. m[l] = [e |-> answer[i].e, tree |-> answer[i].tree, ignored |-> answer[i].ignored,
                is_first |-> l = answer[i].locs[1], id |-> i - 1]
    BY <2>1 DEF Holds
  <2>3. m[l].e = answer[i].e /\ m[l].tree = answer[i].tree /\ m[l].ignored = answer[i].ignored
    BY <2>2
  <2>4. /\ answer[i].e \in (SUBSET Configs) \ {{}}
        /\ WellFormed(answer[i].tree) /\ Mixed(answer[i].tree) = answer[i].e
        /\ answer[i].ignored \in BOOLEAN
    BY <1>1 DEF IsAnswer
  <2> QED
    BY <2>3, <2>4
<1> QED
  BY <1>3, <1>4 DEF Known

(* What an analysis starts from.                                           *)
InputsKnown == read = "yes" => Known(ma) /\ (alg_version = 0 => Known(mb))

LEMMA ReadIsKnown == RInv => InputsKnown
BY HeldIsKnown DEF RInv, Inputs, AnswerReadBack, InputsKnown

------------------------------------------------------------------------------
(* The comparison.                                                         *)

(* The locations of V on which the answers differ.                         *)
Differ(V) == {l \in V \cap DOMAIN mb : expr_cex(l) # {}}

Counted(V) ==
    /\ cntdiff = Cardinality(Differ(V))
    /\ sdiff = {ma[l].id : l \in Differ(V)}
    /\ ve_cex = UNION {expr_cex(l) : l \in V \cap DOMAIN mb}

CompareInv ==
    /\ compare \in {"none", "A", "B", "count", "done"}
    /\ compare = "none" => CompareIdle
    /\ compare # "none" => alg_version = 0 /\ read = "yes"
    /\ compare = "A" =>
          /\ todo \subseteq DOMAIN ma /\ Counted(DOMAIN ma \ todo)
          /\ cntmissing = Cardinality((DOMAIN ma \ todo) \ DOMAIN mb)
    /\ compare \in {"B", "count", "done"} => Counted(DOMAIN ma)
    /\ compare = "B" =>
          /\ todo \subseteq DOMAIN mb
          /\ cntmissing = Cardinality(DOMAIN ma \ DOMAIN mb) + Cardinality((DOMAIN mb \ todo) \ DOMAIN ma)
    /\ compare \in {"count", "done"} =>
          /\ cntmissing = Cardinality(DOMAIN ma \ DOMAIN mb) + Cardinality(DOMAIN mb \ DOMAIN ma)
          /\ remaining \subseteq ve_cex /\ ncex \in Nat
          /\ ncex + Cardinality(remaining) = Cardinality(ve_cex)
    /\ compare = "done" => remaining = {}

InputsStay == UNCHANGED <<alg_version, read, ma, mb>>

LEMMA NoneVisited == cntdiff = 0 /\ sdiff = {} /\ ve_cex = {} => Counted({})
<1>1. Differ({}) = {}
  BY DEF Differ
<1> QED
  BY <1>1, FS_EmptySet DEF Counted

LEMMA BeginCompare ==
    ASSUME CompareInv, begin_compare, alg_version = 0, read = "yes", InputsStay
    PROVE  CompareInv'
<1>1. /\ cntdiff' = 0 /\ cntmissing' = 0 /\ sdiff' = {} /\ ve_cex' = {}
      /\ todo' = DOMAIN ma /\ compare' = "A" /\ ma' = ma /\ mb' = mb
      /\ alg_version' = 0 /\ read' = "yes"
  BY DEF begin_compare, CompareInv, CompareIdle, InputsStay
<1>2. DOMAIN ma' \ todo' = {} /\ (DOMAIN ma' \ todo') \ DOMAIN mb' = {}
  BY <1>1
<1>3. Counted({})'
  <2>1. (cntdiff = 0 /\ sdiff = {} /\ ve_cex = {})'
    BY <1>1
  <2> QED
    BY <2>1, NoneVisited, PTL
<1>4. Counted(DOMAIN ma \ todo)'
  BY <1>2, <1>3
<1> QED
  BY <1>1, <1>2, <1>4, FS_EmptySet DEF CompareInv

LEMMA CountMore ==
    ASSUME NEW V, IsFiniteSet(V), NEW l \in DOMAIN mb, l \notin V
    PROVE  /\ Cardinality(Differ(V \cup {l})) =
                 (IF expr_cex(l) = {} THEN Cardinality(Differ(V)) ELSE Cardinality(Differ(V)) + 1)
           /\ Differ(V \cup {l}) = IF expr_cex(l) = {} THEN Differ(V) ELSE Differ(V) \cup {l}
           /\ (V \cup {l}) \cap DOMAIN mb = (V \cap DOMAIN mb) \cup {l}
<1>1. Differ(V \cup {l}) = IF expr_cex(l) = {} THEN Differ(V) ELSE Differ(V) \cup {l}
  BY DEF Differ
<1>2. IsFiniteSet(Differ(V)) /\ l \notin Differ(V)
  BY FS_Subset DEF Differ
<1>3. Cardinality(Differ(V) \cup {l}) = Cardinality(Differ(V)) + 1
  BY <1>2, FS_AddElement
<1> QED
  BY <1>1, <1>3

LEMMA VisitA ==
    ASSUME CompareInv, visit_A, Known(ma), InputsStay
    PROVE  CompareInv'
<1>1. PICK l \in todo :
         /\ todo' = todo \ {l}
         /\ IF l \notin DOMAIN mb
            THEN cntmissing' = cntmissing + 1 /\ UNCHANGED <<cntdiff, sdiff, ve_cex>>
            ELSE /\ ve_cex' = ve_cex \cup expr_cex(l)
                 /\ IF expr_cex(l) = {} THEN UNCHANGED <<cntdiff, sdiff>>
                    ELSE cntdiff' = cntdiff + 1 /\ sdiff' = sdiff \cup {ma[l].id}
                 /\ UNCHANGED cntmissing
  BY DEF visit_A
<1>2. /\ compare = "A" /\ compare' = "A" /\ ma' = ma /\ mb' = mb /\ alg_version' = alg_version
      /\ read' = read
  BY DEF visit_A, InputsStay
<1> DEFINE V == DOMAIN ma \ todo
           W == DOMAIN ma \ todo'
<1>3. /\ W = V \cup {l} /\ l \notin V /\ todo \subseteq DOMAIN ma /\ todo' \subseteq DOMAIN ma
      /\ Counted(V) /\ cntmissing = Cardinality(V \ DOMAIN mb)
  BY <1>1, <1>2 DEF CompareInv
<1>4. IsFiniteSet(V) /\ IsFiniteSet(V \ DOMAIN mb)
  BY FS_Subset DEF Known
<1>5. Cardinality(W \ DOMAIN mb) = cntmissing'
  <2>1. CASE l \in DOMAIN mb
    <3>1. W \ DOMAIN mb = V \ DOMAIN mb
      BY <1>3, <2>1
    <3> QED
      BY <1>1, <1>3, <2>1, <3>1
  <2>2. CASE l \notin DOMAIN mb
    <3>1. W \ DOMAIN mb = (V \ DOMAIN mb) \cup {l} /\ l \notin V \ DOMAIN mb
      BY <1>3, <2>2
    <3> HIDE DEF V, W
    <3>2. Cardinality(W \ DOMAIN mb) = Cardinality(V \ DOMAIN mb) + 1
      BY <1>4, <3>1, FS_AddElement
    <3> QED
      BY <1>1, <1>3, <2>2, <3>2
  <2> QED
    BY <2>1, <2>2
<1> HIDE DEF V, W
<1>6. /\ cntdiff' = Cardinality(Differ(W))
      /\ sdiff' = {ma[k].id : k \in Differ(W)}
      /\ ve_cex' = UNION {expr_cex(k) : k \in W \cap DOMAIN mb}
  <2>1. CASE l \in DOMAIN mb
    <3>1. /\ Cardinality(Differ(W)) =
                 (IF expr_cex(l) = {} THEN Cardinality(Differ(V)) ELSE Cardinality(Differ(V)) + 1)
          /\ Differ(W) = IF expr_cex(l) = {} THEN Differ(V) ELSE Differ(V) \cup {l}
          /\ W \cap DOMAIN mb = (V \cap DOMAIN mb) \cup {l}
      BY <1>3, <1>4, <2>1, CountMore
    <3>2. cntdiff' = Cardinality(Differ(W))
      BY <1>1, <1>3, <2>1, <3>1 DEF Counted
    <3>3. sdiff' = {ma[k].id : k \in Differ(W)}
      BY <1>1, <1>3, <2>1, <3>1 DEF Counted
    <3>4. ve_cex' = UNION {expr_cex(k) : k \in W \cap DOMAIN mb}
      BY <1>1, <1>3, <2>1, <3>1 DEF Counted
    <3> QED
      BY <3>2, <3>3, <3>4
  <2>2. CASE l \notin DOMAIN mb
    <3>1. W \cap DOMAIN mb = V \cap DOMAIN mb
      BY <1>3, <2>2
    <3>2. Differ(W) = Differ(V)
      BY <3>1 DEF Differ
    <3> QED
      BY <1>1, <1>3, <2>2, <3>1, <3>2 DEF Counted
  <2> QED
    BY <2>1, <2>2
<1>7. \A k : expr_cex(k)' = expr_cex(k)
  BY <1>2 DEF expr_cex
<1>8. Counted(DOMAIN ma \ todo)'
  <2>1. \A U : Differ(U)' = {k \in U \cap DOMAIN mb : expr_cex(k) # {}}
    BY <1>2, <1>7 DEF Differ
  <2>2. (DOMAIN ma \ todo)' = W
    BY <1>2 DEF W
  <2>3. Differ(DOMAIN ma \ todo)' = Differ(W)
    BY <1>2, <1>7, <2>2 DEF Differ
  <2> QED
    BY <1>2, <1>6, <1>7, <2>2, <2>3 DEF Counted
<1>9. (DOMAIN ma \ todo) ' \ DOMAIN mb' = W \ DOMAIN mb
  BY <1>2 DEF W
<1> QED
  BY <1>2, <1>3, <1>5, <1>8, <1>9 DEF CompareInv, V, W

(* The counts stay when only where the comparison is changes.              *)
LEMMA CountsStay ==
    ASSUME UNCHANGED <<cntdiff, sdiff, ve_cex, ma, mb>>, NEW V
    PROVE  Counted(V)' <=> Counted(V)
<1>1. \A k : expr_cex(k)' = expr_cex(k)
  BY DEF expr_cex
<1>2. Differ(V)' = Differ(V)
  BY <1>1 DEF Differ
<1> QED
  BY <1>1, <1>2 DEF Counted

LEMMA BeginB ==
    ASSUME CompareInv, begin_B, Known(ma), InputsStay
    PROVE  CompareInv'
<1>1. /\ compare = "A" /\ todo = {} /\ todo' = DOMAIN mb /\ compare' = "B"
      /\ UNCHANGED <<cntdiff, cntmissing, sdiff, ve_cex, ma, mb, alg_version, read>>
  BY DEF begin_B, InputsStay
<1>2. Counted(DOMAIN ma) /\ cntmissing = Cardinality(DOMAIN ma \ DOMAIN mb)
  <2>1. DOMAIN ma \ todo = DOMAIN ma
    BY <1>1
  <2> QED
    BY <1>1, <2>1 DEF CompareInv
<1>3. Counted(DOMAIN ma)'
  BY <1>1, <1>2, CountsStay
<1>4. cntmissing = Cardinality(DOMAIN ma \ DOMAIN mb) + Cardinality((DOMAIN mb \ DOMAIN mb) \ DOMAIN ma)
  <2>1. IsFiniteSet(DOMAIN ma \ DOMAIN mb) /\ (DOMAIN mb \ DOMAIN mb) \ DOMAIN ma = {}
    BY FS_Subset DEF Known
  <2>2. Cardinality(DOMAIN ma \ DOMAIN mb) \in Nat /\ Cardinality({}) = 0
    BY <2>1, FS_CardinalityType, FS_EmptySet
  <2> QED
    BY <1>2, <2>1, <2>2
<1> QED
  BY <1>1, <1>2, <1>3, <1>4 DEF CompareInv

LEMMA VisitB ==
    ASSUME CompareInv, visit_B, Known(ma), Known(mb), InputsStay
    PROVE  CompareInv'
<1>1. PICK l \in todo :
         todo' = todo \ {l} /\ cntmissing' = IF l \in DOMAIN ma THEN cntmissing ELSE cntmissing + 1
  BY DEF visit_B
<1>2. /\ compare = "B" /\ compare' = "B"
      /\ UNCHANGED <<cntdiff, sdiff, ve_cex, ma, mb, alg_version, read>>
  BY DEF visit_B, InputsStay
<1> DEFINE A == DOMAIN ma \ DOMAIN mb
           V == (DOMAIN mb \ todo) \ DOMAIN ma
           W == (DOMAIN mb \ todo') \ DOMAIN ma
<1>3. /\ Counted(DOMAIN ma) /\ todo \subseteq DOMAIN mb /\ cntmissing = Cardinality(A) + Cardinality(V)
  BY <1>2 DEF CompareInv
<1>4. /\ IsFiniteSet(V) /\ l \notin V
      /\ W = IF l \in DOMAIN ma THEN V ELSE V \cup {l}
  BY <1>1, <1>3, FS_Subset DEF Known
<1>5. Cardinality(A) \in Nat /\ Cardinality(V) \in Nat
  <2>1. IsFiniteSet(A)
    BY FS_Subset DEF Known
  <2> QED
    BY <1>4, <2>1, FS_CardinalityType
<1>6. Counted(DOMAIN ma)'
  BY <1>2, <1>3, CountsStay
<1>7. DOMAIN ma' \ DOMAIN mb' = A /\ (DOMAIN mb' \ todo') \ DOMAIN ma' = W /\ todo' \subseteq DOMAIN mb'
  BY <1>1, <1>2, <1>3
<1> HIDE DEF A, V, W
<1>8. Cardinality(W) = IF l \in DOMAIN ma THEN Cardinality(V) ELSE Cardinality(V) + 1
  BY <1>4, FS_AddElement
<1>9. cntmissing' = Cardinality(A) + Cardinality(W)
  BY <1>1, <1>3, <1>5, <1>8
<1> QED
  BY <1>2, <1>3, <1>6, <1>7, <1>9 DEF CompareInv

(* The differences are sets of configurations.                             *)
LEMMA DifferencesFinite ==
    ASSUME Known(ma), Known(mb), Counted(DOMAIN ma)
    PROVE  ve_cex \subseteq Configs /\ IsFiniteSet(ve_cex) /\ Cardinality(ve_cex) \in Nat
<1>1. ve_cex \subseteq Configs
  BY DEF Counted, expr_cex, Known
<1> QED
  BY <1>1, ConfigsFinite, FS_Subset, FS_CardinalityType

LEMMA BeginCount ==
    ASSUME CompareInv, begin_count, Known(ma), Known(mb), InputsStay
    PROVE  CompareInv'
<1>1. /\ compare = "B" /\ todo = {} /\ remaining' = ve_cex /\ ncex' = 0 /\ compare' = "count"
      /\ UNCHANGED <<cntdiff, cntmissing, sdiff, ve_cex, ma, mb, alg_version, read>>
  BY DEF begin_count, InputsStay
<1>2. Counted(DOMAIN ma) /\ cntmissing = Cardinality(DOMAIN ma \ DOMAIN mb) + Cardinality(DOMAIN mb \ DOMAIN ma)
  <2>1. DOMAIN mb \ todo = DOMAIN mb
    BY <1>1
  <2> QED
    BY <1>1, <2>1 DEF CompareInv
<1>3. Counted(DOMAIN ma)'
  BY <1>1, <1>2, CountsStay
<1>4. 0 + Cardinality(ve_cex) = Cardinality(ve_cex)
  BY <1>2, DifferencesFinite
<1> QED
  BY <1>1, <1>2, <1>3, <1>4 DEF CompareInv

LEMMA CountModel ==
    ASSUME CompareInv, count_model, Known(ma), Known(mb), InputsStay
    PROVE  CompareInv'
<1>1. PICK t \in Templates : /\ Cube(t) \subseteq remaining /\ ncex' = ncex + this_cex(t)
                             /\ remaining' = remaining \ Cube(t)
  BY DEF count_model
<1>2. /\ compare = "count" /\ compare' = "count"
      /\ UNCHANGED <<cntdiff, cntmissing, sdiff, ve_cex, ma, mb, alg_version, read>>
  BY DEF count_model, InputsStay
<1>3. /\ Counted(DOMAIN ma) /\ remaining \subseteq ve_cex /\ ncex \in Nat
      /\ ncex + Cardinality(remaining) = Cardinality(ve_cex)
  BY <1>2 DEF CompareInv
<1>4. IsFiniteSet(remaining) /\ Cardinality(remaining) \in Nat
  BY <1>3, DifferencesFinite, FS_Subset, FS_CardinalityType
<1>5. IsFiniteSet(Cube(t)) /\ Cardinality(Cube(t)) = this_cex(t) /\ this_cex(t) \in Nat
  BY CubeSize, FS_CardinalityType
<1>6. Cardinality(remaining \ Cube(t)) = Cardinality(remaining) - Cardinality(Cube(t))
      /\ Cardinality(remaining \ Cube(t)) \in Nat
  <2>1. remaining \cap Cube(t) = Cube(t)
    BY <1>1
  <2>2. IsFiniteSet(remaining \ Cube(t))
        /\ Cardinality(remaining \ Cube(t)) = Cardinality(remaining) - Cardinality(remaining \cap Cube(t))
    BY <1>4, FS_Difference
  <2> QED
    BY <2>1, <2>2, FS_CardinalityType
<1>7. Counted(DOMAIN ma)'
  BY <1>2, <1>3, CountsStay
<1>8. ncex' \in Nat /\ ncex' + Cardinality(remaining') = Cardinality(ve_cex)
  BY <1>1, <1>3, <1>4, <1>5, <1>6
<1> QED
  BY <1>1, <1>2, <1>3, <1>7, <1>8 DEF CompareInv

LEMMA EndCount ==
    ASSUME CompareInv, end_count, InputsStay
    PROVE  CompareInv'
<1>1. /\ compare = "count" /\ remaining = {} /\ compare' = "done"
      /\ UNCHANGED <<cntdiff, cntmissing, sdiff, ve_cex, remaining, ncex, ma, mb, alg_version, read>>
  BY DEF end_count, InputsStay
<1>2. Counted(DOMAIN ma)'
  BY <1>1, CountsStay DEF CompareInv
<1> QED
  BY <1>1, <1>2 DEF CompareInv

LEMMA TotalsFollow ==
    ASSUME CompareInv, InputsKnown
    PROVE  TotalsRight
<1> SUFFICES ASSUME compare = "done" PROVE TotalsRight
  BY DEF TotalsRight
<1> DEFINE Both == DOMAIN ma \cap DOMAIN mb
<1>1. Known(ma) /\ Known(mb)
  BY DEF CompareInv, InputsKnown
<1>2. /\ Counted(DOMAIN ma) /\ remaining = {}
      /\ cntmissing = Cardinality(DOMAIN ma \ DOMAIN mb) + Cardinality(DOMAIN mb \ DOMAIN ma)
      /\ ncex + Cardinality(remaining) = Cardinality(ve_cex) /\ ncex \in Nat
  BY DEF CompareInv
<1>3. Differ(DOMAIN ma) = {l \in Both : ma[l].e # mb[l].e}
  <2>1. \A l \in Both : expr_cex(l) = {} <=> ma[l].e = mb[l].e
    BY DEF expr_cex
  <2> QED
    BY <2>1 DEF Differ
<1>4. cntmissing = Cardinality((DOMAIN ma \cup DOMAIN mb) \ Both)
  <2> DEFINE A == DOMAIN ma \ DOMAIN mb
             B == DOMAIN mb \ DOMAIN ma
  <2>1. (DOMAIN ma \cup DOMAIN mb) \ Both = A \cup B /\ A \cap B = {}
    OBVIOUS
  <2>2. IsFiniteSet(A) /\ IsFiniteSet(B)
    BY <1>1, FS_Subset DEF Known
  <2> HIDE DEF A, B
  <2>3. Cardinality(A \cup B) = Cardinality(A) + Cardinality(B) - Cardinality(A \cap B)
    BY <2>2, FS_Union
  <2>4. Cardinality(A \cap B) = 0 /\ Cardinality(A) \in Nat /\ Cardinality(B) \in Nat
    BY <2>1, <2>2, FS_EmptySet, FS_CardinalityType
  <2>5. Cardinality(A \cup B) = Cardinality(A) + Cardinality(B)
    BY <2>3, <2>4
  <2> QED
    BY <1>2, <2>1, <2>5 DEF A, B
<1>5. ncex = Cardinality(ve_cex)
  BY <1>1, <1>2, DifferencesFinite, FS_EmptySet
<1>6. ve_cex = {c \in Configs : \E l \in Both : (c \in ma[l].e) # (c \in mb[l].e)}
  <2>1. ve_cex = UNION {expr_cex(l) : l \in Both}
    BY <1>2 DEF Counted
  <2>2. \A l \in Both : expr_cex(l) = {c \in Configs : (c \in ma[l].e) # (c \in mb[l].e)}
    <3> TAKE l \in Both
    <3>1. ma[l].e \subseteq Configs /\ mb[l].e \subseteq Configs
      BY <1>1 DEF Known
    <3> QED
      BY <3>1 DEF expr_cex
  <2> QED
    BY <2>1, <2>2
<1>7. cntdiff = Cardinality({l \in Both : ma[l].e # mb[l].e}) /\ sdiff = {ma[l].id : l \in {k \in Both : ma[k].e # mb[k].e}}
  BY <1>2, <1>3 DEF Counted
<1> QED
  BY <1>4, <1>5, <1>6, <1>7 DEF TotalsRight

(* What an analysis has found, while nothing is read or it is another one. *)
LEMMA CompareStays ==
    ASSUME CompareInv, UNCHANGED comparevars,
           compare # "none" => InputsStay
    PROVE  CompareInv'
<1> USE DEF comparevars
<1>1. CASE compare = "none"
  BY <1>1 DEF CompareInv, CompareIdle
<1>2. CASE compare # "none"
  <2>1. UNCHANGED <<cntdiff, sdiff, ve_cex, ma, mb, alg_version, read>>
    BY <1>2 DEF InputsStay
  <2>2. \A V : Counted(V)' <=> Counted(V)
    BY <2>1, CountsStay
  <2>3. Counted(DOMAIN ma)' <=> Counted(DOMAIN ma)
    BY <2>1, CountsStay
  <2>4. Counted(DOMAIN ma \ todo)' <=> Counted(DOMAIN ma \ todo)
    BY <2>1, CountsStay
  <2> QED
    BY <1>2, <2>1, <2>3, <2>4 DEF CompareInv
<1> QED
  BY <1>1, <1>2

------------------------------------------------------------------------------
(* The validation.                                                         *)

(* SetToSeq lists every member of a finite set once.                       *)
LEMMA ListsOnce ==
    ASSUME NEW B, IsFiniteSet(B)
    PROVE  LET s == SetToSeq(B)
           IN  /\ Cardinality(B) \in Nat /\ s \in [1 .. Cardinality(B) -> B]
               /\ \A i, j \in 1 .. Cardinality(B) : s[i] = s[j] => i = j
               /\ \A c \in B : \E i \in 1 .. Cardinality(B) : s[i] = c
<1> DEFINE N == Cardinality(B)
           s == SetToSeq(B)
<1>1. N \in Nat /\ ExistsBijection(1 .. N, B)
  BY FS_CardinalityType
<1>2. PICK f : f \in Bijection(1 .. N, B)
  BY <1>1 DEF ExistsBijection
<1>3. f \in [1 .. N -> B] /\ IsInjective(f)
  BY <1>2 DEF Bijection, Injection, IsInjective
<1>4. s \in [1 .. N -> B] /\ IsInjective(s)
  <2> HIDE DEF N
  <2> QED
    BY <1>3 DEF SetToSeq, N
<1> HIDE DEF s
<1>5. \A i, j \in 1 .. N : s[i] = s[j] => i = j
  BY <1>4 DEF IsInjective
<1>6. s \in Injection(1 .. N, B)
  BY <1>4, <1>5 DEF Injection, IsInjective
<1>7. IsFiniteSet(1 .. N) /\ Cardinality(1 .. N) = N
  <2>1. 1 \in Int /\ N \in Int /\ (1 > N => N = 0) /\ N - 1 + 1 = N
    BY <1>1
  <2> HIDE DEF N
  <2> QED
    BY <2>1, FS_Interval
<1>8. s \in Surjection(1 .. N, B)
  BY <1>6, <1>7, FS_Injection DEF N
<1>9. \A c \in B : \E i \in 1 .. N : s[i] = c
  BY <1>8 DEF Surjection
<1> QED
  BY <1>1, <1>4, <1>5, <1>9 DEF s, N

(* The interpreter on a tree that was read is its formula.                 *)
LEMMA EvalRight ==
    ASSUME Known(ma), NEW l \in DOMAIN ma, NEW c \in Configs
    PROVE  (eval_res(l, c) <=> c \in ma[l].e) /\ eval_res(l, c) \in BOOLEAN
<1> DEFINE tree == ma[l].tree
<1>1. WellFormed(tree) /\ Mixed(tree) = ma[l].e
  BY DEF Known
<1> HIDE DEF tree
<1>2. Interpret(Code(tree), c) = tree[LeafOf(tree, c)]
  BY <1>1, InterpretRight
<1>3. Mixed(tree) = {d \in Configs : Predicts(tree, d)}
  BY <1>1, MixedRight
<1>4. (eval_res(l, c) <=> Interpret(Code(tree), c) = kInterpretHit) /\ eval_res(l, c) \in BOOLEAN
  BY DEF eval_res, tree
<1> QED
  BY <1>1, <1>2, <1>3, <1>4 DEF Predicts

Covers(l, c) == l \in OtterRun(Entries, c)
WrongOn(l, c) == (c \in ma[l].e) # Covers(l, c)
NotIgnored == {l \in DOMAIN ma : ~ma[l].ignored}

(* The totals are those of the configurations in J.                        *)
TotalsOf(J) ==
    /\ wrong_configs = {c \in J : \E l \in DOMAIN ma : WrongOn(l, c)}
    /\ wrong_locs = {l \in DOMAIN ma : \E c \in J : WrongOn(l, c)}
    /\ wrong_configs_nig = {c \in J : \E l \in NotIgnored : WrongOn(l, c)}
    /\ wrong_locs_nig = {l \in NotIgnored : \E c \in J : WrongOn(l, c)}
    /\ missing_locs = (UNION {OtterRun(Entries, c) : c \in J}) \ DOMAIN ma

(* The configurations of the batch that are still to be judged.            *)
Ahead == {batch_confs[i].values : i \in it + 1 .. Len(batch_confs)}

BatchOK ==
    /\ batch_confs = [i \in 1 .. Len(batch_confs) |-> batch_confs[i]]
    /\ Len(batch_confs) \in 0 .. n_batch /\ it \in 0 .. Len(batch_confs)
    /\ \A i \in it + 1 .. Len(batch_confs) :
          /\ batch_confs[i].cached_hash_ = batch_confs[i].values
          /\ batch_confs[i].values \in all_configs
    /\ \A i, j \in it + 1 .. Len(batch_confs) :
          batch_confs[i].values = batch_confs[j].values => i = j
    /\ all_configs \subseteq Configs

(* As many configurations are in batches as are judged or still ahead.     *)
Counting ==
    /\ iter \in Nat \ {0} /\ n_iter \in Nat
    /\ Cardinality(all_configs) = (iter - 1) + (Len(batch_confs) - it)
    /\ Cardinality(Judged) = iter - 1
    /\ run_full => /\ n_iter = Cardinality(Configs)
                   /\ generated_full_configs = Configs \ all_configs
                   /\ Len(batch_confs) < n_batch => all_configs = Configs
    /\ ~run_full => Len(batch_confs) = n_batch

ValidateInv ==
    /\ validate \in {"none", "loop", "drawing", "done"}
    /\ validate = "none" => ValidateIdle
    /\ validate # "none" =>
          /\ alg_version = 1 /\ read = "yes" /\ run_full \in BOOLEAN
          /\ BatchOK /\ Counting /\ TotalsOf(Judged)
    /\ validate = "done" => iter > n_iter

LEMMA JudgedIsRest == Judged = all_configs \ Ahead
BY DEF Judged, Ahead

LEMMA BatchFinite ==
    ASSUME BatchOK
    PROVE  /\ IsFiniteSet(all_configs) /\ Cardinality(all_configs) \in Nat
           /\ IsFiniteSet(Configs) /\ Cardinality(Configs) \in Nat
           /\ IsFiniteSet(Judged) /\ Cardinality(Judged) \in Nat
<1>1. all_configs \subseteq Configs /\ Judged \subseteq Configs
  BY DEF BatchOK, Judged
<1> QED
  BY <1>1, ConfigsFinite, FS_Subset, FS_CardinalityType

LEMMA TotalsStay ==
    ASSUME UNCHANGED <<totals, ma>>, NEW J
    PROVE  TotalsOf(J)' <=> TotalsOf(J)
<1> USE DEF totals
<1>1. \A l, c : WrongOn(l, c)' <=> WrongOn(l, c)
  BY DEF WrongOn, Covers
<1>2. NotIgnored' = NotIgnored
  BY DEF NotIgnored
<1> QED
  BY <1>1, <1>2 DEF TotalsOf

LEMMA BatchAssumption == n_batch \in Nat \ {0} /\ RandIters \subseteq Nat \ {0}
BY ValidateAssumption

LEMMA BeginValidate ==
    ASSUME ValidateInv, begin_validate, alg_version = 1, read = "yes", InputsStay
    PROVE  ValidateInv'
<1>1. /\ validate' = "loop" /\ iter' = 1 /\ it' = n_batch /\ all_configs' = {}
      /\ batch_confs' = [i \in 1 .. n_batch |-> Slot(NoneSet, Stale)]
      /\ alg_version' = 1 /\ read' = "yes" /\ ma' = ma
  BY DEF begin_validate, ValidateInv, ValidateIdle, InputsStay
<1>2. /\ wrong_configs' = {} /\ wrong_configs_nig' = {} /\ wrong_locs' = {} /\ wrong_locs_nig' = {}
      /\ missing_locs' = {}
  BY DEF begin_validate, ValidateInv, ValidateIdle, totals
<1>3. IsFiniteSet(Configs) /\ Cardinality(Configs) \in Nat
  BY ConfigsFinite, FS_CardinalityType
<1>4. \/ run_full' = FALSE /\ n_iter' \in RandIters
      \/ run_full' = TRUE /\ n_iter' = Cardinality(Configs) /\ generated_full_configs' = Configs
  BY DEF begin_validate
<1>5. Len(batch_confs') = n_batch /\ DOMAIN batch_confs' = 1 .. n_batch
  BY <1>1, BatchAssumption
<1>6. n_batch + 1 .. n_batch = {}
  BY BatchAssumption
<1>7. BatchOK'
  BY <1>1, <1>5, <1>6, BatchAssumption DEF BatchOK
<1>8. Judged' = {}
  BY <1>1 DEF Judged
<1>9. Counting'
  <2>1. Cardinality({}) = 0 /\ n_batch - n_batch = 0 /\ 1 - 1 = 0 /\ Configs \ {} = Configs
    BY FS_EmptySet, BatchAssumption
  <2>2. /\ iter' \in Nat \ {0} /\ Cardinality(Judged)' = iter' - 1 /\ Len(batch_confs') = n_batch
        /\ Cardinality(all_configs') = (iter' - 1) + (Len(batch_confs') - it')
    <3>1. iter' \in Nat \ {0} /\ Cardinality(Judged') = iter' - 1 /\ Len(batch_confs') = n_batch
      <4>1. Cardinality(Judged') = 0
        BY <1>8, <2>1
      <4>2. iter' = 1 /\ 1 \in Nat \ {0} /\ 1 - 1 = 0
        BY <1>1
      <4> QED
        BY <1>5, <4>1, <4>2
    <3>2. Cardinality(all_configs') = 0 /\ iter' = 1 /\ it' = n_batch
      BY <1>1, <2>1
    <3>3. (1 - 1) + (n_batch - n_batch) = 0
      BY BatchAssumption
    <3> QED
      BY <3>1, <3>2, <3>3
  <2>3. CASE run_full' = FALSE /\ n_iter' \in RandIters
    <3>1. n_iter' \in Nat
      BY <2>3, BatchAssumption
    <3> QED
      BY <2>2, <2>3, <3>1 DEF Counting
  <2>4. CASE run_full' = TRUE /\ n_iter' = Cardinality(Configs) /\ generated_full_configs' = Configs
    <3>1. n_iter' \in Nat /\ generated_full_configs' = Configs \ all_configs' /\ ~(n_batch < n_batch)
      BY <1>1, <1>3, <2>4, BatchAssumption
    <3> QED
      BY <2>2, <2>4, <3>1 DEF Counting
  <2> QED
    BY <1>4, <2>3, <2>4
<1>10. TotalsOf(Judged)'
  BY <1>2, <1>8 DEF TotalsOf
<1> QED
  BY <1>1, <1>4, <1>7, <1>9, <1>10 DEF ValidateInv

(* A new batch: configurations that were not in a batch before.            *)
LEMMA NewBatchInv ==
    ASSUME BatchOK, Counting, NEW B \in SUBSET (Configs \ all_configs),
           it = n_batch, it' = 0,
           all_configs' = all_configs \cup B, Cardinality(B) \in 0 .. n_batch,
           batch_confs' = [i \in 1 .. Cardinality(B) |-> Slot(SetToSeq(B)[i], SetToSeq(B)[i])],
           iter' = iter
    PROVE  /\ BatchOK' /\ Judged' = Judged
           /\ Len(batch_confs') = Cardinality(B) /\ Len(batch_confs) = n_batch
           /\ Cardinality(all_configs') = (iter' - 1) + (Len(batch_confs') - it')
<1> DEFINE N == Cardinality(B)
           s == SetToSeq(B)
           new == batch_confs'
<1>1. IsFiniteSet(B) /\ IsFiniteSet(all_configs) /\ Cardinality(all_configs) \in Nat
  BY BatchFinite, FS_Subset
<1>2. N \in Nat /\ N <= n_batch /\ n_batch \in Nat /\ iter \in Nat \ {0}
  BY BatchAssumption DEF Counting
<1>3. /\ \A i \in 1 .. N : s[i] \in B
      /\ \A i, j \in 1 .. N : s[i] = s[j] => i = j
      /\ \A c \in B : \E i \in 1 .. N : s[i] = c
  BY <1>1, ListsOnce
<1> HIDE DEF N, s
<1>4. new = [i \in 1 .. N |-> Slot(s[i], s[i])]
  BY DEF N, s
<1>5. /\ Len(new) = N /\ DOMAIN new = 1 .. N
      /\ \A i \in 1 .. N : new[i].values = s[i] /\ new[i].cached_hash_ = s[i]
  BY <1>2, <1>4 DEF Slot
<1> HIDE DEF new
<1>6. Len(batch_confs) = n_batch /\ Ahead = {}
  BY BatchAssumption DEF BatchOK, Ahead
<1>7. 0 + 1 .. N = 1 .. N
  OBVIOUS
<1>8. BatchOK'
  <2>1. new = [i \in 1 .. N |-> new[i]]
    BY <1>4, <1>5
  <2>2. \A i \in 1 .. N : new[i].cached_hash_ = new[i].values /\ new[i].values \in all_configs'
    BY <1>3, <1>5
  <2>3. \A i, j \in 1 .. N : new[i].values = new[j].values => i = j
    BY <1>3, <1>5
  <2>4. all_configs' \subseteq Configs
    BY DEF BatchOK
  <2> QED
    BY <1>2, <1>5, <1>7, <2>1, <2>2, <2>3, <2>4 DEF BatchOK, new
<1>9. Judged' = Judged
  <2>1. {new[i].values : i \in 1 .. N} = B
    BY <1>3, <1>5
  <2>2. Judged' = all_configs' \ B
    BY <1>5, <1>7, <2>1 DEF Judged, new
  <2>3. Judged = all_configs
    BY <1>6, JudgedIsRest
  <2> QED
    BY <2>2, <2>3
<1>10. Cardinality(all_configs') = (iter' - 1) + (N - it')
  <2>1. Cardinality(all_configs \cup B)
           = Cardinality(all_configs) + Cardinality(B) - Cardinality(all_configs \cap B)
    BY <1>1, FS_Union
  <2>2. Cardinality(all_configs \cap B) = 0
    <3>1. all_configs \cap B = {}
      OBVIOUS
    <3> QED
      BY <3>1, FS_EmptySet
  <2>3. Cardinality(all_configs) = (iter - 1) + (Len(batch_confs) - it)
    BY DEF Counting
  <2>4. Cardinality(all_configs) = iter - 1
    BY <1>2, <1>6, <2>3
  <2>5. Cardinality(B) = N
    BY DEF N
  <2>6. Cardinality(all_configs \cup B) = (iter - 1) + N
    BY <1>2, <2>1, <2>2, <2>4, <2>5
  <2> QED
    BY <1>2, <2>6
<1> QED
  BY <1>5, <1>6, <1>8, <1>9, <1>10 DEF N, new

LEMMA FullBatch ==
    ASSUME ValidateInv, full_batch, InputsStay
    PROVE  ValidateInv'
<1>1. PICK B \in kSubset(Min({n_batch, Cardinality(generated_full_configs)}), generated_full_configs) :
         /\ batch_confs' = [i \in 1 .. Cardinality(B) |-> Slot(SetToSeq(B)[i], SetToSeq(B)[i])]
         /\ all_configs' = all_configs \cup B
         /\ generated_full_configs' = generated_full_configs \ B
  BY DEF full_batch
<1>2. /\ validate = "loop" /\ validate' = "loop" /\ run_full /\ run_full' = run_full /\ it = n_batch /\ it' = 0
      /\ n_iter' = n_iter /\ iter' = iter /\ totals' = totals
      /\ alg_version' = alg_version /\ read' = read /\ ma' = ma
  BY DEF full_batch, NewBatch, InputsStay
<1>3. BatchOK /\ Counting /\ TotalsOf(Judged) /\ alg_version = 1 /\ read = "yes" /\ run_full \in BOOLEAN
  BY <1>2 DEF ValidateInv
<1> DEFINE G == generated_full_configs
<1>4. G = Configs \ all_configs /\ IsFiniteSet(G) /\ Cardinality(G) \in Nat
  BY <1>2, <1>3, ConfigsFinite, FS_Subset, FS_CardinalityType DEF Counting
<1>5. Min({n_batch, Cardinality(G)}) = IF n_batch <= Cardinality(G) THEN n_batch ELSE Cardinality(G)
  BY <1>4, BatchAssumption DEF Min
<1>6. /\ B \in SUBSET G /\ Cardinality(B) \in 0 .. n_batch
      /\ Cardinality(B) < n_batch => Cardinality(B) = Cardinality(G)
  BY <1>4, <1>5, BatchAssumption DEF kSubset
<1> HIDE DEF G
<1>7. /\ BatchOK' /\ Judged' = Judged /\ Len(batch_confs') = Cardinality(B)
      /\ Cardinality(all_configs') = (iter' - 1) + (Len(batch_confs') - it')
  BY <1>1, <1>2, <1>3, <1>4, <1>6, NewBatchInv
<1>8. Cardinality(B) < n_batch => all_configs' = Configs
  <2>1. Cardinality(B) = Cardinality(G) => B = G
    BY <1>4, <1>6, FS_Subset
  <2> QED
    BY <1>1, <1>3, <1>4, <1>6, <2>1 DEF BatchOK
<1>9. Counting'
  <2>1. G \ B = Configs \ (all_configs \cup B)
    BY <1>4
  <2>2. /\ iter \in Nat \ {0} /\ n_iter \in Nat /\ Cardinality(Judged) = iter - 1
        /\ n_iter = Cardinality(Configs)
    BY <1>2, <1>3 DEF Counting
  <2>3. generated_full_configs' = Configs \ all_configs'
    BY <1>1, <2>1 DEF G
  <2>4. Cardinality(Judged') = iter' - 1
    BY <1>2, <1>7, <2>2
  <2> QED
    BY <1>2, <1>7, <1>8, <2>2, <2>3, <2>4 DEF Counting
<1>10. TotalsOf(Judged)'
  <2>1. TotalsOf(Judged)' <=> TotalsOf(Judged')
    BY <1>2 DEF TotalsOf, totals, WrongOn, Covers, NotIgnored
  <2> QED
    BY <1>2, <1>3, <1>7, <2>1
<1> QED
  BY <1>2, <1>3, <1>7, <1>9, <1>10 DEF ValidateInv

LEMMA RandBatch ==
    ASSUME ValidateInv, rand_batch, InputsStay
    PROVE  ValidateInv'
<1>1. PICK B \in kSubset(n_batch, Configs \ all_configs) :
         /\ batch_confs' = [i \in 1 .. n_batch |-> Redrawn(batch_confs[i], SetToSeq(B)[i])]
         /\ all_configs' = all_configs \cup {batch_confs'[i].cached_hash_ : i \in 1 .. n_batch}
  BY DEF rand_batch
<1>2. /\ validate = "loop" /\ validate' = "loop" /\ ~run_full /\ run_full' = run_full /\ it = n_batch /\ it' = 0
      /\ n_iter' = n_iter /\ iter' = iter /\ totals' = totals
      /\ alg_version' = alg_version /\ read' = read /\ ma' = ma
  BY DEF rand_batch, NewBatch, InputsStay
<1>3. BatchOK /\ Counting /\ TotalsOf(Judged) /\ alg_version = 1 /\ read = "yes" /\ run_full \in BOOLEAN
  BY <1>2 DEF ValidateInv
<1>4. B \in SUBSET (Configs \ all_configs) /\ Cardinality(B) = n_batch /\ Cardinality(B) \in 0 .. n_batch
      /\ IsFiniteSet(B)
  BY BatchAssumption, ConfigsFinite, FS_Subset DEF kSubset
<1>5. batch_confs' = [i \in 1 .. Cardinality(B) |-> Slot(SetToSeq(B)[i], SetToSeq(B)[i])]
  BY <1>1, <1>4 DEF Redrawn
<1>6. {batch_confs'[i].cached_hash_ : i \in 1 .. n_batch} = B
  <2> DEFINE s == SetToSeq(B)
             new == batch_confs'
  <2>1. (\A i \in 1 .. n_batch : s[i] \in B) /\ (\A c \in B : \E i \in 1 .. n_batch : s[i] = c)
    BY <1>4, ListsOnce
  <2> HIDE DEF s
  <2>2. new = [i \in 1 .. n_batch |-> Slot(s[i], s[i])]
    BY <1>4, <1>5 DEF s
  <2> HIDE DEF new
  <2>3. \A i \in 1 .. n_batch : new[i].cached_hash_ = s[i]
    BY <2>2 DEF Slot
  <2>4. {new[i].cached_hash_ : i \in 1 .. n_batch} = B
    BY <2>1, <2>3
  <2> QED
    BY <2>4 DEF new
<1>7. all_configs' = all_configs \cup B
  BY <1>1, <1>6
<1>8. /\ BatchOK' /\ Judged' = Judged /\ Len(batch_confs') = Cardinality(B)
      /\ Cardinality(all_configs') = (iter' - 1) + (Len(batch_confs') - it')
  BY <1>2, <1>3, <1>4, <1>5, <1>7, NewBatchInv
<1>9. Counting'
  <2>1. /\ iter \in Nat \ {0} /\ n_iter \in Nat /\ Cardinality(Judged) = iter - 1
    BY <1>3 DEF Counting
  <2>2. Cardinality(Judged') = iter' - 1
    BY <1>2, <1>8, <2>1
  <2> QED
    BY <1>2, <1>4, <1>8, <2>1, <2>2 DEF Counting
<1>10. TotalsOf(Judged)'
  <2>1. TotalsOf(Judged)' <=> TotalsOf(Judged')
    BY <1>2 DEF TotalsOf, totals, WrongOn, Covers, NotIgnored
  <2> QED
    BY <1>2, <1>3, <1>8, <2>1
<1> QED
  BY <1>2, <1>3, <1>8, <1>9, <1>10 DEF ValidateInv

(* One configuration more is judged.                                       *)
LEMMA TotalsGrow ==
    ASSUME Known(ma), NEW J, NEW c \in Configs, NEW cov, cov = OtterRun(Entries, c),
           NEW wrong, wrong = {l \in DOMAIN ma : eval_res(l, c) # (l \in cov)},
           NEW wrong_nig, wrong_nig = {l \in wrong : ~ma[l].ignored},
           TotalsOf(J), ma' = ma,
           wrong_locs' = wrong_locs \cup wrong,
           wrong_configs' = (IF wrong = {} THEN wrong_configs ELSE wrong_configs \cup {c}),
           wrong_locs_nig' = wrong_locs_nig \cup wrong_nig,
           wrong_configs_nig' = (IF wrong_nig = {} THEN wrong_configs_nig ELSE wrong_configs_nig \cup {c}),
           missing_locs' = missing_locs \cup (cov \ DOMAIN ma)
    PROVE  \A K : K = J \cup {c} => TotalsOf(K)'
<1>1. \A l \in DOMAIN ma : (eval_res(l, c) <=> c \in ma[l].e) /\ eval_res(l, c) \in BOOLEAN
  BY EvalRight
<1>2. wrong = {l \in DOMAIN ma : WrongOn(l, c)} /\ wrong_nig = {l \in NotIgnored : WrongOn(l, c)}
  <2>1. \A l \in DOMAIN ma : (eval_res(l, c) # (l \in cov)) <=> WrongOn(l, c)
    BY <1>1 DEF WrongOn, Covers
  <2> QED
    BY <2>1 DEF NotIgnored
<1> TAKE K
<1> HAVE K = J \cup {c}
<1> DEFINE D == DOMAIN ma
           N == NotIgnored
           W(l, d) == WrongOn(l, d)
<1> HIDE DEF W
<1>3. /\ wrong_configs = {d \in J : \E l \in D : W(l, d)} /\ wrong_locs = {l \in D : \E d \in J : W(l, d)}
      /\ wrong_configs_nig = {d \in J : \E l \in N : W(l, d)} /\ wrong_locs_nig = {l \in N : \E d \in J : W(l, d)}
  BY DEF TotalsOf, W
<1> DEFINE U == UNION {OtterRun(Entries, d) : d \in J}
           V == UNION {OtterRun(Entries, d) : d \in K}
<1>31. missing_locs = U \ D
  BY DEF TotalsOf
<1>4. wrong = {l \in D : W(l, c)} /\ wrong_nig = {l \in N : W(l, c)}
  BY <1>2 DEF W
<1> HIDE DEF D, N
<1>5. wrong_locs' = {l \in D : \E d \in K : W(l, d)} /\ wrong_locs_nig' = {l \in N : \E d \in K : W(l, d)}
  BY <1>3, <1>4
<1>6. wrong_configs' = {d \in K : \E l \in D : W(l, d)}
  BY <1>3, <1>4
<1>7. wrong_configs_nig' = {d \in K : \E l \in N : W(l, d)}
  BY <1>3, <1>4
<1>8. missing_locs' = V \ D
  <2>2. missing_locs' = missing_locs \cup (cov \ D)
    BY DEF D
  <2>3. V = U \cup cov
    <3>1. U \subseteq V
      OBVIOUS
    <3>2. cov \subseteq V
      OBVIOUS
    <3>3. V \subseteq U \cup cov
      OBVIOUS
    <3> HIDE DEF U, V
    <3> QED
      BY <3>1, <3>2, <3>3
  <2>4. missing_locs' = V \ D
    <3> HIDE DEF U, V
    <3>1. missing_locs' = (U \ D) \cup (cov \ D)
      BY <1>31, <2>2
    <3> QED
      BY <2>3, <3>1
  <2> QED
    BY <2>4
<1>9. (\A l, d : WrongOn(l, d)' <=> WrongOn(l, d)) /\ NotIgnored' = NotIgnored /\ DOMAIN ma' = DOMAIN ma
  BY DEF WrongOn, Covers, NotIgnored
<1> QED
  BY <1>5, <1>6, <1>7, <1>8, <1>9 DEF TotalsOf, D, N, W

LEMMA Judge ==
    ASSUME ValidateInv, judge, Known(ma), InputsStay
    PROVE  ValidateInv'
<1> DEFINE k == it + 1
           c == batch_confs[k].values
           cov == OtterRun(Entries, c)
           wrong == {l \in DOMAIN ma : eval_res(l, c) # (l \in cov)}
           wrong_nig == {l \in wrong : ~ma[l].ignored}
           N == Len(batch_confs)
<1>1. /\ validate = "loop" /\ validate' = "loop" /\ iter <= n_iter /\ it < n_batch
      /\ it' = it + 1 /\ iter' = iter + 1
      /\ UNCHANGED <<run_full, n_iter, generated_full_configs, batch_confs, all_configs>>
      /\ alg_version' = alg_version /\ read' = read /\ ma' = ma
  BY DEF judge, InputsStay
<1>2. BatchOK /\ Counting /\ TotalsOf(Judged) /\ alg_version = 1 /\ read = "yes" /\ run_full \in BOOLEAN
  BY <1>1 DEF ValidateInv
<1>3. /\ N \in 0 .. n_batch /\ it \in 0 .. N /\ n_batch \in Nat /\ N \in Nat /\ it \in Nat
      /\ iter \in Nat \ {0} /\ n_iter \in Nat
      /\ Cardinality(all_configs) = (iter - 1) + (N - it) /\ Cardinality(Judged) = iter - 1
  BY <1>2, BatchAssumption DEF BatchOK, Counting
<1>4. it < N
  <2>1. CASE N = n_batch
    BY <1>1, <2>1
  <2>2. CASE N < n_batch
    <3>1. run_full /\ n_iter = Cardinality(Configs) /\ all_configs = Configs
      BY <1>2, <2>2 DEF Counting
    <3> HIDE DEF N
    <3> QED
      BY <1>1, <1>3, <3>1
  <2> QED
    BY <1>3, <2>1, <2>2
<1>5. k \in it + 1 .. N /\ k \in Nat /\ k \in 0 .. N
  BY <1>3, <1>4
<1>6. c \in all_configs /\ batch_confs[k].cached_hash_ = c /\ c \in Configs
  BY <1>2, <1>5 DEF BatchOK
<1>7. /\ Ahead' = Ahead \ {c} /\ c \in Ahead
  <2>1. it' + 1 .. N = (it + 1 .. N) \ {k}
    BY <1>1, <1>3, <1>5
  <2>2. \A i \in it + 1 .. N : batch_confs[i].values = c => i = k
    BY <1>2, <1>5 DEF BatchOK
  <2>3. Ahead' = {batch_confs[i].values : i \in it' + 1 .. N}
    BY <1>1 DEF Ahead
  <2>4. Ahead = {batch_confs[i].values : i \in it + 1 .. N}
    BY DEF Ahead
  <2> HIDE DEF c, k, N
  <2>5. Ahead' = {batch_confs[i].values : i \in (it + 1 .. N) \ {k}}
    BY <2>1, <2>3
  <2> QED
    BY <1>5, <2>2, <2>4, <2>5 DEF c
<1>8. Judged' = Judged \cup {c} /\ c \notin Judged
  <2>1. Judged = all_configs \ Ahead
    BY JudgedIsRest
  <2>2. Judged' = all_configs' \ Ahead'
    BY DEF Judged, Ahead
  <2> HIDE DEF c
  <2> QED
    BY <1>1, <1>6, <1>7, <2>1, <2>2
<1>9. BatchOK'
  <2>1. \A i \in it' + 1 .. N : i \in it + 1 .. N
    BY <1>1, <1>3
  <2>2. it' \in 0 .. N
    BY <1>1, <1>5
  <2> QED
    BY <1>1, <1>2, <2>1, <2>2 DEF BatchOK
<1>10. Counting'
  <2>1. Cardinality(Judged \cup {c}) = (iter - 1) + 1
    <3>1. IsFiniteSet(Judged)
      BY <1>2, BatchFinite
    <3> HIDE DEF c
    <3> QED
      BY <1>3, <1>8, <3>1, FS_AddElement
  <2>2. Cardinality(Judged') = iter' - 1
    BY <1>1, <1>3, <1>8, <2>1
  <2>3. (iter - 1) + (N - it) = ((iter + 1) - 1) + (N - (it + 1))
    BY <1>3
  <2>4. Cardinality(all_configs') = (iter' - 1) + (N - it')
    BY <1>1, <1>3, <2>3
  <2>5. iter' \in Nat \ {0} /\ n_iter' \in Nat /\ Len(batch_confs') = N
    BY <1>1, <1>3
  <2> QED
    BY <1>1, <1>2, <2>2, <2>4, <2>5 DEF Counting
<1>11. PICK K : K = Judged \cup {c}
  OBVIOUS
<1>12. TotalsOf(K)'
  <2>1. /\ wrong_locs' = wrong_locs \cup wrong
        /\ wrong_configs' = (IF wrong = {} THEN wrong_configs ELSE wrong_configs \cup {c})
        /\ wrong_locs_nig' = wrong_locs_nig \cup wrong_nig
        /\ wrong_configs_nig' = (IF wrong_nig = {} THEN wrong_configs_nig ELSE wrong_configs_nig \cup {c})
        /\ missing_locs' = missing_locs \cup (cov \ DOMAIN ma)
    BY <1>6 DEF judge
  <2>2. ma' = ma
    BY <1>1
  <2>3. PICK J : J = Judged
    OBVIOUS
  <2>4. TotalsOf(J)
    BY <1>2, <2>3
  <2>5. PICK d, w, n, o : d = c /\ w = wrong /\ n = wrong_nig /\ o = cov
    OBVIOUS
  <2>6. /\ d \in Configs /\ o = OtterRun(Entries, d)
        /\ w = {l \in DOMAIN ma : eval_res(l, d) # (l \in o)} /\ n = {l \in w : ~ma[l].ignored}
    BY <1>6, <2>5
  <2>7. K = J \cup {d}
    BY <1>11, <2>3, <2>5
  <2>8. /\ wrong_locs' = wrong_locs \cup w
        /\ wrong_configs' = (IF w = {} THEN wrong_configs ELSE wrong_configs \cup {d})
        /\ wrong_locs_nig' = wrong_locs_nig \cup n
        /\ wrong_configs_nig' = (IF n = {} THEN wrong_configs_nig ELSE wrong_configs_nig \cup {d})
        /\ missing_locs' = missing_locs \cup (o \ DOMAIN ma)
    BY <2>1, <2>5
  <2> HIDE DEF c, cov, wrong, wrong_nig
  <2> QED
    BY <2>2, <2>4, <2>6, <2>7, <2>8, TotalsGrow
<1>13. TotalsOf(Judged)'
  <2>1. K = Judged'
    BY <1>8, <1>11
  <2> QED
    BY <1>12, <2>1 DEF TotalsOf
<1> QED
  BY <1>1, <1>2, <1>9, <1>10, <1>13 DEF ValidateInv

(* What is known of the batch and the totals stays.                        *)
LEMMA NoBatchChange ==
    ASSUME UNCHANGED <<run_full, n_iter, generated_full_configs, batch_confs, it, iter, all_configs,
                       totals, ma>>,
           BatchOK, Counting, TotalsOf(Judged)
    PROVE  BatchOK' /\ Counting' /\ TotalsOf(Judged)'
<1>1. Judged' = Judged
  BY DEF Judged
<1>2. BatchOK'
  BY DEF BatchOK
<1>3. Counting'
  BY <1>1 DEF Counting
<1>4. TotalsOf(Judged)' <=> TotalsOf(Judged')
  BY DEF TotalsOf, totals, WrongOn, Covers, NotIgnored
<1> QED
  BY <1>1, <1>2, <1>3, <1>4

LEMMA DrawForever ==
    ASSUME ValidateInv, rand_batch_forever, InputsStay
    PROVE  ValidateInv'
<1>1. /\ validate = "loop" /\ validate' = "drawing" /\ alg_version' = alg_version /\ read' = read
      /\ run_full' = run_full
      /\ UNCHANGED <<run_full, n_iter, generated_full_configs, batch_confs, it, iter, all_configs,
                     totals, ma>>
  BY DEF rand_batch_forever, NewBatch, InputsStay
<1>2. BatchOK' /\ Counting' /\ TotalsOf(Judged)'
  BY <1>1, NoBatchChange DEF ValidateInv
<1> QED
  BY <1>1, <1>2 DEF ValidateInv

LEMMA EndValidate ==
    ASSUME ValidateInv, end_validate, InputsStay
    PROVE  ValidateInv'
<1>1. /\ validate = "loop" /\ validate' = "done" /\ alg_version' = alg_version /\ read' = read
      /\ run_full' = run_full /\ iter' = iter /\ n_iter' = n_iter /\ iter > n_iter
      /\ UNCHANGED <<run_full, n_iter, generated_full_configs, batch_confs, it, iter, all_configs,
                     totals, ma>>
  BY DEF end_validate, InputsStay
<1>2. BatchOK' /\ Counting' /\ TotalsOf(Judged)'
  BY <1>1, NoBatchChange DEF ValidateInv
<1> QED
  BY <1>1, <1>2 DEF ValidateInv

LEMMA ValidateStays ==
    ASSUME ValidateInv, UNCHANGED validatevars, validate # "none" => InputsStay
    PROVE  ValidateInv'
<1>1. CASE validate = "none"
  BY <1>1 DEF ValidateInv, ValidateIdle, validatevars, totals
<1>2. CASE validate # "none"
  <2>1. /\ validate' = validate /\ alg_version' = alg_version /\ read' = read
        /\ run_full' = run_full /\ iter' = iter /\ n_iter' = n_iter
        /\ UNCHANGED <<run_full, n_iter, generated_full_configs, batch_confs, it, iter, all_configs,
                       totals, ma>>
    BY <1>2 DEF validatevars, InputsStay
  <2>2. BatchOK' /\ Counting' /\ TotalsOf(Judged)'
    BY <1>2, <2>1, NoBatchChange DEF ValidateInv
  <2> QED
    BY <1>2, <2>1, <2>2 DEF ValidateInv
<1> QED
  BY <1>1, <1>2

LEMMA ValidateStep ==
    ASSUME ValidateInv, begin_validate \/ ValidateNext, alg_version = 1, read = "yes", Known(ma), InputsStay
    PROVE  ValidateInv'
BY BeginValidate, FullBatch, RandBatch, DrawForever, Judge, EndValidate DEF ValidateNext

LEMMA ValidateFollows ==
    ASSUME ValidateInv
    PROVE  ValidationExact
<1> SUFFICES ASSUME validate # "none" PROVE ValidationExact
  BY DEF ValidationExact
<1>1. BatchOK /\ Counting /\ TotalsOf(Judged)
  BY DEF ValidateInv
<1>2. Cardinality(Judged) = iter - 1
  BY <1>1 DEF Counting
<1>3. ASSUME validate = "done", run_full PROVE Judged = Configs
  <2>1. iter > n_iter /\ n_iter = Cardinality(Configs) /\ iter \in Nat \ {0}
    BY <1>1, <1>3 DEF ValidateInv, Counting
  <2>2. /\ Judged \subseteq Configs /\ IsFiniteSet(Configs)
        /\ Cardinality(Configs) \in Nat
    BY <1>1, BatchFinite DEF BatchOK, Judged
  <2>3. Cardinality(Judged) \in Nat /\ Cardinality(Judged) <= Cardinality(Configs)
    BY <1>1, <2>2, BatchFinite, FS_Subset
  <2>4. Cardinality(Judged) = Cardinality(Configs)
    BY <1>2, <2>1, <2>2, <2>3
  <2> QED
    BY <2>2, <2>4, FS_Subset
<1>4. /\ wrong_configs = {c \in Judged : \E l \in DOMAIN ma : WrongOn(l, c)}
      /\ wrong_locs = {l \in DOMAIN ma : \E c \in Judged : WrongOn(l, c)}
      /\ wrong_configs_nig = {c \in Judged : \E l \in NotIgnored : WrongOn(l, c)}
      /\ wrong_locs_nig = {l \in NotIgnored : \E c \in Judged : WrongOn(l, c)}
      /\ missing_locs = (UNION {OtterRun(Entries, c) : c \in Judged}) \ DOMAIN ma
  BY <1>1 DEF TotalsOf
<1> QED
  BY <1>2, <1>3, <1>4 DEF ValidationExact, WrongOn, Covers, NotIgnored

------------------------------------------------------------------------------
LEMMA CompareStep ==
    ASSUME CompareInv, begin_compare \/ CompareNext, alg_version = 0, read = "yes",
           Known(ma), Known(mb), InputsStay
    PROVE  CompareInv'
BY BeginCompare, VisitA, BeginB, VisitB, BeginCount, CountModel, EndCount DEF CompareNext

(* The invariant of the analyzer: only one of the analyses runs, on answers*)
(* that do not change.                                                     *)
AnalyzerInv == RInv /\ CompareInv /\ ValidateInv

LEMMA AnalyzerInit == Init => AnalyzerInv
<1> SUFFICES ASSUME Init PROVE AnalyzerInv
  OBVIOUS
<1>1. CompareInv
  BY DEF Init, CompareInv, CompareIdle
<1>2. ValidateInv
  BY DEF Init, ValidateInv, ValidateIdle
<1> QED
  BY <1>1, <1>2, InitRead DEF AnalyzerInv

LEMMA AnalyzerNext == AnalyzerInv /\ [Next]_vars => AnalyzerInv'
<1> SUFFICES ASSUME AnalyzerInv, [Next]_vars PROVE AnalyzerInv'
  OBVIOUS
<1>1. RInv /\ RInv' /\ CompareInv /\ ValidateInv
  BY NextRead DEF AnalyzerInv
<1>2. CASE read_inputs
  <2>1. read = "no" /\ UNCHANGED comparevars /\ UNCHANGED validatevars
    BY <1>2 DEF read_inputs
  <2>2. compare = "none" /\ validate = "none"
    BY <1>1, <2>1 DEF CompareInv, ValidateInv
  <2> QED
    BY <1>1, <2>1, <2>2, CompareStays, ValidateStays DEF AnalyzerInv
<1>3. CASE run_alg
  <2>1. read = "yes" /\ InputsStay /\ Known(ma) /\ (alg_version = 0 => Known(mb))
    BY <1>1, <1>3, ReadIsKnown DEF run_alg, InputsStay, InputsKnown
  <2>2. CASE /\ alg_version = 0 /\ (begin_compare \/ CompareNext)
             /\ UNCHANGED validatevars
    BY <1>1, <2>1, <2>2, CompareStep, ValidateStays DEF AnalyzerInv
  <2>3. CASE /\ alg_version = 1 /\ (begin_validate \/ ValidateNext)
             /\ UNCHANGED comparevars
    BY <1>1, <2>1, <2>3, ValidateStep, CompareStays DEF AnalyzerInv
  <2>4. CASE UNCHANGED comparevars /\ UNCHANGED validatevars
    BY <1>1, <2>1, <2>4, CompareStays, ValidateStays DEF AnalyzerInv
  <2> QED
    BY <1>3, <2>2, <2>3, <2>4 DEF run_alg
<1>4. CASE UNCHANGED vars
  <2>1. InputsStay /\ UNCHANGED comparevars /\ UNCHANGED validatevars
    BY <1>4 DEF vars, InputsStay
  <2> QED
    BY <1>1, <2>1, CompareStays, ValidateStays DEF AnalyzerInv
<1> QED
  BY <1>2, <1>3, <1>4 DEF Next

LEMMA AnalyzerAlways == Spec => []AnalyzerInv
BY AnalyzerInit, AnalyzerNext, PTL DEF Spec

(* The totals of a comparison are those of the two answers that were read, *)
(* whatever models the solver returns and in whatever order.               *)
THEOREM Totals == Spec => []TotalsRight
<1>1. AnalyzerInv => TotalsRight
  BY ReadIsKnown, TotalsFollow DEF AnalyzerInv
<1> QED
  BY AnalyzerAlways, <1>1, PTL

(* The totals of a validation are at every moment those of the             *)
(* configurations judged, for any size of the batches and any draws; --full*)
(* judges them all.                                                        *)
THEOREM Validation == Spec => []ValidationExact
<1>1. AnalyzerInv => ValidationExact
  BY ValidateFollows DEF AnalyzerInv
<1> QED
  BY AnalyzerAlways, <1>1, PTL

------------------------------------------------------------------------------
(* The reduction.                                                          *)

CminTyped ==
    /\ vd \in Seq((SUBSET Configs) \ {{}})
    /\ confs \in Seq(Configs)
    /\ L \in Nat /\ R \in Nat /\ L <= R /\ R <= Len(vd)
    /\ e \in SUBSET Configs

CminFresh == cmin = "none" => vd = << >> /\ confs = << >> /\ L = 0 /\ R = 0 /\ e = Configs

(* The inner loop: what is conjoined is satisfied by all of e or by what   *)
(* was emitted before, and begins with an interaction that is new.         *)
ConjoinedOK ==
    cmin = "loop" =>
        /\ \A i \in 1 .. L : Covered(i)
        /\ \A i \in L + 1 .. R : Covered(i) \/ e \subseteq vd[i]
        /\ L < Len(vd) => ~Covered(L + 1)
        /\ R > L => e # {}
        /\ R = L => e = Configs

AllCovered == cmin = "done" => \A i \in 1 .. Len(vd) : Covered(i)

NoneSuperfluous ==
    \A k \in 1 .. Len(confs) : \E i \in 1 .. Len(vd) :
        confs[k] \in vd[i] /\ \A j \in 1 .. k - 1 : confs[j] \notin vd[i]

CminInv == /\ CminTyped /\ CminFresh /\ ConjoinedOK /\ AllCovered /\ NoneSuperfluous
        /\ cmin \in {"none", "loop", "done"}

------------------------------------------------------------------------------
LEMMA CminIdleInv == CminIdle => CminInv
<1> SUFFICES ASSUME CminIdle PROVE CminInv
  OBVIOUS
<1> USE DEF CminIdle
<1>1. vd \in Seq((SUBSET Configs) \ {{}}) /\ confs \in Seq(Configs) /\ Len(vd) = 0 /\ Len(confs) = 0
  BY EmptySeq
<1> QED
  BY <1>1 DEF CminInv, CminTyped, CminFresh, ConjoinedOK, AllCovered, NoneSuperfluous

LEMMA BeginCmin ==
    ASSUME CminInv, NEW s \in Interactions, begin_cmin(s)
    PROVE  CminInv'
<1>1. /\ vd' = s /\ cmin' = "loop" /\ confs' = << >> /\ L' = 0 /\ R' = 0 /\ e' = Configs
  BY DEF begin_cmin, CminInv, CminFresh
<1>2. PICK k \in Nat : s \in [1 .. k -> (SUBSET Configs) \ {{}}]
  BY DEF Interactions
<1>3. s \in Seq((SUBSET Configs) \ {{}}) /\ Len(s) \in Nat
  BY <1>2, LenProperties
<1>4. confs' \in Seq(Configs) /\ Len(confs') = 0
  BY <1>1, EmptySeq
<1>5. CminTyped'
  BY <1>1, <1>3, <1>4 DEF CminTyped
<1>6. \A i : ~Covered(i)'
  BY <1>4 DEF Covered, Emitted
<1>7. ConjoinedOK'
  BY <1>1, <1>6 DEF ConjoinedOK
<1> QED
  BY <1>1, <1>4, <1>5, <1>7 DEF CminInv, CminFresh, AllCovered, NoneSuperfluous

LEMMA SkipCovered ==
    ASSUME CminInv, skip_covered
    PROVE  CminInv'
<1>1. /\ cmin = "loop" /\ R < Len(vd) /\ Covered(R + 1) /\ R' = R + 1
      /\ UNCHANGED <<vd, confs, L, e, cmin>>
  BY DEF skip_covered
<1>2. CminTyped'
  BY <1>1 DEF CminInv, CminTyped
<1>3. \A i : Covered(i)' <=> Covered(i)
  BY <1>1 DEF Covered, Emitted
<1>4. R > L
  <2>1. L = R => ~Covered(R + 1)
    BY <1>1 DEF CminInv, ConjoinedOK
  <2> QED
    BY <1>1, <2>1 DEF CminInv, CminTyped
<1>5. ConjoinedOK'
  BY <1>1, <1>3, <1>4 DEF CminInv, CminTyped, ConjoinedOK
<1> QED
  BY <1>1, <1>2, <1>5 DEF CminInv, CminFresh, AllCovered, NoneSuperfluous

LEMMA ConjoinStep ==
    ASSUME CminInv, conjoin
    PROVE  CminInv'
<1>1. /\ cmin = "loop" /\ R < Len(vd) /\ R' = R + 1
      /\ e \cap vd[R + 1] # {} /\ e' = e \cap vd[R + 1]
      /\ UNCHANGED <<vd, confs, L, cmin>>
  BY DEF conjoin
<1>2. CminTyped'
  BY <1>1 DEF CminInv, CminTyped
<1>3. \A i : Covered(i)' <=> Covered(i)
  BY <1>1 DEF Covered, Emitted
<1>4. ConjoinedOK'
  BY <1>1, <1>3 DEF CminInv, CminTyped, ConjoinedOK
<1> QED
  BY <1>1, <1>2, <1>4 DEF CminInv, CminFresh, AllCovered, NoneSuperfluous

LEMMA EmitStep ==
    ASSUME CminInv, emit
    PROVE  CminInv'
<1>1. /\ cmin = "loop" /\ L < Len(vd) /\ L' = R /\ e' = Configs /\ vd' = vd /\ R' = R
      /\ R < Len(vd) => ~Covered(R + 1) /\ e \cap vd[R + 1] = {}
  BY DEF emit
<1>2. R > L
  <2> SUFFICES ASSUME R = L PROVE FALSE
    BY DEF CminInv, CminTyped
  <2>1. vd[R + 1] \in (SUBSET Configs) \ {{}}
    BY <1>1 DEF CminInv, CminTyped
  <2> QED
    BY <1>1, <2>1 DEF CminInv, ConjoinedOK
<1>3. PICK c \in e : /\ confs' = Append(confs, c)
                     /\ cmin' = IF c \in Emitted THEN "failed" ELSE "loop"
  BY <1>2 DEF emit
<1>4. c \in vd[L + 1] /\ ~Covered(L + 1) /\ L + 1 \in 1 .. Len(vd)
  BY <1>1, <1>2 DEF CminInv, CminTyped, ConjoinedOK
<1>5. c \notin Emitted /\ cmin' = "loop"
  BY <1>3, <1>4 DEF Covered
<1>6. /\ confs' \in Seq(Configs) /\ Len(confs') = Len(confs) + 1 /\ Len(confs) \in Nat
      /\ \A k \in 1 .. Len(confs) : confs'[k] = confs[k]
      /\ confs'[Len(confs) + 1] = c
  BY <1>3 DEF CminInv, CminTyped
<1>7. Emitted' = Emitted \cup {c}
  BY <1>6 DEF Emitted
<1>8. \A i : Covered(i)' <=> Covered(i) \/ c \in vd[i]
  BY <1>1, <1>7 DEF Covered
<1>9. CminTyped'
  BY <1>1, <1>6 DEF CminInv, CminTyped
<1>10. ConjoinedOK'
  <2>1. \A i \in 1 .. R : Covered(i)'
    <3> SUFFICES ASSUME NEW i \in 1 .. R PROVE Covered(i) \/ c \in vd[i]
      BY <1>8
    <3>1. i \in 1 .. L \/ i \in L + 1 .. R
      BY DEF CminInv, CminTyped
    <3> QED
      BY <1>1, <3>1 DEF CminInv, ConjoinedOK
  <2>2. R < Len(vd) => ~Covered(R + 1)'
    BY <1>1, <1>8
  <2> QED
    BY <1>1, <2>1, <2>2 DEF ConjoinedOK, CminInv, CminTyped
<1>11. NoneSuperfluous'
  <2> SUFFICES ASSUME NEW k \in 1 .. Len(confs) + 1
               PROVE  \E i \in 1 .. Len(vd) :
                         confs'[k] \in vd[i] /\ \A j \in 1 .. k - 1 : confs'[j] \notin vd[i]
    BY <1>1, <1>6 DEF NoneSuperfluous
  <2>1. CASE k \in 1 .. Len(confs)
    <3>1. PICK i \in 1 .. Len(vd) :
             confs[k] \in vd[i] /\ \A j \in 1 .. k - 1 : confs[j] \notin vd[i]
      BY <2>1 DEF CminInv, NoneSuperfluous
    <3>2. \A j \in 1 .. k - 1 : confs'[j] = confs[j]
      BY <1>6, <2>1
    <3> QED
      BY <1>6, <2>1, <3>1, <3>2
  <2>2. CASE k = Len(confs) + 1
    <3>1. \A j \in 1 .. Len(confs) : confs'[j] \notin vd[L + 1]
      BY <1>4, <1>6 DEF Covered, Emitted
    <3>2. confs'[k] \in vd[L + 1] /\ k - 1 = Len(confs)
      BY <1>4, <1>6, <2>2
    <3> QED
      BY <1>4, <3>1, <3>2
  <2> QED
    BY <1>6, <2>1, <2>2
<1> QED
  BY <1>5, <1>9, <1>10, <1>11 DEF CminInv, CminFresh, AllCovered

LEMMA EndCmin ==
    ASSUME CminInv, end_cmin
    PROVE  CminInv'
<1>1. /\ cmin = "loop" /\ L = Len(vd) /\ UNCHANGED <<vd, confs, L, R, e>>
      /\ cmin' = IF \A i \in DOMAIN vd : Covered(i) THEN "done" ELSE "failed"
  BY DEF end_cmin
<1>2. \A i \in 1 .. Len(vd) : Covered(i)
  BY <1>1 DEF CminInv, ConjoinedOK
<1>3. DOMAIN vd = 1 .. Len(vd)
  BY DEF CminInv, CminTyped
<1>4. cmin' = "done"
  BY <1>1, <1>2, <1>3
<1>5. CminTyped' /\ NoneSuperfluous'
  BY <1>1 DEF CminInv, CminTyped, NoneSuperfluous
<1>6. AllCovered'
  <2>1. \A i : Covered(i)' <=> Covered(i)
    BY <1>1 DEF Covered, Emitted
  <2> QED
    BY <1>1, <1>2, <2>1 DEF AllCovered
<1> QED
  BY <1>4, <1>5, <1>6 DEF CminInv, CminFresh, ConjoinedOK

LEMMA CminNextInv == CminInv /\ [CminNext \/ \E s \in Interactions : begin_cmin(s)]_cminvars => CminInv'
<1> SUFFICES ASSUME CminInv, [CminNext \/ \E s \in Interactions : begin_cmin(s)]_cminvars PROVE CminInv'
  OBVIOUS
<1>1. CASE \E s \in Interactions : begin_cmin(s)
  BY <1>1, BeginCmin
<1>2. CASE CminNext
  BY <1>2, SkipCovered, ConjoinStep, EmitStep, EndCmin DEF CminNext
<1>3. CASE UNCHANGED cminvars
  <2> USE <1>3 DEF cminvars
  <2>1. \A i : Covered(i)' <=> Covered(i)
    BY DEF Covered, Emitted
  <2>2. CminTyped' /\ CminFresh' /\ NoneSuperfluous'
    BY DEF CminInv, CminTyped, CminFresh, NoneSuperfluous
  <2>3. ConjoinedOK' /\ AllCovered'
    BY <2>1 DEF CminInv, ConjoinedOK, AllCovered
  <2> QED
    BY <2>2, <2>3 DEF CminInv
<1> QED
  BY <1>1, <1>2, <1>3

(* run_analyze_cmin never stops at a CHECK, and its configurations satisfy *)
(* every interaction with none that was superfluous when it was emitted,   *)
(* for interactions that can each be satisfied, in any order.              *)
THEOREM MinimalCover == CminSpec => []CminCovers
<1>1. CminInv => CminCovers
  <2> SUFFICES ASSUME CminInv PROVE CminCovers
    OBVIOUS
  <2>1. DOMAIN vd = 1 .. Len(vd) /\ DOMAIN confs = 1 .. Len(confs)
    BY DEF CminInv, CminTyped
  <2> QED
    BY <2>1 DEF CminInv, AllCovered, NoneSuperfluous, CminCovers
<1> QED
  BY CminIdleInv, CminNextInv, <1>1, PTL DEF CminSpec

(* The trees of an answer that was read, in any order, are satisfiable     *)
(* interactions.                                                           *)
LEMMA TreesAreInteractions ==
    ASSUME Known(ma), NEW S \in SUBSET DOMAIN ma, NEW s \in SetToSeqs(S)
    PROVE  [i \in DOMAIN s |-> ma[s[i]].e] \in Interactions
<1> DEFINE n == Cardinality(S)
<1>1. n \in Nat
  BY FS_Subset, FS_CardinalityType DEF Known
<1>2. s \in [1 .. n -> S]
  BY DEF SetToSeqs
<1> HIDE DEF n
<1>3. DOMAIN s = 1 .. n /\ \A i \in 1 .. n : ma[s[i]].e \in (SUBSET Configs) \ {{}}
  BY <1>2 DEF Known
<1>4. [i \in DOMAIN s |-> ma[s[i]].e] \in [1 .. n -> (SUBSET Configs) \ {{}}]
  BY <1>3
<1> QED
  BY <1>1, <1>4 DEF Interactions

(* The analyzer gives the reduction nothing else than interactions that    *)
(* can be satisfied, and only once.                                        *)
THEOREM ImplementsCmin == Spec => CminSpec
<1>1. Init => CminIdle
  BY DEF Init
<1>2. AnalyzerInv /\ [Next]_vars
         => [CminNext \/ \E s \in Interactions : begin_cmin(s)]_cminvars
  <2> SUFFICES ASSUME AnalyzerInv, [Next]_vars
               PROVE  [CminNext \/ \E s \in Interactions : begin_cmin(s)]_cminvars
    OBVIOUS
  <2>1. CASE read_inputs \/ UNCHANGED vars
    BY <2>1 DEF read_inputs, vars
  <2>2. CASE run_alg /\ ~UNCHANGED cminvars
    <3>1. Known(ma)
      BY <2>2, ReadIsKnown DEF AnalyzerInv, InputsKnown, run_alg
    <3>2. CASE CminNext
      BY <3>2
    <3>3. CASE \E s \in SetToSeqs({l \in DOMAIN ma : ma[l].is_first}) :
                  begin_cmin([i \in DOMAIN s |-> ma[s[i]].e])
      <4>1. PICK s \in SetToSeqs({l \in DOMAIN ma : ma[l].is_first}) :
                    begin_cmin([i \in DOMAIN s |-> ma[s[i]].e])
        BY <3>3
      <4>2. [i \in DOMAIN s |-> ma[s[i]].e] \in Interactions
        BY <3>1, TreesAreInteractions
      <4> QED
        BY <4>1, <4>2
    <3> QED
      BY <2>2, <3>2, <3>3 DEF run_alg
  <2> QED
    BY <2>1, <2>2 DEF Next
<1> QED
  BY AnalyzerAlways, <1>1, <1>2, PTL DEF Spec, CminSpec

(* In every run of the analyzer, too, the reduction reaches no failing     *)
(* CHECK and its configurations show every interaction of the answer.      *)
THEOREM Reduction == Spec => []CminCovers
BY ImplementsCmin, MinimalCover, PTL
===============================================================================
