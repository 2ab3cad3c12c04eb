------------------------------ MODULE AnswerFile ------------------------------
(***************************************************************************)
(* The file of an answer: what Iter2's finish_alg writes and what the      *)
(* Analyzer's read_file makes of it.                                       *)
(*                                                                         *)
(* A block of an answer is a class of locations with the same coverage:    *)
(* their names, the formula (as the set of the configurations that satisfy *)
(* it), the tree and whether the class is ignored.  A line that is neither *)
(* a comment nor a rule of - or = is "text", and what it means depends on  *)
(* where the reader is; empty lines, which are skipped, are left out.      *)
(***************************************************************************)
EXTENDS TreeForms

VARIABLES ma, mb   (* the answers read: a record for every location *)

Comment(says_ignored) == [is |-> "comment", of |-> says_ignored]
Text(of) == [is |-> "text", of |-> of]
Rule(c) == [is |-> c, of |-> FALSE]

------------------------------------------------------------------------------
(* finish_alg.  The first comment holds the arguments of the program; they *)
(* are taken not to have the word IGNORED in them.                         *)
BlockLines(b) ==
    (IF b.ignored THEN <<Comment(TRUE)>> ELSE << >>)
        \o <<Comment(FALSE), Comment(FALSE), Text(b.locs), Rule("-"), Text(b.e), Rule("-"),
             Text(Serialize(b.tree)), Rule("=")>>

Written(answer) ==
    FlattenSeq(<<<<Comment(FALSE), Comment(FALSE), Comment(FALSE), Rule("=")>>>>
                   \o [i \in DOMAIN answer |-> BlockLines(answer[i])])

(* The answers that are written when every tree agrees with the runs: no   *)
(* location is in two classes, every class was covered by a run, its tree  *)
(* was finished and gives its formula, and classes differ in some run.     *)
IsAnswer(answer) ==
    /\ answer \in Seq(Range(answer))
    /\ \A b \in Range(answer) :
          /\ b.locs \in Seq(Range(b.locs)) /\ b.locs # << >> /\ IsInjective(b.locs)
          /\ b.e \in (SUBSET Configs) \ {{}}
          /\ b.tree = [n \in DOMAIN b.tree |-> b.tree[n]]
          /\ WellFormed(b.tree) /\ Mixed(b.tree) = b.e
          /\ b.ignored \in BOOLEAN
    /\ \A i, j \in DOMAIN answer : i # j =>
          /\ answer[i].e # answer[j].e
          /\ Range(answer[i].locs) \cap Range(answer[j].locs) = {}

------------------------------------------------------------------------------
(* read_file, a line at a time.  `failed` stands for its CHECKs.           *)
StartReading ==
    [read_state |-> 0, locs |-> << >>, sexpr |-> << >>, stree |-> << >>,
     ignored |-> FALSE, cur_id |-> 0, sexprid |-> {}, failed |-> FALSE,
     res |-> [l \in {} |-> 0]]

rule_minus(st) ==
    CASE st.read_state = 0 /\ st.locs # << >> -> [st EXCEPT !.read_state = 1]
      [] st.read_state = 1 /\ st.sexpr # << >> -> [st EXCEPT !.read_state = 2]
      [] OTHER -> [st EXCEPT !.failed = TRUE]

(* The hash of a formula stands for the formula.  The formula that the tree*)
(* gives must be equivalent to the one in the file.                        *)
end_block(st) ==
    LET e == Head(st.sexpr)
        tree == Deserialize(Head(st.stree))
        L == Range(st.locs)
        Read(l) == [e |-> e, tree |-> tree, ignored |-> st.ignored,
                    is_first |-> (l = Head(st.locs)), id |-> st.cur_id]
    IN  IF \/ st.sexpr = << >> \/ st.stree = << >>
           \/ e \in st.sexprid \/ Mixed(tree) # e
           \/ ~IsInjective(st.locs) \/ L \cap DOMAIN st.res # {}
        THEN [st EXCEPT !.failed = TRUE]
        ELSE [StartReading EXCEPT
                 !.cur_id = st.cur_id + 1, !.sexprid = st.sexprid \cup {e},
                 !.res = [l \in L \cup DOMAIN st.res |-> IF l \in L THEN Read(l) ELSE st.res[l]]]

text_line(st, of) ==
    CASE st.read_state = 0 -> [st EXCEPT !.locs = @ \o of]
      [] st.read_state = 1 -> [st EXCEPT !.sexpr = Append(@, of)]
      [] st.read_state = 2 -> IF st.stree = << >> THEN [st EXCEPT !.stree = <<of>>]
                              ELSE [st EXCEPT !.failed = TRUE]

(* Mutant: a comment speaks for the next block only if it says so, the flag*)
(* of the block before it stays.                                           *)
read_line_keeps_ignored(st, line) ==
    CASE st.failed -> st
      [] line.is = "comment" -> [st EXCEPT !.ignored = @ \/ line.of]
      [] line.is = "-" -> rule_minus(st)
      [] line.is = "=" -> IF st.locs = << >> THEN st
                          ELSE [end_block(st) EXCEPT !.ignored = st.ignored]
      [] line.is = "text" -> text_line(st, line.of)

read_line(st, line) ==
    CASE st.failed -> st
      [] line.is = "comment" -> [st EXCEPT !.ignored = @ \/ line.of]
      [] line.is = "-" -> rule_minus(st)
      [] line.is = "=" -> IF st.locs = << >> THEN st ELSE end_block(st)
      [] line.is = "text" -> text_line(st, line.of)

read_file(lines) ==
    LET state[k \in 0 .. Len(lines)] ==
            IF k = 0 THEN StartReading ELSE read_line(state[k - 1], lines[k])
    IN  state[Len(lines)]
=============================================================================
