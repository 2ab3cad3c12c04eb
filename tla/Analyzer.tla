------------------------------- MODULE Analyzer -------------------------------
(***************************************************************************)
(* igen/algo/Analyzer.cpp: what becomes of an answer of the learning loop. *)
(* run_analyzer reads it back and, by the option --alg-version, compares it*)
(* with another (0), validates it by running the program (1) or picks few  *)
(* configurations that show all its interactions (4).                      *)
(***************************************************************************)
EXTENDS Compare, Validate, Cmin

CONSTANT Answers   (* the answers that may be in a file *)

ASSUME AnswersAssumption == \A answer \in Answers : IsAnswer(answer)

VARIABLES
    alg_version,
    written,     (* the answers in the input files                            *)
    read         (* "no", "yes", or "failed" at a CHECK of read_file          *)

vars == <<alg_version, written, read, ma, mb, comparevars, validatevars, cminvars>>

none == [l \in {} |-> 0]

Init ==
    /\ alg_version \in {0, 1, 4}
    /\ written \in (IF alg_version = 0 THEN Answers \X Answers ELSE {<<a>> : a \in Answers})
    /\ read = "no" /\ ma = none /\ mb = none
    /\ CompareIdle /\ ValidateIdle /\ CminIdle

(* Every version begins with this.                                         *)
read_inputs ==
    /\ read = "no"
    /\ LET results == [k \in DOMAIN written |-> read_file(Written(written[k]))]
       IN  /\ ma' = results[1].res
           /\ mb' = IF alg_version = 0 THEN results[2].res ELSE none
           /\ read' = IF \E k \in DOMAIN written : results[k].failed THEN "failed" ELSE "yes"
    /\ UNCHANGED <<alg_version, written, comparevars, validatevars, cminvars>>

(* vd: one interaction per tree, in the order of the names or shuffled.    *)
run_alg ==
    /\ read = "yes"
    /\ \/ /\ alg_version = 0
          /\ begin_compare \/ CompareNext
          /\ UNCHANGED <<validatevars, cminvars>>
       \/ /\ alg_version = 1
          /\ begin_validate \/ ValidateNext
          /\ UNCHANGED <<comparevars, cminvars>>
       \/ /\ alg_version = 4
          /\ \/ CminNext
             \/ \E s \in SetToSeqs({l \in DOMAIN ma : ma[l].is_first}) :
                   begin_cmin([i \in DOMAIN s |-> ma[s[i]].e])
          /\ UNCHANGED <<comparevars, validatevars>>
    /\ UNCHANGED <<alg_version, written, read, ma, mb>>

Next == read_inputs \/ run_alg

Spec == Init /\ [][Next]_vars

------------------------------------------------------------------------------
(* What is read is what was written: every location with the formula, the  *)
(* tree, the class and the mark of its block, and no CHECK of read_file    *)
(* fails on a file that finish_alg wrote.                                  *)
Holds(m, answer) ==
    /\ DOMAIN m = UNION {Range(answer[i].locs) : i \in DOMAIN answer}
    /\ \A i \in DOMAIN answer : \A l \in Range(answer[i].locs) :
          m[l] = [e |-> answer[i].e, tree |-> answer[i].tree, ignored |-> answer[i].ignored,
                  is_first |-> l = answer[i].locs[1], id |-> i - 1]

AnswerReadBack ==
    read # "no" =>
        /\ read = "yes"
        /\ Holds(ma, written[1])
        /\ alg_version = 0 => Holds(mb, written[2])
=============================================================================
