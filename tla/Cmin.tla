--------------------------------- MODULE Cmin ---------------------------------
(***************************************************************************)
(* Analyzer::run_analyze_cmin: few configurations that together satisfy    *)
(* every interaction.  Interactions are conjoined in order as long as they *)
(* can be satisfied together; those that a configuration already emitted   *)
(* satisfies are skipped.                                                  *)
(*                                                                         *)
(* An interaction is the set of configurations that satisfy it; its formula*)
(* and its tree are the same set, which read_file checks.  gen_model is    *)
(* the SMT solver, the options a model leaves open are drawn at random: any*)
(* configuration that satisfies the formula.                               *)
(***************************************************************************)
EXTENDS Domain, Sequences

VARIABLES
    vd,      (* the interactions, one per tree, shuffled in a repeat *)
    confs,   (* the configurations emitted                           *)
    L, R,    (* the interactions vd[L + 1 .. R] are conjoined in     *)
    e,
    cmin     (* where run_analyze_cmin is                            *)

cminvars == <<vd, confs, L, R, e, cmin>>

Emitted == {confs[k] : k \in 1 .. Len(confs)}

(* Mutant: only the configuration emitted last is looked at.               *)
Covered_last(i) == confs # << >> /\ confs[Len(confs)] \in vd[i]

(* Does a configuration emitted before satisfy interaction i?              *)
Covered(i) == \E c \in Emitted : c \in vd[i]

CminIdle ==
    /\ vd = << >> /\ confs = << >> /\ L = 0 /\ R = 0 /\ e = Configs
    /\ cmin = "none"

begin_cmin(interactions) ==
    /\ cmin = "none"
    /\ vd' = interactions
    /\ cmin' = "loop"
    /\ UNCHANGED <<confs, L, R, e>>

skip_covered ==
    /\ cmin = "loop" /\ R < Len(vd) /\ Covered(R + 1)
    /\ R' = R + 1
    /\ UNCHANGED <<vd, confs, L, e, cmin>>

conjoin ==
    /\ cmin = "loop" /\ R < Len(vd) /\ ~Covered(R + 1)
    /\ e \cap vd[R + 1] # {}
    /\ e' = e \cap vd[R + 1]
    /\ R' = R + 1
    /\ UNCHANGED <<vd, confs, L, cmin>>

(* The end of the inner loop and a new configuration.  CHECK_GT(R, L) and  *)
(* CHECK on the hash of the configuration.                                 *)
emit ==
    /\ cmin = "loop" /\ L < Len(vd)
    /\ R < Len(vd) => ~Covered(R + 1) /\ e \cap vd[R + 1] = {}
    /\ IF R > L
       THEN \E c \in e :
              /\ confs' = Append(confs, c)
              /\ cmin' = IF c \in Emitted THEN "failed" ELSE "loop"
       ELSE cmin' = "failed" /\ UNCHANGED confs
    /\ L' = R /\ e' = Configs
    /\ UNCHANGED <<vd, R>>

(* The last loop: CHECK(ok) for every interaction.                         *)
end_cmin ==
    /\ cmin = "loop" /\ L = Len(vd)
    /\ cmin' = IF \A i \in DOMAIN vd : Covered(i) THEN "done" ELSE "failed"
    /\ UNCHANGED <<vd, confs, L, R, e>>

CminNext == skip_covered \/ conjoin \/ emit \/ end_cmin

(* The interactions of an answer: a location has been covered by a run, and*)
(* its formula agrees with the runs.                                       *)
Interactions == UNION {[1 .. k -> (SUBSET Configs) \ {{}}] : k \in Nat}

CminSpec ==
    /\ CminIdle
    /\ [][CminNext \/ \E s \in Interactions : begin_cmin(s)]_cminvars

------------------------------------------------------------------------------
(* The algorithm never stops at one of its CHECKs, the configurations it   *)
(* reports satisfy every interaction, and none of them is superfluous when *)
(* it is emitted: each satisfies an interaction that the ones before it do *)
(* not.                                                                    *)
CminCovers ==
    /\ cmin # "failed"
    /\ cmin = "done" => \A i \in DOMAIN vd : Covered(i)
    /\ \A k \in DOMAIN confs : \E i \in DOMAIN vd :
          /\ confs[k] \in vd[i]
          /\ \A j \in 1 .. k - 1 : confs[j] \notin vd[i]
==============================================================================
