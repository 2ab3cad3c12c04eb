-------------------------------- MODULE Compare --------------------------------
(***************************************************************************)
(* Analyzer::run_analyzer_0 compares two answers, location by location, and*)
(* counts the configurations on which they differ: count_models has the SMT*)
(* solver enumerate models, which may leave options open.                  *)
(*                                                                         *)
(* The map is walked in the order of the names, here in any order.         *)
(***************************************************************************)
EXTENDS AnswerFile

VARIABLES
    todo,        (* the locations of A, then those of B, still to be visited  *)
    cntdiff, cntmissing,
    sdiff,       (* the ids of the classes of A that differ                   *)
    ve_cex,      (* the formulas of the differences so far, as one disjunction*)
    remaining,   (* what the solver still has to find models of               *)
    ncex,        (* the models counted                                        *)
    compare      (* where run_analyzer_0 is                                   *)

comparevars == <<todo, cntdiff, cntmissing, sdiff, ve_cex, remaining, ncex, compare>>

CompareIdle ==
    /\ todo = {} /\ cntdiff = 0 /\ cntmissing = 0 /\ sdiff = {} /\ ve_cex = {}
    /\ remaining = {} /\ ncex = 0 /\ compare = "none"

begin_compare ==
    /\ compare = "none"
    /\ todo' = DOMAIN ma /\ compare' = "A"
    /\ UNCHANGED <<cntdiff, cntmissing, sdiff, ve_cex, remaining, ncex>>

(* The models of dat.e != it->second.e, which count_models also appends to *)
(* ve_cex, behind the formula itself.                                      *)
expr_cex(l) == (ma[l].e \ mb[l].e) \cup (mb[l].e \ ma[l].e)

visit_A ==
    /\ compare = "A"
    /\ \E l \in todo :
          /\ todo' = todo \ {l}
          /\ IF l \notin DOMAIN mb
             THEN cntmissing' = cntmissing + 1 /\ UNCHANGED <<cntdiff, sdiff, ve_cex>>
             ELSE /\ ve_cex' = ve_cex \cup expr_cex(l)
                  /\ IF expr_cex(l) = {} THEN UNCHANGED <<cntdiff, sdiff>>
                     ELSE cntdiff' = cntdiff + 1 /\ sdiff' = sdiff \cup {ma[l].id}
                  /\ UNCHANGED cntmissing
    /\ UNCHANGED <<remaining, ncex, compare>>

begin_B ==
    /\ compare = "A" /\ todo = {}
    /\ todo' = DOMAIN mb /\ compare' = "B"
    /\ UNCHANGED <<cntdiff, cntmissing, sdiff, ve_cex, remaining, ncex>>

visit_B ==
    /\ compare = "B"
    /\ \E l \in todo :
          /\ todo' = todo \ {l}
          /\ cntmissing' = IF l \in DOMAIN ma THEN cntmissing ELSE cntmissing + 1
    /\ UNCHANGED <<cntdiff, sdiff, ve_cex, remaining, ncex, compare>>

begin_count ==
    /\ compare = "B" /\ todo = {}
    /\ remaining' = ve_cex /\ ncex' = 0 /\ compare' = "count"
    /\ UNCHANGED <<todo, cntdiff, cntmissing, sdiff, ve_cex>>

(* to_expr: what the model leaves open is not constrained by the formula.  *)
Cube(t) == {c \in Configs : Matches(c, t)}

(* Mutant: a model counts as one configuration.                            *)
this_cex_one(t) == 1

this_cex(t) == FoldFunctionOnSet(LAMBDA x, y : x * y, 1, NValues, Free(t))

count_model ==
    /\ compare = "count" /\ remaining # {}
    /\ \E m \in Templates :
          /\ Cube(m) \subseteq remaining
          /\ ncex' = ncex + this_cex(m)
          /\ remaining' = remaining \ Cube(m)
    /\ UNCHANGED <<todo, cntdiff, cntmissing, sdiff, ve_cex, compare>>

end_count ==
    /\ compare = "count" /\ remaining = {}
    /\ compare' = "done"
    /\ UNCHANGED <<todo, cntdiff, cntmissing, sdiff, ve_cex, remaining, ncex>>

CompareNext == visit_A \/ begin_B \/ visit_B \/ begin_count \/ count_model \/ end_count

------------------------------------------------------------------------------
(* The totals of the comparison are those of the two answers: locations    *)
(* that differ, locations in one of them only, and the configurations on   *)
(* which some location differs, each counted once however often it was     *)
(* found.                                                                  *)
TotalsRight ==
    compare = "done" =>
        LET Both == DOMAIN ma \cap DOMAIN mb
        IN  /\ cntdiff = Cardinality({l \in Both : ma[l].e # mb[l].e})
            /\ cntmissing = Cardinality((DOMAIN ma \cup DOMAIN mb) \ Both)
            /\ sdiff = {ma[l].id : l \in {k \in Both : ma[k].e # mb[k].e}}
            /\ ncex = Cardinality({c \in Configs : \E l \in Both : (c \in ma[l].e) # (c \in mb[l].e)})
=============================================================================
