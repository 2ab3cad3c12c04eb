------------------------------- MODULE Domain -------------------------------
(***************************************************************************)
(* Options and configurations: igen/Domain.h and igen/Config.h.  Option v  *)
(* is the variable with id v and its values are the indices of its labels. *)
(* A template is a Config in which some options are not set (-1).          *)
(***************************************************************************)
EXTENDS Integers, FiniteSets

CONSTANTS
    NumVars,   (* dom()->n_vars()                                          *)
    NValues    (* NValues[v] is dom()->n_values(v); parse refuses an option *)
               (* without values                                           *)

Vars == 0 .. NumVars - 1

ASSUME OptionsAssumption ==
    /\ NumVars \in Nat
    /\ NValues \in [Vars -> Nat \ {0}]

Values(v) == 0 .. NValues[v] - 1
AnyValue == UNION {Values(v) : v \in Vars}

Unset == -1

Configs == {c \in [Vars -> AnyValue] : \A v \in Vars : c[v] \in Values(v)}

Templates == {c \in [Vars -> AnyValue \cup {Unset}] :
                 \A v \in Vars : c[v] \in Values(v) \cup {Unset}}

(* curtmpl->set_all(-1)                                                    *)
NoneSet == [v \in Vars |-> Unset]

Free(t) == {v \in Vars : t[v] = Unset}

(* The configurations a template stands for (gen_all_configs(templ) lists  *)
(* them).                                                                  *)
Matches(c, t) == \A v \in Vars : t[v] \in {c[v], Unset}

(* A node of a decision tree is named by its template: the root has no     *)
(* option set, child i of a node that splits by option v has v set to i.   *)
Root == NoneSet
Child(n, v, i) == [n EXCEPT ![v] = i]
Children(n, v) == {Child(n, v, i) : i \in Values(v)}
Below(n, m) == \A v \in Vars : m[v] \in {n[v], Unset}
=============================================================================
