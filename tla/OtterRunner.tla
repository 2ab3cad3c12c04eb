----------------------------- MODULE OtterRunner -----------------------------
(***************************************************************************)
(* igen/runner/OtterRunner.cpp: the results of a symbolic execution, read  *)
(* from a file, in place of a program.  An entry is a set of locations and *)
(* the samples, partly set configurations, that cover them.                *)
(***************************************************************************)
EXTENDS Domain

(* OtterRunner::_match: a sample and a configuration agree where both are  *)
(* set.                                                                    *)
_match(a, b) == \A i \in Vars : a[i] # Unset /\ b[i] # Unset => a[i] = b[i]

(* OtterRunner::run                                                        *)
OtterRun(entries, config) ==
    UNION {e.covs : e \in {x \in entries : \E c \in x.confs : _match(c, config)}}
==============================================================================
