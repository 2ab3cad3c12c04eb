------------------------------- MODULE LearnMC -------------------------------
(* Options with two values, one and three.                                 *)
EXTENDS LearnLocation, TLC

MCNValues == (0 :> 2) @@ (1 :> 1) @@ (2 :> 3)

C(a, b) == (0 :> a) @@ (1 :> 0) @@ (2 :> b)

(* Nothing and everything, one value, a conjunction, a disjunction, and an *)
(* exclusive or, on which every split has gain 0.                          *)
MCPrograms == {{}, Configs, {c \in Configs : c[2] = 1}, {C(0, 0)},
               Configs \ {C(1, 2)}, {C(0, 0), C(1, 1)}}

(* The proportions of iter2_config.js.                                     *)
MCHeavy == <<1, 1, 0>>
MCNormal == <<1, 0, 0>>
MCRetry == <<0, 1, 0>>
==============================================================================
