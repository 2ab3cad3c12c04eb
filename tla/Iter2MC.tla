------------------------------- MODULE Iter2MC -------------------------------
(* Configurations and locations chosen so that the classes of locations    *)
(* change while the algorithm runs: 1 and 2 are covered by the same runs   *)
(* until c2 or c4 is run, 3 shows up with c3 only, and c5 covers 3 again   *)
(* but neither 1 nor 2.                                                    *)
EXTENDS Iter2

CONSTANTS c1, c2, c3, c4, c5

MCLocs == {1, 2, 3}

MCConfigs4 == {c1, c2, c3, c4}
MCConfigs5 == {c1, c2, c3, c4, c5}

MCCoverOf(c) == CASE c = c1 -> {1, 2} [] c = c2 -> {1} [] c = c3 -> {1, 2, 3}
                  [] c = c4 -> {2} [] c = c5 -> {3}
MCCover4 == [c \in MCConfigs4 |-> MCCoverOf(c)]
MCCover5 == [c \in MCConfigs5 |-> MCCoverOf(c)]

(* One-covering arrays.                                                    *)
MCOneCovering == {<<c1, c2>>, <<c1, c5>>}
MCOneCovering4 == {<<c1>>, <<c1, c2>>}
MCNoSeed == << >>
MCSeed == <<c1>>
==============================================================================
