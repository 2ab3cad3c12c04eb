------------------------------- MODULE RunnerMC -------------------------------
(* Two repeats whose batches have configurations in common, one of which   *)
(* flushes and one of which resets the statistics while the other may be   *)
(* running, and programs that cover different locations.                   *)
EXTENDS ProgramRunnerMt, TLC

CONSTANTS t1, t2, c1, c2, c3

MCClients == {t1, t2}
MCConfigs == {c1, c2, c3}

L(n) == <<n>>
MCLocs == {L("p"), L("q"), L("r")}
MCCover == (c1 :> {L("p")}) @@ (c2 :> {L("q"), L("r")}) @@ (c3 :> {})

RunOp(cs) == [name |-> "run", configs |-> cs]
FlushOp == [name |-> "flush_cachedb"]
ResetOp == [name |-> "reset_stat"]

MCProgram == (t1 :> <<RunOp(<<c1, c2>>), FlushOp, RunOp(<<c3, c1>>)>>)
          @@ (t2 :> <<RunOp(<<c2>>), ResetOp, RunOp(<<c3>>)>>)

(* Two repeats of the analyzer, one batch each.                            *)
MCAnalyzer == (t1 :> <<RunOp(<<c1>>)>>) @@ (t2 :> <<RunOp(<<c2>>)>>)

Cmd(threads, ctl, locs, cached) ==
    [threads |-> threads, cache |-> ctl, locs |-> locs, cached |-> cached]

MCInterest == {L("p"), L("q")}

(* A pool or a single runner, a cache that is read or only written, and a  *)
(* cache of an earlier process that has everything.                        *)
MCCommands == {Cmd(n, ctl, MCInterest, {}) : n \in {1, 2}, ctl \in {{"r", "w", "x"}, {"w", "x"}}}
                  \cup {Cmd(2, {"r"}, {}, MCConfigs), Cmd(2, {"x"}, MCInterest, {})}

MCCacheOnly == {Cmd(2, {"r"}, MCInterest, MCConfigs)}
MCRepeats == {t1, t2}
==============================================================================
