------------------------- MODULE ProgramRunnerProofs -------------------------
(***************************************************************************)
(* Proofs about ProgramRunnerMt for any repeats and their calls, any ways  *)
(* to start the process, any program under analysis and any crashes.       *)
(***************************************************************************)
EXTENDS ProgramRunnerMt, FiniteSetTheorems, SequenceTheorems, TLAPS

Job == [client : Clients, cid : Nat, next : {"clean_cov", "exec", "collect_cov"}]

(* TypeOK without the bound on n_started_timer and without what the        *)
(* positions in cid_to_run and pending refer to.                           *)
Typed ==
    /\ command \in Commands
    /\ pc \in [Threads -> PC]
    /\ next \in [Threads -> Nat]
    /\ local_timer \subseteq Threads
    /\ entrance \in [readers : SUBSET Clients, writer : Threads \cup {NoThread}]
    /\ run_lock \in Threads \cup {NoThread} /\ stat_lock \in Threads \cup {NoThread}
    /\ n_started_timer \in Int
    /\ interested_locs \subseteq Locs
    /\ v_locs \in [Clients -> Seq(SUBSET Locs)]
    /\ cid_to_run \in [Clients -> Seq(Nat)]
    /\ pending \in [Clients -> SUBSET Nat]
    /\ queue_running \in BOOLEAN
    /\ job \in [Runners -> Job \cup {NoJob}]
    /\ cov_files \in [Runners -> SUBSET Locs]
    /\ n_unflushed_write \in Nat
    /\ aborted \in BOOLEAN /\ n_crashes \in 0 .. MaxCrashes

(* Where a thread may be in its calls.                                     *)
CallsOf(t) ==
    /\ next[t] \in 1 .. NumCalls(t) + 1
    /\ pc[t] # "end" => next[t] <= NumCalls(t)
    /\ pc[t] \in Inside \cup {"returned"} => t \in Clients /\ Call(t).name = "run"
    /\ pc[t] \in Exclusive => Call(t).name # "run"
    /\ pc[t] = "flushed" => Call(t).name = "flush_cachedb"
    /\ pc[t] = "repeats" => t = Main

Calls == \A t \in Threads : CallsOf(t)

(* The repeats run between init and the first call of the main thread.     *)
Phase ==
    /\ pc[Main] = "begin" => \A c \in Clients : pc[c] = "begin"
    /\ pc[Main] \notin {"begin", "repeats"} => \A c \in Clients : pc[c] = "end"
    /\ pc[Main] # "begin" => interested_locs = IF allow_execute THEN command.locs ELSE {}
    /\ pc[Main] = "repeats" => (queue_running <=> allow_execute /\ n_threads > 1)
    /\ \A c \in ResetsTimer : pc[c] # "begin" => c \in local_timer

(* The entrance lock: nobody is inside run while another thread flushes,   *)
(* resets or stops.                                                        *)
Locks ==
    /\ entrance.readers = {c \in Clients : pc[c] \in Inside}
    /\ \A t \in Threads : pc[t] \in Exclusive <=> entrance.writer = t
    /\ entrance.writer # NoThread => entrance.readers = {}

(* The clients that have started the timers and not yet stopped them.      *)
Timed == {c \in Clients : pc[c] \in Inside \ {"start_timers"}}

Timers ==
    /\ n_started_timer \in 0 .. Cardinality(Clients)
    /\ aborted \/ n_started_timer = Cardinality(Timed)

(* The results of a client's batch on their way.                           *)
Complete(c) == Len(v_locs[c]) = Len(Batch(c))
RightAt(c, k) == v_locs[c][k] = Cover[Batch(c)[k]]
OfInterest(locs) == IF interested_locs = {} THEN locs ELSE locs \cap interested_locs

WorkOf(c) ==
    /\ pc[c] \notin (Inside \ {"start_timers"}) \cup {"returned"} => v_locs[c] = << >> /\ cid_to_run[c] = << >>
    /\ pending[c] # {} => pc[c] = "execute" \/ aborted
    /\ \A i \in DOMAIN cid_to_run[c] : cid_to_run[c][i] \in DOMAIN v_locs[c]
    /\ pending[c] \subseteq DOMAIN v_locs[c]
    /\ pc[c] = "lookup" =>
          /\ Len(v_locs[c]) <= Len(Batch(c))
          /\ \A k \in DOMAIN v_locs[c] : (\E i \in DOMAIN cid_to_run[c] : cid_to_run[c][i] = k) \/ RightAt(c, k)
          /\ allow_execute \/ aborted \/ cid_to_run[c] = << >>
    /\ pc[c] = "execute" =>
          /\ Complete(c)
          /\ \A k \in DOMAIN v_locs[c] :
                k \in pending[c] \/ (\E r \in Runners : job[r].client = c /\ job[r].cid = k) \/ RightAt(c, k)
    /\ pc[c] \in {"write", "put"} => Complete(c) /\ \A k \in DOMAIN v_locs[c] : RightAt(c, k)
    /\ pc[c] = "put" => cid_to_run[c] # << >>
    /\ pc[c] \in {"leave", "returned"} =>
          /\ Complete(c) /\ cid_to_run[c] = << >>
          /\ \A k \in DOMAIN v_locs[c] : v_locs[c][k] = OfInterest(Cover[Batch(c)[k]])

Work == \A c \in Clients : WorkOf(c)

(* A runner works for a client that waits for it, and its coverage files   *)
(* hold the coverage of its run and nothing else.                          *)
JobOf(r) ==
    job[r] # NoJob =>
        /\ pc[job[r].client] = "execute"
        /\ job[r].cid \in DOMAIN v_locs[job[r].client]
        /\ job[r].next = "exec" => cov_files[r] = {}
        /\ job[r].next = "collect_cov" => cov_files[r] = Cover[Batch(job[r].client)[job[r].cid]]

Jobs == \A r \in Runners : JobOf(r)

(* The entries of the cache, and what of it is on disk.                    *)
RightEntries(db) == DOMAIN db \subseteq Configs /\ \A c \in DOMAIN db : db[c] = Encoded(Cover[c])

Cache ==
    /\ RightEntries(cachedb) /\ RightEntries(on_disk)
    /\ command.cached \subseteq DOMAIN cachedb /\ command.cached \subseteq DOMAIN on_disk
    /\ on_disk # cachedb => n_unflushed_write > 0 /\ allow_cache_write
    /\ \A t \in Threads : pc[t] = "put" => n_unflushed_write > 0 /\ allow_cache_write
    /\ \A t \in Threads : pc[t] = "flushed" => on_disk = cachedb

IInv == Typed /\ Calls /\ Phase /\ Locks /\ Timers /\ Work /\ Jobs /\ Cache
------------------------------------------------------------------------------
(* The calls of a thread, and the names in the cache.                     *)

LEMMA SameCall ==
    ASSUME NEW t, next'[t] = next[t]
    PROVE  Call(t)' = Call(t) /\ Batch(t)' = Batch(t)
BY DEF Call, Batch

LEMMA NumCallsType == \A t \in Threads : NumCalls(t) \in Nat /\ NumCalls(t) >= 1
BY ClientsAssumption DEF NumCalls, Threads

LEMMA CallNames ==
    ASSUME NEW c \in Threads, next[c] \in 1 .. NumCalls(c)
    PROVE  /\ Call(c).name \in {"run", "flush_cachedb", "reset_stat", "stop"}
           /\ c \in Clients => Call(c).name # "stop"
           /\ Call(c).name = "run" => c \in Clients /\ Batch(c) \in Seq(Configs)
<1>1. CASE c = Main
  BY <1>1, ClientsAssumption DEF Call, NumCalls
<1>2. CASE c # Main
  BY <1>2, ClientsAssumption DEF Call, NumCalls, Threads, Op, Batch
<1> QED
  BY <1>1, <1>2

LEMMA DecodedEncoded == \A S \in SUBSET Locs : Decoded(Encoded(S)) = S
<1> SUFFICES ASSUME NEW S \in SUBSET Locs PROVE Decoded(Encoded(S)) = S
  OBVIOUS
<1>1. ASSUME NEW l \in S PROVE l = <<l[1]>> /\ Range(l) = {l[1]}
  <2>1. l \in Seq(STRING) /\ Len(l) = 1
    BY NamesAssumption
  <2>2. DOMAIN l = {1} /\ l = <<l[1]>>
    BY <2>1
  <2> QED
    BY <2>2 DEF Range
<1>2. Encoded(S) = {l[1] : l \in S}
  BY <1>1 DEF Encoded
<1> QED
  BY <1>1, <1>2 DEF Decoded

(* What a client inside run and a runner find in the batch.                *)
LEMMA BatchInside ==
    ASSUME Typed, Calls, NEW c \in Clients, pc[c] \in Inside \cup {"returned"}
    PROVE  /\ Batch(c) \in Seq(Configs)
           /\ Call(c).name = "run"
           /\ DOMAIN Batch(c) = 1 .. Len(Batch(c)) /\ Len(Batch(c)) \in Nat
           /\ DOMAIN v_locs[c] = 1 .. Len(v_locs[c]) /\ Len(v_locs[c]) \in Nat
<1>1. c \in Threads /\ pc[c] # "end"
  BY DEF Threads, Inside
<1>2. next[c] \in 1 .. NumCalls(c)
  BY <1>1, NumCallsType DEF Calls, CallsOf
<1>3. Call(c).name = "run"
  BY <1>1 DEF Calls, CallsOf
<1>4. Batch(c) \in Seq(Configs)
  BY <1>1, <1>2, <1>3, CallNames
<1>5. v_locs[c] \in Seq(SUBSET Locs)
  BY DEF Typed
<1> QED
  BY <1>3, <1>4, <1>5

LEMMA JobBatch ==
    ASSUME Typed, Calls, Work, Jobs, NEW r \in Runners, job[r] # NoJob
    PROVE  /\ job[r] \in Job
           /\ pc[job[r].client] = "execute"
           /\ job[r].cid \in DOMAIN v_locs[job[r].client]
           /\ DOMAIN v_locs[job[r].client] = DOMAIN Batch(job[r].client)
           /\ Batch(job[r].client)[job[r].cid] \in Configs
<1> DEFINE c == job[r].client
<1>1. job[r] \in Job
  BY DEF Typed
<1>2. c \in Clients
  BY <1>1 DEF Job
<1>3. pc[c] = "execute" /\ job[r].cid \in DOMAIN v_locs[c]
  BY DEF Jobs, JobOf
<1>4. Complete(c)
  BY <1>2, <1>3 DEF Work, WorkOf
<1>5. /\ Batch(c) \in Seq(Configs)
      /\ DOMAIN Batch(c) = 1 .. Len(Batch(c))
      /\ DOMAIN v_locs[c] = 1 .. Len(v_locs[c])
  BY <1>2, <1>3, BatchInside DEF Inside
<1>6. DOMAIN v_locs[c] = DOMAIN Batch(c)
  BY <1>4, <1>5 DEF Complete
<1>7. Batch(c)[job[r].cid] \in Configs
  BY <1>3, <1>5, <1>6
<1> QED
  BY <1>1, <1>3, <1>6, <1>7

LEMMA CoverType == \A k \in Configs : Cover[k] \in SUBSET Locs
BY NamesAssumption

(* What the cache gives a client.                                          *)
LEMMA HitIsRight ==
    ASSUME Typed, Calls, Cache, NEW c \in Clients, pc[c] = "lookup", Looked(c) < Len(Batch(c))
    PROVE  /\ NextConfig(c) \in Configs
           /\ Hit(c) => Decoded(cachedb[NextConfig(c)]) = Cover[NextConfig(c)]
           /\ Cover[NextConfig(c)] \in SUBSET Locs
<1>1. /\ Batch(c) \in Seq(Configs)
      /\ DOMAIN Batch(c) = 1 .. Len(Batch(c)) /\ Len(Batch(c)) \in Nat
      /\ Len(v_locs[c]) \in Nat
  BY BatchInside DEF Inside
<1>2. NextConfig(c) \in Configs
  BY <1>1 DEF NextConfig, Looked
<1>3. Cover[NextConfig(c)] \in SUBSET Locs
  BY <1>2, CoverType
<1>4. Hit(c) => cachedb[NextConfig(c)] = Encoded(Cover[NextConfig(c)])
  BY DEF Hit, Cache, RightEntries
<1> QED
  BY <1>2, <1>3, <1>4, DecodedEncoded

------------------------------------------------------------------------------
(* Type correctness.                                                      *)

LEMMA EntriesRight == \A S \in SUBSET Configs : RightEntries(Entries(S)) /\ DOMAIN Entries(S) = S
BY DEF RightEntries, Entries

LEMMA TypedInit == Init => Typed
<1> SUFFICES ASSUME Init PROVE Typed
  OBVIOUS
<1>1. << >> \in Seq(SUBSET Locs) /\ << >> \in Seq(Nat)
  BY EmptySeq
<1>2. MaxCrashes \in Nat
  BY RunnerAssumption
<1>3. command \in Commands /\ command.cached \subseteq Configs
  BY RunnerAssumption DEF Init, Command
<1>4. pc \in [Threads -> PC] /\ next \in [Threads -> Nat] /\ local_timer \subseteq Threads
  BY DEF Init, PC
<1>5. v_locs \in [Clients -> Seq(SUBSET Locs)] /\ cid_to_run \in [Clients -> Seq(Nat)]
      /\ pending \in [Clients -> SUBSET Nat]
  BY <1>1 DEF Init
<1>6. job \in [Runners -> Job \cup {NoJob}] /\ cov_files \in [Runners -> SUBSET Locs]
  BY DEF Init
<1>7. entrance \in [readers : SUBSET Clients, writer : Threads \cup {NoThread}]
      /\ run_lock = NoThread /\ stat_lock = NoThread /\ interested_locs \subseteq Locs
  BY DEF Init
<1>8. n_started_timer \in Int /\ n_unflushed_write \in Nat
  BY DEF Init
<1>9. queue_running \in BOOLEAN /\ aborted \in BOOLEAN
  BY Zenon DEF Init
<1>10. n_crashes \in 0 .. MaxCrashes
  <2>1. n_crashes = 0
    BY DEF Init
  <2> QED
    BY <1>2, <2>1
<1> QED
  BY <1>3, <1>4, <1>5, <1>6, <1>7, <1>8, <1>9, <1>10 DEF Typed

LEMMA CheckTyped ==
    ASSUME Typed, NEW t \in Threads, NEW place \in PC, NEW cond, check(cond, t, place)
    PROVE  pc' \in [Threads -> PC] /\ aborted' \in BOOLEAN
<1>1. aborted' \in BOOLEAN
  BY Zenon DEF check
<1>2. pc' = pc \/ pc' = [pc EXCEPT ![t] = place]
  BY DEF check, goto
<1> QED
  BY <1>1, <1>2 DEF Typed

LEMMA GotoTyped ==
    ASSUME Typed, NEW t \in Threads, NEW place \in PC, goto(t, place)
    PROVE  pc' \in [Threads -> PC]
BY DEF goto, Typed

LEMMA ReleaseTyped ==
    ASSUME Typed, NEW t \in Threads, release(t)
    PROVE  /\ pc' \in [Threads -> PC] /\ next' \in [Threads -> Nat]
           /\ entrance' \in [readers : SUBSET Clients, writer : Threads \cup {NoThread}]
           /\ run_lock' = NoThread /\ stat_lock' = NoThread
<1>1. next' \in [Threads -> Nat]
  BY DEF release, after_call, Typed
<1>2. \A p \in {"end", "call"} : p \in PC
  BY DEF PC
<1>3. pc' \in [Threads -> PC]
  BY <1>2, GotoTyped DEF release, after_call
<1>4. entrance' \in [readers : SUBSET Clients, writer : Threads \cup {NoThread}]
  BY DEF release, Typed
<1> QED
  BY <1>1, <1>3, <1>4 DEF release

(* A step that changes nothing but control, locks and counters.            *)
LEMMA ControlTyped ==
    ASSUME Typed,
           pc' \in [Threads -> PC], next' \in [Threads -> Nat],
           entrance' \in [readers : SUBSET Clients, writer : Threads \cup {NoThread}],
           run_lock' \in Threads \cup {NoThread}, stat_lock' \in Threads \cup {NoThread},
           n_started_timer' \in Int, n_unflushed_write' \in Nat, command' = command,
           UNCHANGED <<local_timer, interested_locs, work, pool, aborted, n_crashes>>
    PROVE  Typed'
<1>1. /\ command' \in Commands /\ local_timer' \subseteq Threads /\ interested_locs' \subseteq Locs
      /\ aborted' \in BOOLEAN /\ n_crashes' \in 0 .. MaxCrashes
  BY DEF Typed
<1>2. /\ v_locs' \in [Clients -> Seq(SUBSET Locs)]
      /\ cid_to_run' \in [Clients -> Seq(Nat)]
      /\ pending' \in [Clients -> SUBSET Nat]
  BY DEF Typed, work
<1>3. /\ Runners' = Runners /\ queue_running' \in BOOLEAN
      /\ job' \in [Runners -> Job \cup {NoJob}] /\ cov_files' \in [Runners -> SUBSET Locs]
  BY DEF Typed, pool, Runners, n_threads
<1> QED
  BY <1>1, <1>2, <1>3 DEF Typed

LEMMA StartTyped ==
    ASSUME Typed, Start, command' = command
    PROVE  /\ pc' \in [Threads -> PC] /\ next' \in [Threads -> Nat]
           /\ v_locs' \in [Clients -> Seq(SUBSET Locs)]
           /\ cid_to_run' \in [Clients -> Seq(Nat)]
           /\ pending' \in [Clients -> SUBSET Nat]
           /\ job' \in [Runners -> Job \cup {NoJob}]
           /\ Runners' = Runners
<1>1. << >> \in Seq(SUBSET Locs) /\ << >> \in Seq(Nat)
  BY EmptySeq
<1>2. Runners' = Runners
  BY DEF Runners, n_threads
<1> QED
  BY <1>1, <1>2 DEF Start, PC

LEMMA TypedNext == Typed /\ Calls /\ Work /\ Jobs /\ Cache /\ [Next]_vars => Typed'
<1> SUFFICES ASSUME Typed, Calls, Work, Jobs, Cache, [Next]_vars PROVE Typed'
  OBVIOUS
<1>0. command' = command /\ Runners' = Runners /\ Clients \subseteq Threads /\ Main \in Threads
  <2>1. command' = command
    BY DEF Next, ClientStep, ExclusiveStep, MainStep, RunnerStep, vars, init, repeats_done, begin,
           enter_run, start_timers, lookup, submit, submit_nothing, executed, count_write, put, filter,
           leave_run, take_results, acquire_entrance, acquire_run_lock, acquire_stat_lock, flush_db,
           flush_done, flush_nothing, reset_stat, stop, start_item, clean_cov, exec, collect_cov,
           background_flush, crash
  <2> QED
    BY <2>1 DEF Runners, n_threads, Threads
<1> USE <1>0
<1>1. CASE init \/ repeats_done
  BY <1>1, RunnerAssumption DEF init, repeats_done, Typed, PC, goto, locks, timers, work, pool, cache,
          Command
<1>2. ASSUME NEW c \in Clients, begin(c) \/ enter_run(c) \/ submit_nothing(c) \/ executed(c) \/ count_write(c)
      PROVE Typed'
  <2>1. pc' \in [Threads -> PC]
    BY <1>2, GotoTyped DEF begin, enter_run, submit_nothing, executed, count_write, PC, Inside
  <2>2. CASE begin(c)
    BY <2>1, <2>2 DEF begin, Typed, locks, work, pool, cache
  <2>3. CASE enter_run(c)
    BY <2>1, <2>3 DEF enter_run, Typed, timers, work, pool, cache
  <2>4. CASE submit_nothing(c)
    <3>1. /\ UNCHANGED <<next, entrance, run_lock, stat_lock, n_started_timer, n_unflushed_write>>
          /\ UNCHANGED <<command, local_timer, interested_locs, work, pool, aborted, n_crashes>>
      BY <2>4 DEF submit_nothing, locks, timers, cache
    <3> QED
      BY <2>1, <3>1, ControlTyped DEF Typed
  <2>5. CASE executed(c)
    <3>1. /\ UNCHANGED <<next, entrance, stat_lock, n_started_timer, n_unflushed_write>>
          /\ UNCHANGED <<command, local_timer, interested_locs, work, pool, aborted, n_crashes>>
          /\ run_lock' \in {run_lock, NoThread}
      BY <2>5 DEF executed, timers, cache
    <3> QED
      BY <2>1, <3>1, ControlTyped DEF Typed
  <2>6. CASE count_write(c)
    <3>1. /\ UNCHANGED <<next, entrance, run_lock, stat_lock, n_started_timer>>
          /\ UNCHANGED <<command, local_timer, interested_locs, work, pool, aborted, n_crashes>>
          /\ n_unflushed_write' = n_unflushed_write + 1
      BY <2>6 DEF count_write, locks, timers
    <3>2. /\ next \in [Threads -> Nat] /\ n_started_timer \in Int /\ n_unflushed_write \in Nat
          /\ entrance \in [readers : SUBSET Clients, writer : Threads \cup {NoThread}]
          /\ run_lock \in Threads \cup {NoThread} /\ stat_lock \in Threads \cup {NoThread}
      BY DEF Typed
    <3>3. n_unflushed_write' \in Nat /\ command' = command
      BY <3>1, <3>2
    <3> QED
      BY <2>1, <3>1, <3>2, <3>3, ControlTyped
  <2> QED
    BY <1>2, <2>2, <2>3, <2>4, <2>5, <2>6
<1>3. ASSUME NEW c \in Clients, start_timers(c) \/ leave_run(c) PROVE Typed'
  <2>1. pc' \in [Threads -> PC] /\ aborted' \in BOOLEAN
    BY <1>3, CheckTyped DEF start_timers, leave_run, PC, Inside
  <2> QED
    BY <1>3, <2>1 DEF start_timers, leave_run, Typed, locks, work, pool, cache
<1>4. ASSUME NEW c \in Clients, lookup(c) PROVE Typed'
  <2>1. pc[c] = "lookup" /\ Looked(c) < Len(Batch(c))
    BY <1>4 DEF lookup
  <2> DEFINE e == IF Hit(c) THEN Decoded(cachedb[NextConfig(c)]) ELSE {}
  <2>2. e \in SUBSET Locs
    BY <2>1, HitIsRight
  <2>3. Append(v_locs[c], e) \in Seq(SUBSET Locs)
    BY <2>2, AppendProperties DEF Typed
  <2>4. Looked(c) + 1 \in Nat /\ Append(cid_to_run[c], Looked(c) + 1) \in Seq(Nat)
    BY AppendProperties, LenProperties DEF Typed, Looked
  <2>5. v_locs' = [v_locs EXCEPT ![c] = Append(v_locs[c], e)]
    BY <1>4 DEF lookup
  <2>6. cid_to_run' = cid_to_run \/ cid_to_run' = [cid_to_run EXCEPT ![c] = Append(cid_to_run[c], Looked(c) + 1)]
    BY <1>4 DEF lookup
  <2>7. v_locs' \in [Clients -> Seq(SUBSET Locs)] /\ cid_to_run' \in [Clients -> Seq(Nat)]
    BY <2>3, <2>4, <2>5, <2>6 DEF Typed
  <2> QED
    BY <1>4, <2>7 DEF lookup, Typed, PC, Inside, goto, check, locks, timers, pool, cache
<1>5. ASSUME NEW c \in Clients, submit(c) PROVE Typed'
  <2>1. Range(cid_to_run[c]) \in SUBSET Nat
    BY DEF Typed, Range
  <2> QED
    BY <1>5, <2>1 DEF submit, Typed, PC, Inside, goto, check, locks, timers, work, pool, cache
<1>6. ASSUME NEW c \in Clients, put(c) PROVE Typed'
  <2>1. cid_to_run[c] \in Seq(Nat) /\ cid_to_run[c] # << >>
    BY <1>6 DEF put, Typed, Work, WorkOf
  <2>2. Tail(cid_to_run[c]) \in Seq(Nat)
    BY <2>1, HeadTailProperties
  <2> QED
    BY <1>6, <2>2 DEF put, Typed, PC, Inside, goto, locks, timers, pool, cache
<1>7. ASSUME NEW c \in Clients, filter(c) PROVE Typed'
  <2>1. v_locs[c] \in Seq(SUBSET Locs)
    BY DEF Typed
  <2> DEFINE f == [k \in DOMAIN v_locs[c] |-> v_locs[c][k] \cap interested_locs]
  <2>2. DOMAIN v_locs[c] = 1 .. Len(v_locs[c]) /\ Len(v_locs[c]) \in Nat
    BY <2>1
  <2>3. \A k \in 1 .. Len(v_locs[c]) : v_locs[c][k] \cap interested_locs \in SUBSET Locs
    BY <2>1
  <2>4. f \in Seq(SUBSET Locs)
    BY <2>2, <2>3, IsASeq
  <2>5. v_locs' = v_locs \/ v_locs' = [v_locs EXCEPT ![c] = f]
    BY <1>7 DEF filter
  <2>6. v_locs' \in [Clients -> Seq(SUBSET Locs)]
    BY <2>4, <2>5 DEF Typed
  <2>7. << >> \in Seq(Nat)
    BY EmptySeq
  <2> QED
    BY <1>7, <2>6, <2>7 DEF filter, Typed, PC, Inside, goto, locks, timers, pool, cache
<1>8. ASSUME NEW c \in Clients, take_results(c) PROVE Typed'
  <2>1. << >> \in Seq(SUBSET Locs)
    BY EmptySeq
  <2> QED
    BY <1>8, <2>1 DEF take_results, after_call, Typed, PC, goto, locks, timers, work, pool, cache
<1>9. ASSUME NEW t \in Threads,
             acquire_entrance(t) \/ acquire_run_lock(t) \/ acquire_stat_lock(t) \/ flush_db(t)
      PROVE Typed'
  <2>1. pc' \in [Threads -> PC]
    BY <1>9, GotoTyped DEF acquire_entrance, acquire_run_lock, acquire_stat_lock, flush_db, PC, Exclusive
  <2>2. CASE acquire_entrance(t)
    <3>1. entrance' \in [readers : SUBSET Clients, writer : Threads \cup {NoThread}]
      BY <2>2 DEF acquire_entrance, Typed
    <3> QED
      BY <2>1, <2>2, <3>1, ControlTyped DEF acquire_entrance, Typed, timers, cache
  <2>3. CASE acquire_run_lock(t)
    BY <2>1, <2>3, ControlTyped DEF acquire_run_lock, Typed, timers, cache
  <2>4. CASE acquire_stat_lock(t)
    BY <2>1, <2>4, ControlTyped DEF acquire_stat_lock, Typed, timers, cache
  <2>5. CASE flush_db(t)
    BY <2>1, <2>5, ControlTyped DEF flush_db, Typed, locks, timers
  <2> QED
    BY <1>9, <2>2, <2>3, <2>4, <2>5
<1>10. ASSUME NEW t \in Threads, flush_done(t) \/ flush_nothing(t) \/ reset_stat(t) \/ stop(t)
       PROVE Typed'
  <2>1. release(t)
    BY <1>10 DEF flush_done, flush_nothing, reset_stat, stop
  <2>2. /\ pc' \in [Threads -> PC] /\ next' \in [Threads -> Nat]
        /\ entrance' \in [readers : SUBSET Clients, writer : Threads \cup {NoThread}]
        /\ run_lock' = NoThread /\ stat_lock' = NoThread
    BY <2>1, ReleaseTyped
  <2>3. CASE flush_done(t)
    <3>1. /\ n_started_timer' = n_started_timer /\ n_unflushed_write' = 0
          /\ UNCHANGED <<command, local_timer, interested_locs, work, pool, aborted, n_crashes>>
      BY <2>3 DEF flush_done, timers
    <3> QED
      BY <2>2, <3>1, ControlTyped DEF Typed
  <2>4. CASE flush_nothing(t)
    <3>1. /\ UNCHANGED <<n_started_timer, n_unflushed_write>>
          /\ UNCHANGED <<command, local_timer, interested_locs, work, pool, aborted, n_crashes>>
      BY <2>4 DEF flush_nothing, timers, cache
    <3> QED
      BY <2>2, <3>1, ControlTyped DEF Typed
  <2>6. CASE reset_stat(t)
    <3>1. /\ n_started_timer' = 0 /\ n_unflushed_write' = n_unflushed_write
          /\ UNCHANGED <<command, local_timer, interested_locs, work, pool, aborted, n_crashes>>
      BY <2>6 DEF reset_stat, cache
    <3>2. /\ run_lock' \in Threads \cup {NoThread} /\ stat_lock' \in Threads \cup {NoThread}
          /\ n_started_timer' \in Int /\ n_unflushed_write' \in Nat /\ command' = command
      BY <2>2, <3>1 DEF Typed
    <3> QED
      BY <2>2, <3>1, <3>2, ControlTyped
  <2>5. CASE stop(t)
    <3>1. queue_running' \in BOOLEAN
      BY <2>5, Zenon DEF stop
    <3> QED
      BY <2>2, <2>5, <3>1 DEF stop, Typed, timers, work, cache
  <2> QED
    BY <1>10, <2>3, <2>4, <2>5, <2>6
<1>11. ASSUME NEW r \in Runners, start_item(r) PROVE Typed'
  <2>1. PICK c \in Clients, cid \in UNION {pending[d] : d \in Clients} :
           /\ cid \in pending[c]
           /\ job' = [job EXCEPT ![r] = [client |-> c, cid |-> cid, next |-> "clean_cov"]]
           /\ pending' = [pending EXCEPT ![c] = pending[c] \ {cid}]
    BY <1>11 DEF start_item
  <2>2. cid \in Nat
    BY <2>1 DEF Typed
  <2>3. [client |-> c, cid |-> cid, next |-> "clean_cov"] \in Job
    BY <2>2 DEF Job
  <2>4. job' \in [Runners -> Job \cup {NoJob}] /\ pending' \in [Clients -> SUBSET Nat]
    BY <2>1, <2>3 DEF Typed
  <2> QED
    BY <1>11, <2>4 DEF start_item, Typed, locks, timers, cache
<1>12. ASSUME NEW r \in Runners, NEW S \in SUBSET Locs, cov_files' = [cov_files EXCEPT ![r] = S],
              clean_cov(r) \/ exec(r)
       PROVE Typed'
  <2>1. job[r] \in Job
    BY <1>12 DEF clean_cov, exec, at, Working, Typed
  <2>2. \A s \in {"exec", "collect_cov"} : [job[r] EXCEPT !.next = s] \in Job
    BY <2>1 DEF Job
  <2>3. job' \in [Runners -> Job \cup {NoJob}]
    BY <1>12, <2>2 DEF clean_cov, exec, then, Typed
  <2> QED
    BY <1>12, <2>3 DEF clean_cov, exec, Typed, locks, timers, work, cache
<1>13. ASSUME NEW r \in Runners, clean_cov(r) PROVE Typed'
  BY <1>12, <1>13 DEF clean_cov
<1>14. ASSUME NEW r \in Runners, exec(r) PROVE Typed'
  <2>1. job[r] # NoJob
    BY <1>14 DEF exec, at, Working
  <2>2. Cover[Batch(job[r].client)[job[r].cid]] \in SUBSET Locs
    BY <2>1, JobBatch, CoverType
  <2>3. cov_files[r] \cup Cover[Batch(job[r].client)[job[r].cid]] \in SUBSET Locs
    BY <2>2 DEF Typed
  <2> QED
    BY <1>12, <1>14, <2>3 DEF exec
<1>15. ASSUME NEW r \in Runners, collect_cov(r) PROVE Typed'
  <2>1. job[r] # NoJob
    BY <1>15 DEF collect_cov, at, Working
  <2>2. job[r] \in Job /\ job[r].cid \in DOMAIN v_locs[job[r].client]
    BY <2>1, JobBatch
  <2> DEFINE c == job[r].client
  <2>3. c \in Clients /\ v_locs[c] \in Seq(SUBSET Locs) /\ cov_files[r] \in SUBSET Locs
    BY <2>2 DEF Job, Typed
  <2>4. [v_locs[c] EXCEPT ![job[r].cid] = cov_files[r]] \in Seq(SUBSET Locs)
    BY <2>2, <2>3, ExceptSeq
  <2>5. v_locs' = [v_locs EXCEPT ![c] = [v_locs[c] EXCEPT ![job[r].cid] = cov_files[r]]]
    BY <1>15 DEF collect_cov
  <2>6. v_locs' \in [Clients -> Seq(SUBSET Locs)]
    BY <2>3, <2>4, <2>5 DEF Typed
  <2> QED
    BY <1>15, <2>6 DEF collect_cov, Typed, locks, timers, cache
<1>16. CASE background_flush
  BY <1>16 DEF background_flush, Typed, locks, timers, work, pool
<1>17. CASE crash
  <2>1. n_crashes' \in 0 .. MaxCrashes
    BY <1>17, RunnerAssumption DEF crash, Typed
  <2>2. Start /\ cov_files' = cov_files /\ aborted' = aborted
    BY <1>17 DEF crash
  <2>3. entrance' \in [readers : SUBSET Clients, writer : Threads \cup {NoThread}]
    BY <2>2 DEF Start
  <2>4. /\ local_timer' = {} /\ run_lock' = NoThread /\ stat_lock' = NoThread
        /\ n_started_timer' = 0 /\ n_unflushed_write' = 0 /\ interested_locs' = {}
    BY <2>2 DEF Start
  <2>5. queue_running' \in BOOLEAN
    BY <2>2, Zenon DEF Start
  <2> QED
    BY <2>1, <2>2, <2>3, <2>4, <2>5, StartTyped DEF Typed
<1>18. CASE UNCHANGED vars
  BY <1>18 DEF vars, Typed, locks, timers, work, pool, cache
<1> QED
  BY <1>1, <1>2, <1>3, <1>4, <1>5, <1>6, <1>7, <1>8, <1>9, <1>10, <1>11, <1>13, <1>14, <1>15, <1>16,
     <1>17, <1>18 DEF Next, ClientStep, ExclusiveStep, MainStep, RunnerStep

------------------------------------------------------------------------------
(* The calls of the threads.  A step moves at most one thread, within its  *)
(* call or to the next one.                                                *)

LEMMA CallsMove ==
    ASSUME Typed, Calls, NEW t \in Threads, NEW place, goto(t, place), next' = next,
           pc[t] # "end", place # "end",
           place \in Inside \cup {"returned"} => t \in Clients /\ Call(t).name = "run",
           place \in Exclusive => Call(t).name # "run",
           place = "flushed" => Call(t).name = "flush_cachedb",
           place = "repeats" => t = Main
    PROVE  Calls'
<1> SUFFICES ASSUME NEW u \in Threads PROVE CallsOf(u)'
  BY DEF Calls
<1>1. Call(u)' = Call(u) /\ next'[u] = next[u] /\ NumCalls(u)' = NumCalls(u)
  BY SameCall DEF NumCalls
<1>2. pc'[u] = IF u = t THEN place ELSE pc[u]
  BY DEF goto, Typed
<1>3. CallsOf(u)
  BY DEF Calls
<1> QED
  BY <1>1, <1>2, <1>3 DEF CallsOf

LEMMA CallsSame ==
    ASSUME Calls, pc' = pc, next' = next
    PROVE  Calls'
<1> SUFFICES ASSUME NEW u \in Threads PROVE CallsOf(u)'
  BY DEF Calls
<1>1. Call(u)' = Call(u) /\ NumCalls(u)' = NumCalls(u)
  BY SameCall DEF NumCalls
<1>2. CallsOf(u)
  BY DEF Calls
<1> QED
  BY <1>1, <1>2 DEF CallsOf

LEMMA CallsReturn ==
    ASSUME Typed, Calls, NEW t \in Threads, after_call(t), pc[t] # "end"
    PROVE  Calls'
<1> SUFFICES ASSUME NEW u \in Threads PROVE CallsOf(u)'
  BY DEF Calls
<1>1. CallsOf(u) /\ CallsOf(t)
  BY DEF Calls
<1>2. CASE u # t
  <2>1. pc'[u] = pc[u] /\ next'[u] = next[u]
    BY <1>2 DEF after_call, goto, Typed
  <2>2. Call(u)' = Call(u) /\ NumCalls(u)' = NumCalls(u)
    BY <2>1, SameCall DEF NumCalls
  <2> QED
    BY <1>1, <2>1, <2>2 DEF CallsOf
<1>3. CASE u = t
  <2>1. /\ next'[t] = next[t] + 1
        /\ pc'[t] = IF next[t] = NumCalls(t) THEN "end" ELSE "call"
    BY DEF after_call, goto, Typed
  <2>2. NumCalls(t) \in Nat /\ NumCalls(t)' = NumCalls(t)
    BY NumCallsType DEF NumCalls
  <2>3. next'[t] \in 1 .. NumCalls(t) + 1 /\ (pc'[t] # "end" => next'[t] <= NumCalls(t))
    BY <1>1, <2>1, <2>2 DEF CallsOf
  <2>4. pc'[t] \notin Inside \cup {"returned"} \cup Exclusive /\ pc'[t] # "flushed" /\ pc'[t] # "repeats"
    BY <2>1 DEF Inside, Exclusive
  <2> QED
    BY <1>3, <2>2, <2>3, <2>4 DEF CallsOf
<1> QED
  BY <1>2, <1>3

LEMMA CallsInit == Init => Calls
<1> SUFFICES ASSUME Init, NEW u \in Threads PROVE CallsOf(u)
  BY DEF Calls
<1>1. pc[u] = "begin" /\ next[u] = 1
  BY DEF Init
<1> QED
  BY <1>1, NumCallsType DEF CallsOf, Inside, Exclusive

LEMMA CallsNext == Typed /\ Calls /\ [Next]_vars => Calls'
<1> SUFFICES ASSUME Typed, Calls, [Next]_vars PROVE Calls'
  OBVIOUS
<1>0. Clients \subseteq Threads /\ Main \in Threads
  BY DEF Threads
<1> USE <1>0
<1>1. CASE init \/ repeats_done
  BY <1>1, CallsMove DEF init, repeats_done, Inside, Exclusive
<1>2. ASSUME NEW c \in Clients, begin(c) \/ enter_run(c) PROVE Calls'
  BY <1>2, CallsMove DEF begin, enter_run, Inside, Exclusive
<1>3. ASSUME NEW c \in Clients, start_timers(c) \/ lookup(c) \/ submit(c) \/ submit_nothing(c) \/ executed(c)
                                \/ count_write(c) \/ put(c) \/ filter(c) \/ leave_run(c)
      PROVE Calls'
  <2>1. next' = next /\ pc[c] \in Inside /\ pc[c] # "end"
    BY <1>3 DEF start_timers, lookup, submit, submit_nothing, executed, count_write, put, filter, leave_run,
                Inside
  <2>2. Call(c).name = "run"
    BY <2>1 DEF Calls, CallsOf
  <2>3. pc' = pc \/ \E place \in Inside \cup {"returned"} : goto(c, place)
    BY <1>3 DEF start_timers, lookup, submit, submit_nothing, executed, count_write, put, filter, leave_run,
                check, Inside
  <2>4. ASSUME NEW place \in Inside \cup {"returned"}, goto(c, place) PROVE Calls'
    BY <2>1, <2>2, <2>4, CallsMove DEF Inside, Exclusive
  <2> QED
    BY <2>1, <2>3, <2>4, CallsSame
<1>4. ASSUME NEW t \in Threads,
             acquire_entrance(t) \/ acquire_run_lock(t) \/ acquire_stat_lock(t) \/ flush_db(t)
      PROVE Calls'
  <2>1. next' = next /\ pc[t] # "end" /\ Call(t).name # "run"
    BY <1>4 DEF acquire_entrance, acquire_run_lock, acquire_stat_lock, flush_db, Calls, CallsOf, Exclusive
  <2>2. \E place \in Exclusive :
           goto(t, place) /\ (place = "flushed" => Call(t).name = "flush_cachedb")
    BY <1>4 DEF acquire_entrance, acquire_run_lock, acquire_stat_lock, flush_db, Exclusive
  <2> QED
    BY <2>1, <2>2, CallsMove DEF Exclusive, Inside
<1>5. ASSUME NEW t \in Threads, after_call(t), pc[t] \in {"returned", "body", "flushed"} PROVE Calls'
  BY <1>5, CallsReturn
<1>6. ASSUME NEW t \in Threads, flush_done(t) \/ flush_nothing(t) \/ reset_stat(t) \/ stop(t) PROVE Calls'
  BY <1>5, <1>6 DEF flush_done, flush_nothing, reset_stat, stop, release
<1>7. ASSUME NEW c \in Clients, take_results(c) PROVE Calls'
  BY <1>5, <1>7 DEF take_results
<1>8. ASSUME NEW r \in Runners, RunnerStep(r) PROVE Calls'
  BY <1>8, CallsSame DEF RunnerStep, start_item, clean_cov, exec, collect_cov
<1>9. CASE background_flush \/ UNCHANGED vars
  BY <1>9, CallsSame DEF background_flush, vars
<1>10. CASE crash
  <2> SUFFICES ASSUME NEW u \in Threads PROVE CallsOf(u)'
    BY DEF Calls
  <2>1. pc'[u] = "begin" /\ next'[u] = 1 /\ NumCalls(u)' = NumCalls(u)
    BY <1>10 DEF crash, Start, NumCalls
  <2> QED
    BY <2>1, NumCallsType DEF CallsOf, Inside, Exclusive
<1> QED
  BY <1>1, <1>2, <1>3, <1>4, <1>6, <1>7, <1>8, <1>9, <1>10 DEF Next, ClientStep, ExclusiveStep, MainStep

------------------------------------------------------------------------------
(* A step of a thread moves no other thread and keeps how the process was  *)
(* started.                                                                *)

LEMMA OneMoves ==
    ASSUME Typed, NEW t \in Threads, (t \in Clients /\ ClientStep(t)) \/ ExclusiveStep(t)
    PROVE  /\ \A u \in Threads \ {t} : pc'[u] = pc[u] /\ next'[u] = next[u]
           /\ command' = command
<1>1. (\E place : goto(t, place)) \/ pc' = pc
  BY DEF ClientStep, ExclusiveStep, begin, enter_run, start_timers, lookup, submit, submit_nothing,
         executed, count_write, put, filter, leave_run, take_results, acquire_entrance, acquire_run_lock,
         acquire_stat_lock, flush_db, flush_done, flush_nothing, reset_stat, stop, release, after_call, check
<1>2. next' = next \/ next' = [next EXCEPT ![t] = next[t] + 1]
  BY DEF ClientStep, ExclusiveStep, begin, enter_run, start_timers, lookup, submit, submit_nothing,
         executed, count_write, put, filter, leave_run, take_results, acquire_entrance, acquire_run_lock,
         acquire_stat_lock, flush_db, flush_done, flush_nothing, reset_stat, stop, release, after_call, check
<1>3. command' = command
  BY DEF ClientStep, ExclusiveStep, begin, enter_run, start_timers, lookup, submit, submit_nothing,
         executed, count_write, put, filter, leave_run, take_results, acquire_entrance, acquire_run_lock,
         acquire_stat_lock, flush_db, flush_done, flush_nothing, reset_stat, stop, release, after_call, check
<1> QED
  BY <1>1, <1>2, <1>3 DEF goto, Typed

(* Where a client goes from inside run, and a thread from a call that      *)
(* excludes the others.                                                    *)
LEMMA ClientMoves ==
    ASSUME Typed, NEW c \in Clients, ClientStep(c)
    PROVE  \/ pc[c] = "begin" /\ pc'[c] = "call"
           \/ pc[c] = "call" /\ pc'[c] = "start_timers"
           \/ pc[c] \in Inside /\ pc'[c] \in Inside \cup {"returned"}
           \/ pc[c] = "returned" /\ pc'[c] \in {"call", "end"}
<1>0. c \in Threads
  BY DEF Threads
<1>1. \A place : goto(c, place) => pc'[c] = place
  BY <1>0 DEF goto, Typed
<1> QED
  BY <1>1 DEF ClientStep, begin, enter_run, start_timers, lookup, submit, submit_nothing, executed,
              count_write, put, filter, leave_run, take_results, after_call, check, Inside

LEMMA ExclusiveMoves ==
    ASSUME Typed, NEW t \in Threads, ExclusiveStep(t)
    PROVE  \/ pc[t] = "call" /\ pc'[t] = "run_lock"
           \/ pc[t] \in Exclusive /\ pc'[t] \in Exclusive
           \/ pc[t] \in Exclusive /\ pc'[t] \in {"call", "end"}
<1>1. \A place : goto(t, place) => pc'[t] = place
  BY DEF goto, Typed
<1> QED
  BY <1>1 DEF ExclusiveStep, acquire_entrance, acquire_run_lock, acquire_stat_lock, flush_db, flush_done,
              flush_nothing, reset_stat, stop, release, after_call, Exclusive

------------------------------------------------------------------------------
(* The phases of the process.                                             *)

LEMMA PhaseInit == Init => Phase
<1>1. Main \in Threads /\ Clients \subseteq Threads
  BY DEF Threads
<1> SUFFICES ASSUME Init PROVE Phase
  OBVIOUS
<1>2. \A t \in Threads : pc[t] = "begin"
  BY DEF Init
<1> QED
  BY <1>1, <1>2, ClientsAssumption DEF Phase

LEMMA PhaseMove ==
    ASSUME Phase, NEW t \in Threads, \A u \in Threads \ {t} : pc'[u] = pc[u],
           pc[t] \notin {"begin", "repeats", "end"}, pc'[t] \notin {"begin", "repeats"},
           command' = command, interested_locs' = interested_locs, local_timer' = local_timer,
           queue_running' = queue_running \/ t = Main
    PROVE  Phase'
<1>0. Main \in Threads /\ Clients \subseteq Threads /\ Main \notin Clients
  BY ClientsAssumption DEF Threads
<1>1. CASE t = Main
  BY <1>0, <1>1, ClientsAssumption DEF Phase, allow_execute, n_threads
<1>2. CASE t # Main
  <2>1. t \in Clients /\ pc'[Main] = pc[Main] /\ queue_running' = queue_running
    BY <1>0, <1>2 DEF Threads
  <2>2. pc[Main] = "repeats"
    BY <2>1 DEF Phase
  <2> QED
    BY <1>0, <2>1, <2>2, ClientsAssumption DEF Phase, allow_execute, n_threads
<1> QED
  BY <1>1, <1>2

LEMMA PhaseNext == Typed /\ Calls /\ Phase /\ [Next]_vars => Phase'
<1> SUFFICES ASSUME Typed, Calls, Phase, [Next]_vars PROVE Phase'
  OBVIOUS
<1>0. Clients \subseteq Threads /\ Main \in Threads /\ Main \notin Clients
  BY ClientsAssumption DEF Threads
<1> USE <1>0
<1>1. CASE init
  <2>1. /\ pc'[Main] = "repeats" /\ \A c \in Clients : pc'[c] = "begin"
    BY <1>1 DEF init, goto, Typed, Phase
  <2>2. interested_locs' = (IF allow_execute THEN command.locs ELSE {}) /\ command' = command
    BY <1>1 DEF init
  <2>3. queue_running' <=> allow_execute /\ n_threads > 1
    BY <1>1 DEF init
  <2> QED
    BY <2>1, <2>2, <2>3, ClientsAssumption DEF Phase, allow_execute, n_threads
<1>2. CASE repeats_done
  <2>1. pc'[Main] = "call" /\ \A c \in Clients : pc'[c] = "end"
    BY <1>2 DEF repeats_done, goto, Typed
  <2> QED
    BY <1>2, <2>1, ClientsAssumption DEF repeats_done, Phase, allow_execute, n_threads, timers, pool
<1>3. ASSUME NEW c \in Clients, begin(c) PROVE Phase'
  <2>1. pc'[c] = "call" /\ pc'[Main] = "repeats" /\ \A d \in Clients \ {c} : pc'[d] = pc[d]
    BY <1>3 DEF begin, goto, Typed
  <2>2. local_timer' = local_timer \cup ({c} \cap ResetsTimer)
    BY <1>3 DEF begin
  <2> QED
    BY <1>3, <2>1, <2>2, ClientsAssumption DEF begin, Phase, allow_execute, n_threads, pool
<1>4. ASSUME NEW c \in Clients, ClientStep(c), ~begin(c) PROVE Phase'
  <2>1. pc[c] \notin {"begin", "repeats", "end"} /\ pc'[c] \notin {"begin", "repeats"}
    BY <1>4, ClientMoves
       DEF Inside, ClientStep, enter_run, start_timers, lookup, submit, submit_nothing, executed, count_write,
           put, filter, leave_run, take_results
  <2>2. UNCHANGED <<command, interested_locs, local_timer, queue_running>>
    BY <1>4 DEF ClientStep, enter_run, start_timers, lookup, submit, submit_nothing, executed,
                count_write, put, filter, leave_run, take_results, timers, pool
  <2> QED
    BY <1>4, <2>1, <2>2, OneMoves, PhaseMove
<1>5. ASSUME NEW t \in Threads, ExclusiveStep(t) PROVE Phase'
  <2>1. pc[t] \notin {"begin", "repeats", "end"} /\ pc'[t] \notin {"begin", "repeats"}
    BY <1>5, ExclusiveMoves DEF Exclusive
  <2>2. UNCHANGED <<command, interested_locs, local_timer>>
    BY <1>5 DEF ExclusiveStep, acquire_entrance, acquire_run_lock, acquire_stat_lock, flush_db,
                flush_done, flush_nothing, reset_stat, stop, timers
  <2>3. queue_running' = queue_running \/ stop(t)
    BY <1>5 DEF ExclusiveStep, acquire_entrance, acquire_run_lock, acquire_stat_lock, flush_db,
                flush_done, flush_nothing, reset_stat, stop, pool
  <2>4. ASSUME stop(t) PROVE t = Main
    <3>1. Call(t).name = "stop" /\ next[t] \in 1 .. NumCalls(t)
      BY <2>4, NumCallsType DEF stop, Calls, CallsOf
    <3> QED
      BY <3>1, CallNames DEF Threads
  <2> QED
    BY <1>5, <2>1, <2>2, <2>3, <2>4, OneMoves, PhaseMove
<1>6. ASSUME NEW r \in Runners, RunnerStep(r) PROVE Phase'
  BY <1>6 DEF RunnerStep, start_item, clean_cov, exec, collect_cov, Phase, allow_execute, n_threads,
              timers
<1>7. CASE background_flush \/ UNCHANGED vars
  BY <1>7 DEF background_flush, vars, Phase, allow_execute, n_threads, timers, pool
<1>8. CASE crash
  <2>1. \A t \in Threads : pc'[t] = "begin"
    BY <1>8 DEF crash, Start
  <2> QED
    BY <2>1, ClientsAssumption DEF Phase
<1> QED
  BY <1>1, <1>2, <1>3, <1>4, <1>5, <1>6, <1>7, <1>8 DEF Next, MainStep

------------------------------------------------------------------------------
(* The entrance lock.                                                     *)

LEMMA LocksInit == Init => Locks
<1> SUFFICES ASSUME Init PROVE Locks
  OBVIOUS
<1>1. /\ \A t \in Threads : pc[t] = "begin"
      /\ entrance.readers = {} /\ entrance.writer = NoThread /\ Clients \subseteq Threads
  BY DEF Init, Threads
<1> QED
  BY <1>1, NoThreadAssumption DEF Locks, Inside, Exclusive

(* Going on inside run, or inside a call that excludes the others, leaves  *)
(* the lock as it is.                                                      *)
LEMMA LocksKept ==
    ASSUME Locks, entrance' = entrance,
           \A t \in Threads : (pc'[t] \in Inside <=> pc[t] \in Inside)
                              /\ (pc'[t] \in Exclusive <=> pc[t] \in Exclusive)
    PROVE  Locks'
<1>1. Clients \subseteq Threads
  BY DEF Threads
<1> QED
  BY <1>1 DEF Locks

(* The timers tell a client that leaves that it was timed.                 *)
LEMMA TimedFinite == IsFiniteSet(Timed) /\ Cardinality(Timed) \in Nat
                     /\ Cardinality(Timed) <= Cardinality(Clients) /\ Cardinality(Clients) \in Nat
BY ClientsAssumption, FS_Subset, FS_CardinalityType DEF Timed

LEMMA LeaveChecks ==
    ASSUME Timers, ~aborted, NEW c \in Clients, leave_run(c)
    PROVE  ~aborted' /\ n_started_timer >= 1
<1>1. c \in Timed
  BY DEF leave_run, Timed, Inside
<1>2. Cardinality(Timed) # 0
  BY <1>1, TimedFinite, FS_EmptySet
<1>3. n_started_timer >= 1
  BY <1>2, TimedFinite DEF Timers
<1> QED
  BY <1>3, Zenon DEF leave_run, check

LEMMA LocksNext == Typed /\ Locks /\ Timers /\ [Next]_vars => Locks'
<1> SUFFICES ASSUME Typed, Locks, Timers, [Next]_vars PROVE Locks'
  OBVIOUS
<1>0. /\ Clients \subseteq Threads /\ Main \in Threads
      /\ \A p \in {"begin", "call", "returned", "end", "repeats"} : p \notin Inside /\ p \notin Exclusive
      /\ \A p \in Inside : p \notin Exclusive
  BY DEF Threads, Inside, Exclusive
<1> USE <1>0
<1>1. CASE init \/ repeats_done
  <2>1. /\ pc[Main] \in {"begin", "repeats"} /\ pc'[Main] \in {"repeats", "call"}
        /\ \A u \in Threads \ {Main} : pc'[u] = pc[u]
        /\ entrance' = entrance
    BY <1>1 DEF init, repeats_done, goto, Typed, locks
  <2> QED
    BY <2>1, LocksKept
<1>2. ASSUME NEW c \in Clients, begin(c) \/ take_results(c) PROVE Locks'
  <2>1. ClientStep(c) /\ entrance' = entrance /\ pc[c] \in {"begin", "returned"}
    BY <1>2 DEF ClientStep, begin, take_results, locks
  <2>2. pc'[c] \in {"call", "end"}
    BY <2>1, ClientMoves
  <2> QED
    BY <2>1, <2>2, OneMoves, LocksKept
<1>3. ASSUME NEW c \in Clients, enter_run(c) PROVE Locks'
  <2>1. /\ pc[c] = "call" /\ pc'[c] \in Inside /\ \A u \in Threads \ {c} : pc'[u] = pc[u]
        /\ entrance.writer = NoThread /\ entrance'.writer = NoThread
        /\ entrance'.readers = entrance.readers \cup {c}
    BY <1>3 DEF enter_run, goto, Inside, Typed
  <2> QED
    BY <2>1 DEF Locks
<1>4. ASSUME NEW c \in Clients, ClientStep(c), pc[c] \in Inside, ~leave_run(c) PROVE Locks'
  <2>1. entrance' = entrance /\ pc'[c] \in Inside
    BY <1>4, ClientMoves
       DEF ClientStep, begin, enter_run, take_results, start_timers, lookup, submit, submit_nothing,
           executed, count_write, put, filter, check, goto, Typed, Inside, locks
  <2> QED
    BY <1>4, <2>1, OneMoves, LocksKept
<1>5. ASSUME NEW c \in Clients, leave_run(c), ~aborted PROVE Locks'
  <2>0. ~aborted'
    BY <1>5, LeaveChecks
  <2>1. /\ pc[c] \in Inside /\ pc'[c] \notin Inside \cup Exclusive
        /\ \A u \in Threads \ {c} : pc'[u] = pc[u]
        /\ entrance'.writer = entrance.writer /\ entrance'.readers = entrance.readers \ {c}
    BY <1>5, <2>0 DEF leave_run, check, goto, Inside, Exclusive, Typed
  <2> QED
    BY <2>1 DEF Locks
<1>6. ASSUME NEW t \in Threads, acquire_entrance(t) PROVE Locks'
  <2>1. /\ pc[t] = "call" /\ pc'[t] \in Exclusive /\ \A u \in Threads \ {t} : pc'[u] = pc[u]
        /\ entrance.writer = NoThread /\ entrance.readers = {}
        /\ entrance'.writer = t /\ entrance'.readers = {}
    BY <1>6 DEF acquire_entrance, EntranceFree, goto, Exclusive, Typed
  <2> QED
    BY <2>1, NoThreadAssumption DEF Locks
<1>7. ASSUME NEW t \in Threads, acquire_run_lock(t) \/ acquire_stat_lock(t) \/ flush_db(t) PROVE Locks'
  <2>1. ExclusiveStep(t) /\ entrance' = entrance /\ pc[t] \in Exclusive /\ pc'[t] \in Exclusive
    BY <1>7 DEF ExclusiveStep, acquire_run_lock, acquire_stat_lock, flush_db, goto, Exclusive, Typed, locks
  <2> QED
    BY <2>1, OneMoves, LocksKept
<1>8. ASSUME NEW t \in Threads, flush_done(t) \/ flush_nothing(t) \/ reset_stat(t) \/ stop(t) PROVE Locks'
  <2>1. ExclusiveStep(t) /\ pc[t] \in Exclusive
    BY <1>8 DEF ExclusiveStep, flush_done, flush_nothing, reset_stat, stop, Exclusive
  <2>2. release(t)
    BY <1>8 DEF flush_done, flush_nothing, reset_stat, stop
  <2>3. entrance'.writer = NoThread /\ entrance'.readers = entrance.readers
    BY <2>2 DEF release, Typed
  <2>4. pc'[t] \in {"call", "end"}
    BY <2>2 DEF release, after_call, goto, Typed
  <2> QED
    BY <2>1, <2>3, <2>4, OneMoves, NoThreadAssumption DEF Locks
<1>9. ASSUME NEW r \in Runners, RunnerStep(r) PROVE Locks'
  BY <1>9, LocksKept DEF RunnerStep, start_item, clean_cov, exec, collect_cov, locks
<1>10. CASE background_flush \/ UNCHANGED vars
  BY <1>10, LocksKept DEF background_flush, vars, locks
<1>11. CASE crash
  <2>1. /\ \A t \in Threads : pc'[t] = "begin"
        /\ entrance'.readers = {} /\ entrance'.writer = NoThread
    BY <1>11 DEF crash, Start
  <2> QED
    BY <2>1, NoThreadAssumption DEF Locks
<1>12. ASSUME NEW c \in Clients, ClientStep(c), ~aborted PROVE Locks'
  <2>1. pc[c] \in Inside \/ begin(c) \/ enter_run(c) \/ take_results(c)
    BY <1>12 DEF ClientStep, start_timers, lookup, submit, submit_nothing, executed, count_write, put,
                 filter, leave_run, Inside
  <2> QED
    BY <1>2, <1>3, <1>4, <1>5, <1>12, <2>1
<1>13. ASSUME NEW t \in Threads, ExclusiveStep(t) PROVE Locks'
  BY <1>6, <1>7, <1>8, <1>13 DEF ExclusiveStep
<1> QED
  BY <1>1, <1>9, <1>10, <1>11, <1>12, <1>13 DEF Next, MainStep

------------------------------------------------------------------------------
(* The count of started timers.                                           *)

LEMMA TimersInit == Init => Timers
<1> SUFFICES ASSUME Init PROVE Timers
  OBVIOUS
<1>1. \A c \in Clients : pc[c] = "begin"
  BY DEF Init, Threads
<1>2. Timed = {}
  BY <1>1 DEF Timed, Inside
<1>3. n_started_timer = 0 /\ Cardinality(Timed) = 0
  BY <1>2, FS_EmptySet DEF Init
<1> QED
  BY <1>3, TimedFinite DEF Timers

LEMMA TimersKept ==
    ASSUME Timers, n_started_timer' = n_started_timer, aborted => aborted',
           \A c \in Clients : pc'[c] \in Inside \ {"start_timers"} <=> pc[c] \in Inside \ {"start_timers"}
    PROVE  Timers'
<1>1. Timed' = Timed
  BY DEF Timed
<1> QED
  BY <1>1 DEF Timers

LEMMA TimersNext == Typed /\ Calls /\ Locks /\ Timers /\ [Next]_vars => Timers'
<1> SUFFICES ASSUME Typed, Calls, Locks, Timers, [Next]_vars PROVE Timers'
  OBVIOUS
<1>0. Clients \subseteq Threads /\ Main \in Threads /\ Main \notin Clients
  BY ClientsAssumption DEF Threads
<1> USE <1>0
<1> DEFINE In == Inside \ {"start_timers"}
<1>1. CASE init \/ repeats_done
  <2>1. /\ \A u \in Clients : pc'[u] = pc[u]
        /\ n_started_timer' = n_started_timer /\ aborted' = aborted
    BY <1>1 DEF init, repeats_done, goto, Typed, timers
  <2> QED
    BY <2>1, TimersKept
<1>2. ASSUME NEW c \in Clients, start_timers(c), ~aborted PROVE Timers'
  <2>1. c \notin Timed /\ c \in Clients
    BY <1>2 DEF start_timers, Timed
  <2>2. n_started_timer = Cardinality(Timed) /\ n_started_timer' = n_started_timer + 1
    BY <1>2 DEF Timers, start_timers
  <2>3. Cardinality(Timed \cup {c}) = Cardinality(Timed) + 1
    BY <2>1, TimedFinite, FS_AddElement
  <2>4. Cardinality(Timed \cup {c}) <= Cardinality(Clients)
    <3>1. Timed \cup {c} \subseteq Clients
      BY DEF Timed
    <3> QED
      BY <3>1, ClientsAssumption, FS_Subset
  <2>5. n_started_timer' \in 0 .. Cardinality(Clients)
    BY <2>2, <2>3, <2>4, TimedFinite
  <2>6. ASSUME ~aborted' PROVE n_started_timer' = Cardinality(Timed')
    <3>1. pc'[c] = "lookup" /\ \A u \in Threads \ {c} : pc'[u] = pc[u]
      BY <1>2, <2>6 DEF start_timers, check, goto, Typed
    <3>2. Timed' = Timed \cup {c}
      BY <3>1 DEF Timed, Inside
    <3> QED
      BY <2>2, <2>3, <3>2
  <2> QED
    BY <2>5, <2>6 DEF Timers
<1>3. ASSUME NEW c \in Clients, leave_run(c), ~aborted PROVE Timers'
  <2>1. ~aborted' /\ n_started_timer >= 1
    BY <1>3, LeaveChecks
  <2>2. pc[c] = "leave" /\ pc'[c] = "returned" /\ \A u \in Threads \ {c} : pc'[u] = pc[u]
    BY <1>3, <2>1 DEF leave_run, check, goto, Typed
  <2>3. Timed' = Timed \ {c} /\ c \in Timed
    BY <2>2 DEF Timed, Inside
  <2>4. Cardinality(Timed \ {c}) = Cardinality(Timed) - 1
    BY <2>3, TimedFinite, FS_RemoveElement
  <2>5. n_started_timer = Cardinality(Timed) /\ n_started_timer' = n_started_timer - 1
    BY <1>3 DEF Timers, leave_run
  <2>6. n_started_timer' = Cardinality(Timed')
    BY <2>3, <2>4, <2>5
  <2>7. n_started_timer' \in 0 .. Cardinality(Clients)
    BY <2>1, <2>5, TimedFinite
  <2> QED
    BY <2>6, <2>7 DEF Timers
<1>4. ASSUME NEW c \in Clients, ClientStep(c), ~start_timers(c), ~leave_run(c), ~aborted PROVE Timers'
  <2>1. n_started_timer' = n_started_timer
    BY <1>4 DEF ClientStep, begin, enter_run, lookup, submit, submit_nothing, executed, count_write,
                put, filter, take_results, timers
  <2>2. pc'[c] \in In <=> pc[c] \in In
    BY <1>4 DEF ClientStep, begin, enter_run, lookup, submit, submit_nothing, executed, count_write,
                put, filter, take_results, after_call, check, goto, Typed, Inside
  <2> QED
    BY <1>4, <2>1, <2>2, OneMoves, TimersKept
<1>5. ASSUME NEW t \in Threads, ExclusiveStep(t), ~reset_stat(t), ~aborted PROVE Timers'
  <2>1. n_started_timer' = n_started_timer
    BY <1>5 DEF ExclusiveStep, acquire_entrance, acquire_run_lock, acquire_stat_lock, flush_db, flush_done,
                flush_nothing, stop, timers
  <2>2. pc'[t] \notin In /\ pc[t] \notin In
    BY <1>5, ExclusiveMoves DEF Inside, Exclusive
  <2> QED
    BY <1>5, <2>1, <2>2, OneMoves, TimersKept
<1>6. ASSUME NEW t \in Threads, reset_stat(t) PROVE Timers'
  <2>1. pc[t] \in Exclusive /\ ExclusiveStep(t)
    BY <1>6 DEF reset_stat, Exclusive, ExclusiveStep
  <2>2. entrance.writer = t /\ t # NoThread
    BY <2>1, NoThreadAssumption DEF Locks
  <2>3. \A c \in Clients : pc[c] \notin Inside
    BY <2>2 DEF Locks
  <2>4. \A c \in Clients : pc'[c] \notin Inside
    <3>1. pc'[t] \notin Inside
      BY <1>6 DEF reset_stat, release, after_call, goto, Typed, Inside
    <3> QED
      BY <2>1, <2>3, <3>1, OneMoves
  <2>5. Timed' = {}
    BY <2>4 DEF Timed
  <2>6. n_started_timer' = 0 /\ Cardinality(Timed') = 0
    BY <1>6, <2>5, FS_EmptySet DEF reset_stat
  <2> QED
    BY <2>6, TimedFinite DEF Timers
<1>7. ASSUME NEW r \in Runners, RunnerStep(r) PROVE Timers'
  BY <1>7, TimersKept DEF RunnerStep, start_item, clean_cov, exec, collect_cov, timers
<1>8. CASE background_flush \/ UNCHANGED vars
  BY <1>8, TimersKept DEF background_flush, vars, timers
<1>9. CASE crash
  <2>1. \A c \in Clients : pc'[c] = "begin"
    BY <1>9 DEF crash, Start
  <2>2. Timed' = {}
    BY <2>1 DEF Timed, Inside
  <2>3. n_started_timer' = 0 /\ Cardinality(Timed') = 0
    BY <1>9, <2>2, FS_EmptySet DEF crash, Start
  <2> QED
    BY <2>3, TimedFinite DEF Timers
<1> QED
  BY <1>1, <1>2, <1>3, <1>4, <1>5, <1>6, <1>7, <1>8, <1>9 DEF Next, MainStep

------------------------------------------------------------------------------
(* The cache.                                                             *)

LEMMA CacheInit == Init => Cache
<1> SUFFICES ASSUME Init PROVE Cache
  OBVIOUS
<1>1. command.cached \in SUBSET Configs
  BY RunnerAssumption DEF Init, Command
<1>2. cachedb = Entries(command.cached) /\ on_disk = cachedb /\ \A t \in Threads : pc[t] = "begin"
  BY DEF Init
<1> QED
  BY <1>1, <1>2, EntriesRight DEF Cache

LEMMA CacheKept ==
    ASSUME Cache, UNCHANGED <<command, cachedb, on_disk, n_unflushed_write>>,
           \A t \in Threads : (pc'[t] = "put" => pc[t] = "put") /\ (pc'[t] = "flushed" => pc[t] = "flushed")
    PROVE  Cache'
BY DEF Cache, RightEntries, allow_cache_write

(* What put writes is right.                                               *)
LEMMA PutIsRight ==
    ASSUME Typed, Calls, Work, NEW c \in Clients, put(c)
    PROVE  \E k \in DOMAIN Batch(c) : /\ Batch(c)[k] \in Configs
                                      /\ cachedb' = With(cachedb, Batch(c)[k], Encoded(Cover[Batch(c)[k]]))
<1> DEFINE k == Head(cid_to_run[c])
<1>0. pc[c] = "put" /\ WorkOf(c)
  BY DEF put, Work
<1>1. /\ Batch(c) \in Seq(Configs)
      /\ DOMAIN Batch(c) = 1 .. Len(Batch(c))
      /\ DOMAIN v_locs[c] = 1 .. Len(v_locs[c])
  BY <1>0, BatchInside DEF Inside
<1>2. cid_to_run[c] \in Seq(Nat) /\ cid_to_run[c] # << >>
  BY <1>0 DEF WorkOf, Typed
<1>3. 1 \in DOMAIN cid_to_run[c] /\ k = cid_to_run[c][1]
  BY <1>2
<1>4. k \in DOMAIN v_locs[c] /\ Complete(c) /\ RightAt(c, k)
  BY <1>0, <1>3 DEF WorkOf
<1>5. k \in DOMAIN Batch(c) /\ Batch(c)[k] \in Configs
  BY <1>1, <1>4 DEF Complete
<1>6. cachedb' = With(cachedb, Batch(c)[k], Encoded(Cover[Batch(c)[k]]))
  BY <1>4 DEF put, RightAt
<1> QED
  BY <1>5, <1>6

LEMMA CacheNext == Typed /\ Calls /\ Locks /\ Work /\ Cache /\ [Next]_vars => Cache'
<1> SUFFICES ASSUME Typed, Calls, Locks, Work, Cache, [Next]_vars PROVE Cache'
  OBVIOUS
<1>0. Clients \subseteq Threads /\ Main \in Threads /\ Main \notin Clients
  BY ClientsAssumption DEF Threads
<1> USE <1>0
<1>1. CASE init \/ repeats_done
  <2>1. /\ \A u \in Clients : pc'[u] = pc[u]
        /\ pc'[Main] \in {"repeats", "call"}
        /\ UNCHANGED <<command, cachedb, on_disk, n_unflushed_write>>
    BY <1>1 DEF init, repeats_done, goto, Typed, cache
  <2> QED
    BY <2>1, CacheKept DEF Threads
<1>2. ASSUME NEW c \in Clients, count_write(c) PROVE Cache'
  <2>1. /\ pc[c] = "write" /\ pc'[c] = "put" /\ \A u \in Threads \ {c} : pc'[u] = pc[u]
        /\ n_unflushed_write' = n_unflushed_write + 1 /\ allow_cache_write
        /\ UNCHANGED <<command, cachedb, on_disk>>
    BY <1>2 DEF count_write, goto, Typed
  <2>2. n_unflushed_write' > 0
    BY <2>1 DEF Typed
  <2> QED
    BY <2>1, <2>2 DEF Cache, RightEntries, allow_cache_write
<1>3. ASSUME NEW c \in Clients, put(c) PROVE Cache'
  <2>1. PICK k \in DOMAIN Batch(c) :
           /\ Batch(c)[k] \in Configs
           /\ cachedb' = With(cachedb, Batch(c)[k], Encoded(Cover[Batch(c)[k]]))
    BY <1>3, PutIsRight
  <2>2. RightEntries(cachedb') /\ DOMAIN cachedb \subseteq DOMAIN cachedb'
    BY <2>1 DEF With, Cache, RightEntries
  <2>3. /\ pc[c] = "put" /\ pc'[c] = "write" /\ \A u \in Threads \ {c} : pc'[u] = pc[u]
        /\ UNCHANGED <<command, on_disk, n_unflushed_write>>
    BY <1>3 DEF put, goto, Typed
  <2>4. entrance.readers # {}
    BY <2>3 DEF Locks, Inside
  <2>5. \A u \in Threads : pc[u] # "flushed"
    BY <2>4, NoThreadAssumption DEF Locks, Exclusive
  <2> QED
    BY <2>2, <2>3, <2>5 DEF Cache, RightEntries, allow_cache_write
<1>4. ASSUME NEW c \in Clients, ClientStep(c), ~count_write(c), ~put(c) PROVE Cache'
  <2>1. UNCHANGED <<command, cachedb, on_disk, n_unflushed_write>>
    BY <1>4 DEF ClientStep, begin, enter_run, start_timers, lookup, submit, submit_nothing, executed,
                filter, leave_run, take_results, cache
  <2>2. pc'[c] # "flushed" /\ pc'[c] # "put"
    BY <1>4 DEF ClientStep, begin, enter_run, start_timers, lookup, submit, submit_nothing, executed,
                filter, leave_run, take_results, after_call, check, goto, Typed
  <2> QED
    BY <1>4, <2>1, <2>2, OneMoves, CacheKept
<1>5. ASSUME NEW t \in Threads, flush_db(t) PROVE Cache'
  <2>1. /\ pc[t] = "body" /\ pc'[t] = "flushed" /\ \A u \in Threads \ {t} : pc'[u] = pc[u]
        /\ on_disk' = cachedb /\ UNCHANGED <<command, cachedb, n_unflushed_write>>
    BY <1>5 DEF flush_db, goto, Typed
  <2> QED
    BY <2>1 DEF Cache, RightEntries, allow_cache_write
<1>6. ASSUME NEW t \in Threads, flush_done(t) PROVE Cache'
  <2>1. pc[t] = "flushed" /\ on_disk = cachedb /\ UNCHANGED <<command, cachedb, on_disk>>
    BY <1>6 DEF flush_done, Cache
  <2>2. \A u \in Threads : pc[u] # "put"
    <3>1. entrance.writer = t /\ t # NoThread
      BY <2>1, NoThreadAssumption DEF Locks, Exclusive
    <3>2. \A u \in Clients : pc[u] \notin Inside
      BY <3>1 DEF Locks
    <3> QED
      BY <3>2 DEF Calls, CallsOf, Inside
  <2>3. pc'[t] \in {"call", "end"} /\ \A u \in Threads \ {t} : pc'[u] = pc[u]
    BY <1>6 DEF flush_done, release, after_call, goto, Typed
  <2> QED
    BY <2>1, <2>2, <2>3 DEF Cache, RightEntries, allow_cache_write
<1>7. ASSUME NEW t \in Threads, ExclusiveStep(t), ~flush_db(t), ~flush_done(t) PROVE Cache'
  <2>1. UNCHANGED <<command, cachedb, on_disk, n_unflushed_write>>
    BY <1>7 DEF ExclusiveStep, acquire_entrance, acquire_run_lock, acquire_stat_lock, flush_nothing,
                reset_stat, stop, cache
  <2>2. pc'[t] # "flushed" /\ pc'[t] # "put"
    BY <1>7 DEF ExclusiveStep, acquire_entrance, acquire_run_lock, acquire_stat_lock, flush_nothing,
                reset_stat, stop, release, after_call, goto, Typed
  <2> QED
    BY <1>7, <2>1, <2>2, OneMoves, CacheKept
<1>8. ASSUME NEW r \in Runners, RunnerStep(r) PROVE Cache'
  BY <1>8, CacheKept DEF RunnerStep, start_item, clean_cov, exec, collect_cov, cache
<1>9. CASE UNCHANGED vars
  BY <1>9, CacheKept DEF vars, cache
<1>10. CASE background_flush
  BY <1>10 DEF background_flush, Cache, RightEntries, allow_cache_write
<1>11. CASE crash
  <2>1. /\ \A t \in Threads : pc'[t] = "begin"
        /\ cachedb' = on_disk /\ UNCHANGED <<command, on_disk>>
    BY <1>11 DEF crash, Start
  <2> QED
    BY <2>1 DEF Cache, RightEntries
<1> QED
  BY <1>1, <1>2, <1>3, <1>4, <1>5, <1>6, <1>7, <1>8, <1>9, <1>10, <1>11 DEF Next, MainStep

------------------------------------------------------------------------------
(* The results of the clients.                                            *)

LEMMA WorkInit == Init => Work
<1> SUFFICES ASSUME Init, NEW c \in Clients PROVE WorkOf(c)
  BY DEF Work
<1>1. pc[c] = "begin" /\ v_locs[c] = << >> /\ cid_to_run[c] = << >> /\ pending[c] = {}
  BY DEF Init, Threads
<1> QED
  BY <1>1 DEF WorkOf, Inside

LEMMA WorkKept ==
    ASSUME NEW d \in Clients, WorkOf(d),
           pc'[d] = pc[d], next'[d] = next[d], v_locs'[d] = v_locs[d], cid_to_run'[d] = cid_to_run[d],
           pending'[d] = pending[d], UNCHANGED <<command, job, interested_locs>>, aborted => aborted'
    PROVE  WorkOf(d)'
<1>1. Batch(d)' = Batch(d)
  BY SameCall
<1>2. Runners' = Runners /\ (allow_execute' <=> allow_execute)
  BY DEF Runners, n_threads, allow_execute
<1>3. (Complete(d)' <=> Complete(d)) /\ \A k : RightAt(d, k)' <=> RightAt(d, k)
  BY <1>1 DEF Complete, RightAt
<1>4. \A k : (v_locs[d][k] = OfInterest(Cover[Batch(d)[k]]))' <=> v_locs[d][k] = OfInterest(Cover[Batch(d)[k]])
  BY <1>1 DEF OfInterest
<1>5. \A k : (\E r \in Runners : job[r].client = d /\ job[r].cid = k)'
              <=> \E r \in Runners : job[r].client = d /\ job[r].cid = k
  BY <1>2
<1> QED
  BY <1>1, <1>2, <1>3, <1>4, <1>5 DEF WorkOf

(* A client works on its own batch.                                        *)
LEMMA OthersWork ==
    ASSUME Typed, Work, ~aborted, NEW c \in Clients, ClientStep(c), NEW d \in Clients, d # c
    PROVE  WorkOf(d)'
<1>1. pc'[d] = pc[d] /\ next'[d] = next[d]
  BY OneMoves DEF Threads
<1>2. UNCHANGED <<command, job, interested_locs>>
  BY DEF ClientStep, begin, enter_run, start_timers, lookup, submit, submit_nothing, executed, count_write,
         put, filter, leave_run, take_results, pool
<1>3. (\E s : v_locs' = [v_locs EXCEPT ![c] = s]) \/ v_locs' = v_locs
  BY DEF ClientStep, begin, enter_run, start_timers, lookup, submit, submit_nothing, executed, count_write,
         put, filter, leave_run, take_results, work
<1>4. (\E s : cid_to_run' = [cid_to_run EXCEPT ![c] = s]) \/ cid_to_run' = cid_to_run
  BY DEF ClientStep, begin, enter_run, start_timers, lookup, submit, submit_nothing, executed, count_write,
         put, filter, leave_run, take_results, work
<1>5. (\E s : pending' = [pending EXCEPT ![c] = s]) \/ pending' = pending
  BY DEF ClientStep, begin, enter_run, start_timers, lookup, submit, submit_nothing, executed, count_write,
         put, filter, leave_run, take_results, work
<1>6. v_locs'[d] = v_locs[d] /\ cid_to_run'[d] = cid_to_run[d] /\ pending'[d] = pending[d]
  BY <1>3, <1>4, <1>5 DEF Typed
<1> QED
  BY <1>1, <1>2, <1>6, WorkKept DEF Work

LEMMA LookupWork ==
    ASSUME Typed, Calls, Work, Cache, ~aborted, NEW c \in Clients, lookup(c)
    PROVE  WorkOf(c)'
<1> DEFINE n == Len(v_locs[c]) + 1
           e == IF Hit(c) THEN Decoded(cachedb[NextConfig(c)]) ELSE {}
<1>0. pc[c] = "lookup" /\ Looked(c) < Len(Batch(c)) /\ WorkOf(c) /\ c \in Threads
  BY DEF lookup, Work, Threads
<1>1. /\ Batch(c) \in Seq(Configs) /\ Len(Batch(c)) \in Nat
      /\ DOMAIN v_locs[c] = 1 .. Len(v_locs[c]) /\ Len(v_locs[c]) \in Nat
  BY <1>0, BatchInside DEF Inside
<1>2. e \in SUBSET Locs /\ (Hit(c) => e = Cover[Batch(c)[n]])
  BY <1>0, HitIsRight DEF NextConfig, Looked
<1>3. v_locs'[c] = Append(v_locs[c], e) /\ v_locs[c] \in Seq(SUBSET Locs)
  BY DEF lookup, Typed
<1>4. /\ Len(v_locs'[c]) = n /\ DOMAIN v_locs'[c] = 1 .. n
      /\ v_locs'[c][n] = e /\ \A k \in 1 .. Len(v_locs[c]) : v_locs'[c][k] = v_locs[c][k]
  BY <1>1, <1>2, <1>3, AppendProperties
<1>5. cid_to_run[c] \in Seq(Nat) /\ n \in Nat /\ n <= Len(Batch(c))
  BY <1>0, <1>1 DEF Typed, Looked
<1>6. cid_to_run'[c] = IF Hit(c) THEN cid_to_run[c] ELSE Append(cid_to_run[c], n)
  BY DEF lookup, Typed, Looked
<1>7. /\ \A i \in DOMAIN cid_to_run[c] : i \in DOMAIN cid_to_run'[c] /\ cid_to_run'[c][i] = cid_to_run[c][i]
      /\ ~Hit(c) => \E i \in DOMAIN cid_to_run'[c] : cid_to_run'[c][i] = n
      /\ \A i \in DOMAIN cid_to_run'[c] : \/ i \in DOMAIN cid_to_run[c] /\ cid_to_run'[c][i] = cid_to_run[c][i]
                                          \/ cid_to_run'[c][i] = n
  <2>1. CASE Hit(c)
    BY <1>6, <2>1
  <2>2. CASE ~Hit(c)
    <3> DEFINE s == cid_to_run[c]
    <3>1. /\ cid_to_run'[c] = Append(s, n) /\ Len(s) \in Nat
          /\ DOMAIN s = 1 .. Len(s) /\ DOMAIN Append(s, n) = 1 .. Len(s) + 1
          /\ Append(s, n)[Len(s) + 1] = n /\ \A i \in 1 .. Len(s) : Append(s, n)[i] = s[i]
      BY <1>5, <1>6, <2>2, AppendProperties, LenProperties
    <3>2. Len(s) + 1 \in DOMAIN cid_to_run'[c] /\ cid_to_run'[c][Len(s) + 1] = n
      BY <3>1
    <3>3. \A i \in DOMAIN s : i \in DOMAIN cid_to_run'[c] /\ cid_to_run'[c][i] = s[i]
      BY <3>1
    <3>4. \A i \in DOMAIN cid_to_run'[c] : i \in DOMAIN s \/ i = Len(s) + 1
      BY <3>1
    <3> QED
      BY <2>2, <3>2, <3>3, <3>4
  <2> QED
    BY <2>1, <2>2
<1>8. pc'[c] = "lookup" /\ (aborted' \/ Hit(c) \/ allow_execute)
  BY <1>0 DEF lookup, check, goto, Typed
<1>9. pending' = pending /\ next' = next /\ pending[c] = {} /\ (allow_execute' <=> allow_execute)
  BY <1>0 DEF lookup, WorkOf, allow_execute
<1>10. Batch(c)' = Batch(c)
  BY <1>9, SameCall
<1>11. \A i \in DOMAIN cid_to_run'[c] : cid_to_run'[c][i] \in DOMAIN v_locs'[c]
  BY <1>0, <1>1, <1>4, <1>5, <1>7 DEF WorkOf
<1>12. ASSUME NEW k \in DOMAIN v_locs'[c]
       PROVE  (\E i \in DOMAIN cid_to_run'[c] : cid_to_run'[c][i] = k) \/ v_locs'[c][k] = Cover[Batch(c)[k]]
  <2>1. CASE k = n
    BY <1>2, <1>4, <1>7, <2>1
  <2>2. CASE k # n
    <3>1. k \in DOMAIN v_locs[c] /\ v_locs'[c][k] = v_locs[c][k]
      BY <1>1, <1>4, <1>5, <2>2
    <3>2. (\E i \in DOMAIN cid_to_run[c] : cid_to_run[c][i] = k) \/ RightAt(c, k)
      BY <1>0, <3>1 DEF WorkOf
    <3> QED
      BY <1>7, <3>1, <3>2 DEF RightAt
  <2> QED
    BY <2>1, <2>2
<1>13. allow_execute \/ aborted' \/ cid_to_run'[c] = << >>
  BY <1>0, <1>6, <1>8 DEF WorkOf
<1> QED
  BY <1>4, <1>5, <1>8, <1>9, <1>10, <1>11, <1>12, <1>13 DEF WorkOf, RightAt, Inside

LEMMA SubmitWork ==
    ASSUME Typed, Calls, Work, ~aborted, NEW c \in Clients, submit(c)
    PROVE  WorkOf(c)'
<1>0. pc[c] = "lookup" /\ Looked(c) = Len(Batch(c)) /\ WorkOf(c) /\ c \in Threads /\ allow_execute
  BY DEF submit, Work, Threads
<1>1. pending'[c] = Range(cid_to_run[c]) /\ UNCHANGED <<v_locs, cid_to_run, next, command, job>>
  BY DEF submit, Typed, pool
<1>2. pc'[c] = "execute" \/ (pc'[c] = "lookup" /\ aborted')
  BY <1>0 DEF submit, check, goto, Typed
<1>3. Batch(c)' = Batch(c) /\ (allow_execute' <=> allow_execute)
  BY <1>1, SameCall DEF allow_execute
<1>4. \A k : k \in Range(cid_to_run[c]) <=> \E i \in DOMAIN cid_to_run[c] : cid_to_run[c][i] = k
  BY DEF Range
<1>5. Len(v_locs[c]) <= Len(Batch(c))
  BY <1>0 DEF WorkOf
<1> QED
  BY <1>0, <1>1, <1>2, <1>3, <1>4, <1>5 DEF WorkOf, RightAt, Complete, Looked, Inside

LEMMA ExecutedWork ==
    ASSUME Typed, Calls, Work, ~aborted, NEW c \in Clients, executed(c)
    PROVE  WorkOf(c)'
<1>0. pc[c] = "execute" /\ WorkOf(c) /\ pending[c] = {} /\ JobsOf(c) = {}
  BY DEF executed, Work
<1>1. pc'[c] = "write" /\ UNCHANGED <<v_locs, cid_to_run, pending, next>>
  BY DEF executed, goto, Typed, Threads, work
<1>2. Batch(c)' = Batch(c)
  BY <1>1, SameCall
<1>3. Complete(c) /\ \A k \in DOMAIN v_locs[c] : RightAt(c, k)
  BY <1>0 DEF WorkOf, JobsOf
<1> QED
  BY <1>0, <1>1, <1>2, <1>3 DEF WorkOf, RightAt, Complete, Inside

LEMMA FilterWork ==
    ASSUME Typed, Calls, Work, ~aborted, NEW c \in Clients, filter(c)
    PROVE  WorkOf(c)'
<1>0. pc[c] = "write" /\ WorkOf(c) /\ pending[c] = {}
  BY DEF filter, Work, WorkOf
<1>1. /\ pc'[c] = "leave" /\ cid_to_run'[c] = << >> /\ pending' = pending /\ next' = next
      /\ interested_locs' = interested_locs
  BY DEF filter, goto, Typed, Threads
<1>2. Batch(c)' = Batch(c)
  BY <1>1, SameCall
<1>3. Complete(c) /\ \A k \in DOMAIN v_locs[c] : RightAt(c, k)
  BY <1>0 DEF WorkOf
<1>4. v_locs[c] \in Seq(SUBSET Locs)
  BY DEF Typed
<1>5. /\ DOMAIN v_locs'[c] = DOMAIN v_locs[c]
      /\ \A k \in DOMAIN v_locs[c] : v_locs'[c][k] = OfInterest(v_locs[c][k])
  BY DEF filter, Typed, OfInterest
<1>6. Len(v_locs'[c]) = Len(v_locs[c])
  <2>1. CASE interested_locs = {}
    BY <2>1 DEF filter
  <2>2. CASE interested_locs # {}
    <3>1. v_locs'[c] = [k \in DOMAIN v_locs[c] |-> v_locs[c][k] \cap interested_locs]
      BY <2>2 DEF filter, Typed
    <3>2. DOMAIN v_locs[c] = 1 .. Len(v_locs[c]) /\ Len(v_locs[c]) \in Nat
      BY <1>4
    <3>3. v_locs'[c] \in Seq(SUBSET Locs)
      BY <1>4, <3>1, <3>2, IsASeq
    <3> QED
      BY <1>5, <3>2, <3>3, LenProperties
  <2> QED
    BY <2>1, <2>2
<1>7. \A k \in DOMAIN v_locs'[c] : v_locs'[c][k] = OfInterest(Cover[Batch(c)[k]])
  BY <1>3, <1>5 DEF RightAt
<1>8. Complete(c)'
  BY <1>2, <1>3, <1>6 DEF Complete
<1>9. \A k \in DOMAIN v_locs'[c] : v_locs'[c][k] = OfInterest(Cover[Batch(c)[k]])'
  BY <1>1, <1>2, <1>7 DEF OfInterest
<1> QED
  BY <1>0, <1>1, <1>8, <1>9 DEF WorkOf, Inside

LEMMA PutWork ==
    ASSUME Typed, Calls, Work, ~aborted, NEW c \in Clients, put(c)
    PROVE  WorkOf(c)'
<1>0. pc[c] = "put" /\ WorkOf(c) /\ pending[c] = {}
  BY DEF put, Work, WorkOf
<1>1. /\ pc'[c] = "write" /\ cid_to_run'[c] = Tail(cid_to_run[c])
      /\ UNCHANGED <<v_locs, pending, next>>
  BY DEF put, goto, Typed, Threads
<1>2. Batch(c)' = Batch(c)
  BY <1>1, SameCall
<1>3. cid_to_run[c] \in Seq(Nat) /\ cid_to_run[c] # << >>
  BY <1>0 DEF WorkOf, Typed
<1>4. \A i \in DOMAIN cid_to_run'[c] : i + 1 \in DOMAIN cid_to_run[c] /\ cid_to_run'[c][i] = cid_to_run[c][i + 1]
  BY <1>1, <1>3, HeadTailProperties
<1>5. \A i \in DOMAIN cid_to_run'[c] : cid_to_run'[c][i] \in DOMAIN v_locs[c]
  BY <1>0, <1>4 DEF WorkOf
<1> QED
  BY <1>0, <1>1, <1>2, <1>5 DEF WorkOf, Complete, RightAt, Inside

(* The steps that leave the results as they are.                           *)
LEMMA QuietWork ==
    ASSUME Typed, Calls, Work, ~aborted, NEW c \in Clients,
           begin(c) \/ enter_run(c) \/ start_timers(c) \/ submit_nothing(c) \/ count_write(c) \/ leave_run(c)
    PROVE  WorkOf(c)'
<1>0. WorkOf(c) /\ pending[c] = {} /\ c \in Threads
  BY DEF Work, WorkOf, Threads, begin, enter_run, start_timers, submit_nothing, count_write, leave_run
<1>1. UNCHANGED <<v_locs, cid_to_run, pending, next, command, interested_locs>>
  BY DEF begin, enter_run, start_timers, submit_nothing, count_write, leave_run, work
<1>2. Batch(c)' = Batch(c) /\ (allow_execute' <=> allow_execute)
  BY <1>1, SameCall DEF allow_execute
<1>3. CASE begin(c) \/ enter_run(c)
  <2>1. pc[c] \in {"begin", "call"} /\ pc'[c] \in {"call", "start_timers"}
    BY <1>0, <1>3 DEF begin, enter_run, goto, Typed
  <2> QED
    BY <1>0, <1>1, <2>1 DEF WorkOf, Inside
<1>4. CASE start_timers(c)
  <2>1. pc[c] = "start_timers" /\ pc'[c] \in {"start_timers", "lookup"}
    BY <1>0, <1>4 DEF start_timers, check, goto, Typed
  <2>2. v_locs[c] = << >> /\ cid_to_run[c] = << >>
    BY <1>0, <2>1 DEF WorkOf, Inside
  <2>3. pc'[c] = "lookup" => Batch(c) \in Seq(Configs)
    BY <2>1, BatchInside DEF Inside
  <2> QED
    BY <1>0, <1>1, <1>2, <2>1, <2>2, <2>3 DEF WorkOf, Inside
<1>5. CASE submit_nothing(c)
  <2>1. pc[c] = "lookup" /\ pc'[c] = "write" /\ Looked(c) = Len(Batch(c)) /\ ~allow_execute
    BY <1>0, <1>5 DEF submit_nothing, goto, Typed
  <2>2. Complete(c) /\ \A k \in DOMAIN v_locs[c] : RightAt(c, k)
    BY <1>0, <2>1 DEF WorkOf, Complete, Looked
  <2> QED
    BY <1>0, <1>1, <1>2, <2>1, <2>2 DEF WorkOf, Complete, RightAt, Inside
<1>6. CASE count_write(c)
  <2>1. pc[c] = "write" /\ pc'[c] = "put" /\ cid_to_run[c] # << >>
    BY <1>0, <1>6 DEF count_write, goto, Typed
  <2> QED
    BY <1>0, <1>1, <1>2, <2>1 DEF WorkOf, Complete, RightAt, Inside
<1>7. CASE leave_run(c)
  <2>1. pc[c] = "leave" /\ pc'[c] \in {"leave", "returned"}
    BY <1>0, <1>7 DEF leave_run, check, goto, Typed
  <2> QED
    BY <1>0, <1>1, <1>2, <2>1 DEF WorkOf, Complete, OfInterest, Inside
<1> QED
  BY <1>3, <1>4, <1>5, <1>6, <1>7

LEMMA TakeWork ==
    ASSUME Typed, Calls, Work, ~aborted, NEW c \in Clients, take_results(c)
    PROVE  WorkOf(c)'
<1>0. WorkOf(c) /\ pending[c] = {} /\ cid_to_run[c] = << >> /\ c \in Threads
  BY DEF Work, WorkOf, Threads, take_results
<1>1. v_locs'[c] = << >> /\ UNCHANGED <<cid_to_run, pending>> /\ pc'[c] \in {"call", "end"}
  BY <1>0 DEF take_results, after_call, goto, Typed
<1> QED
  BY <1>0, <1>1 DEF WorkOf, Inside

(* A client outside run has no work.                                       *)
LEMMA IdleWork ==
    ASSUME NEW d \in Clients, WorkOf(d), ~aborted,
           pc[d] \notin Inside \cup {"returned"}, pc'[d] \notin Inside \cup {"returned"},
           v_locs'[d] = v_locs[d], cid_to_run'[d] = cid_to_run[d], pending'[d] = pending[d]
    PROVE  WorkOf(d)'
BY DEF WorkOf, Inside

LEMMA StartItemWork ==
    ASSUME Typed, Work, ~aborted, NEW r \in Runners, start_item(r), NEW d \in Clients
    PROVE  WorkOf(d)'
<1>0. WorkOf(d) /\ job[r] = NoJob /\ d # NoThread
  BY NoThreadAssumption DEF Work, start_item, Working, Threads
<1>1. PICK c \in Clients, cid \in UNION {pending[e] : e \in Clients} :
         /\ cid \in pending[c]
         /\ job' = [job EXCEPT ![r] = [client |-> c, cid |-> cid, next |-> "clean_cov"]]
         /\ pending' = [pending EXCEPT ![c] = pending[c] \ {cid}]
  BY DEF start_item
<1>2. UNCHANGED <<command, pc, next, v_locs, cid_to_run, interested_locs, aborted>>
  BY DEF start_item
<1>3. Batch(d)' = Batch(d) /\ Runners' = Runners /\ (allow_execute' <=> allow_execute)
  BY <1>2, SameCall DEF Runners, n_threads, allow_execute
<1>4. pending'[d] \subseteq pending[d] /\ \A k \in pending[d] : k \in pending'[d] \/ (d = c /\ k = cid)
  <2>1. pending'[d] = IF d = c THEN pending[c] \ {cid} ELSE pending[d]
    BY <1>1 DEF Typed
  <2> QED
    BY <2>1
<1>5. ASSUME NEW k, k \in pending[d] \/ \E q \in Runners : job[q].client = d /\ job[q].cid = k
      PROVE  k \in pending'[d] \/ \E q \in Runners : job'[q].client = d /\ job'[q].cid = k
  <2>1. CASE k \in pending[d]
    <3>1. d = c /\ k = cid => job'[r].client = d /\ job'[r].cid = k
      BY <1>1 DEF Typed
    <3> QED
      BY <1>4, <2>1, <3>1
  <2>2. CASE \E q \in Runners : job[q].client = d /\ job[q].cid = k
    <3>1. PICK q \in Runners : job[q].client = d /\ job[q].cid = k
      BY <2>2
    <3>2. q # r
      BY <1>0, <3>1 DEF NoJob
    <3>3. job'[q] = job[q]
      BY <1>1, <3>2 DEF Typed
    <3> QED
      BY <3>1, <3>3
  <2> QED
    BY <1>5, <2>1, <2>2
<1>6. (Complete(d)' <=> Complete(d)) /\ \A k : RightAt(d, k)' <=> RightAt(d, k)
  BY <1>2, <1>3 DEF Complete, RightAt
<1>7. \A k : (v_locs[d][k] = OfInterest(Cover[Batch(d)[k]]))' <=> v_locs[d][k] = OfInterest(Cover[Batch(d)[k]])
  BY <1>2, <1>3 DEF OfInterest
<1> QED
  BY <1>0, <1>2, <1>3, <1>4, <1>5, <1>6, <1>7 DEF WorkOf

(* Removing and writing the coverage files changes no result.              *)
LEMMA CovFilesWork ==
    ASSUME Typed, Work, NEW r \in Runners, clean_cov(r) \/ exec(r), NEW d \in Clients
    PROVE  WorkOf(d)'
<1>0. WorkOf(d) /\ job[r] \in Job
  BY DEF Work, clean_cov, exec, at, Working, Typed
<1>1. PICK s : job' = [job EXCEPT ![r] = [job[r] EXCEPT !.next = s]]
  BY DEF clean_cov, exec, then
<1>2. UNCHANGED <<command, pc, next, v_locs, cid_to_run, pending, interested_locs, aborted>>
  BY DEF clean_cov, exec, work
<1>3. Batch(d)' = Batch(d) /\ Runners' = Runners /\ (allow_execute' <=> allow_execute)
  BY <1>2, SameCall DEF Runners, n_threads, allow_execute
<1>4. \A q \in Runners : job'[q].client = job[q].client /\ job'[q].cid = job[q].cid
  BY <1>0, <1>1 DEF Typed, Job
<1>5. \A k : (\E q \in Runners : job[q].client = d /\ job[q].cid = k)'
              <=> \E q \in Runners : job[q].client = d /\ job[q].cid = k
  BY <1>3, <1>4
<1>6. (Complete(d)' <=> Complete(d)) /\ \A k : RightAt(d, k)' <=> RightAt(d, k)
  BY <1>2, <1>3 DEF Complete, RightAt
<1>7. \A k : (v_locs[d][k] = OfInterest(Cover[Batch(d)[k]]))' <=> v_locs[d][k] = OfInterest(Cover[Batch(d)[k]])
  BY <1>2, <1>3 DEF OfInterest
<1> QED
  BY <1>0, <1>2, <1>3, <1>5, <1>6, <1>7 DEF WorkOf

(* What a runner has collected is the coverage of its item.                *)
LEMMA CollectWork ==
    ASSUME Typed, Calls, Work, Jobs, ~aborted, NEW r \in Runners, collect_cov(r), NEW d \in Clients
    PROVE  WorkOf(d)'
<1> DEFINE c == job[r].client
           k == job[r].cid
<1>0. WorkOf(d) /\ job[r] # NoJob /\ d # NoThread
  BY NoThreadAssumption DEF Work, Threads, collect_cov, at, Working
<1>1. /\ job[r] \in Job /\ c \in Clients /\ k \in DOMAIN v_locs[c] /\ pc[c] = "execute"
      /\ cov_files[r] = Cover[Batch(c)[k]]
  BY <1>0, JobBatch DEF Jobs, JobOf, collect_cov, at, Job
<1>2. /\ v_locs' = [v_locs EXCEPT ![c] = [v_locs[c] EXCEPT ![k] = cov_files[r]]]
      /\ job' = [job EXCEPT ![r] = NoJob]
      /\ UNCHANGED <<command, pc, next, cid_to_run, pending, interested_locs, aborted>>
  BY DEF collect_cov
<1>3. Batch(d)' = Batch(d) /\ Runners' = Runners /\ (allow_execute' <=> allow_execute)
  BY <1>2, SameCall DEF Runners, n_threads, allow_execute
<1>4. \A q \in Runners \ {r} : job'[q] = job[q]
  BY <1>2 DEF Typed
<1>5. CASE d = c
  <2>1. v_locs'[d] = [v_locs[d] EXCEPT ![k] = cov_files[r]]
    BY <1>2, <1>5 DEF Typed
  <2>2. v_locs[d] \in Seq(SUBSET Locs) /\ cov_files[r] \in SUBSET Locs
    BY DEF Typed
  <2>3. v_locs'[d] \in Seq(SUBSET Locs) /\ Len(v_locs'[d]) = Len(v_locs[d])
    BY <1>1, <1>5, <2>1, <2>2, ExceptSeq
  <2>4. DOMAIN v_locs'[d] = DOMAIN v_locs[d]
    BY <2>1
  <2>5. v_locs'[d][k] = Cover[Batch(d)[k]] /\ \A j \in DOMAIN v_locs[d] \ {k} : v_locs'[d][j] = v_locs[d][j]
    BY <1>1, <1>5, <2>1
  <2>6. Complete(d)'
    BY <1>0, <1>1, <1>3, <1>5, <2>3 DEF WorkOf, Complete
  <2>7. ASSUME NEW j \in DOMAIN v_locs[d]
        PROVE  j \in pending[d] \/ (\E q \in Runners : job'[q].client = d /\ job'[q].cid = j)
               \/ v_locs'[d][j] = Cover[Batch(d)[j]]
    <3>1. CASE j = k
      BY <2>5, <3>1
    <3>2. CASE j # k
      <4>1. j \in pending[d] \/ (\E q \in Runners : job[q].client = d /\ job[q].cid = j) \/ RightAt(d, j)
        BY <1>0, <1>1, <1>5 DEF WorkOf
      <4>2. ASSUME NEW q \in Runners, job[q].client = d, job[q].cid = j PROVE job'[q] = job[q]
        BY <1>4, <3>2, <4>2
      <4> QED
        BY <2>5, <3>2, <4>1, <4>2 DEF RightAt
    <3> QED
      BY <3>1, <3>2
  <2>8. pc'[d] = "execute" /\ UNCHANGED <<cid_to_run, pending>>
    BY <1>1, <1>2, <1>5
  <2>9. /\ \A i \in DOMAIN cid_to_run'[d] : cid_to_run'[d][i] \in DOMAIN v_locs'[d]
        /\ pending'[d] \subseteq DOMAIN v_locs'[d]
    BY <1>0, <2>4, <2>8 DEF WorkOf
  <2>10. \A j \in DOMAIN v_locs'[d] :
            j \in pending'[d] \/ (\E q \in Runners' : job'[q].client = d /\ job'[q].cid = j) \/ RightAt(d, j)'
    BY <1>3, <2>4, <2>7, <2>8 DEF RightAt
  <2> QED
    BY <2>6, <2>8, <2>9, <2>10 DEF WorkOf, Inside
<1>6. CASE d # c
  <2>1. v_locs'[d] = v_locs[d]
    BY <1>2, <1>6 DEF Typed
  <2>2. \A j : (\E q \in Runners : job[q].client = d /\ job[q].cid = j)'
                <=> \E q \in Runners : job[q].client = d /\ job[q].cid = j
    <3>1. job'[r].client # d /\ job[r].client # d
      BY <1>0, <1>2, <1>6 DEF Typed, NoJob
    <3> QED
      BY <1>3, <1>4, <3>1
  <2>3. (Complete(d)' <=> Complete(d)) /\ \A j : RightAt(d, j)' <=> RightAt(d, j)
    BY <1>3, <2>1 DEF Complete, RightAt
  <2>4. \A j : (v_locs[d][j] = OfInterest(Cover[Batch(d)[j]]))' <=> v_locs[d][j] = OfInterest(Cover[Batch(d)[j]])
    BY <1>2, <1>3, <2>1 DEF OfInterest
  <2>5. /\ UNCHANGED <<pc, cid_to_run, pending, aborted>>
        /\ pc[d] \notin (Inside \ {"start_timers"}) \cup {"returned"} => v_locs'[d] = << >> /\ cid_to_run[d] = << >>
        /\ pending[d] # {} => pc[d] = "execute" \/ aborted
        /\ \A i \in DOMAIN cid_to_run[d] : cid_to_run[d][i] \in DOMAIN v_locs'[d]
        /\ pending[d] \subseteq DOMAIN v_locs'[d]
        /\ pc[d] = "put" => cid_to_run[d] # << >>
    BY <1>0, <1>2, <2>1 DEF WorkOf
  <2>6. pc[d] = "lookup" =>
           /\ Len(v_locs'[d]) <= Len(Batch(d)')
           /\ \A j \in DOMAIN v_locs'[d] : (\E i \in DOMAIN cid_to_run[d] : cid_to_run[d][i] = j) \/ RightAt(d, j)'
           /\ allow_execute' \/ aborted \/ cid_to_run[d] = << >>
    BY <1>0, <1>3, <2>1, <2>3 DEF WorkOf
  <2>7. pc[d] = "execute" =>
           /\ Complete(d)'
           /\ \A j \in DOMAIN v_locs'[d] :
                 j \in pending[d] \/ (\E q \in Runners : job[q].client = d /\ job[q].cid = j)' \/ RightAt(d, j)'
    BY <1>0, <2>1, <2>2, <2>3 DEF WorkOf
  <2>8. /\ pc[d] \in {"write", "put"} => Complete(d)' /\ \A j \in DOMAIN v_locs'[d] : RightAt(d, j)'
        /\ pc[d] \in {"leave", "returned"} =>
              /\ Complete(d)' /\ cid_to_run[d] = << >>
              /\ \A j \in DOMAIN v_locs'[d] : (v_locs[d][j] = OfInterest(Cover[Batch(d)[j]]))'
    BY <1>0, <2>1, <2>3, <2>4 DEF WorkOf
  <2> QED
    BY <2>5, <2>6, <2>7, <2>8 DEF WorkOf
<1> QED
  BY <1>5, <1>6

LEMMA WorkNext == Typed /\ Calls /\ Phase /\ Work /\ Jobs /\ Cache /\ [Next]_vars => Work'
<1> SUFFICES ASSUME Typed, Calls, Phase, Work, Jobs, Cache, [Next]_vars, NEW d \in Clients
             PROVE  WorkOf(d)'
  BY DEF Work
<1>0. /\ Clients \subseteq Threads /\ Main \in Threads /\ Main \notin Clients
      /\ WorkOf(d)
  BY ClientsAssumption DEF Threads, Work
<1> USE <1>0
<1>1. CASE init /\ ~aborted
  <2>1. pc[d] = "begin" /\ pc'[d] = pc[d] /\ UNCHANGED work
    BY <1>1 DEF init, Phase, goto, Typed
  <2> QED
    BY <1>1, <2>1, IdleWork DEF work, Inside
<1>2. CASE repeats_done
  <2>1. pc'[d] = pc[d]
    BY <1>2 DEF repeats_done, goto, Typed
  <2> QED
    BY <1>2, <2>1, WorkKept DEF repeats_done, work, pool
<1>3. ASSUME NEW c \in Clients, ClientStep(c), ~aborted PROVE WorkOf(d)'
  <2>1. CASE d # c
    BY <1>3, <2>1, OthersWork
  <2>2. CASE d = c
    BY <1>3, <2>2, LookupWork, SubmitWork, ExecutedWork, PutWork, FilterWork, QuietWork, TakeWork
       DEF ClientStep
  <2> QED
    BY <2>1, <2>2
<1>4. ASSUME NEW t \in Threads, ExclusiveStep(t), ~aborted PROVE WorkOf(d)'
  <2>1. UNCHANGED <<v_locs, cid_to_run, pending, job, interested_locs, command, aborted>>
    BY <1>4 DEF ExclusiveStep, acquire_entrance, acquire_run_lock, acquire_stat_lock, flush_db, flush_done,
                flush_nothing, reset_stat, stop, work, pool
  <2>2. CASE d = t
    BY <1>4, <2>1, <2>2, ExclusiveMoves, IdleWork DEF Inside, Exclusive
  <2>3. CASE d # t
    BY <1>4, <2>1, <2>3, OneMoves, WorkKept
  <2> QED
    BY <2>2, <2>3
<1>5. ASSUME NEW r \in Runners, RunnerStep(r), ~aborted PROVE WorkOf(d)'
  BY <1>5, StartItemWork, CovFilesWork, CollectWork DEF RunnerStep
<1>6. CASE background_flush \/ UNCHANGED vars
  <2>1. UNCHANGED <<pc, next, v_locs, cid_to_run, pending, command, job, interested_locs, aborted>>
    BY <1>6 DEF background_flush, vars, work, pool
  <2> QED
    BY <2>1, WorkKept
<1>7. CASE crash
  <2>1. pc'[d] = "begin" /\ v_locs'[d] = << >> /\ cid_to_run'[d] = << >> /\ pending'[d] = {}
    BY <1>7 DEF crash, Start
  <2> QED
    BY <2>1 DEF WorkOf, Inside
<1> QED
  BY <1>1, <1>2, <1>3, <1>4, <1>5, <1>6, <1>7 DEF Next, MainStep

------------------------------------------------------------------------------
(* The runners.                                                           *)

LEMMA JobsInit == Init => Jobs
BY DEF Init, Jobs, JobOf

LEMMA JobsKept ==
    ASSUME Typed, Jobs, NEW r \in Runners, UNCHANGED <<job, cov_files, command>>,
           job[r] # NoJob => LET c == job[r].client
                             IN  pc'[c] = pc[c] /\ next'[c] = next[c] /\ v_locs'[c] = v_locs[c]
    PROVE  JobOf(r)'
<1> DEFINE c == job[r].client
<1>1. CASE job[r] = NoJob
  BY <1>1 DEF JobOf, NoJob
<1>2. CASE job[r] # NoJob
  <2>1. Batch(c)' = Batch(c)
    BY <1>2, SameCall
  <2> QED
    BY <1>2, <2>1 DEF Jobs, JobOf
<1> QED
  BY <1>1, <1>2

LEMMA ClientJobs ==
    ASSUME Typed, Calls, Work, Jobs, ~aborted, NEW c \in Clients, ClientStep(c), NEW r \in Runners
    PROVE  JobOf(r)'
<1>1. job[r] # NoJob => job[r].client # c \/ pc[c] = "execute"
  BY DEF Jobs, JobOf
<1>2. pc[c] = "execute" => executed(c)
  BY DEF ClientStep, begin, enter_run, start_timers, lookup, submit, submit_nothing, count_write, put, filter,
         leave_run, take_results
<1>3. executed(c) => \A q \in Runners : job[q].client # c
  BY DEF executed, JobsOf
<1>4. job[r] # NoJob => job[r].client \in Clients \ {c}
  BY <1>1, <1>2, <1>3, JobBatch DEF Job
<1>5. UNCHANGED <<job, cov_files, command>>
  BY DEF ClientStep, begin, enter_run, start_timers, lookup, submit, submit_nothing, executed, count_write,
         put, filter, leave_run, take_results, pool
<1>6. (\E s : v_locs' = [v_locs EXCEPT ![c] = s]) \/ v_locs' = v_locs
  BY DEF ClientStep, begin, enter_run, start_timers, lookup, submit, submit_nothing, executed, count_write,
         put, filter, leave_run, take_results, work
<1>7. \A d \in Clients \ {c} : v_locs'[d] = v_locs[d] /\ pc'[d] = pc[d] /\ next'[d] = next[d]
  BY <1>6, OneMoves DEF Typed, Threads
<1> QED
  BY <1>4, <1>5, <1>7, JobsKept

(* The runner itself: its files are empty, then hold its run.              *)
LEMMA RunnerJobs ==
    ASSUME Typed, Calls, Work, Jobs, ~aborted, NEW q \in Runners, RunnerStep(q), NEW r \in Runners
    PROVE  JobOf(r)'
<1>0. /\ UNCHANGED <<command, pc, next>> /\ Runners' = Runners
      /\ \A c : Batch(c)' = Batch(c)
  <2>1. UNCHANGED <<command, pc, next>>
    BY DEF RunnerStep, start_item, clean_cov, exec, collect_cov
  <2> QED
    BY <2>1, SameCall DEF Runners, n_threads
<1>1. CASE start_item(q)
  <2>1. PICK c \in Clients, cid \in UNION {pending[e] : e \in Clients} :
           /\ cid \in pending[c]
           /\ job' = [job EXCEPT ![q] = [client |-> c, cid |-> cid, next |-> "clean_cov"]]
    BY <1>1 DEF start_item
  <2>2. pc[c] = "execute" /\ cid \in DOMAIN v_locs[c] /\ v_locs' = v_locs /\ cov_files' = cov_files
    BY <1>1, <2>1 DEF Work, WorkOf, start_item
  <2>3. CASE r = q
    <3>1. job'[r] = [client |-> c, cid |-> cid, next |-> "clean_cov"]
      BY <2>1, <2>3 DEF Typed
    <3> QED
      BY <1>0, <2>2, <3>1 DEF JobOf
  <2>4. CASE r # q
    <3>1. job'[r] = job[r]
      BY <2>1, <2>4 DEF Typed
    <3> QED
      BY <1>0, <2>2, <3>1 DEF Jobs, JobOf, NoJob
  <2> QED
    BY <2>3, <2>4
<1>2. CASE clean_cov(q) \/ exec(q)
  <2> DEFINE c == job[q].client
             k == job[q].cid
  <2>1. /\ job[q] # NoJob /\ job[q] \in Job /\ v_locs' = v_locs
        /\ pc[c] = "execute" /\ k \in DOMAIN v_locs[c]
    BY <1>2, JobBatch DEF clean_cov, exec, at, Working, work
  <2>2. \/ job' = [job EXCEPT ![q] = [job[q] EXCEPT !.next = "exec"]] /\ cov_files' = [cov_files EXCEPT ![q] = {}]
        \/ /\ job' = [job EXCEPT ![q] = [job[q] EXCEPT !.next = "collect_cov"]]
           /\ cov_files[q] = {}
           /\ cov_files' = [cov_files EXCEPT ![q] = cov_files[q] \cup Cover[Batch(c)[k]]]
    BY <1>2, <2>1 DEF clean_cov, exec, then, at, Jobs, JobOf
  <2>3. CASE r = q
    <3>1. \E s \in {"exec", "collect_cov"} :
             /\ job'[q] = [job[q] EXCEPT !.next = s]
             /\ cov_files'[q] = IF s = "exec" THEN {} ELSE Cover[Batch(c)[k]]
      <4>1. CASE /\ job' = [job EXCEPT ![q] = [job[q] EXCEPT !.next = "exec"]]
                 /\ cov_files' = [cov_files EXCEPT ![q] = {}]
        <5>1. job'[q] = [job[q] EXCEPT !.next = "exec"] /\ cov_files'[q] = {}
          BY <4>1 DEF Typed
        <5> QED
          BY <5>1
      <4>2. CASE /\ job' = [job EXCEPT ![q] = [job[q] EXCEPT !.next = "collect_cov"]]
                 /\ cov_files[q] = {}
                 /\ cov_files' = [cov_files EXCEPT ![q] = cov_files[q] \cup Cover[Batch(c)[k]]]
        <5>1. /\ job'[q] = [job[q] EXCEPT !.next = "collect_cov"]
              /\ cov_files'[q] = Cover[Batch(c)[k]]
          BY <4>2 DEF Typed
        <5> QED
          BY <5>1
      <4> QED
        BY <2>2, <4>1, <4>2
    <3>2. job'[q].client = c /\ job'[q].cid = k
      BY <2>1, <3>1 DEF Job
    <3>3. job'[q].next \in {"exec", "collect_cov"}
          /\ cov_files'[q] = IF job'[q].next = "exec" THEN {} ELSE Cover[Batch(c)[k]]
      BY <2>1, <3>1 DEF Job
    <3> QED
      BY <1>0, <2>1, <2>3, <3>2, <3>3 DEF JobOf
  <2>4. CASE r # q
    <3>1. job'[r] = job[r] /\ cov_files'[r] = cov_files[r]
      BY <2>2, <2>4 DEF Typed
    <3> QED
      BY <1>0, <2>1, <3>1 DEF Jobs, JobOf, NoJob
  <2> QED
    BY <2>3, <2>4
<1>3. CASE collect_cov(q)
  <2> DEFINE c == job[q].client
             k == job[q].cid
  <2>1. /\ v_locs' = [v_locs EXCEPT ![c] = [v_locs[c] EXCEPT ![k] = cov_files[q]]]
        /\ job' = [job EXCEPT ![q] = NoJob] /\ cov_files' = cov_files
    BY <1>3 DEF collect_cov
  <2>2. \A d \in Clients : DOMAIN v_locs'[d] = DOMAIN v_locs[d]
    BY <2>1 DEF Typed
  <2>3. CASE r = q
    BY <2>1, <2>3 DEF Typed, JobOf, NoJob
  <2>4. CASE r # q
    <3>1. job'[r] = job[r]
      BY <2>1, <2>4 DEF Typed
    <3>2. job[r] # NoJob => job[r].client \in Clients
      BY JobBatch DEF Job
    <3> QED
      BY <1>0, <2>1, <2>2, <3>1, <3>2 DEF Jobs, JobOf, NoJob
  <2> QED
    BY <2>3, <2>4
<1> QED
  BY <1>1, <1>2, <1>3 DEF RunnerStep

LEMMA JobsNext == Typed /\ Calls /\ Phase /\ Work /\ Jobs /\ [Next]_vars => Jobs'
<1> SUFFICES ASSUME Typed, Calls, Phase, Work, Jobs, [Next]_vars, NEW r \in Runners' PROVE JobOf(r)'
  BY DEF Jobs
<1>0. Clients \subseteq Threads /\ Main \in Threads /\ Main \notin Clients
  BY ClientsAssumption DEF Threads
<1> USE <1>0
<1>1. ASSUME command' = command PROVE Runners' = Runners
  BY <1>1 DEF Runners, n_threads
<1>2. job[r] # NoJob /\ r \in Runners => job[r].client \in Clients /\ pc[job[r].client] = "execute"
  BY JobBatch DEF Job
<1>3. CASE init \/ repeats_done
  <2>1. /\ \A c \in Clients : pc'[c] = pc[c]
        /\ UNCHANGED <<job, cov_files, command, next, v_locs>>
    BY <1>3 DEF init, repeats_done, goto, Typed, work, pool
  <2> QED
    BY <1>1, <1>2, <2>1, JobsKept
<1>4. ASSUME NEW c \in Clients, ClientStep(c), ~aborted PROVE JobOf(r)'
  BY <1>1, <1>4, OneMoves, ClientJobs
<1>5. ASSUME NEW t \in Threads, ExclusiveStep(t) PROVE JobOf(r)'
  <2>1. UNCHANGED <<job, cov_files, command, v_locs>>
    BY <1>5 DEF ExclusiveStep, acquire_entrance, acquire_run_lock, acquire_stat_lock, flush_db, flush_done,
                flush_nothing, reset_stat, stop, work, pool
  <2>2. pc[t] # "execute"
    BY <1>5, ExclusiveMoves DEF Exclusive
  <2> QED
    BY <1>1, <1>2, <1>5, <2>1, <2>2, OneMoves, JobsKept
<1>6. ASSUME NEW q \in Runners, RunnerStep(q), ~aborted PROVE JobOf(r)'
  <2>1. command' = command
    BY <1>6 DEF RunnerStep, start_item, clean_cov, exec, collect_cov
  <2> QED
    BY <1>1, <1>6, <2>1, RunnerJobs
<1>7. CASE background_flush \/ UNCHANGED vars
  <2>1. UNCHANGED <<job, cov_files, command, pc, next, v_locs>>
    BY <1>7 DEF background_flush, vars, work, pool
  <2> QED
    BY <1>1, <2>1, JobsKept
<1>8. CASE crash
  <2>1. command' = command /\ job' = [q \in Runners |-> NoJob]
    BY <1>8 DEF crash, Start, Runners, n_threads
  <2> QED
    BY <1>1, <2>1 DEF JobOf, NoJob
<1> QED
  BY <1>3, <1>4, <1>5, <1>6, <1>7, <1>8 DEF Next, MainStep

------------------------------------------------------------------------------
(* The inductive invariant and what follows from it.                       *)

LEMMA IInvInit == Init => IInv
BY TypedInit, CallsInit, PhaseInit, LocksInit, TimersInit, WorkInit, JobsInit, CacheInit DEF IInv

LEMMA IInvNext == IInv /\ [Next]_vars => IInv'
BY TypedNext, CallsNext, PhaseNext, LocksNext, TimersNext, WorkNext, JobsNext, CacheNext DEF IInv

LEMMA IInvAlways == Spec => []IInv
BY IInvInit, IInvNext, PTL DEF Spec

(* Every variable keeps its type; a client's items are positions in its    *)
(* batch; and no more timers are started than there are clients.           *)
THEOREM TypeCorrect == Spec => []TypeOK
<1>1. IInv => TypeOK
  <2> SUFFICES ASSUME IInv PROVE TypeOK
    OBVIOUS
  <2>1. ASSUME NEW c \in Clients
        PROVE  /\ v_locs[c] \in Seq(SUBSET Locs)
               /\ cid_to_run[c] \in Seq(DOMAIN v_locs[c])
               /\ pending[c] \subseteq DOMAIN v_locs[c]
    <3>1. v_locs[c] \in Seq(SUBSET Locs) /\ cid_to_run[c] \in Seq(Nat) /\ WorkOf(c)
      BY DEF IInv, Typed, Work
    <3>2. DOMAIN cid_to_run[c] = 1 .. Len(cid_to_run[c]) /\ Len(cid_to_run[c]) \in Nat
      BY <3>1
    <3>3. \A i \in 1 .. Len(cid_to_run[c]) : cid_to_run[c][i] \in DOMAIN v_locs[c]
      BY <3>1, <3>2 DEF WorkOf
    <3>4. cid_to_run[c] = [i \in 1 .. Len(cid_to_run[c]) |-> cid_to_run[c][i]]
      <4>1. cid_to_run[c] \in Seq(Nat)
        BY <3>1
      <4> QED
        BY <4>1
    <3>5. cid_to_run[c] \in Seq(DOMAIN v_locs[c])
      BY <3>2, <3>3, <3>4, IsASeq
    <3> QED
      BY <3>1, <3>5 DEF WorkOf
  <2>2. n_started_timer \in 0 .. Cardinality(Clients)
    BY DEF IInv, Timers
  <2>3. DOMAIN job = Runners /\ cov_files \in [Runners -> SUBSET Locs]
    BY DEF IInv, Typed
  <2>4. DOMAIN cachedb \subseteq Configs /\ DOMAIN on_disk \subseteq Configs
    BY DEF IInv, Cache, RightEntries
  <2>5. /\ command \in Commands /\ pc \in [Threads -> PC] /\ next \in [Threads -> Nat]
        /\ local_timer \subseteq Threads
        /\ entrance \in [readers : SUBSET Clients, writer : Threads \cup {NoThread}]
        /\ run_lock \in Threads \cup {NoThread} /\ stat_lock \in Threads \cup {NoThread}
        /\ interested_locs \subseteq Locs
        /\ queue_running \in BOOLEAN /\ n_unflushed_write \in Nat
        /\ aborted \in BOOLEAN /\ n_crashes \in 0 .. MaxCrashes
    BY Zenon DEF IInv, Typed
  <2>6. {run_lock, stat_lock} \subseteq Threads \cup {NoThread}
    BY <2>5
  <2> QED
    BY <2>1, <2>2, <2>3, <2>4, <2>5, <2>6, Zenon DEF TypeOK
<1> QED
  BY <1>1, IInvAlways, PTL

(* An entry of the cache is the coverage of its configuration, whatever    *)
(* runs, flushes and crashes there were.                                   *)
THEOREM CacheCorrect == Spec => []CacheIsCoverage
<1>1. IInv => CacheIsCoverage
  BY DecodedEncoded, CoverType DEF IInv, Cache, RightEntries, CacheIsCoverage
<1> QED
  BY <1>1, IInvAlways, PTL

(* A flush that finds no unflushed writes has nothing to save.             *)
THEOREM NothingUnflushed == Spec => []UnflushedCounted
<1>1. IInv => UnflushedCounted
  BY DEF IInv, Cache, UnflushedCounted
<1> QED
  BY <1>1, IInvAlways, PTL

(* What AnswersAreCoverage needs of the command line: init() reads --locs  *)
(* only if the process may execute (ProgramRunnerMt.cpp:217-229).  The run *)
(* RunnerLocs shows what happens otherwise.                                *)
Filters == \A cmd \in Commands : cmd.locs = {} \/ "x" \in cmd.cache

LEMMA InterestedIsCommand ==
    ASSUME Filters, IInv, NEW c \in Clients, pc[c] \in Inside \cup {"returned"}
    PROVE  interested_locs = command.locs
<1>1. pc[Main] = "repeats"
  BY DEF IInv, Phase, Inside
<1>2. command \in Commands
  BY DEF IInv, Typed
<1> QED
  BY <1>1, <1>2 DEF IInv, Phase, Filters, allow_execute

LEMMA AnswerRight ==
    ASSUME Filters, IInv, NEW c \in Clients, pc[c] \in {"leave", "returned"}
    PROVE  v_locs[c] = [k \in DOMAIN Batch(c) |-> Wanted(Cover[Batch(c)[k]])]
<1>1. WorkOf(c) /\ v_locs[c] \in Seq(SUBSET Locs)
  BY DEF IInv, Work, Typed
<1>2. /\ DOMAIN Batch(c) = 1 .. Len(Batch(c)) /\ DOMAIN v_locs[c] = 1 .. Len(v_locs[c])
      /\ v_locs[c] = [k \in 1 .. Len(v_locs[c]) |-> v_locs[c][k]]
  BY <1>1, BatchInside DEF IInv, Inside
<1>3. DOMAIN v_locs[c] = DOMAIN Batch(c)
  BY <1>1, <1>2 DEF WorkOf, Complete
<1>4. interested_locs = command.locs
  BY InterestedIsCommand DEF Inside
<1>5. \A k \in DOMAIN v_locs[c] : v_locs[c][k] = Wanted(Cover[Batch(c)[k]])
  BY <1>1, <1>4 DEF WorkOf, OfInterest, Wanted
<1> QED
  BY <1>2, <1>3, <1>5

(* Every answer is the coverage of the batch, as far as --locs asks for it:*)
(* whatever was cached, by whichever process, and whatever other clients   *)
(* and crashes do meanwhile.                                               *)
THEOREM AnswersCorrect ==
    ASSUME Filters PROVE Spec => []AnswersAreCoverage
<1>1. IInv => AnswersAreCoverage
  BY AnswerRight DEF AnswersAreCoverage
<1> QED
  BY <1>1, IInvAlways, PTL

(* What the CHECKs rely on: every algorithm resets its timer first, and    *)
(* what cannot be executed is cached.                                      *)
Prepared ==
    /\ ResetsTimer = Clients
    /\ \A cmd \in Commands :
          "x" \in cmd.cache \/ ("r" \in cmd.cache /\ \A b \in AllBatches : Range(b) \subseteq cmd.cached)

LEMMA ChecksNext == Prepared /\ IInv /\ RunnerChecksHold /\ [Next]_vars => RunnerChecksHold'
<1> SUFFICES ASSUME Prepared, IInv, ~aborted, [Next]_vars PROVE ~aborted'
  BY DEF RunnerChecksHold
<1>0. Typed /\ Calls /\ Phase /\ Timers /\ Work /\ Cache
  BY DEF IInv
<1>1. ASSUME NEW c \in Clients, start_timers(c) PROVE ~aborted'
  <2>1. n_started_timer >= 0 /\ c \in local_timer
    BY <1>0, <1>1 DEF start_timers, Phase, Timers, Prepared, Typed
  <2> QED
    BY <1>1, <2>1, Zenon DEF start_timers, check
<1>2. ASSUME NEW c \in Clients, lookup(c) PROVE ~aborted'
  <2>0. pc[c] = "lookup" /\ Looked(c) < Len(Batch(c))
    BY <1>2 DEF lookup
  <2>1. /\ Batch(c) \in Seq(Configs) /\ Call(c).name = "run" /\ Len(v_locs[c]) \in Nat
        /\ DOMAIN Batch(c) = 1 .. Len(Batch(c))
    BY <1>0, <2>0, BatchInside DEF Inside
  <2>2. NextConfig(c) \in Range(Batch(c))
    BY <2>0, <2>1 DEF NextConfig, Looked, Range
  <2>3. Batch(c) \in AllBatches
    <3>1. next[c] \in 1 .. NumCalls(c) /\ c # Main /\ c \in Threads
      BY <1>0, <2>0, NumCallsType, ClientsAssumption DEF Calls, CallsOf, Threads
    <3>2. next[c] \in DOMAIN Program[c] /\ Call(c) = Program[c][next[c]]
      BY <2>1, <3>1, ClientsAssumption DEF Call, NumCalls
    <3>3. Call(c) \in UNION {Range(Program[d]) : d \in Clients}
      BY <3>2 DEF Range
    <3> QED
      BY <2>1, <3>3 DEF AllBatches, Batch
  <2>4. allow_execute \/ Hit(c)
    BY <1>0, <2>2, <2>3 DEF Prepared, Typed, Cache, Hit, allow_execute, allow_cache_read
  <2> QED
    BY <1>2, <2>4, Zenon DEF lookup, check
<1>3. ASSUME NEW c \in Clients, submit(c) PROVE ~aborted'
  <2>1. pc[Main] = "repeats" /\ allow_execute
    BY <1>0, <1>3 DEF submit, Phase
  <2>2. n_threads > 1 => queue_running
    BY <1>0, <2>1, Zenon DEF Phase
  <2>3. n_threads > 1 \/ aborted' = aborted
    BY <1>3 DEF submit
  <2>4. n_threads > 1 => check(queue_running, c, "execute")
    BY <1>3, Zenon DEF submit
  <2> QED
    BY <2>2, <2>3, <2>4, Zenon DEF check
<1>4. ASSUME NEW c \in Clients, leave_run(c) PROVE ~aborted'
  BY <1>0, <1>4, LeaveChecks
<1>5. ASSUME NEW c \in Clients, ClientStep(c) PROVE ~aborted'
  BY <1>1, <1>2, <1>3, <1>4, <1>5
     DEF ClientStep, begin, enter_run, submit_nothing, executed, count_write, put, filter, take_results
<1>6. ASSUME NEW t \in Threads, ExclusiveStep(t) PROVE ~aborted'
  BY <1>6 DEF ExclusiveStep, acquire_entrance, acquire_run_lock, acquire_stat_lock, flush_db, flush_done,
              flush_nothing, reset_stat, stop
<1>7. ASSUME NEW r \in Runners, RunnerStep(r) PROVE ~aborted'
  BY <1>7 DEF RunnerStep, start_item, clean_cov, exec, collect_cov
<1>8. CASE init \/ repeats_done \/ background_flush \/ crash \/ UNCHANGED vars
  BY <1>8 DEF init, repeats_done, background_flush, crash, vars
<1> QED
  BY <1>5, <1>6, <1>7, <1>8 DEF Next, MainStep, Threads

(* No CHECK fails: timers, cache and pool are ready when run needs them.   *)
THEOREM ChecksHold ==
    ASSUME Prepared PROVE Spec => []RunnerChecksHold
<1>1. Init => RunnerChecksHold
  BY DEF Init, RunnerChecksHold
<1>2. IInv /\ RunnerChecksHold /\ [Next]_vars => RunnerChecksHold'
  BY ChecksNext
<1> QED
  BY <1>1, <1>2, IInvAlways, PTL DEF Spec

------------------------------------------------------------------------------
(* The runner keeps the promise of CachedRuns to the algorithms: a proof   *)
(* for any repeats, commands, programs under analysis and crashes.         *)

InRun == Inside \cup {"returned"}

------------------------------------------------------------------------------
(* What a step shows to the algorithms.                                    *)

LEMMA RightKept == command' = command => RightAnswer' = RightAnswer
BY DEF RightAnswer, Wanted

LEMMA ChangedAt ==
    ASSUME NEW S, NEW f, NEW g, f = [x \in S |-> f[x]], g = [x \in S |-> g[x]],
           NEW t \in S, \A x \in S \ {t} : g[x] = f[x]
    PROVE  g = [f EXCEPT ![t] = g[t]]
OBVIOUS

(* A step of t changes what is asked by, answered to and flushed by t only.*)
LEMMA OnlyMover ==
    ASSUME Calls, NEW t \in Threads, \A u \in Threads \ {t} : pc'[u] = pc[u] /\ next'[u] = next[u],
           \A u \in Clients \ {t} : v_locs'[u] = v_locs[u]
    PROVE  /\ Asked' = [Asked EXCEPT ![t] = Asked'[t]]
           /\ Answered' = [Answered EXCEPT ![t] = Answered'[t]]
           /\ \A u \in Threads \ {t} : u \in Flushing' <=> u \in Flushing
<1>1. ASSUME NEW u \in Threads \ {t} PROVE Call(u)' = Call(u) /\ Batch(u)' = Batch(u)
  BY SameCall
<1>2. \A u \in Threads \ {t} : Asked'[u] = Asked[u]
  BY <1>1 DEF Asked
<1>3. \A u \in Threads \ {t} : pc[u] = "returned" => u \in Clients
  BY DEF Calls, CallsOf
<1>4. \A u \in Threads \ {t} : Answered'[u] = Answered[u]
  BY <1>3 DEF Answered
<1>5. Asked' = [Asked EXCEPT ![t] = Asked'[t]]
  <2>1. Asked = [u \in Threads |-> Asked[u]] /\ Asked' = [u \in Threads |-> Asked'[u]]
    BY DEF Asked
  <2> QED
    BY <1>2, <2>1, ChangedAt
<1>6. Answered' = [Answered EXCEPT ![t] = Answered'[t]]
  <2>1. Answered = [u \in Threads |-> Answered[u]] /\ Answered' = [u \in Threads |-> Answered'[u]]
    BY DEF Answered
  <2> QED
    BY <1>4, <2>1, ChangedAt
<1>7. \A u \in Threads \ {t} : u \in Flushing' <=> u \in Flushing
  BY <1>1 DEF Flushing
<1> QED
  BY <1>5, <1>6, <1>7

LEMMA SameAt == \A t \in Threads : [Asked EXCEPT ![t] = Asked[t]] = Asked
                                  /\ [Answered EXCEPT ![t] = Answered[t]] = Answered
BY DEF Asked, Answered

LEMMA Invisible ==
    ASSUME Calls, NEW t \in Threads, \A u \in Threads \ {t} : pc'[u] = pc[u] /\ next'[u] = next[u],
           \A u \in Clients \ {t} : v_locs'[u] = v_locs[u],
           Asked'[t] = Asked[t], Answered'[t] = Answered[t], t \in Flushing' <=> t \in Flushing,
           UNCHANGED <<command, cachedb, on_disk>>
    PROVE  UNCHANGED Promise!vars
<1>1. Asked' = Asked /\ Answered' = Answered
  BY OnlyMover, SameAt
<1>2. Flushing' = Flushing
  <2>1. \A u \in Threads : u \in Flushing' <=> u \in Flushing
    BY OnlyMover
  <2> QED
    BY <2>1 DEF Flushing
<1> QED
  BY <1>1, <1>2, RightKept DEF Promise!vars

(* What the steps of a client inside run leave alone.                      *)
LEMMA ClientFrame ==
    ASSUME IInv, NEW c \in Clients, ClientStep(c)
    PROVE  /\ c \in Threads /\ command' = command /\ on_disk' = on_disk
           /\ \A u \in Threads \ {c} : pc'[u] = pc[u] /\ next'[u] = next[u]
           /\ \A u \in Clients \ {c} : v_locs'[u] = v_locs[u]
           /\ Calls /\ Typed
<1>1. c \in Threads /\ Calls /\ Typed
  BY DEF IInv, Threads
<1>2. \A u \in Threads \ {c} : pc'[u] = pc[u] /\ next'[u] = next[u] /\ command' = command
  BY <1>1, OneMoves
<1>3. (\E s : v_locs' = [v_locs EXCEPT ![c] = s]) \/ v_locs' = v_locs
  BY DEF ClientStep, begin, enter_run, start_timers, lookup, submit, submit_nothing, executed, count_write,
         put, filter, leave_run, take_results, work
<1>4. \A u \in Clients \ {c} : v_locs'[u] = v_locs[u]
  BY <1>1, <1>3 DEF Typed
<1>5. on_disk' = on_disk /\ command' = command
  BY DEF ClientStep, begin, enter_run, start_timers, lookup, submit, submit_nothing, executed, count_write,
         put, filter, leave_run, take_results, cache
<1> QED
  BY <1>1, <1>2, <1>4, <1>5

------------------------------------------------------------------------------
(* The steps of a client.                                                  *)

LEMMA EnterAsks ==
    ASSUME IInv, NEW c \in Clients, enter_run(c)
    PROVE  Promise!Ask(c)
<1>0. /\ ClientStep(c) /\ pc[c] = "call" /\ Call(c).name = "run" /\ c \in Threads
      /\ UNCHANGED <<next, v_locs, cachedb, on_disk>>
  BY DEF enter_run, ClientStep, Threads, work, cache
<1>1. pc'[c] = "start_timers"
  BY <1>0 DEF enter_run, goto, IInv, Typed
<1>2. Batch(c)' = Batch(c) /\ Call(c)' = Call(c)
  BY <1>0, SameCall
<1>3. Batch(c) \in AllBatches
  <2>1. next[c] \in 1 .. NumCalls(c) /\ c # Main
    BY <1>0, NumCallsType, ClientsAssumption DEF IInv, Calls, CallsOf
  <2>2. next[c] \in DOMAIN Program[c] /\ Call(c) = Program[c][next[c]]
    BY <1>0, <2>1, ClientsAssumption DEF Call, NumCalls
  <2>3. Call(c) \in UNION {Range(Program[d]) : d \in Clients}
    BY <2>2 DEF Range
  <2> QED
    BY <1>0, <2>3 DEF AllBatches, Batch
<1>4. Asked[c] = << >> /\ Asked'[c] = <<Batch(c)>>
  BY <1>0, <1>1, <1>2 DEF Asked, Inside
<1>5. Answered'[c] = Answered[c] /\ Answered' = Answered
  <2>1. Answered'[c] = Answered[c]
    BY <1>0, <1>1 DEF Answered
  <2> QED
    BY <1>0, <2>1, ClientFrame, OnlyMover, SameAt
<1>6. c \notin Flushing /\ c \notin Flushing' /\ Flushing' = Flushing
  <2>1. c \notin Flushing /\ c \notin Flushing'
    BY <1>0, <1>1 DEF Flushing, Exclusive
  <2>2. \A u \in Threads \ {c} : u \in Flushing' <=> u \in Flushing
    BY <1>0, ClientFrame, OnlyMover
  <2> QED
    BY <2>1, <2>2 DEF Flushing
<1>7. Asked' = [Asked EXCEPT ![c] = <<Batch(c)>>]
  BY <1>0, <1>4, ClientFrame, OnlyMover
<1> QED
  BY <1>0, <1>3, <1>4, <1>5, <1>6, <1>7 DEF Promise!Ask

LEMMA PutStores ==
    ASSUME IInv, NEW c \in Clients, put(c)
    PROVE  Promise!Store(c)
<1>0. /\ ClientStep(c) /\ pc[c] = "put" /\ c \in Threads /\ UNCHANGED <<next, v_locs, on_disk>>
  BY DEF put, ClientStep, Threads
<1>1. pc'[c] = "write"
  BY <1>0 DEF put, goto, IInv, Typed
<1>2. Batch(c)' = Batch(c)
  BY <1>0, SameCall
<1>3. /\ Asked[c] = <<Batch(c)>> /\ Asked'[c] = <<Batch(c)>>
      /\ Answered[c] = << >> /\ Answered'[c] = << >>
  BY <1>0, <1>1, <1>2 DEF Asked, Answered, Inside
<1>4. Asked' = Asked /\ Answered' = Answered
  BY <1>0, <1>3, ClientFrame, OnlyMover, SameAt
<1>5. Flushing' = Flushing
  <2>1. c \notin Flushing /\ c \notin Flushing'
    BY <1>0, <1>1 DEF Flushing, Exclusive
  <2>2. \A u \in Threads \ {c} : u \in Flushing' <=> u \in Flushing
    BY <1>0, ClientFrame, OnlyMover
  <2> QED
    BY <2>1, <2>2 DEF Flushing
<1>6. PICK k \in DOMAIN Batch(c) : cachedb' = With(cachedb, Batch(c)[k], Encoded(Cover[Batch(c)[k]]))
  BY PutIsRight DEF IInv
<1>7. DOMAIN cachedb' = DOMAIN cachedb \cup {Asked[c][1][k]}
  BY <1>3, <1>6 DEF With
<1> QED
  BY <1>0, <1>3, <1>4, <1>5, <1>7 DEF Promise!Store

LEMMA LeaveAnswers ==
    ASSUME Filters, IInv, ~aborted, NEW c \in Clients, leave_run(c)
    PROVE  Promise!Answer(c)
<1>0. /\ ClientStep(c) /\ pc[c] = "leave" /\ c \in Threads /\ UNCHANGED <<next, v_locs, cachedb, on_disk>>
  BY DEF leave_run, ClientStep, Threads, work, cache
<1>1. pc'[c] = "returned"
  <2>1. ~aborted'
    BY LeaveChecks DEF IInv
  <2> QED
    BY <1>0, <2>1 DEF leave_run, check, goto, IInv, Typed
<1>2. Batch(c)' = Batch(c)
  BY <1>0, SameCall
<1>3. v_locs[c] = [k \in DOMAIN Batch(c) |-> RightAnswer[Batch(c)[k]]]
  <2>1. v_locs[c] = [k \in DOMAIN Batch(c) |-> Wanted(Cover[Batch(c)[k]])]
    BY <1>0, AnswerRight
  <2>2. \A k \in DOMAIN Batch(c) : Batch(c)[k] \in Configs
    BY <1>0, BatchInside DEF IInv, Inside
  <2> QED
    BY <2>1, <2>2 DEF RightAnswer
<1>4. /\ Asked[c] = <<Batch(c)>> /\ Asked'[c] = <<Batch(c)>>
      /\ Answered[c] = << >> /\ Answered'[c] = <<v_locs[c]>>
  BY <1>0, <1>1, <1>2 DEF Asked, Answered, Inside
<1>5. Asked' = Asked /\ Answered' = [Answered EXCEPT ![c] = <<v_locs[c]>>]
  <2>1. Asked' = [Asked EXCEPT ![c] = Asked[c]]
    BY <1>0, <1>4, ClientFrame, OnlyMover
  <2>2. Answered' = [Answered EXCEPT ![c] = <<v_locs[c]>>]
    BY <1>0, <1>4, ClientFrame, OnlyMover
  <2> QED
    BY <1>0, <2>1, <2>2, SameAt
<1>6. Flushing' = Flushing
  <2>1. c \notin Flushing /\ c \notin Flushing'
    BY <1>0, <1>1 DEF Flushing, Exclusive
  <2>2. \A u \in Threads \ {c} : u \in Flushing' <=> u \in Flushing
    BY <1>0, ClientFrame, OnlyMover
  <2> QED
    BY <2>1, <2>2 DEF Flushing
<1>7. Asked[c][1] = Batch(c) /\ Asked[c] # << >>
  BY <1>4
<1> QED
  BY <1>0, <1>3, <1>4, <1>5, <1>6, <1>7 DEF Promise!Answer

LEMMA TakeTakes ==
    ASSUME IInv, NEW c \in Clients, take_results(c)
    PROVE  Promise!TakeAnswer(c)
<1>0. /\ ClientStep(c) /\ pc[c] = "returned" /\ c \in Threads /\ UNCHANGED <<cachedb, on_disk>>
  BY DEF take_results, ClientStep, Threads, cache
<1>1. pc'[c] \in {"call", "end"}
  BY <1>0 DEF take_results, after_call, goto, IInv, Typed
<1>2. Answered[c] # << >> /\ Answered'[c] = << >> /\ Asked'[c] = << >>
  BY <1>0, <1>1 DEF Asked, Answered, Inside
<1>3. Asked' = [Asked EXCEPT ![c] = << >>] /\ Answered' = [Answered EXCEPT ![c] = << >>]
  BY <1>0, <1>2, ClientFrame, OnlyMover
<1>4. Flushing' = Flushing
  <2>1. c \notin Flushing /\ c \notin Flushing'
    BY <1>0, <1>1 DEF Flushing, Exclusive
  <2>2. \A u \in Threads \ {c} : u \in Flushing' <=> u \in Flushing
    BY <1>0, ClientFrame, OnlyMover
  <2> QED
    BY <2>1, <2>2 DEF Flushing
<1> QED
  BY <1>0, <1>2, <1>3, <1>4 DEF Promise!TakeAnswer

LEMMA ClientInvisible ==
    ASSUME IInv, NEW c \in Clients, ClientStep(c),
           ~enter_run(c), ~put(c), ~leave_run(c), ~take_results(c)
    PROVE  UNCHANGED Promise!vars
<1>0. /\ c \in Threads /\ Calls /\ Typed /\ command' = command /\ on_disk' = on_disk
      /\ \A u \in Threads \ {c} : pc'[u] = pc[u] /\ next'[u] = next[u]
      /\ \A u \in Clients \ {c} : v_locs'[u] = v_locs[u]
  BY ClientFrame
<1>1. UNCHANGED <<next, cachedb>>
  BY DEF ClientStep, begin, start_timers, lookup, submit, submit_nothing, executed, count_write, filter, cache
<1>2. \/ pc[c] = "begin" /\ pc'[c] = "call"
      \/ pc[c] \in Inside /\ pc'[c] \in Inside
  BY <1>0 DEF ClientStep, begin, start_timers, lookup, submit, submit_nothing, executed, count_write, filter,
              check, goto, Typed, Inside
<1>3. Batch(c)' = Batch(c)
  BY <1>1, SameCall
<1>4. Asked'[c] = Asked[c] /\ Answered'[c] = Answered[c]
  BY <1>0, <1>2, <1>3 DEF Asked, Answered, Inside
<1>5. c \notin Flushing /\ c \notin Flushing'
  BY <1>0, <1>2 DEF Flushing, Exclusive, Inside
<1> QED
  BY <1>0, <1>1, <1>4, <1>5, Invisible

------------------------------------------------------------------------------
(* The steps of a thread in a call that excludes the others.               *)

LEMMA ExclusiveFrame ==
    ASSUME IInv, NEW t \in Threads, ExclusiveStep(t)
    PROVE  /\ Calls /\ Typed /\ UNCHANGED <<command, v_locs, cachedb>>
           /\ \A u \in Threads \ {t} : pc'[u] = pc[u] /\ next'[u] = next[u]
           /\ pc[t] \notin InRun /\ pc'[t] \notin InRun
           /\ Asked' = Asked /\ Answered' = Answered
<1>1. Calls /\ Typed
  BY DEF IInv
<1>2. UNCHANGED <<command, v_locs, cachedb>>
  BY DEF ExclusiveStep, acquire_entrance, acquire_run_lock, acquire_stat_lock, flush_db, flush_done,
         flush_nothing, reset_stat, stop, work, cache
<1>3. \A u \in Threads \ {t} : pc'[u] = pc[u] /\ next'[u] = next[u]
  BY <1>1, OneMoves
<1>4. pc[t] \notin InRun /\ pc'[t] \notin InRun
  BY <1>1, ExclusiveMoves DEF Exclusive, InRun, Inside
<1>5. Asked'[t] = Asked[t] /\ Answered'[t] = Answered[t]
  BY <1>4 DEF Asked, Answered, InRun
<1>6. Asked' = Asked /\ Answered' = Answered
  BY <1>1, <1>2, <1>3, <1>5, OnlyMover, SameAt
<1> QED
  BY <1>1, <1>2, <1>3, <1>4, <1>6

(* Who flushes after a step of t.                                          *)
LEMMA FlushingOf ==
    ASSUME IInv, NEW t \in Threads, ExclusiveStep(t)
    PROVE  Flushing' = IF t \in Flushing' THEN Flushing \cup {t} ELSE Flushing \ {t}
<1>1. \A u \in Threads \ {t} : u \in Flushing' <=> u \in Flushing
  BY ExclusiveFrame, OnlyMover
<1> QED
  BY <1>1 DEF Flushing

LEMMA ExclusiveSteps ==
    ASSUME IInv, NEW t \in Threads, ExclusiveStep(t)
    PROVE  \/ UNCHANGED Promise!vars
           \/ Promise!StartFlush(t) \/ Promise!FlushReturns(t) \/ Promise!Keep
<1>0. /\ Calls /\ Typed /\ UNCHANGED <<command, v_locs, cachedb>>
      /\ Asked' = Asked /\ Answered' = Answered
      /\ Flushing' = IF t \in Flushing' THEN Flushing \cup {t} ELSE Flushing \ {t}
  BY ExclusiveFrame, FlushingOf
<1>1. \A place : goto(t, place) => pc'[t] = place
  BY <1>0 DEF goto, Typed
<1>2. next' = next => Call(t)' = Call(t)
  BY SameCall
<1>3. t \in Flushing <=> pc[t] \in Exclusive /\ Call(t).name = "flush_cachedb"
  BY DEF Flushing
<1>4. t \in Flushing' <=> pc'[t] \in Exclusive /\ Call(t)'.name = "flush_cachedb"
  BY DEF Flushing
<1>5. CASE acquire_entrance(t)
  <2>1. /\ pc[t] = "call" /\ pc'[t] = "run_lock" /\ Call(t)' = Call(t) /\ on_disk' = on_disk
    BY <1>1, <1>2, <1>5 DEF acquire_entrance, cache
  <2>2. t \notin Flushing
    BY <1>3, <2>1 DEF Exclusive
  <2>3. CASE t \in Flushing'
    BY <1>0, <2>1, <2>2, <2>3 DEF Promise!StartFlush
  <2>4. CASE t \notin Flushing'
    <3>1. Flushing' = Flushing
      BY <1>0, <2>2, <2>4
    <3> QED
      BY <1>0, <2>1, <3>1, RightKept DEF Promise!vars
  <2> QED
    BY <2>3, <2>4
<1>6. CASE acquire_run_lock(t) \/ acquire_stat_lock(t) \/ flush_db(t)
  <2>1. /\ pc[t] \in Exclusive /\ pc'[t] \in Exclusive /\ Call(t)' = Call(t)
        /\ on_disk' = on_disk \/ on_disk' = cachedb
    BY <1>1, <1>2, <1>6 DEF acquire_run_lock, acquire_stat_lock, flush_db, cache, Exclusive
  <2>2. t \in Flushing' <=> t \in Flushing
    BY <1>3, <1>4, <2>1
  <2>3. Flushing' = Flushing
    BY <1>0, <2>2
  <2> QED
    BY <1>0, <2>1, <2>3, RightKept DEF Promise!vars, Promise!Keep
<1>7. CASE flush_done(t) \/ flush_nothing(t) \/ reset_stat(t) \/ stop(t)
  <2>1. /\ pc[t] \in Exclusive /\ pc'[t] \in {"call", "end"} /\ on_disk' = on_disk
        /\ Call(t).name = "flush_cachedb" => flush_done(t) \/ flush_nothing(t)
    BY <1>1, <1>7 DEF flush_done, flush_nothing, reset_stat, stop, release, after_call, cache, Exclusive
  <2>2. Flushing' = Flushing \ {t}
    BY <1>0, <1>4, <2>1 DEF Exclusive
  <2>3. CASE t \notin Flushing
    <3>1. Flushing' = Flushing
      BY <2>2, <2>3
    <3> QED
      BY <1>0, <2>1, <3>1, RightKept DEF Promise!vars
  <2>4. CASE t \in Flushing
    <3>1. CASE flush_done(t)
      <4>1. on_disk = cachedb
        BY <3>1 DEF flush_done, IInv, Cache
      <4> QED
        BY <1>0, <2>1, <2>2, <2>4, <4>1 DEF Promise!FlushReturns
    <3>2. CASE flush_nothing(t)
      <4>1. on_disk = cachedb
        BY <3>2 DEF flush_nothing, WorthFlushing, has_cache, IInv, Cache
      <4> QED
        BY <1>0, <2>1, <2>2, <2>4, <4>1 DEF Promise!FlushReturns
    <3> QED
      BY <1>3, <2>1, <2>4, <3>1, <3>2
  <2> QED
    BY <2>3, <2>4
<1> QED
  BY <1>5, <1>6, <1>7 DEF ExclusiveStep

------------------------------------------------------------------------------
(* The other steps, and the theorem.                                       *)

(* A runner writes into the results of a client that waits.                *)
LEMMA RunnerInvisible ==
    ASSUME IInv, NEW r \in Runners, RunnerStep(r)
    PROVE  UNCHANGED Promise!vars
<1>1. UNCHANGED <<command, pc, next, cachedb, on_disk>>
  BY DEF RunnerStep, start_item, clean_cov, exec, collect_cov, cache
<1>2. \A u \in Threads : Call(u)' = Call(u) /\ Batch(u)' = Batch(u)
  BY <1>1, SameCall
<1>3. \A u \in Threads : pc[u] = "returned" => v_locs'[u] = v_locs[u]
  <2>1. CASE collect_cov(r)
    <3>1. job[r] # NoJob /\ v_locs' = [v_locs EXCEPT ![job[r].client][job[r].cid] = cov_files[r]]
      BY <2>1 DEF collect_cov, at, Working
    <3>2. pc[job[r].client] = "execute"
      BY <3>1, JobBatch DEF IInv
    <3> QED
      BY <3>1, <3>2 DEF IInv, Typed, Calls, CallsOf
  <2>2. CASE ~collect_cov(r)
    BY <2>2 DEF RunnerStep, start_item, clean_cov, exec, work
  <2> QED
    BY <2>1, <2>2
<1>4. Asked' = Asked /\ Flushing' = Flushing
  BY <1>1, <1>2 DEF Asked, Flushing
<1>5. Answered' = Answered
  BY <1>1, <1>3 DEF Answered
<1> QED
  BY <1>1, <1>4, <1>5, RightKept DEF Promise!vars

LEMMA StepImplements == Filters /\ IInv /\ [Next]_vars => [Promise!Next]_(Promise!vars)
<1> SUFFICES ASSUME Filters, IInv, [Next]_vars PROVE Promise!Next \/ UNCHANGED Promise!vars
  OBVIOUS
<1>0. Clients \subseteq Threads /\ Main \in Threads /\ Main \notin Clients /\ Typed /\ Calls
  BY ClientsAssumption DEF Threads, IInv
<1>1. ASSUME NEW c \in Clients, ClientStep(c), ~aborted PROVE Promise!Next \/ UNCHANGED Promise!vars
  <2>1. UNCHANGED RightAnswer
    BY <1>1, ClientFrame, RightKept
  <2> QED
    BY <1>0, <1>1, <2>1, EnterAsks, PutStores, LeaveAnswers, TakeTakes, ClientInvisible DEF Promise!Next
<1>2. ASSUME NEW t \in Threads, ExclusiveStep(t) PROVE Promise!Next \/ UNCHANGED Promise!vars
  <2>1. UNCHANGED RightAnswer
    BY <1>2, ExclusiveFrame, RightKept
  <2> QED
    BY <1>2, <2>1, ExclusiveSteps DEF Promise!Next
<1>3. ASSUME NEW r \in Runners, RunnerStep(r) PROVE UNCHANGED Promise!vars
  BY <1>3, RunnerInvisible
<1>4. CASE init \/ repeats_done
  <2>1. /\ pc[Main] \in {"begin", "repeats"} /\ pc'[Main] \in {"repeats", "call"}
        /\ \A u \in Threads \ {Main} : pc'[u] = pc[u]
        /\ UNCHANGED <<command, next, v_locs, cachedb, on_disk>>
    BY <1>0, <1>4 DEF init, repeats_done, goto, Typed, work, cache
  <2>2. /\ Asked'[Main] = Asked[Main] /\ Answered'[Main] = Answered[Main]
        /\ Main \notin Flushing /\ Main \notin Flushing'
    BY <1>0, <2>1 DEF Asked, Answered, Flushing, Exclusive
  <2> QED
    BY <1>0, <2>1, <2>2, Invisible
<1>5. CASE UNCHANGED vars
  <2>1. UNCHANGED <<command, pc, next, v_locs, cachedb, on_disk>>
    BY <1>5 DEF vars, work, cache
  <2>2. Asked'[Main] = Asked[Main] /\ Answered'[Main] = Answered[Main] /\ (Main \in Flushing' <=> Main \in Flushing)
    <3>1. Call(Main)' = Call(Main)
      BY <2>1, SameCall
    <3> QED
      BY <1>0, <2>1, <3>1 DEF Asked, Answered, Flushing
  <2> QED
    BY <1>0, <2>1, <2>2, Invisible
<1>6. CASE background_flush
  <2>1. UNCHANGED <<command, pc, next, v_locs, cachedb>> /\ on_disk' = cachedb
    BY <1>6 DEF background_flush, work
  <2>2. \A u \in Threads : Call(u)' = Call(u) /\ Batch(u)' = Batch(u)
    BY <2>1, SameCall
  <2>3. Asked' = Asked /\ Answered' = Answered /\ Flushing' = Flushing
    BY <2>1, <2>2 DEF Asked, Answered, Flushing
  <2> QED
    BY <2>1, <2>3, RightKept DEF Promise!Next, Promise!Keep
<1>7. CASE crash
  <2>1. /\ \A t \in Threads : pc'[t] = "begin"
        /\ command' = command /\ cachedb' = on_disk /\ on_disk' = on_disk
    BY <1>7 DEF crash, Start
  <2>2. /\ Asked' = [t \in Threads |-> << >>] /\ Answered' = [t \in Threads |-> << >>]
        /\ Flushing' = {}
    BY <2>1 DEF Asked, Answered, Flushing, Inside, Exclusive
  <2> QED
    BY <2>1, <2>2, RightKept DEF Promise!Next, Promise!Crash
<1> QED
  BY <1>0, <1>1, <1>2, <1>3, <1>4, <1>5, <1>6, <1>7 DEF Next, MainStep

(* For the clients of a shared runner: every batch is answered by the      *)
(* coverage of its configurations, and what is in the cache when           *)
(* flush_cachedb returns outlives the process.                             *)
THEOREM RunnerImplementsCachedRuns ==
    ASSUME Filters PROVE Spec => ImplementsCachedRuns
<1>1. Init => Promise!Init
  <2> SUFFICES ASSUME Init PROVE Promise!Init
    OBVIOUS
  <2>1. \A t \in Threads : pc[t] = "begin"
    BY DEF Init
  <2>2. /\ Asked = [t \in Threads |-> << >>] /\ Answered = [t \in Threads |-> << >>]
        /\ Flushing = {}
    BY <2>1 DEF Asked, Answered, Flushing, Inside, Exclusive
  <2>3. RightAnswer \in [Configs -> SUBSET Locs]
    BY CoverType DEF RightAnswer, Wanted
  <2>4. DOMAIN cachedb \in SUBSET Configs /\ DOMAIN on_disk = DOMAIN cachedb
    BY CacheInit DEF Cache, RightEntries, Init
  <2> QED
    BY <2>2, <2>3, <2>4 DEF Promise!Init
<1>2. IInv /\ [Next]_vars => [Promise!Next]_(Promise!vars)
  BY StepImplements
<1> QED
  BY <1>1, <1>2, IInvAlways, PTL DEF Spec, ImplementsCachedRuns, Promise!Spec
=============================================================================
