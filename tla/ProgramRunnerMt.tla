--------------------------- MODULE ProgramRunnerMt ---------------------------
(***************************************************************************)
(* The runner of igen/runner/ProgramRunnerMt.cpp, shared by the repeats of *)
(* a process (main.cpp): its three locks, its cache in RocksDB, its batch  *)
(* jobs, and the coverage files of one GCovRunner per runner thread.  The  *)
(* process may die at any time and be started again.                       *)
(*                                                                         *)
(* Abstractions.  The program under analysis is the function Cover; what   *)
(* it leaves in the coverage files adds up until they are removed.  A      *)
(* location is a tuple: the pieces of its name between commas.  Run counts,*)
(* hit counts and elapsed times are left out.  The pool is what BatchJobs  *)
(* promises: every item of a batch is run once, by any thread of the pool, *)
(* and the batch is over when all of them have been.                       *)
(***************************************************************************)
EXTENDS Integers, Sequences, FiniteSets, FiniteSetsExt, SequencesExt

CONSTANTS
    Clients,        (* threads that run one repeat of an algorithm             *)
    Main,           (* the main thread, which owns the runner                  *)
    Program,        (* Program[c]: the calls that the algorithm of c makes     *)
    ResetsTimer,    (* the clients whose algorithm calls reset_local_timer     *)
    Configs, Locs,
    Cover,          (* Cover[c]: the locations a run of c covers               *)
    Commands,       (* how the process may be started, see Command             *)
    MaxCrashes      (* bound: how often the process dies                       *)

Threads == Clients \cup {Main}

Op == [name : {"run"}, configs : Seq(Configs)] \cup [name : {"flush_cachedb", "reset_stat"}]

ASSUME ClientsAssumption ==
    /\ IsFiniteSet(Clients) /\ Main \notin Clients
    /\ Program \in [Clients -> Seq(Op)]
    /\ ResetsTimer \subseteq Clients

(* --runner-threads, --cache, --locs (none is {}), and the configurations *)
(* that an earlier process has left in the cache.                         *)
Command == [threads : Nat \ {0}, cache : SUBSET {"r", "w", "x"}, locs : SUBSET Locs,
            cached : SUBSET Configs]

ASSUME RunnerAssumption ==
    /\ Commands # {} /\ IsFiniteSet(Commands) /\ Commands \subseteq Command
    /\ MaxCrashes \in Nat

(* The cache joins the names with commas and splits them again: a name has *)
(* no comma, that is, one piece.                                           *)
ASSUME NamesAssumption ==
    /\ Locs \subseteq Seq(STRING) /\ \A l \in Locs : Len(l) = 1
    /\ Cover \in [Configs -> SUBSET Locs]

VARIABLES
    command,                    (* how this process was started                *)
    pc,                         (* pc[t]: where the thread t is, see PC        *)
    next,                       (* next[t]: the number of its next call        *)
    local_timer,                (* threads with a local_timer_                 *)
    entrance,                   (* run_entrance_lock_: its readers and writer  *)
    run_lock, stat_lock,        (* the thread that owns it, or NoThread        *)
    n_started_timer,
    interested_locs,
    v_locs,                     (* v_locs[c]: results so far, {} if still to run*)
    cid_to_run,                 (* cid_to_run[c]: positions, in order          *)
    pending,                    (* pending[c]: items no runner has taken       *)
    queue_running,              (* work_queue_ is started                      *)
    job,                        (* job[r]: what the runner r works on          *)
    cov_files,                  (* cov_files[r]: what its coverage files hold  *)
    cachedb,                    (* the cache as it reads                       *)
    on_disk,                    (* the cache as a new process would find it    *)
    n_unflushed_write,
    aborted,                    (* a CHECK has failed                          *)
    n_crashes

locks   == <<entrance, run_lock, stat_lock>>
timers  == <<n_started_timer, local_timer>>
work    == <<v_locs, cid_to_run, pending>>
pool    == <<job, cov_files, queue_running>>
cache   == <<cachedb, on_disk, n_unflushed_write>>
vars == <<command, pc, next, locks, timers, interested_locs, work, pool, cache,
          aborted, n_crashes>>

NoThread == "none"

ASSUME NoThreadAssumption == NoThread \notin Threads

NoJob == [client |-> NoThread]

Inside == {"start_timers", "lookup", "execute", "write", "put", "leave"}
Exclusive == {"run_lock", "stat_lock", "body", "flushed"}
PC == {"begin", "call", "returned", "end", "repeats"} \cup Inside \cup Exclusive

n_threads == command.threads
Runners == 0 .. n_threads - 1

allow_execute == "x" \in command.cache
allow_cache_read == "r" \in command.cache
allow_cache_write == "w" \in command.cache
has_cache == allow_cache_read \/ allow_cache_write

(* The call that a thread is making or will make next.  An algorithm ends  *)
(* with ctx->cleanup(), which flushes the cache; main() with cleanup() of  *)
(* the runner: stop the pool, then flush.                                  *)
NumCalls(t) == IF t = Main THEN 2 ELSE Len(Program[t]) + 1

Call(t) == IF t = Main /\ next[t] = 1 THEN [name |-> "stop"]
           ELSE IF next[t] = NumCalls(t) THEN [name |-> "flush_cachedb"]
           ELSE Program[t][next[t]]

Batch(c) == Call(c).configs

------------------------------------------------------------------------------
(* The value of a cache entry, and what is read from it.                  *)

Encoded(locs) == UNION {Range(l) : l \in locs}
Decoded(val) == {<<name>> : name \in val}

Entries(S) == [c \in S |-> Encoded(Cover[c])]

With(db, c, val) == [k \in DOMAIN db \cup {c} |-> IF k = c THEN val ELSE db[k]]

------------------------------------------------------------------------------
(* A new process: everything but the disk.                                *)

Start ==
    /\ pc' = [t \in Threads |-> "begin"]
    /\ next' = [t \in Threads |-> 1]
    /\ local_timer' = {}
    /\ entrance' = [readers |-> {}, writer |-> NoThread]
    /\ run_lock' = NoThread /\ stat_lock' = NoThread
    /\ n_started_timer' = 0 /\ n_unflushed_write' = 0
    /\ interested_locs' = {}
    /\ v_locs' = [c \in Clients |-> << >>]
    /\ cid_to_run' = [c \in Clients |-> << >>]
    /\ pending' = [c \in Clients |-> {}]
    /\ queue_running' = FALSE
    /\ job' = [r \in Runners |-> NoJob]

Init ==
    /\ command \in Commands
    /\ pc = [t \in Threads |-> "begin"]
    /\ next = [t \in Threads |-> 1]
    /\ local_timer = {}
    /\ entrance = [readers |-> {}, writer |-> NoThread]
    /\ run_lock = NoThread /\ stat_lock = NoThread
    /\ n_started_timer = 0 /\ n_unflushed_write = 0
    /\ interested_locs = {}
    /\ v_locs = [c \in Clients |-> << >>]
    /\ cid_to_run = [c \in Clients |-> << >>]
    /\ pending = [c \in Clients |-> {}]
    /\ queue_running = FALSE
    /\ job = [r \in Runners |-> NoJob]
    /\ cov_files = [r \in Runners |-> {}]
    /\ cachedb = Entries(command.cached) /\ on_disk = cachedb
    /\ aborted = FALSE /\ n_crashes = 0

goto(t, place) == pc' = [pc EXCEPT ![t] = place]

(* CHECK(cond): the thread goes on, or the process aborts.                 *)
check(cond, t, place) ==
    /\ aborted' = ~cond
    /\ IF cond THEN goto(t, place) ELSE UNCHANGED pc

(* The thread has returned from its call.                                  *)
after_call(t) ==
    /\ next' = [next EXCEPT ![t] = @ + 1]
    /\ goto(t, IF next[t] = NumCalls(t) THEN "end" ELSE "call")

------------------------------------------------------------------------------
(* The main thread, and the beginning of a repeat.                        *)

init ==
    /\ pc[Main] = "begin"
    /\ run_lock = NoThread /\ stat_lock = NoThread
    /\ queue_running' = (allow_execute /\ n_threads > 1)
    /\ interested_locs' = IF allow_execute THEN command.locs ELSE {}
    /\ local_timer' = local_timer \cup {Main}
    /\ goto(Main, "repeats")
    /\ UNCHANGED <<command, next, locks, n_started_timer, work, job, cov_files, cache,
                   aborted, n_crashes>>

(* The repeats are over: main() calls cleanup().                          *)
repeats_done ==
    /\ pc[Main] = "repeats"
    /\ \A c \in Clients : pc[c] = "end"
    /\ goto(Main, "call")
    /\ UNCHANGED <<command, next, locks, timers, interested_locs, work, pool, cache,
                   aborted, n_crashes>>

(* Mutant: the timer is made once for the process, not once for a thread.  *)
begin_once(c) ==
    /\ pc[c] = "begin"
    /\ pc[Main] = "repeats"
    /\ local_timer' = IF local_timer \cap ResetsTimer = {} THEN local_timer \cup ({c} \cap ResetsTimer)
                      ELSE local_timer
    /\ goto(c, "call")
    /\ UNCHANGED <<command, next, locks, n_started_timer, interested_locs, work, pool, cache,
                   aborted, n_crashes>>

(* reset_local_timer, if the algorithm calls it.                          *)
begin(c) ==
    /\ pc[c] = "begin"
    /\ pc[Main] = "repeats"
    /\ local_timer' = local_timer \cup ({c} \cap ResetsTimer)
    /\ goto(c, "call")
    /\ UNCHANGED <<command, next, locks, n_started_timer, interested_locs, work, pool, cache,
                   aborted, n_crashes>>

------------------------------------------------------------------------------
(* run.                                                                   *)

enter_run(c) ==
    /\ pc[c] = "call" /\ Call(c).name = "run"
    /\ entrance.writer = NoThread
    /\ entrance' = [entrance EXCEPT !.readers = @ \cup {c}]
    /\ goto(c, "start_timers")
    /\ UNCHANGED <<command, next, run_lock, stat_lock, timers, interested_locs, work, pool, cache,
                   aborted, n_crashes>>

start_timers(c) ==
    /\ pc[c] = "start_timers"
    /\ stat_lock = NoThread
    /\ n_started_timer' = n_started_timer + 1
    /\ check(n_started_timer >= 0 /\ c \in local_timer, c, "lookup")
    /\ UNCHANGED <<command, next, locks, local_timer, interested_locs, work, pool, cache, n_crashes>>

(* The next configuration of the batch: from the cache, or still to run.  *)
Looked(c) == Len(v_locs[c])
NextConfig(c) == Batch(c)[Looked(c) + 1]
Hit(c) == allow_cache_read /\ NextConfig(c) \in DOMAIN cachedb

lookup(c) ==
    /\ pc[c] = "lookup" /\ Looked(c) < Len(Batch(c))
    /\ v_locs' = [v_locs EXCEPT ![c] =
                     Append(@, IF Hit(c) THEN Decoded(cachedb[NextConfig(c)]) ELSE {})]
    /\ cid_to_run' = IF Hit(c) THEN cid_to_run
                     ELSE [cid_to_run EXCEPT ![c] = Append(@, Looked(c) + 1)]
    /\ check(Hit(c) \/ allow_execute, c, "lookup")
    /\ UNCHANGED <<command, next, locks, timers, interested_locs, pending, pool, cache, n_crashes>>

(* The batch is complete: run what is missing, by the pool or, with one   *)
(* runner, under run_lock_.                                               *)
submit(c) ==
    /\ pc[c] = "lookup" /\ Looked(c) = Len(Batch(c))
    /\ allow_execute
    /\ pending' = [pending EXCEPT ![c] = Range(cid_to_run[c])]
    /\ IF n_threads > 1
       THEN check(queue_running, c, "execute") /\ UNCHANGED run_lock
       ELSE /\ run_lock = NoThread /\ run_lock' = c
            /\ goto(c, "execute") /\ UNCHANGED aborted
    /\ UNCHANGED <<command, next, entrance, stat_lock, timers, interested_locs, v_locs, cid_to_run,
                   pool, cache, n_crashes>>

submit_nothing(c) ==
    /\ pc[c] = "lookup" /\ Looked(c) = Len(Batch(c))
    /\ ~allow_execute
    /\ goto(c, "write")
    /\ UNCHANGED <<command, next, locks, timers, interested_locs, work, pool, cache,
                   aborted, n_crashes>>

JobsOf(c) == {r \in Runners : job[r].client = c}

(* Mutant: run_lock_ is kept.                                             *)
executed_keeps_lock(c) ==
    /\ pc[c] = "execute"
    /\ pending[c] = {} /\ JobsOf(c) = {}
    /\ goto(c, "write")
    /\ UNCHANGED <<command, next, locks, timers, interested_locs, work, pool, cache,
                   aborted, n_crashes>>

executed(c) ==
    /\ pc[c] = "execute"
    /\ pending[c] = {} /\ JobsOf(c) = {}
    /\ run_lock' = IF run_lock = c THEN NoThread ELSE run_lock
    /\ goto(c, "write")
    /\ UNCHANGED <<command, next, entrance, stat_lock, timers, interested_locs, work, pool, cache,
                   aborted, n_crashes>>

(* n_unflushed_write_++, then Put.                                        *)
count_write(c) ==
    /\ pc[c] = "write" /\ allow_cache_write /\ cid_to_run[c] # << >>
    /\ n_unflushed_write' = n_unflushed_write + 1
    /\ goto(c, "put")
    /\ UNCHANGED <<command, next, locks, timers, interested_locs, work, pool, cachedb, on_disk,
                   aborted, n_crashes>>

(* Mutant: what is cached is what will be returned.                       *)
put_filtered(c) ==
    LET cid == Head(cid_to_run[c])
        locs == IF interested_locs = {} THEN v_locs[c][cid] ELSE v_locs[c][cid] \cap interested_locs
    IN  /\ pc[c] = "put"
        /\ cachedb' = With(cachedb, Batch(c)[cid], Encoded(locs))
        /\ cid_to_run' = [cid_to_run EXCEPT ![c] = Tail(@)]
        /\ goto(c, "write")
        /\ UNCHANGED <<command, next, locks, timers, interested_locs, v_locs, pending, pool, on_disk,
                       n_unflushed_write, aborted, n_crashes>>

put(c) ==
    LET cid == Head(cid_to_run[c])
    IN  /\ pc[c] = "put"
        /\ cachedb' = With(cachedb, Batch(c)[cid], Encoded(v_locs[c][cid]))
        /\ cid_to_run' = [cid_to_run EXCEPT ![c] = Tail(@)]
        /\ goto(c, "write")
        /\ UNCHANGED <<command, next, locks, timers, interested_locs, v_locs, pending, pool, on_disk,
                       n_unflushed_write, aborted, n_crashes>>

(* Only the locations of interest are returned.                           *)
filter(c) ==
    /\ pc[c] = "write" /\ (allow_cache_write => cid_to_run[c] = << >>)
    /\ v_locs' = IF interested_locs = {} THEN v_locs
                 ELSE [v_locs EXCEPT ![c] = [k \in DOMAIN @ |-> @[k] \cap interested_locs]]
    /\ cid_to_run' = [cid_to_run EXCEPT ![c] = << >>]
    /\ goto(c, "leave")
    /\ UNCHANGED <<command, next, locks, timers, interested_locs, pending, pool, cache,
                   aborted, n_crashes>>

(* The scope exits of run: the timers, then the entrance lock.            *)
(* Mutant: an early return that skips the timers.                         *)
leave_run_no_timer(c) ==
    /\ pc[c] = "leave"
    /\ stat_lock = NoThread
    /\ entrance' = [entrance EXCEPT !.readers = @ \ {c}]
    /\ check(n_started_timer >= 1, c, "returned")
    /\ UNCHANGED <<command, next, run_lock, stat_lock, timers, interested_locs, work,
                   pool, cache, n_crashes>>

leave_run(c) ==
    /\ pc[c] = "leave"
    /\ stat_lock = NoThread
    /\ n_started_timer' = n_started_timer - 1
    /\ entrance' = [entrance EXCEPT !.readers = @ \ {c}]
    /\ check(n_started_timer >= 1, c, "returned")
    /\ UNCHANGED <<command, next, run_lock, stat_lock, local_timer, interested_locs, work,
                   pool, cache, n_crashes>>

(* The algorithm takes the results.                                       *)
take_results(c) ==
    /\ pc[c] = "returned"
    /\ v_locs' = [v_locs EXCEPT ![c] = << >>]
    /\ after_call(c)
    /\ UNCHANGED <<command, locks, timers, interested_locs, cid_to_run, pending, pool, cache,
                   aborted, n_crashes>>

------------------------------------------------------------------------------
(* A runner: ProgramRunner::run with a GCovRunner.                        *)

Working(r) == job[r] # NoJob

(* An item of a batch.  The pool gives it to any thread; without a pool   *)
(* the caller goes through its items in order with the runner 0.          *)
start_item(r) ==
    /\ ~Working(r)
    /\ \E c \in Clients : \E cid \in pending[c] :
          /\ n_threads = 1 => run_lock = c /\ cid = Min(pending[c])
          /\ job' = [job EXCEPT ![r] = [client |-> c, cid |-> cid, next |-> "clean_cov"]]
          /\ pending' = [pending EXCEPT ![c] = @ \ {cid}]
    /\ UNCHANGED <<command, pc, next, locks, timers, interested_locs, v_locs, cid_to_run,
                   queue_running, cov_files, cache, aborted, n_crashes>>

at(r, step) == Working(r) /\ job[r].next = step
then(r, step) == job' = [job EXCEPT ![r].next = step]

(* Mutant: the coverage files are left alone.                             *)
clean_nothing(r) ==
    /\ at(r, "clean_cov")
    /\ then(r, "exec")
    /\ UNCHANGED <<command, pc, next, locks, timers, interested_locs, work, queue_running,
                   cov_files, cache, aborted, n_crashes>>

clean_cov(r) ==
    /\ at(r, "clean_cov")
    /\ cov_files' = [cov_files EXCEPT ![r] = {}]
    /\ then(r, "exec")
    /\ UNCHANGED <<command, pc, next, locks, timers, interested_locs, work, queue_running, cache,
                   aborted, n_crashes>>

exec(r) ==
    /\ at(r, "exec")
    /\ cov_files' = [cov_files EXCEPT ![r] = @ \cup Cover[Batch(job[r].client)[job[r].cid]]]
    /\ then(r, "collect_cov")
    /\ UNCHANGED <<command, pc, next, locks, timers, interested_locs, work, queue_running, cache,
                   aborted, n_crashes>>

collect_cov(r) ==
    /\ at(r, "collect_cov")
    /\ v_locs' = [v_locs EXCEPT ![job[r].client][job[r].cid] = cov_files[r]]
    /\ job' = [job EXCEPT ![r] = NoJob]
    /\ UNCHANGED <<command, pc, next, locks, timers, interested_locs, cid_to_run, pending,
                   queue_running, cov_files, cache, aborted, n_crashes>>

------------------------------------------------------------------------------
(* flush_cachedb, reset_stat, and the stop of the pool in cleanup: all of *)
(* them take the three locks in the same order.                           *)

(* Mutant: flush_cachedb takes the entrance lock as run() does.           *)
EntranceFree_shared_flush(t) ==
    entrance.writer = NoThread /\ (Call(t).name = "flush_cachedb" \/ entrance.readers = {})

EntranceFree(t) == entrance.writer = NoThread /\ entrance.readers = {}

acquire_entrance(t) ==
    /\ pc[t] = "call" /\ Call(t).name # "run"
    /\ EntranceFree(t)
    /\ entrance' = [entrance EXCEPT !.writer = t]
    /\ goto(t, "run_lock")
    /\ UNCHANGED <<command, next, run_lock, stat_lock, timers, interested_locs, work, pool, cache,
                   aborted, n_crashes>>

acquire_run_lock(t) ==
    /\ pc[t] = "run_lock" /\ run_lock = NoThread
    /\ run_lock' = t
    /\ goto(t, "stat_lock")
    /\ UNCHANGED <<command, next, entrance, stat_lock, timers, interested_locs, work, pool, cache,
                   aborted, n_crashes>>

acquire_stat_lock(t) ==
    /\ pc[t] = "stat_lock" /\ stat_lock = NoThread
    /\ stat_lock' = t
    /\ goto(t, "body")
    /\ UNCHANGED <<command, next, entrance, run_lock, timers, interested_locs, work, pool, cache,
                   aborted, n_crashes>>

release(t) ==
    /\ entrance' = [entrance EXCEPT !.writer = NoThread]
    /\ run_lock' = NoThread /\ stat_lock' = NoThread
    /\ after_call(t)

(* Mutant: one write is not worth a flush.                                *)
WorthFlushing_two == has_cache /\ n_unflushed_write > 1

WorthFlushing == has_cache /\ n_unflushed_write > 0

flush_db(t) ==
    /\ pc[t] = "body" /\ Call(t).name = "flush_cachedb"
    /\ WorthFlushing
    /\ on_disk' = cachedb
    /\ goto(t, "flushed")
    /\ UNCHANGED <<command, next, locks, timers, interested_locs, work, pool, cachedb,
                   n_unflushed_write, aborted, n_crashes>>

flush_done(t) ==
    /\ pc[t] = "flushed"
    /\ n_unflushed_write' = 0
    /\ release(t)
    /\ UNCHANGED <<command, timers, interested_locs, work, pool, cachedb, on_disk,
                   aborted, n_crashes>>

flush_nothing(t) ==
    /\ pc[t] = "body" /\ Call(t).name = "flush_cachedb"
    /\ ~WorthFlushing
    /\ release(t)
    /\ UNCHANGED <<command, timers, interested_locs, work, pool, cache, aborted, n_crashes>>

reset_stat(t) ==
    /\ pc[t] = "body" /\ Call(t).name = "reset_stat"
    /\ n_started_timer' = 0
    /\ release(t)
    /\ UNCHANGED <<command, local_timer, interested_locs, work, pool, cache, aborted, n_crashes>>

stop(t) ==
    /\ pc[t] = "body" /\ Call(t).name = "stop"
    /\ queue_running' = FALSE
    /\ release(t)
    /\ UNCHANGED <<command, timers, interested_locs, work, job, cov_files, cache, aborted, n_crashes>>

------------------------------------------------------------------------------
(* RocksDB may write the cache to disk whenever it likes.                 *)
background_flush ==
    /\ on_disk # cachedb
    /\ on_disk' = cachedb
    /\ UNCHANGED <<command, pc, next, locks, timers, interested_locs, work, pool, cachedb,
                   n_unflushed_write, aborted, n_crashes>>

(* The process dies, and the same command is started again.               *)
crash ==
    /\ n_crashes < MaxCrashes
    /\ pc[Main] # "end"
    /\ n_crashes' = n_crashes + 1
    /\ Start
    /\ cachedb' = on_disk
    /\ UNCHANGED <<command, cov_files, on_disk, aborted>>

ClientStep(c) ==
    \/ begin(c) \/ enter_run(c) \/ start_timers(c) \/ lookup(c) \/ submit(c) \/ submit_nothing(c)
    \/ executed(c) \/ count_write(c) \/ put(c) \/ filter(c) \/ leave_run(c) \/ take_results(c)

ExclusiveStep(t) ==
    \/ acquire_entrance(t) \/ acquire_run_lock(t) \/ acquire_stat_lock(t)
    \/ flush_db(t) \/ flush_done(t) \/ flush_nothing(t) \/ reset_stat(t) \/ stop(t)

MainStep == init \/ repeats_done \/ ExclusiveStep(Main)

RunnerStep(r) == start_item(r) \/ clean_cov(r) \/ exec(r) \/ collect_cov(r)

Next ==
    /\ ~aborted
    /\ \/ \E c \in Clients : ClientStep(c) \/ ExclusiveStep(c)
       \/ MainStep
       \/ \E r \in Runners : RunnerStep(r)
       \/ background_flush \/ crash

(* Threads are scheduled and programs under analysis end; the process need*)
(* not die and RocksDB need not flush on its own.                         *)
Fairness ==
    /\ \A c \in Clients : WF_vars(~aborted /\ (ClientStep(c) \/ ExclusiveStep(c)))
    /\ WF_vars(~aborted /\ MainStep)
    /\ \A r \in 0 .. Max({cmd.threads : cmd \in Commands}) - 1 : WF_vars(~aborted /\ r \in Runners /\ RunnerStep(r))

Spec == Init /\ [][Next]_vars /\ Fairness

------------------------------------------------------------------------------
(* Properties.                                                            *)

(* The type invariant.                                                    *)
TypeOK ==
    /\ command \in Commands
    /\ pc \in [Threads -> PC]
    /\ next \in [Threads -> Nat]
    /\ local_timer \subseteq Threads
    /\ entrance \in [readers : SUBSET Clients, writer : Threads \cup {NoThread}]
    /\ {run_lock, stat_lock} \subseteq Threads \cup {NoThread}
    /\ n_started_timer \in 0 .. Cardinality(Clients)
    /\ interested_locs \subseteq Locs
    /\ \A c \in Clients : /\ v_locs[c] \in Seq(SUBSET Locs)
                          /\ cid_to_run[c] \in Seq(DOMAIN v_locs[c])
                          /\ pending[c] \subseteq DOMAIN v_locs[c]
    /\ queue_running \in BOOLEAN
    /\ DOMAIN job = Runners /\ cov_files \in [Runners -> SUBSET Locs]
    /\ DOMAIN cachedb \subseteq Configs /\ DOMAIN on_disk \subseteq Configs
    /\ n_unflushed_write \in Nat
    /\ aborted \in BOOLEAN /\ n_crashes \in 0 .. MaxCrashes

(* No CHECK of the runner fails: the timers are in step with the threads  *)
(* inside run (ProgramRunnerMt.cpp:90, 97), each of them has a local timer*)
(* (92), every configuration is cached or may be executed (132), and the  *)
(* pool is there when it is needed (WorkQueue.cpp:91).                    *)
RunnerChecksHold == ~aborted

(* The answer to a batch is the coverage of its configurations, as far as *)
(* --locs asks for it, whether it comes from this process, from the cache *)
(* or from a process that died, and whatever the coverage files held      *)
(* before (ProgramRunnerMt.cpp:112-182, ProgramRunner.cpp:161-163).       *)
Wanted(locs) == IF command.locs = {} THEN locs ELSE locs \cap command.locs

AnswersAreCoverage ==
    \A c \in Clients : pc[c] = "returned" =>
        v_locs[c] = [k \in DOMAIN Batch(c) |-> Wanted(Cover[Batch(c)[k]])]

(* When the count of unflushed writes is zero there are none: a flush that*)
(* it makes unnecessary loses nothing (ProgramRunnerMt.cpp:167, 203, 212).*)
(* The count may be too high, never too low, while other threads write.   *)
UnflushedCounted == on_disk # cachedb => n_unflushed_write > 0

(* An entry of the cache, in memory and on disk, is the coverage of its   *)
(* configuration, not filtered by --locs: another process may look for    *)
(* other locations (ProgramRunnerMt.cpp:162-182).                         *)
CacheIsCoverage ==
    \A c \in DOMAIN cachedb : Decoded(cachedb[c]) = Cover[c]

(* The process ends: the locks are always given back, every batch is      *)
(* finished, and cleanup gets its turn.                                   *)
Finishes == <>(pc[Main] = "end")

(* main.cpp:127, --locs names the locations of interest: no other location*)
(* is returned.                                                           *)
AnswersAreOfInterest ==
    \A c \in Clients : pc[c] = "returned" /\ command.locs # {} =>
        \A k \in DOMAIN v_locs[c] : v_locs[c][k] \subseteq command.locs

(* The promise to the algorithms: correct answers, and a flush that has   *)
(* returned cannot be undone by a crash.                                  *)
Asked == [t \in Threads |->
             IF t \in Clients /\ pc[t] \in Inside \cup {"returned"} THEN <<Batch(t)>> ELSE << >>]
Answered == [t \in Threads |-> IF pc[t] = "returned" THEN <<v_locs[t]>> ELSE << >>]
Flushing == {t \in Threads : pc[t] \in Exclusive /\ Call(t).name = "flush_cachedb"}

AllBatches == {op.configs : op \in {o \in UNION {Range(Program[c]) : c \in Clients} : o.name = "run"}}

RightAnswer == [c \in Configs |-> Wanted(Cover[c])]

Promise == INSTANCE CachedRuns WITH
    Batches <- AllBatches, right <- RightAnswer,
    asked <- Asked, answer <- Answered, flushing <- Flushing,
    cached <- DOMAIN cachedb, kept <- DOMAIN on_disk

ImplementsCachedRuns == Promise!Spec
==============================================================================
