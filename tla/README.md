# A TLA+ verification of GenTree

GenTree (`igen/`) learns *interactions* of a highly configurable program: for
every location (a line, a function, a print) it finds a decision tree over the
configuration options that says which configurations cover the location. It
runs the program on a few configurations, builds a C5.0 tree per location,
looks for configurations that refute the trees, and repeats until the trees
stop changing. This directory holds TLA+ modules translated from that code, the
TLC configurations that check them, and proofs for TLAPS.

All paths below are relative to the repository's root.

## 1. The system

| Component | State it keeps | Operations | Interacts with |
|---|---|---|---|
| `igen::WorkQueue` (`klib/WorkQueue.*`) | a deque of functions, `running_`, `n_idle_`, one mutex and condition variable, the threads | `start`, `stop`, `add`, `_run`, `_process`, `run_batch_job` | called by `ProgramRunnerMt::run` from any number of threads |
| `Iter2` (`igen/algo/Iter2.cpp`) | `v_loc_data` (one `LocData` per location), `v_this_iter`, `v_next_iter`, `set_conf_hash`, `set_ran_conf_hash`, `terminate_counter`, the process-wide `gSignalStatus` | `run_alg`, `run_iter`, `run_one_loc`, `enqueue_next`, `enqueue_all`, `prepare_vec_loc_data`, `finish_alg`, `iter2_sighandler` | runs configurations through the runner, registers coverage in the store, builds trees |
| `CoverageStore`, `Location` (`igen/CoverageStore.*`, `igen/Location.*`) | locations by name and id, the configurations, per location the ids of its runs and their hash | `register_cov`, iteration in id order | written and read by `Iter2` only |
| `ProgramRunnerMt` (`igen/runner/ProgramRunnerMt.cpp`) | one runner per thread, the RocksDB cache, `n_unflushed_write_`, three locks (entrance, run, stat), a thread-specific timer, the locations of interest | `init`, `run`, `flush_cachedb`, `reset_stat`, `reset_local_timer`, `cleanup` | a pool, the runners, RocksDB, every algorithm of the process |
| `ProgramRunner`, `GCovRunner`, `OtterRunner` (`igen/runner/`) | a child process, coverage files; a table of recorded results | `run`, `_run_simple`, `_run_gcov`, `_run_builtin`, template matching | called by `ProgramRunnerMt`, one object per worker |
| `CTree`, `CNode` (`igen/c50/`) | counts of hits and misses per value, the tree, a flat copy of it for the interpreter | `prepare_data`, `build_tree`, `test_config`, `interpret`, `interpret_add`, `gather_small_leaves`, `gen_one_convering_configs` of a leaf | built by `Iter2` from the store |
| `Domain`, `Config` (`igen/`) | the options and their values; the values of one configuration and its hash | one-covering and full arrays, random configurations | every component |
| `Context`, `main` (`igen/Context.*`, `main.cpp`) | options, the objects above | `init`, `cleanup`, repeats in parallel over one shared runner | starts the algorithms |
| `Analyzer` (`igen/algo/Analyzer.cpp`) | the answers read, the totals of one analysis | `read_file`, and by `--alg-version` compare (0), validate (1), classify (2, 3, 5) or reduce (4) answers | reads what `Iter2` wrote; runner, trees, Z3 |
| `DemoAlgo`, `IterAlgo` (`igen/algo/`) | none that outlives a call | two demonstrative or older loops | runner, Z3 |

The process has a main thread that runs `Iter2` (or several threads, one per
repeat), a signal handler that may run on any of them, and the workers of the
pool. `Iter2` calls `ProgramRunnerMt::run`, which gives the pool a batch of
items, one per configuration, and waits. A worker runs the program or reads the
cache, and writes the result into the caller's vector. `Iter2` then registers
the results in the store in order.

### What is hard here

* **The pool.** A notification is sent only when `n_idle_ > 0`, and
  `n_idle_` is decremented by the thread that wakes up, not by the one that
  notifies it, so it also counts threads that are already on their way. Whether
  a wakeup can be lost is not obvious. The item's closure captures the locals of
  the function that waits in `run_batch_job`, which therefore must not return
  while any worker is inside `fn`, even when the last items finish together.
* **Stale trees.** A location's tree is built from the runs made so far. It stays
  after its turn, while the turns of other locations make runs that may refute
  it. Members of a class of locations have no tree of their own and point to a
  parent whose class is recomputed at every iteration.
* **Signals.** Every signal overwrites one variable, which the algorithm reads at
  three places of an iteration; a signal may end the iteration in the middle or
  ask for a temporary answer that modifies the same `LocData`.
* **Termination.** The limit is 10^9 iterations; that the loop really ends rests
  on refuted trees costing configurations and on locations being given up.
* **No configuration twice.** Covering arrays, `--seed-configs`, random
  configurations and counterexamples feed one `CHECK`.
* **The shared runner.** Three locks, unflushed writes with the write-ahead log
  switched off, a thread-specific timer, several algorithms at once, coverage files
  that outlive a run and a process.
* **The tree.** The runs of a node are sorted in place and cut into sections; the
  second pass over the options must find one to split by even when every gain is 0;
  `min_cases_in_one_leaf_` of all the nodes above a leaf must follow the runs added
  later. A flat copy for the interpreter, formulas and a text are made of the tree and
  must mean the same.
* **Generated configurations.** `gen_cex` walks over leaves in three loops with
  proportions, retries and random draws; what a leaf generates must be new although the
  leaf has had runs since its tree was built, and the loops must end when nothing
  new is left.
* **Reading answers back.** The reader of an answer keeps the state of a block in six
  variables; the analyses reuse configurations whose hashes are cached.

`PROJECT.json` lists these as hazards, each at its line, with the properties
that would catch it, or with a note when no property covers it yet.

### What makes each component correct

* Pool: every item runs exactly once, inside its call; no wakeup is lost; `stop`
  returns and leaves nothing behind.
* `Iter2`: no `CHECK` aborts; classes are sound and only split; a tree that is
  considered settled agrees with every run; the answer contradicts no run; the
  loop ends.
* `ProgramRunnerMt`: a configuration's result is the program's whether or not it
  comes from the cache; what `flush_cachedb` claims is durable; no lock cycle.
* Trees: every form of a tree means the same; a tree agrees with the runs it
  was built from; a configuration generated for a leaf is new and reaches that leaf,
  and every value of every free option gets its turn.
* Answers: what is read is what was written; every total is the one its definition
  gives; a reduced set of configurations satisfies every interaction.
* Runners: the coverage read belongs to the configuration that was run.

## 2. The modules

| Module | Role |
|---|---|
| `BatchJobs` | what `run_batch_job` promises its caller, with no pool in it |
| `WorkQueue` | the pool: threads, deque, mutex, condition variable, calls, `stop` and a new `start` |
| `WorkQueueMC` | three threads and three calls for TLC |
| `WorkQueueProofs` | the safety of the pool, and that it implements the safety part of `BatchJobs`, proved for any number of threads, calls and items |
| `Iter2` | the learning loop with the store it reads |
| `Iter2MC` | locations, configurations and coverage for TLC |
| `Iter2Proofs` | the safety of the loop, proved for any program, options, trees and signals |
| `CachedRuns` | what the shared runner promises the algorithms: right answers, durable flushes |
| `ProgramRunnerMt` | the shared runner: locks, timers, cache, pool, coverage files, crash and restart |
| `RunnerMC` | two repeats, three configurations and the ways to start the process, for TLC |
| `ProgramRunnerProofs` | the safety of the shared runner, and that it implements `CachedRuns`, proved for any repeats, commands, programs and crashes |
| `Domain` | options, values, configurations, templates |
| `CTree` | how a decision tree is built and how runs are added to it |
| `TreeForms` | what is made of a finished tree: code, formulas, text |
| `CoveringConfigs` | the generators of one-covering configurations, of the domain and of a leaf |
| `LearnLocation` | one location and its tree through the learning loop: composes the three above |
| `LearnMC` | three options and six programs for TLC |
| `CTreeProofs`, `CoveringProofs` | the tree and the generators, proved for any options |
| `TreeFormsProofs` | every form of a finished tree means what the tree means, proved for any tree |
| `LearnProofs` | the learning loop keeps all of this for its tree, proved for any options and programs |
| `AnswerFile` | the file of an answer, written by `Iter2` and read by the analyzer |
| `OtterRunner` | recorded results in place of a program |
| `Compare`, `Validate`, `Cmin` | three analyses |
| `Analyzer` | composes the four above by `--alg-version` |
| `AnalyzerMC` | right and wrong answers for TLC |
| `AnalyzerProofs` | the reader, the comparison, the validation and the reduction, proved for any answers, batches, draws and models |

The larger specifications are `WorkQueue`, `ProgramRunnerMt`, `Iter2`, `LearnLocation` and
`Analyzer`. They meet at promises: the pool is `BatchJobs` to the runner (its pending items
are taken in any order), the runner is `CachedRuns` to the loop (`Iter2` takes the coverage of
a configuration as given), the trees of `Iter2` are any sets that agree with the runs,
which `LearnLocation` shows of the real ones, and the text `AnswerFile` writes is what
`Analyzer` reads.

### BatchJobs

A call has not been made, is active or has returned, and has a set of items that
have been executed. An item may be executed only while its call is active, and
once; a call returns only when all of its items have been. Under fairness every
call returns.

### WorkQueue

`klib/WorkQueue.cpp` with its thread function. Each action is a stretch of code
between two points at which the mutex it holds (`mtx_`, or the one of a call)
is given back, so that no action needs to say who owns it. A thread inside `cv_.wait` is *asleep* (it can be notified, or wake up
spuriously) or *woken* (it has been notified and waits for `mtx_`); this is
where `n_idle_` differs from the number of sleeping threads. An item is a pair
of a call and a position. `n_finished` is the counter of each call, protected by
the call's own mutex. `stop` may be called at any time, calls in progress or not,
and the pool may be started again. A call is made only on a started pool: the
code checks that there are threads, and `ProgramRunnerMt` calls `stop` in its
`cleanup` only.

`ImplementsBatchJobs` is the refinement: an item of a call has been executed when
it is neither in the deque nor inside `fn`, counted or not; a call is active from
the moment its items are pushed until `run_batch_job` returns.

### Iter2

One action per step of `run_alg` and `run_iter`: the initial configurations, the
preparation of an iteration, one attempt at one location (a tree, the
counterexamples, their runs, the test), the second loop that shows all runs of the
iteration to the trees nobody is working on, and the end of the iteration with
its four ways out. The signal handler is an action that can happen between any
two of them, on up to `MaxSignals` occasions.

Abstractions, which are assumptions as well:

* The program under analysis is a function `Cover` from configurations to
  sets of locations: it is deterministic, as the cache of results assumes too.
* A tree is the set of configurations it classifies as hits, plus the number of
  runs it was told of. `build_tree` returns *any* set that agrees with the runs so
  far. C5.0 returns one of these, so what holds here holds for it, provided the
  tree agrees with the runs it was built from, which is `TreeFitsRuns` of `CTree`
  (proved) and, for runs added later, `TreeAgreesWithRuns` of `LearnLocation`.
* `gen_cex` returns any few configurations never generated before, at most `MaxCex`.
  In the code they depend on small leaves and random numbers; that they are new is
  `GeneratedAreNew` (proved). `LearnLocation` has the real selection.
* Two locations have the same 128-bit hash only when the same runs cover them.
* `gen_rand_configs` is rejection sampling. It never ends when `--rand` asks for more
  configurations than there are (`igen/algo/Iter2.cpp:548-560`), a hazard without
  a property: the assumption on `NRand` excludes it.

### CachedRuns

A thread asks for a batch of configurations and is answered by their coverage.
Results may be stored at any time while somebody asks. A flush returns only at a
moment when everything stored is also kept, and a crash goes back to what is kept.

### ProgramRunnerMt

The runner that `main` creates for its repeats (`main.cpp:229-239`): one per
process, owned by the main thread, used by one thread per repeat. A thread of a
repeat goes through a program of calls (`run`, `flush_cachedb`, `reset_stat`),
ends with the flush of `Context::cleanup`, and when all have ended the main
thread stops the pool and flushes. With one repeat or one thread the context owns the
runner and makes the same calls in the same order from one thread.

| Code | Model |
|---|---|
| `run_entrance_lock_` (shared or exclusive), `run_lock_`, `stat_lock_` | `entrance`, `run_lock`, `stat_lock`; one action per acquisition outside of `run` |
| `n_started_timer`, `local_timer_` | a counter, the set of threads that have a timer |
| `v_locs`, `cid_to_run` | the same, per thread; a location set is empty until its run is over |
| the batch job | `pending` and `job`: any free runner takes any item, as `BatchJobs` promises and `WorkQueue` implements; with one runner the items are run in order under `run_lock_` |
| `ProgramRunner::_run_gcov` | `clean_cov`, `exec`, `collect_cov` of one runner; coverage left in the files adds to that of the next run |
| RocksDB | `cachedb`, and `on_disk`, what a new process finds: the write-ahead log is off (line 65), so a Put is lost unless the memtable was flushed, by `Flush` or by RocksDB itself |
| a failing `CHECK` | `aborted`, after which nothing happens |

A crash may come between any two actions and restarts the same command with what
is on disk; the coverage files stay as they are. The names of locations are
joined with commas in a cache entry and split again; `NamesAssumption` says no name
has one. `reset_stat` has no caller in the repository; it is a public operation,
and the model lets a repeat call it. The analyzer is a client that is not in
`ResetsTimer`. `std::shared_mutex` may let readers overtake a waiting writer; since
every thread makes finitely many calls, the writer gets its turn in any case.

### CTree

A node is named by its template, the options set on the way to it and their values,
which is what `CNode::gen_tpl` reads off its parents. The code is recursive and has one
thread, so `frame` and `at` hold its innermost call: `evaluate_split` entered
or about to return, or `test_add_config` on its way up. `build_tree`, `evaluate_leaf`,
`evaluate_split`, `evaluate_return`, `test_add_config` and `test_add_return` are its
actions. The gain is floating-point arithmetic: `select_best_var` may prefer any
option not yet tested. `hit_configs` and `miss_configs` of every node are state, as in the
code, where they are sections of one sorted array; `min_cases` is
`min_cases_in_one_leaf_`.

The sort of `create_childs` is modelled by its positions: `freq` counts the values of an option, `starts` is
`curpos` before the runs are moved, `place` is where a run is moved to, `curpos` where the
iterators stand afterwards, and `Section` what lies between two of them. The array and its moved-from entries are
not there: `curpos[v]++` is the number of runs of the same value that moved before, hence no two runs get
the same place. The order of the runs in the array is taken to be lexicographic. No result depends on it, since it
only orders runs of equal value.

### TreeForms

Pure functions of a finished tree, written as recursive functions: `Code` and `Interpret` (the
flat program with its jump tables, at its addresses), `Mixed` and `DisjConj` (the formulas of the
answer, as the sets of configurations that satisfy them), `Serialize` and `Deserialize` (the
text, as a sequence of tokens). The recursion of the code is the recursion of the functions; what
they compute is compared with `test_config` in the invariants of `LearnLocation`.

### CoveringConfigs

One step is one round of the loop of `Domain::gen_one_convering_configs` (`domain_round`) or of
`CNode::gen_one_convering_configs` (`leaf_round`). A round draws a value not drawn yet of every
option that has one, and any value of the others. In a small leaf a draw that repeats a run
is replaced by an answer of the solver, or the generation ends when there is none. `GSpec` alone
is the generator on any tree.

### LearnLocation

`run_alg` and `run_one_loc` for one location: the covering configurations, `rebuild` and the building of
the tree, the three loops of `gen_cex` (`begin_normal`, `begin_heavy`, `visit_leaf`, `next_loop`,
`end_gen_for`) with its `retry` and `give_up`, `run_configs`, the test of the new runs one after the
other (`test_one`, `test_climbs`, `end_test`), and `other_run`, a run made for another location,
which the second loop of `run_iter` shows to this tree through the interpreter (one step here: between
the run, `Iter2.cpp:249`, and the loop, 321-340, this location is not looked at; `Iter2` has the two apart). The walk back up
of `test_add_config` is `CTree`'s.

Simplifications: leaves with equally few runs are visited in any order, where the code sorts; the
second time a retry lists a leaf is a copy of it; `lim` takes its default, as at every
call; a location that is queued with a tree its last attempt did not refute (`Iter2.cpp:305`), whose
tree is not shown the other locations' runs, is left to `Iter2`.

### AnswerFile, Compare, Validate, Cmin, Analyzer, OtterRunner

An answer is a sequence of blocks, one per class of locations; `Written` gives its lines and
`read_file` walks over them with the state of `Analyzer::read_file`. What a line means (a comment, a
rule of dashes, text) is kept, how it is spelled is not. A formula is the set of configurations that
satisfy it, so that Z3 is what it promises: a model if there is one, a partial
one in `count_models`, any one in `gen_model`.

`Compare` walks over the locations of both answers, then has models enumerated. `Validate`
puts random or all configurations into the objects of a batch, which keep the hash they
computed last, runs them on `OtterRunner` and compares every tree. `Cmin` conjoins
interactions while they can be satisfied together. `Analyzer` begins with `read_file` and goes on with
one of them.

## 3. The runs

| Run | Bounds | Shows |
|---|---|---|
| `WorkQueue` | 3 threads; calls of 2, 2 and 0 items; spurious wakeups; `stop` and `start` anywhere | safety, `stop` returns, the pool implements `BatchJobs` with its liveness, no deadlock |
| `Iter2` | 5 configurations, 3 locations, no signal, no limit on iterations, one success settles | no abort, sound classes that only split, settled trees, the answer agrees with the runs, termination |
| `Iter2Signals` | 4 configurations, covering, full and random starts, 2 successes to settle, a limit on iterations, 2 signals | no abort, and every tree the next iteration uses exists and is current, when no location is given up and the break is not overwritten |
| `Iter2TempFinish` | as above, with SIGUSR1 and locations that are given up | violation of `ChecksHold` |
| `Iter2Seeds` | a seed that is also a covering configuration | violation of `ChecksHold` |
| `Iter2LostBreak` | SIGINT, then SIGRTMIN+2 | violation of `ChecksHold` |
| `Iter2HitsMisses` | no signal | violation of `HitsAndMissesAreConfigs` |
| `Runner` | 2 repeats with 2 and 2 batches, a flush in one and `reset_stat` in the other, 3 configurations, 6 ways to start the process, 1 crash | answers are coverage, the cache holds whole results, unflushed writes are counted, no `CHECK` fails, the process ends, and the runner implements `CachedRuns` |
| `Learn` | options of 2, 1 and 3 values, 6 programs, every choice of splits, leaves and draws, `SolverLimit` 4, `RandTries` 1 | the tree fits its runs and those it is shown, its forms mean the same, what is generated is new and covers the values, `LearnLocation` implements `CTree`, `run_one_loc` returns |
| `Analyzer` | 2 options of 3 values, batches of 4, one right and two wrong answers | what is read was written, the totals are exact, the reduced set is a cover |
| `RunnerAnalyzer` | 2 repeats without a local timer | violation of `RunnerChecksHold` |
| `RunnerLocs` | `--cache r` with `--locs` | violation of `AnswersAreOfInterest` |

**Why the bounds are enough.** *WorkQueue.* Two threads can make the race of a
notification with a thread on its way; the third shows a thread asleep at the same
time. Two calls of two items give a deque where items of different calls mix and
a call that finishes while another is running; the call of no items is the edge
at which `run_batch_job` must not wait at all. The proofs remove the bounds for
everything but liveness. *Iter2.* The coverage in `Iter2MC` makes the classes
change while the algorithm runs: locations 1 and 2 are covered by the same runs
until `c2` or `c4` is run, 3 shows up late, and `c5` covers 3 without the others.
The thresholds (`p_thr_*`, `p_max_*`) are scaled down to the size of the
space so that locations are messed up, stuck and given up within it; the code's own
defaults are reached only after hundreds of runs. `MaxCex = 2` lets one batch
of counterexamples hold a refuting and an agreeing configuration in both orders.
*Runner.* Every lock is contended with one thread on each side, and a third thread,
the main one, comes last. The batches share `c1` and `c2`, so the two repeats may look for,
run and put the same configuration in any order, and each repeat meets a cache the
other is writing. `c1` and `c2` cover different locations, one of them outside
of `--locs`, and `c3` covers nothing: left-over coverage, an unfiltered and an empty entry
are told apart. One crash is enough for a process that reads what a dead one left; a
second one starts from the same kind of state. The six commands are a pool or a single runner, each
with a cache that is read or only written, no cache, and a complete cache
without execution. Deadlock checking is off because the process
ends; `Finishes` is violated by any deadlock before that. *Learn.* Option 1 has one value, the edge at which
a split separates nothing; with three values of option 2 the sections of a node and the jump table have a
first, a middle and a last part. The programs are nothing, everything, one value, a conjunction, a
disjunction and an exclusive or, on which every gain is 0. All six configurations can be run, so every
leaf is exhausted in some behaviour and `gen_cex` meets retries that find nothing.
A solver limit of 4 (1000 in the code) puts leaves on both sides of it. The proportions are those of
`iter2_config.js`; `RandTries`, 10 in the code, bounds draws that may repeat a leaf, and one is enough
for the loop to end by either condition. *Analyzer.* Nine configurations and batches of four make two full batches and one
that is not; `--rand` of 3, 7 and 9 ends inside a first and a second batch and, with 9, asks for all there
are: one is left for the third batch of four, and the loop that draws does not end. Deadlock checking is off since an analysis ends. The wrong answers
differ from the right one in a formula, in how the locations are divided into classes, and in
which locations they know.

**Fairness.** `WorkQueue` assumes weak fairness of every worker's next step, of
every caller inside `run_batch_job`, and of the join in `stop` once it has been called:
operating-system threads are scheduled, no mutex is held between two actions,
and `fn` returns. Nothing obliges anyone to call `run_batch_job`
or `stop`, and spurious wakeups are never required. `Iter2` assumes weak fairness of the
algorithm, one thread that waits for nobody but the runner; signals have none.
`ProgramRunnerMt` assumes weak fairness of every thread and every runner: the system
schedules them and the program under analysis ends. Weak fairness is enough for the locks
since each is contended finitely often. The crash and the background flush of
RocksDB are never required. `LearnLocation` assumes weak fairness of the algorithm's own steps alone, for
the same reason as `Iter2`; runs made for other locations are never required. `Analyzer` states no
liveness.

## 4. What the checks found

* **SIGUSR1 or SIGUSR2 after a location was given up** (`Iter2TempFinish`).
  The temporary answer rebuilds an ignored location's tree and clears `need_rebuild`; the
  next answer's `CHECK(!dat->ignored || dat->need_rebuild)` aborts the program
  before the final answer is written.
* **A seed that is also a covering configuration** (`Iter2Seeds`) is run twice and
  fails the check on configurations already run.
* **A break that is overwritten** (`Iter2LostBreak`). `run_iter` leaves on SIGINT in the
  middle; `run_alg` reads the variable again, and a SIGRTMIN+2 has replaced it in the
  meantime. The loop goes on with locations that have no tree.
* **M/H** (`Iter2HitsMisses`). The README calls them numbers of configurations.
  The runs of a location's turn are counted in the turn and once more by the second loop.

* **The analyzer on a shared runner** (`RunnerAnalyzer`). Neither `init_runner` nor
  the analyzer gives the thread of a repeat a local timer, and the first batch
  aborts. It takes `--rep` and `--rep-parallel` above one and a cache.
* **`--locs` with a cache that may only be read** (`RunnerLocs`). The option is read only
  when programs may be executed, and the cached results come back unfiltered.

Three facts that were learned without being anybody's broken promise.

* `Settled` and `AnswerAgreesWithRuns` need one success to end a turn: `p_consecutive_success = 1`, and
  `p_messed_consecutive_success = 1` for locations that are messed up. `wd/iter2_config.js` gives
  that for domains with less than 4000 configurations only. There the first is 1, and the second, 3, is never
  read, because a location is messed up only after 10^4 runs. The run `Iter2` is about that case. Elsewhere two or three
  successes are needed (three or six once messed up): a queued location may then keep a tree that its
  last attempt did not refute and so did not rebuild (`igen/algo/Iter2.cpp:305`), while the second loop skips queued locations
  (330). A run that another location made in between and that refutes this tree is not shown to
  it. With these parameters the loop may end with a tree that contradicts a run, on its own as well as by a
  limit on its iterations; in the model `AnswerAgreesWithRuns` fails at a natural end
  with `p_consecutive_success = 2`.
* Both also need a run that no break has cut short, and with signals of
  both kinds they fail: a SIGINT that ends an iteration in the middle may be overwritten by a SIGUSR2 before
  `run_alg` looks, which then goes on, and the runs of the broken iteration are never shown to the
  trees.
* A location first covered in the last iteration has no `LocData`, so the answer
  leaves it out although the header counts it.

Read in the code and not turned into a property, because no text of the repository says otherwise:

* A random batch of the validation never ends when `--rand` exceeds the configurations left
  (`igen/algo/Analyzer.cpp:309`; the action `rand_batch_forever`).
* The summary of the validation is printed while the first object of a batch is looked at
  (`Analyzer.cpp:364`), so the counts of the last batch may be computed and not printed.
* `smissing` mixes ids of the two answers (`Analyzer.cpp:206`, `230`), and 32-bit hashes of
  formulas are used as keys (`67`, `150`).
* A leaf that was read back has `splitvar` 0 and no `min_cases_in_one_leaf_`; nothing reads them today.

## 5. The proofs

`WorkQueueProofs` proves, for any finite set of threads and calls and any number
of items, `THEOREM Spec => []...` for `TypeOK`, `IdleCounted`, `NoItemTwice`,
`ItemsAccounted`, `ReturnedIsOver`, `StopDrains` and `NoSleeperNeeded`. The
assumptions are those the module names: the threads and calls are finite sets, there
is at least one thread, and the numbers of items are natural numbers.

The properties are not inductive as they stand. Their inductive invariant is
`Inv == Base /\ Accounting`.

* `Base` is `Control /\ IdleCounted`. `Control` is the type of the variables (with
  an integer `n_idle`: its bounds follow from `IdleCounted`) and two facts about
  control: a worker has an item exactly while it processes one, and what the state
  of the owner says of the workers: none is off in a started pool, none sleeps
  once `running_` is cleared, and none is off while the deque has items. The last one
  is what makes `stop` drain the deque.
* `Accounting` is `Places /\ ReturnedDone`. `Places` joins `NoItemTwice` and
  `ItemsAccounted`: an item popped from the deque is missing from the count until
  its worker has counted it, so each is needed in the step of the other.
  `ReturnedDone` says a call that has returned has counted all of its items, from
  which `ReturnedIsOver` follows: the items counted are not held.
* `NoSleeperNeeded` (as long as somebody sleeps, the threads awake or on their
  way are at least as many as the items queued) is inductive relative to `Base`.
  It is the reason no wakeup is lost: a notification is saved only when `n_idle_` is
  zero, and then nobody sleeps.

The preservation proof has one lemma per group of actions and one step per
action. Two lemmas on removing the head of a sequence and on the cardinality of
a set that gains or loses an element carry the arithmetic.

The last part of the module proves `Spec => Promise!Init /\ [][Promise!Next]_(Promise!vars)`
from the same invariant: every step of the pool is a step of `BatchJobs` or leaves
its variables alone. `ItemsAccounted` is what makes the return of a call a step of
`BatchJobs`: a full counter means that all its items are done.

### The shared runner

`ProgramRunnerProofs` needs no bound on repeats, runners, calls or crashes. Its invariant is
`IInv == Typed /\ Calls /\ Phase /\ Locks /\ Timers /\ Work /\ Jobs /\ Cache`: where a thread may be in its
calls, which lock it then owns, that the timers started are those of the threads inside `run`, that
an item is pending, held by one runner or finished, and what a held item's runner has in its coverage
files. `TypeOK`, `CacheIsCoverage` and `UnflushedCounted` hold without a further
assumption. `AnswersAreCoverage` assumes `Filters` (a command either executes or has no `--locs`), and
`RunnerChecksHold` assumes `Prepared` (every algorithm resets its timer; what cannot be executed is in the cache). The
two assumptions exclude exactly the runs `RunnerLocs` and `RunnerAnalyzer`. Of the
three locks safety rests on the entrance lock: it is what keeps `flush_cachedb`, `reset_stat` and `cleanup`
apart from every `run`.

The last part of `ProgramRunnerProofs` proves that every behaviour is one of `CachedRuns`, under `Filters`: a step of one
thread changes only what that thread asks, is answered and flushes, and a flush returns
when nothing stored is unkept, by `UnflushedCounted`.

### The learning loop

`Iter2Proofs` proves, for any program, options, trees and number of signals:

| Theorem | Property | Assumes |
|---|---|---|
| `TypeCorrect`, `ClassesCorrect`, `SplitsCorrect` | `TypeOK`, `ClassesSound`, `ClassesOnlySplit` | nothing |
| `WatchedCorrect` | `WatchedHaveTrees` | `NoOverwrite`: no SIGRTMIN+2, or no signal that breaks |
| `SettledCorrect`, `AnswerCorrect` | `Settled`, `AnswerAgreesWithRuns` | `OneSuccessEnds`: one success ends a turn; `OneKind`: the signals that come all break, or none does |
| `NoCheckFails` | `ChecksHold` | `NoOverwrite`, `FreshSeeds` (no seed is a covering configuration), no SIGUSR1 or SIGUSR2 |

`OneSuccessEnds` is `p_consecutive_success = 1` and either no location can be messed up (`NeverMessed`: there are at most
`p_thr_messed_up_kickin` configurations) or `p_messed_consecutive_success = 1` too. `wd/iter2_config.js` meets it for
domains below 4000 configurations and for no others; section 4 says what happens there. That `messed_up` stays 0 when there are too few
configurations is an invariant of its own (`Calm`, by `RunsBelowKickin`: a location has no more runs than there are configurations).

The assumptions of `NoCheckFails` are the negations of the three findings about the loop, so
there is no fourth.

The invariants come in layers, each inductive relative to those before. `Base` is `TypeOK` with the counter, the
store (nothing is run twice, what was generated was run), the classes (one unlinked
location per set of runs, the least by name), the trees (one that is not to be rebuilt has been built and agrees with the
runs it was told of) and the members of the queues. The key to the classes is `Seen`,
the runs of a location at the last preparation: equal `Seen` is what a link means until the next one, however
many runs are made in between. `Queues` says of every location between which two points of an
iteration it is queued, watched by the second loop or waiting, and that a broken
iteration is on its way out. `Agreed` says up to which run each tree has been shown the runs, from which
`Settled` and the answer follow. `Checked` says that a location given up is to be rebuilt.
Locations are visited in the order of ids and names: the model states an order as a
bijection, so that no proof needs recursion.

### The trees and what is generated

`CTreeProofs` has `IInv == Skeleton /\ Reached /\ Runs /\ Pending /\ SplitUp`. `Skeleton` is the shape of a tree
whose nodes are templates: two nodes that some configuration reaches both lie above one another, leaves are at the bottom, the
option of a node is set in all nodes below. `Runs` says every node holds the runs that match its
template, hits and misses disjoint; `Pending` and `SplitUp` follow the recursion: the nodes that are
still unfinished are on the way of the call. Theorem `Partition` is `TreePartition`. `TreeFits` is
`TreeFitsRuns`: a node with hits and misses has an untested option, because two different configurations that
match its template differ in one, so `CHECK_NE(splitvar, -1)` never fails (`SplitExists`), the sorted runs fill
their array (`SortFillsArray`), and a finished tree agrees with its runs (`TreeAgrees`).

That the sections are right is a lemma, `SectionRight`: `starts` of a value is one more than the number of runs with lower values
(`StartsRight`, by induction over the values), a run is moved to less than `freq` places after it (`PlaceRight`), so the places
of different values do not mix.

`CoveringProofs` has `GInv`: what was drawn is not drawn again while something else is left, so configurations
differ as long as the loop goes on; a value that was drawn occurs in what is returned or in a run of
the leaf. `GeneratedNew` and `AllValuesCovered` follow at the end of the loop, for any tree (`TreeOnly`: the
generators do not disturb the tree's own specification).

`MinRight` adds the counts of `min_cases_in_one_leaf_`: `MinInv` says of every node that has one that it is
the least number of runs in the leaves below, and of every step of `test_add_config` which nodes above the leaf are
right already.

### The forms of a tree

`TreeFormsProofs` proves, for every well-formed tree of any options, that `test_config` ends in a leaf that
the configuration matches (`LeafOfRight`), that the formulas of `build_zexpr_mixed` and of
`build_zexpr_disj_conj` mean the configurations the tree predicts to be hits (`MixedRight`,
`DisjConjRight`), that the interpreter on the code of `build_interpreter` ends with the value of that leaf
(`InterpretRight`) and that `deserialize` reads back what `serialize` wrote (`DeserializeRight`).

All of these are inductions, which is possible although no induction theorem of the library can be used: a set of natural
numbers has a least member (`LeastMember`), so a fact about `n` is proved of the set of those `n` for which
it holds (`Induction`), and a fact about the nodes of a tree by the number of options a node leaves open
(`NodeInduction`). The forms are recursive *functions*, not operators; that they exist at all is shown first,
by joining partial functions on smaller domains (`LoopExists`, `NodeRecursion`). The code of the interpreter needs
the most: the addresses in the jump table of a node are those of its children's code (each child's code
follows that of its elder siblings), hence the flat array walked from the address of a node does what the tree walked from the
node does.

### One location with its tree

`LearnProofs` proves `LSpec => ImplementsTree`: whatever `gen_cex`, `run_one_loc` and `run_iter` do, the tree and
the generators take steps of their own specifications. So everything proved of these holds in the loop
(`LoopTrees`). On top of that:

| Theorem | Property | Assumes |
|---|---|---|
| `LoopTypes` | `LTypeOK` | nothing |
| `TreeAgreesRuns` | `TreeAgreesWithRuns` | nothing |
| `InterpreterRight` | `InterpreterAgrees` | nothing |
| `AllForms` | `FormsAgree` | nothing |
| `MinCases` | `MinCasesRight` | `RunsCounted`: runs are counted in an `int` |

The invariant is `LInv == CInv /\ Observed /\ NewRuns`. `CInv` joins the loop's place in the code to the invariants
of `CTreeProofs` and `CoveringProofs`: where the loop may build, generate or test, and what these may rely on.
`Observed` says a tree that is not to be rebuilt agrees with every run but those still to be tested, and the
interpreter's code, if there is any, is that of the present tree: a build deletes it. `NewRuns` says the
configurations of a batch are different and not run before, without which a run would be counted twice.
`RunsCounted` is needed because `min_cases_in_one_leaf_` starts at the largest `int`: a node with more runs
than that has no right minimum in the code either.

### Answers

`AnalyzerProofs` makes one assumption on the constants, `AnswersAssumption`: what is in the files has been
written by `finish_alg` (`IsAnswer`). No location is in two classes, a class was covered by a run and its tree is
finished and gives its formula; classes have different formulas since they differ in some run, with which their
trees agree. The last is `AnswerAgreesWithRuns`, so it is taken for granted where that may fail: with parameters that ask for
more than one consecutive success (those of every domain from 4000 configurations on), or after a broken iteration. A collision of two formulas would then be a failed `CHECK` in
`read_file`. The text of a program's arguments is taken not to have `IGNORED` in it, and a hash stands for what
it hashes.

* `ReadBack`: `Spec => []AnswerReadBack`. The reader goes through the lines of a block in a fixed order of states
  (`ReadBlock`), and after `i` blocks it is between two blocks and holds the locations of these (`ReadWritten`); the
  text of a tree is `DeserializeRight`, its formula `MixedRight`.
* `Totals`: `Spec => []TotalsRight`. `CompareInv` says of each stage what has been visited and that the counts are
  those of the locations visited; a model that leaves options open counts for the product of their numbers of values, and
  `CubeSize` proves that this is the number of configurations it stands for, so models counted and models left
  always add up to all.
* `Validation`: `Spec => []ValidationExact`. `ValidateInv` has the batch (`BatchOK`: what is ahead in it is different, in
  `all_configs`, and its cached hash is its own), the counts (`Counting`: the configurations in batches are those judged and those
  ahead; a short batch means there are no others) and the totals. From `Counting` it follows that the index into the batch never runs past
  its end (in `Judge`), and that `--full` has judged all when `iter` exceeds `n_iter`. The interpreter is `InterpretRight`.
* `MinimalCover` is about the reduction alone: what is conjoined is satisfied by all of `e` or by an earlier
  configuration, hence the result is a cover and each configuration of it satisfies an interaction none
  before it did. `ImplementsCmin` proves that the analyzer gives it nothing but satisfiable interactions, and `Reduction` puts the
  two together.

### Checked by TLC only

Liveness (`StopReturns`, `Terminates`, `Finishes`, `RunOneLocReturns`, the fairness half of
`ImplementsBatchJobs`) and ENABLED are beyond the proof system. Every invariant and every action property that a passing run
checks is proved, under the assumptions named above.

## 6. Not modelled

* Of `Iter2`: `run_rand_each_iteration`, the reading of its parameters (they are constants),
  `get_cur_ignore_thr`, which is not called, timers.
* Of `ProgramRunnerMt`: the counts of runs, locations and hits and the elapsed times, and the
  failures of RocksDB, on which every call aborts.
* Of the runners: child processes and the parsing of reports, which are input and output, and with it the
  `CHECK`s on `n_locs_` and on what gcov prints (`GCovRunner.cpp:351`, `386-389`).
* Of the trees: the arithmetic of the gain (any option may be preferred), `gather_small_leaves`,
  which nothing calls, the printed tree. The two passes of `select_best_var` are one choice
  among the untested options: `TreeFitsRuns` shows that there is one, not that the thresholds of the second pass let it through.
* Of the generators: what the solver is told not to return is one set, `shash`; the code excludes it in three places
  (the runs of the leaf, those added since, what was returned), and `GeneratedAreNew` is about all of them together.
* Of `LearnLocation`: the time between a run made for another location and the second loop, which is in `Iter2`.
* Of the analyzer: the classification of formulas (versions 2 and 3) and statistics (5), which
  are properties of formulas as Z3 simplifies them, the printed lines, and counts per class that only they show.
* Of `Domain` and `OtterRunner`: the reading of their files, and the Z3 expressions, which are
  taken as the sets they denote.
* `DemoAlgo`, a demonstration, and `IterAlgo`, a loop that nothing starts.
* The built-in programs: any deterministic `Cover` stands for them.
* Hashing, random numbers, containers and the tools around the cache; vendored code and
  benchmarks.

The repository's own code is about 7,500 lines. Nearly all of the rest of its C and C++ under `src/` is
third-party code in one directory with it: the JavaScript engine (`klib/duktape.c`,
`klib/duktape.h`, `klib/duk_config.h`), `klib/enum.h` and `klib/random.h`. None of its
state is the program's, so it is left out whatever its size.

## 7. Plan

Done: the pool, the learning loop, the shared runner, the trees with their generators, one location with
its real tree, the analyzer's versions 0, 1 and 4, and for each of them proofs of all its safety properties.

What is left, in this order:

1. Several repeats of `Iter2` in one process that share `gSignalStatus`
   (`igen/algo/Iter2.cpp:152`): one of them resets it for all.
2. A run of a program that fails between the cleaning of its coverage files and their collection.
3. In `LearnLocation`, a location queued with a tree that is current (`Iter2.cpp:305`) and
   is not shown the other runs.
4. Proofs that join the components: that the answer `Iter2` writes satisfies `IsAnswer`, and that the trees of
   `LearnLocation` are among those `Iter2` allows.
