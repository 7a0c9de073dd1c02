# Formal models of revmc-toolkit

TLA+ specifications of revmc-toolkit, checked with TLC on small instances and,
for most of the safety properties, proved with TLAPS for every instance.
Paths are relative to the repository (`src/`); `lib.rs:21` without a path means
`crates/build/src/lib.rs`.  `PROJECT.json` maps each definition to the lines it
stands for.

## 1. The system

The toolkit executes historical Ethereum blocks with revm and replaces the
interpreter by compiled code (revmc) where a contract has been compiled.

| Component | State it keeps | Operations | Talks to |
|---|---|---|---|
| AOT store: `compile_contracts_aot`, `Compiler::compile_aot`, `EvmCompilerFnLoader` | a directory that outlives processes: `<hash>/<hash>.o`, `<hash>/a.so` | list, compile (parallel, one task per contract), link with retries, load | file system, linker, other processes on the same directory |
| Execution context and handler: `RevmcExtCtx`, `revmc_register_handler`, `Touches` | compiled functions by bytecode hash; two counters per address | look up, count and execute every frame, also when it is resumed | revm's call stack |
| Contract selection: `BytecodeTouchInspector`, `contracts_to_bytecode` | set of called addresses | inspect an execution, read the code of the addresses | simulation, provider |
| Simulation: `SimulationBuilder`, `Simulation`, `sim_txs` | the evm's database | pre-execute, run, restore | provider, handler |
| Validity check: `check_tx_sim_validity` | none | run, compare with receipts, judge the counters | simulation, provider |
| Runners and benches: `run_tx`, `run_block`, `bench_variant`, `process_single_block` | timing, recorded error | time, check, measure, record | simulation, check |
| Gas guzzlers: `BytecodeContractUsageInspector`, `GasGuzzlerReport` | usage per address and a stack of callers, per block | inspect, reduce in parallel, group by code | simulation, provider |
| JIT: `compile_contracts_jit`, `JitCompileCtx`, `PtrWrapper` | leaked LLVM contexts and compilers with shared ownership | compile in chunks, reduce, release | handler |
| Block range runner: `BlockRangeRunner` | CSV writer behind a mutex, a file that outlives sessions | native phase, then compiled phase, one rayon job per block | everything above |
| Random sampling: `random_sequence` | none | filter, shuffle by seed or entropy, take | block range, gas guzzlers |
| Command line, call simulation, provider, notebooks | none | parse, read, plot | |

What makes it hard:

* **several processes and crashes on one directory** that has no lock, no
  temporary names and no content check: an entry is recognised by its name
  (`lib.rs:41-52`), its name appears before its content (`compiler.rs:132-136`);
* **failure in the middle**: a task of many fails; a link produces nothing; a
  transaction fails half way through a run that has no rollback on error
  (`sim_builder.rs:253-258`) and whose error the benches drop;
* **re-entry**: a frame is executed again each time a call it made returns, and
  the engine is chosen anew (`evm_components.rs:128-146`);
* **memory behind raw pointers**: compiled functions live in leaked compilers that
  borrow from leaked contexts (`compiler.rs:145-190`), and are shared by clones;
* **sessions that append to one file**, where only the one that creates it writes
  the column names, while workers fail or panic (`benches.rs:266-300,380-425`);
* **two views of one thing**: results against a list of hashes built elsewhere;
  called addresses of the block against code of the latest state; a stack that
  sees calls and no creations; counters against what really ran;
* **parallel reduction** in any grouping (`gas_guzzlers.rs:317-332`).

What each component must guarantee is stated with its module below; the hazards
at their lines, also those no property covers yet, are in `PROJECT.json`.

## 2. Modules

### AotStore, WriteOnceCache (AOT store)

`AotStore` models any number of processes that share the output directory.

| State | Code |
|---|---|
| `dir`, `obj`, `so` | the names in the directory; `<h>/<h>.o`; `<h>/a.so` (a file is the level it was compiled at, `Partial` while it is written or when it is a mixture) |
| `pc`, `lvl` | how far `make_compiled_fns` is; the level in `CompilerOptions` |
| `task`, `tries` | how far `compile_aot` is for each contract; turns of the loop in `link` |
| `loaded` | the `EvmCompilerFns` the process builds |
| `torn` | the objects that another process rewrites while this one writes them or its linker reads them |
| `suspect` | history: the entries in which a task failed or died, or which two processes wrote at once |

`Ask` is the call of `make_compiled_fns`, `List` is `load_compiled` and the
filter, `Translate`, `MakeDir`, `OpenObject`/`WriteObject`,
`LinkStart`/`LinkReturn`/`CheckLinked` are the steps of `compile_aot` of each contract, interleaved over
contracts and processes; `Collect` is the `collect::<Result<_>>()?` over all of
them, `Load` is `load` and the `filter_map` of `load_selected`, `Run` the return
of the context; `LoadAll` is the loader's other entry, which compiles nothing; `Exit` and `Crash` leave only the directory behind.  `NoLink` is the option `no_link`.  The dump directory is always set
(`compiler.rs:186,192`), so the compiler library may make the entry before
`out_dir` does, also in a translation that fails: `Translate` leaves it open in
both outcomes.  The set `Faults` says which calls may fail: the listing, the
translation, `mkdir`, the object file, the linker, `dlopen`, and the process itself.

The object is rewritten in place (`compiler.rs:212`): from `OpenObject` to
`WriteObject` it is `Partial`, and a process that writes it meanwhile, or whose
linker reads it, has it `torn`.  A torn object comes out as any version of it or as a
mixture, and a linker that reads one may fail even without a fault.  The linker is
external: it opens the output, and returns with the file written, with an error,
or (at most `MaxSilent` times per task) with neither, which is what the loop of
ten turns in `link` expects.  A linker that returns while another one still
writes to the same path may leave an unfinished file.

`WriteOnceCache` is the abstract promise: a function is published at most once
per contract and never replaced, and a process is either refused or runs, for
each contract, the published function or none.  `AotStore` implements it under
the mapping in `Cache` (a shared object that a linker finished is published).

Properties: `PoisonExplained` (an entry is left half made only where a task failed
or died, or two processes wrote at once), `SelectedAreCompiled`,
`FreshIsLoaded` (a process runs only if each task of it ended well, and runs what
they compiled, at its level),
`InterpretedArePoisoned` (what it interprets an earlier process left half made),
`LoadedAtRequestedLevel`, `StaysPoisoned`, `Answered`, `ImplementsCache`.

### JitContext, FunctionPool (compilation in memory)

| State | Code |
|---|---|
| `stage` | how far `compile_jit_many` is for each chunk |
| `context`, `compiler` | the leaked LLVM context and compiler of a chunk: not there, live, freed |
| `parts` | partial results of rayon's `reduce` |
| `table`, `arc` | the entries of `EvmCompilerFns`; the wrappers in the shared `JitCompileCtx` |
| `drop` | what the destructor of a chunk's `PtrWrapper` frees next |
| `holder`, `callee` | the execution contexts, and the function each executes |

`MakeContext`, `CreateCompiler`, `TranslateAll`, `Finalize` and `GiveUp` are the
steps of one chunk; `Reduce` merges two neighbours or drops the wrappers of the
side that an error leaves behind; `Finish` builds the table.  `Clone`,
`CallFunction`, `ReturnFunction`, `DropHandle` are what evms do with the context;
the last one drops the map entry by entry (`DropEntry`), the last entry drops
the wrappers, and `DropWrapper` is `PtrWrapper::drop` in two steps, interleaved
over chunks.  A second free leaves the values of `TypeOK`.

`FunctionPool` is what the execution contexts rely on: a pool that has a function
for every contract that was asked for or never exists, whose users share it, call
it and leave, and of which nothing is released between its first user and its last.
`JitContext` implements it under the mapping in `Pool`; a chunk that failed has no
functions, so the compiler that it drops by itself is no release.

Properties: `NoDangling` (a function that can be called or is executing lives in
live memory), `ReleasedInOrder` (compiler before context), `LeakExplained` (in the
end only contexts of failed chunks are left), `AllOrNothing` (a run has a
function for each contract of the list and no other), `ImplementsPool` (the
refinement).

### Dispatch (selection, handler, counters, verdict)

A block of at most `MaxEvents` calls, creations and returns is executed twice.
First natively with the inspector (`Observe`, with `Inspect` for
`BytecodeTouchInspector::call`); `Select` then reads the code of the touched
addresses from the latest state and compiles it, or nothing for a native run.
The second execution repeats the events (`Replay`) and calls `ExecuteFrame`
whenever revm executes the frame on top, that is when it begins and each time a
call returns to it: the handler of `revmc_register_handler` with the lookup, the
touch and the engine.  `CheckTouches` is the part of `check_tx_sim_validity`
that judges the counters.  revm is external: call stack, code and hash of a
frame, `bytecode_address` against `target_address`, creations without a hash,
and the reversal of code changes when a frame fails.

Properties: `OneEngine` (no frame is begun by one engine and resumed by the
other), `NativeExplained` (whatever is interpreted in a compiled run is a
creation or a code the latest state no longer has at that address),
`VerdictHonest` (the check is silent, warns or fails as what ran deserves),
`TouchPurity` (delegate calls do not blur the counters), `CalledAreCompiled`.
In the code counters accumulate over all runs of a simulation and its
pre-execution; the model has one execution, and the verdict depends only on which
of the sums are zero or equal.

### BlockSim, RepeatableRun (simulation, check, runners)

The block has transactions `1 .. N`.  The database is the set of committed ones;
a transaction is executable when its nonce fits and revm does not refuse it, and
its result is what it sees of the transactions it depends on.  `Build` splits
the block (`split_txs`, `into_tx_sim`), `PreTx`/`Built` pre-execute,
`StartRun`/`RunTx`/`EndRun` are `Simulation::run` with `sim_txs`: an error
leaves before the database is put back.  `NoCoinbase` is the error that `sim_txs`
may meet before its first transaction (`tx_sim.rs:21`), with a part or a
pre-execution that is empty as well; the model leaves open whether revm has the
account in its cache by then.  The callers are three: `run`
(`time_fn`, then the check), `bench` (check, then criterion) and `range` (check,
keep the error, `measure_execution_time`, record).  `CheckRun`, `Compare` and
`CompareDone` are `check_tx_sim_validity` with the index into the results.

`RepeatableRun` is what the callers rely on, without databases and nonces: a run
is one operation that answers with the chain's results for the whole part, or
fails (an empty part may, too) and may spoil the simulation if its part has more than one transaction; a
spoilt one never answers again.  `BlockSim` implements it under the mapping in
`Repeatable`; in particular a simulation is spoilt only by a run that fails, and
one that answers can be run again.

Properties: `CanonicalResults`, `SpoiltForever`, `MeasuredAreWhole`,
`RunComparesAll`, `ComparesOwnReceipt`, `NoPanic`, `RunIsRepeatable` (the
refinement).

### GasGuzzlers (usage inspector and report)

Each block has revm's call stack with the gas spent per frame, and an inspector
(`account_to_usage`, `parent_bytecode_stack`, `current_bytecode`).  `Call` and
`Return` run `Inspector::call` and `call_end`; `Create` runs nothing, as in the
code.  A frame that halts exceptionally costs its caller more than it spent
(`left`).  `EndBlock` hands a map or an error to the parallel iterator, `Reduce`
merges any two partial results, `Report` groups by the code in the latest state,
and `Top` ranks and cuts the list (`Rankings` leaves the order of equals open), or
panics when its quotients are 0/0 and there are two of them to compare.
`own` is a history variable: what the code of each address spent itself.

Properties: `FollowsCalls` (the inspector's stack is the stack of calls),
`NetIsOwn` (gas minus deficit is what the code itself spent, so `gas_used` does
not panic), `ReportIsOwn` (end to end: the report is the sum over all blocks,
each once), `TopIsHeaviest` (no contract that was cut is heavier than one that is
listed, and the sort panics only if no reported contract spent anything), `DefaultTakesAll` (the default size of the list lists everything).

### BlockRange, MeasurementLog (block range runner, random sampling)

| State | Code |
|---|---|
| `asked` | the arguments of each session, one session after another on the same label |
| `seed` | the shuffles that `--rnd-seed` stands for |
| `pc`, `block_iter` | what `BlockRangeRunner::run` is doing, and for which blocks |
| `job`, `tx` | per block, how far the closure of the parallel iterator is, and its random transaction |
| `created`, `data` | `data.csv`: who created it, and its lines |
| `header`, `buffer` | the CSV writer: column names still to be written, and what is not flushed |
| `returned` | the sessions that returned `Ok` |

`Start` checks the arguments and draws the blocks, `Open` is `create_csv_writer`,
`FindBytecodes` and `Compile` stand for what AotStore and Dispatch do,
`Begin`/`Simulate`/`WriteMeasurement` are `process_single_block` on at most
`Threads` workers, `EndPhase` is the `collect::<Result<_>>()?` of the two phases.
A worker may fail (the phase ends early, workers at work go on) or panic (thrown
again when they are done); a session may crash anywhere.  What a simulation
computes is in BlockSim; here it succeeds, fails, or panics where the arguments
make it (`drain` beyond the end, an index beyond the list, a warm-up of zero).

`MeasurementLog` is what the readers of `data.csv` see: a log of sessions that only
grows, with one line per session, phase and block, a compiled phase that begins
when the native one is complete, and a session that succeeds when the compiled
one is.  Workers, the writer's buffer, what is flushed when, panics and crashes
do not appear in it.  `BlockRange` implements it under the mapping in `Log`.

Properties: `HeaderOfCreator`, `CompiledIsPaired` (a compiled record has a native
partner), `CompleteWhenDone`, `WrittenIsKept`, `SampleSound`, `Reproducible` (same
seed and arguments, same blocks and transactions), `ImplementsLog` (the
refinement), `SessionEnds`.

### MC modules and mutants

`MCAotStore`, `MCJitContext`, `MCDispatch`, `MCBlockSim`, `MCGasGuzzlers` and
`MCBlockRange` give TLC model values, symmetry sets and tables.  A definition commented "Mutant of X" is X with
a plausible mistake, used to see that a property notices it; it is part of no
specification.

## 3. Runs

| Run | Result | What it shows |
|---|---|---|
| `aot_race` | pass | two processes on one entry, any call failing, torn objects, silent linkers: `PoisonExplained`; with weak fairness `Answered` |
| `aot_crash` | pass | one process at a time that may die or fail anywhere: `FreshIsLoaded`, `InterpretedArePoisoned`, `StaysPoisoned`, refinement of `WriteOnceCache` |
| `aot_selected` | violation | two processes, no fault: `SelectedAreCompiled` fails (README `selected`) |
| `aot_level` | violation | one process, two levels: the second run executes the first one's functions |
| `jit` | pass | up to three chunks, failing anywhere, reduced in any grouping; two execution contexts; refinement of `FunctionPool` |
| `dispatch` | pass | all properties of Dispatch |
| `dispatch_called` | violation | code replaced since the block: a called contract is interpreted |
| `sim` | pass | all callers, all parts, refused transactions, failing reads; refinement of `RepeatableRun` |
| `sim_top` | violation | `bench block --tob-block-chunk` panics in the check |
| `sim_random` | violation | `block-range --run-rnd-txs` compares with the receipt of another transaction |
| `gas` | pass | two blocks, their reduction, the report and the list |
| `range` | pass | two sessions on one file, thirteen argument lists, two workers, all faults; refinement of `MeasurementLog` |

Bounds.  AotStore: two contracts and two processes are enough for one task to
fail while another goes on and for two tasks to meet on one entry; `aot_race`
has one contract, because processes meet entry by entry; its processes do not die,
since a dead one is answered by nobody (the other faults are all there).  `LinkAttempts` is 2
instead of 10: a first, a last and an exhausted attempt all occur.  In
`aot_crash` the processes follow one another, because two linkers on one path
may rewrite a published file, which the abstract store forbids.  JitContext: up
to five contracts in chunks of two (instead of ten) are three chunks, so a
reduction has a left and a right grouping, the last chunk is short and a contract
repeats across chunks; two execution contexts are a first and a last owner.
Dispatch: five events and depth three hold a creation inside a call inside a
call, a delegate call, and a call after a return; two addresses and two codes
hold a code that sits at both addresses and one that changes.  BlockSim: four
transactions of two senders in turn give each sender a predecessor and a
successor, `WarmUps` is 2 instead of 5, at most three measured runs.
GasGuzzlers: five calls, creations and units of gas (`MaxGas`) over two blocks,
so one block may have all of them or the two share them.  BlockRange: blocks of
two, no and one transaction; two sessions are one that creates the file and one
that finds it; the argument lists hold every part, empty ranges, refused ones,
samples with and without a blacklist, random transactions with and without a
seed, a part that rounds to nothing and one beyond the block; the shuffles are
the identity and the reverse.  Deadlock is checked for AotStore and JitContext,
where nothing may be stuck before the end (`Ended`); the other systems end.

Fairness.  `FairSpec` of AotStore has weak fairness on what a process does by
itself once asked: rayon runs a ready task eventually, and the model has no other
scheduling.  Starting and leaving are not fair.  That the linker returns is part
of it: a linker that hangs hangs the toolkit.  BlockRange has weak fairness on
`Work`, the steps of the session and its workers, for the same reason; that a new
session starts, or that one crashes, is not fair.  All other properties are safety
properties.

## 4. Proofs

Each proof module holds one inductive invariant, one lemma per action, and the
theorems.  All of them are for any values of the constants that satisfy the
module's `ASSUME`s; further assumptions are named.

`AotStoreProofs` (any contracts, processes, levels):

* `TypeCorrect`: `TypeOK` is not inductive, since nothing in it bounds `tries`
  where the loop counts; `BaseInv` adds that tasks fit the program counter of
  their process and that a task before its link has an attempt left.
* `PoisonIsExplained`: `PoisonExplained` for all faults, provided that contracts are
  linked at all (`~NoLink`).  `StoreInv` says of each entry that is not suspect
  (`EntryOK`) that at most one process is at its files, that nothing of it is torn,
  that an unfinished shared object has a linker at work, and that an entry without
  one has a task that is bound to link it; the argument is about all processes at
  once, as one of them may finish an entry that another one skips.
* `SelectedRunCompiled`: a process alone on the directory (`Alone`), under
  `SoundFaults` and with a working loader, executes everything it asked for
  compiled (`NamedInv`, `LoadedInv`).  `SoundFaults` says that contracts are linked
  (`~NoLink`), that no more than the listing, `mkdir` and `dlopen` may fail (no crash,
  no failing translation, since that may leave a dump, no failing object or linker), and
  that the linker is silent fewer times than the loop has turns; then nothing ever
  becomes suspect (`Unsuspected`).  With two processes the run `aot_selected`
  refutes it.
* `InterpretedWasLeft`: `InterpretedArePoisoned` when alone and the loader works
  (`DroppedInv`).
* `FreshIsExecuted`: `FreshIsLoaded` when alone, linking, and the loader works,
  with any crashes and failures (`FreshInv`).
* `PoisonIsForever`: without listing faults no step of any process repairs an
  entry left half made.

* `StoreIsCache`, the refinement `Spec => ImplementsCache` for a process that is
  alone and can list.  `CacheInv` says that no task before its link works on a
  published entry, and that what was read is what is published; every step then
  is a step of the cache or a stutter.

`JitContextProofs` (any list, chunk size, execution contexts): `JitInv` gives each
wrapper one owner (a partial result, the shared reference, or its destructor) and
keeps functions with their wrapper: `FreedOnce`, `NeverDangling`,
`ContextsOutlive`.  `ListInv` adds that partial results cover disjoint spans of
ended chunks, that a good one has a last function for each contract of its span and
a bad one nothing but a failed chunk, and that no wrapper is forgotten:
`AllFunctionsOrNone`, `LeaksAreOfFailures`.  `DroppedInv` says that a wrapper dropped
during the reduction leaves an error behind, so that no usable table lost one:
`FunctionsArePool`, the refinement `Spec => ImplementsPool`.

`DispatchProofs` (any addresses, codes, depth): `TraceInv` says that the second
execution is on the trace of call stacks and codes of the first, so that what is
called then had been touched; `FrameInv`, `RanInv`, `CounterInv` tie frames,
executions and counters to the table of functions, which is constant:
`DispatchTypes`, `OneEnginePerFrame`, `NativeIsExplained`, `CountersPure`.  The
check adds up all counters: `CheckTouches` compares two folds with zero, and both
are sums of counters none of which is negative, so that one is zero exactly when
no address has a run of that kind: `VerdictIsHonest`.

`BlockSimProofs` (any block, dependencies, refused transactions): `SimInv` says
what the database holds in each phase (`DbInv`), hence what a transaction can
see, and that a run that fails before its first transaction leaves it alone: `SimTypes`, `ResultsCanonical`, `MeasuredWhole`, `RunsCompareAll`,
`SpoiltStays`.  `SimulationRepeats` is the refinement `Spec => RunIsRepeatable`:
results are the beginning of the part's receipts (`PartOfReceipts`), all of them
when a run ends well, and `SpoiltForever` of a step is what keeps a spoilt
simulation from answering.

`GasGuzzlersProofs` (any blocks, addresses, call trees): the ghost functions
`Innermost` and `Counted` relate revm's stack, with creations, to the
inspector's, without them; a sum over the frames (kept as a function, not as a
recursive definition) balances gas, deficit and own spending: `UsageTypes`,
`NetIsOwnGas`.  The same counting of calls below a frame gives `InspectorFollows`.

`GasReportProofs` (built on `GasInv`): a part of the reduction stands for the
blocks it is from.  `PartsInv` says that, by address, its gas minus its deficit is
the sum of what the address spent in these blocks, none of which executes any more;
`StatsInv` that the report holds the same sum by bytecode, over all blocks and all
holders, and nothing for any bytecode if there is nothing in all; `CallsInv` that an address with usage was called, so that there are no
fewer calls than addresses and no fewer addresses than bytecodes; `TopInv` that a
selection is the beginning of a ranking, and that a panic comes with a total of
nothing: `ReportAccountsForAll`, `TopSpentMost`,
`DefaultIsAll`.

`SumTheorems` is about no component: it holds what the last three need of sums over
finite sets.  The library's induction theorems cannot be used (they take an
operator), so `SubsetInduction` is proved from `Minimal`: a nonempty set of subsets
of a finite set has a member none of whose proper subsets is in it.  `SumOf(F, f, S)` says
that F is the sum of f over the subsets of S, whichever element is taken out
first.  The fold of the community modules takes out the one `CHOOSE` gives;
`UnfoldsSum` shows that it is a sum nevertheless, `SumExists` that every f has one,
and `SumDisjoint`, `SumPlus`, `SumWithout`, `SumColumns` how sums are split,
added, freed of zeros, and arranged by columns.

`BlockRangeProofs` (any chain, arguments, seeds, workers, sessions, faults):
`RangeInv` is about the file with the writer's buffer appended (`HeadInv`), what
each worker leaves in it (`JobInv`) and the completeness of the native phase
(`PairInv`): `RangeTypes`, `HeaderIsCreators`, `CompiledHasNative`, `RecordsStay`.
Built on it: a shuffle is a bijection, so a
sample has the size of what is taken: `SamplesAreSound`.  `RecordInv` says that no
two lines of the file and the buffer are of the same session, phase and block, and
none is of a block that the worker has still to finish: `CompleteIsComplete`.
`SeedInv` says that the blocks and transactions of seeded sessions, in the file and
in progress, are functions of the seed and the arguments: `SeedsReproduce`.
`PendingInv` says that the buffer holds records only while a phase runs or has
gone wrong, so that a native phase without an error has all its lines in the file
itself; with `RecordInv`, for lines that are not there yet, and the completeness of a phase
(`JobInv`, `PairInv`) every step is a step of the log or a stutter: `FileIsLog`,
the refinement `Spec => ImplementsLog`.

Assumed of constants is what the `ASSUME`s of the modules say: in Dispatch and
GasGuzzlers that addresses and blocks are finite sets (an address has 20 bytes, a
sample of blocks is a vector), elsewhere that tables fit and that numbers are
natural.

Only model-checked: `Answered` and `SessionEnds`, liveness under fairness, which is
out of the prover's reach.  Every invariant and every action property of the
passing runs is proved.

## 5. Where code and documentation disagree

1. **`selected` with two processes** (`lib.rs:21`, `fn_loader.rs:37-40`):
   repository README line 10 says all called contracts are compiled; a contract whose
   entry another process is still filling is skipped, not loaded, and
   interpreted.  Run `aot_selected`.  After a crash or a failed object file the
   same happens for good (`StaysPoisoned`).
2. **Optimization level** (`lib.rs:21`, `bin/bench/src/cli.rs:159`): the entry is named by the
   bytecode only.  Run `aot_level`.
3. **Latest code** (`bytecode_touches.rs:46,66`): called contracts whose code
   changed since are interpreted.  Run `dispatch_called`.
4. **Top of a block** (`benches.rs:60,293`, `bench.rs:93`): index out of bounds.
   Run `sim_top`.
5. **Random transaction** (`benches.rs:293`): compared with the receipt of the
   first transaction.  Run `sim_random`.

Also met while modelling, and part of the models as the code has it:

* a blacklist counts only together with a sample size (`cli.rs:157` against `:198`);
* `--bob-block-chunk` gives the share that is left out, not the share that is used:
  `cli.rs:147` against `sim_builder.rs:292-295`;
* the random transaction is drawn from a prefix of the block for both kinds of
  chunk (`cli.rs:154` against `benches.rs:350`), without a seed it differs between
  the native and the compiled phase, and with one seed all blocks of the same
  length use the same index;
* a session that creates `data.csv` and writes nothing leaves a file to which all
  later ones append without column names (`HeaderOfCreator` says exactly when),
  and each session overwrites `config.json` (`benches.rs:409-416`);
* without `--comp-opt-level` a block range compiles at level 0 (`cli.rs:278`), the other
  commands at `Default` (`utils.rs:19`, `benches.rs:38`);
* two processes on one entry may leave it half made for good without any fault: one
  opens the object while the other one writes it, and both linkers refuse what came
  of it (`PoisonExplained` says when);
* the JIT's dump may leave a directory `compile_many` in the output directory, a
  name that `load_all` refuses.

## 6. State of the plan

Done, in the order of the plan: AotStore, Dispatch, BlockSim, GasGuzzlers,
JitContext, BlockRange, and proofs for each; an abstract specification for AotStore,
BlockSim, JitContext and BlockRange, each with a proof that it is implemented.

Left: the integer widths of `measure_execution_time` (`bench.rs:21`) and of the
range arguments of the gas guzzlers (`gas_guzzlers.rs:312`) as operators.

Not modelled, and why:

* the compiler and the linker themselves, revm's instructions and gas schedule,
  reth's database: other projects; they appear by what this code relies on;
* floating point: proportions are fractions in BlockRange; of the shares that
  `gas_guzzlers.rs:192-208` computes only their order is modelled, and that the sort
  panics on NaN (`Top` with the outcome "panicked");
* a flush that writes part of a line, and several sessions at once on one file:
  nothing in the code orders them, every outcome is possible;
* the u32 product of `measure_execution_time`, the underflow for the genesis block
  (`sim_builder.rs:104`) and for a short chain (`gas_guzzlers.rs:312`): one
  expression each, with nothing to interleave;
* call simulation (`into_call_sim`, `bench_call`, `run_call`): one contract on a
  fresh database that no run commits to; its functions are shared as in JitContext;
* argument parsing, defaults from the environment, printing, logging, notebooks.
