------------------------------ MODULE BlockSim ------------------------------
(***************************************************************************)
(* The simulation of (a part of) a block, and its three callers.           *)
(*                                                                         *)
(* A Simulation is built on the state before the block: the transactions   *)
(* ahead of the simulated part are executed once (pre-execution), and      *)
(* every run then executes the part and puts the database back, unless a   *)
(* transaction could not be executed: then the error is returned and the   *)
(* database stays as the run left it.  The callers run it for timing       *)
(* (time_fn, criterion, measure_execution_time) and once for               *)
(* check_tx_sim_validity, which compares results with receipts:            *)
(*   "run"    run_tx, run_block: time, then check; an error ends the run   *)
(*   "bench"  bench_variant: check, which may end it; then measure         *)
(*   "range"  process_single_block: check, keep the error; measure; record *)
(*                                                                         *)
(* The block's transactions are 1 .. N.  The database is the set of the    *)
(* block's transactions committed to it; a transaction is executable on it *)
(* when its nonce fits, and its result (gas and success) is decided by     *)
(* which of the transactions it depends on were committed before it.       *)
(***************************************************************************)
EXTENDS Naturals, Sequences

CONSTANTS
    N,              \* transactions in the block
    Sender,         \* Sender[i]: who signed transaction i
    DependsOn,      \* DependsOn[i]: earlier transactions that decide the result of i
    MayReject,      \* transactions the EVM may always refuse here (fee cap, fork rules)
    MayFail,        \* reading the historical state may fail now and then
    Callers,        \* which callers there are
    Kinds,          \* which parts of the block they simulate
    WarmUps,        \* runs of time_fn before the one it times, 5 in the code
    MaxMeasured     \* bound: measured runs

Txs == 1 .. N

ASSUME BlockSimAssumption ==
    /\ N \in Nat \ {0}
    /\ DOMAIN Sender = Txs
    /\ DependsOn \in [Txs -> SUBSET Txs]
    /\ \A i \in Txs : \A j \in DependsOn[i] : j < i
    /\ MayReject \subseteq Txs
    /\ MayFail \in BOOLEAN
    /\ Callers \subseteq {"run", "bench", "range"}
    /\ Kinds \subseteq {"block", "tob", "bob", "tx"}
    /\ WarmUps \in Nat /\ MaxMeasured \in Nat

VARIABLES
    pc,         \* what the caller is doing
    caller,     \* who it is
    rejected,   \* the transactions that are always refused
    transient,  \* whether reads may fail
    first, last,    \* the simulated transactions: first .. last
    checkFirst, checkLast,  \* the transactions whose receipts are compared
    db,         \* transactions committed to the database of the evm
    prev_db,    \* Simulation::run's copy
    pos,        \* the next transaction of sim_txs
    results,    \* what the run has returned so far: <<transaction, seen>>
    use,        \* what the run is for: "time", "check" or "measure"
    runs,       \* how many runs of that use have ended
    whole,      \* how many of them executed every transaction
    compared,   \* results the check has compared
    err         \* the check's error, as the record keeps it

world    == <<caller, rejected, transient>>
simVars  == <<first, last, checkFirst, checkLast, world>>
runVars  == <<db, prev_db, pos, results>>
tally    == <<use, runs, whole>>
vars     == <<pc, simVars, runVars, tally, compared, err>>

PcValues == {"start", "pre", "ready", "running", "ended", "broken",
             "comparing", "recorded", "done", "aborted", "panicked"}

TypeOK ==
    /\ pc \in PcValues
    /\ caller \in {"run", "bench", "range"}
    /\ rejected \subseteq Txs /\ transient \in BOOLEAN
    /\ first \in 1 .. N + 1 /\ last \in 0 .. N
    /\ checkFirst \in 1 .. N + 1 /\ checkLast \in 0 .. N
    /\ db \subseteq Txs /\ prev_db \subseteq Txs
    /\ pos \in 1 .. N + 1
    /\ results \in Seq(Txs \X SUBSET Txs) /\ Len(results) <= N
    /\ use \in {"time", "check", "measure"}
    /\ runs \in Nat /\ whole \in 0 .. runs
    /\ compared \in 0 .. N
    /\ err \in BOOLEAN

Init ==
    /\ pc = "start"
    /\ caller \in Callers
    /\ rejected \in SUBSET MayReject
    /\ transient \in {FALSE, MayFail}
    /\ first = 1 /\ last = N /\ checkFirst = 1 /\ checkLast = N
    /\ db = {} /\ prev_db = {} /\ pos = 1 /\ results = <<>>
    /\ use = "check" /\ runs = 0 /\ whole = 0
    /\ compared = 0 /\ err = FALSE

-----------------------------------------------------------------------------
(* Building the simulation.                                                *)

\* BlockPart::split_txs and into_tx_sim: the simulated transactions, as
\* <<first, last>>; the ones before the first are pre-executed.  k is the
\* chunk size split_txs computes, or the index of a transaction.
Part(kind, k) ==
    CASE kind = "block" -> <<1, N>>
      [] kind = "tob"   -> <<1, k>>
      [] kind = "bob"   -> <<k + 1, N>>
      [] kind = "tx"    -> <<k, k>>

\* Mutant of CheckedPart: run_block compares the whole block, like the others.
CheckedWhole(kind, k) == IF kind = "tx" THEN <<k, k>> ELSE <<1, N>>

\* The hashes each caller gives to the check.
CheckedPart(kind, k) ==
    IF caller = "run" \/ (caller = "bench" /\ kind = "tx") THEN Part(kind, k)
                                                           ELSE <<1, N>>

Build(kind, k) ==
    /\ pc = "start"
    /\ kind = "tx" => k > 0
    /\ first' = Part(kind, k)[1] /\ last' = Part(kind, k)[2]
    /\ checkFirst' = CheckedPart(kind, k)[1] /\ checkLast' = CheckedPart(kind, k)[2]
    /\ use' = IF caller = "run" THEN "time" ELSE "check"
    /\ pc' = "pre"
    /\ UNCHANGED <<world, runVars, runs, whole, compared, err>>

\* The nonce of i is the number of its sender's transactions before it.
NonceFits(i) ==
    {j \in db : Sender[j] = Sender[i]} = {j \in Txs : j < i /\ Sender[j] = Sender[i]}

Executable(i) == NonceFits(i) /\ i \notin rejected

\* sim_txs, one transaction: executed and committed, or an error.
Commits(i) == Executable(i) /\ db' = db \cup {i}
Fails(i)   == (transient \/ ~Executable(i)) /\ UNCHANGED db

\* sim_txs reads the account of the coinbase before its first transaction,
\* and even if there is none: an empty part fails here or not at all.
NoCoinbase ==
    /\ transient
    /\ \/ pc = "pre" /\ pos = 1 /\ pc' = "aborted"
       \/ pc = "running" /\ pos = first /\ pc' = "broken"
    /\ UNCHANGED <<simVars, runVars, tally, compared, err>>

PreTx ==
    /\ pc = "pre" /\ pos < first
    /\ \/ Commits(pos) /\ pos' = pos + 1 /\ UNCHANGED pc
       \/ Fails(pos) /\ pc' = "aborted" /\ UNCHANGED pos
    /\ UNCHANGED <<simVars, prev_db, results, tally, compared, err>>

\* Mutant of Built: what is ahead of the part is not pre-executed.
BuiltAtOnce ==
    /\ pc = "pre"
    /\ pc' = "ready"
    /\ UNCHANGED <<simVars, runVars, tally, compared, err>>

Built ==
    /\ pc = "pre" /\ pos >= first
    /\ pc' = "ready"
    /\ UNCHANGED <<simVars, runVars, tally, compared, err>>

-----------------------------------------------------------------------------
(* Simulation::run.                                                        *)

\* What the result of i shows of the database it was executed on.
Seen(i) == <<i, db \cap DependsOn[i]>>

\* Mutant of StartRun: the results of the run before are still there.
StartRunKeeps ==
    /\ pc = "ready"
    /\ use = "measure" => runs < MaxMeasured
    /\ pc' = "running"
    /\ prev_db' = db /\ pos' = first
    /\ UNCHANGED <<simVars, db, results, tally, compared, err>>

StartRun ==
    /\ pc = "ready"
    /\ use = "measure" => runs < MaxMeasured
    /\ pc' = "running"
    /\ prev_db' = db /\ pos' = first /\ results' = <<>>
    /\ UNCHANGED <<simVars, db, tally, compared, err>>

\* Mutant of RunTx: a transaction that does not fit is skipped.
RunTxSkips ==
    /\ pc = "running" /\ pos <= last
    /\ \/ /\ Commits(pos) /\ pos' = pos + 1
          /\ results' = Append(results, Seen(pos))
          /\ UNCHANGED pc
       \/ /\ ~Executable(pos) /\ pos' = pos + 1
          /\ UNCHANGED <<pc, db, results>>
       \/ transient /\ pc' = "broken" /\ UNCHANGED <<pos, db, results>>
    /\ UNCHANGED <<simVars, prev_db, tally, compared, err>>

RunTx ==
    /\ pc = "running" /\ pos <= last
    /\ \/ /\ Commits(pos) /\ pos' = pos + 1
          /\ results' = Append(results, Seen(pos))
          /\ UNCHANGED pc
       \/ Fails(pos) /\ pc' = "broken" /\ UNCHANGED <<pos, results>>
    /\ UNCHANGED <<simVars, prev_db, tally, compared, err>>

\* Mutant of EndRun: the database is not put back.
EndRunKeeps ==
    /\ pc = "running" /\ pos > last
    /\ pc' = "ended"
    /\ UNCHANGED <<simVars, runVars, tally, compared, err>>

EndRun ==
    /\ pc = "running" /\ pos > last
    /\ pc' = "ended"
    /\ db' = prev_db
    /\ UNCHANGED <<simVars, prev_db, pos, results, tally, compared, err>>

-----------------------------------------------------------------------------
(* The callers.                                                            *)

\* time_fn: the error of any run is returned.
Time ==
    /\ use = "time" /\ pc \in {"ended", "broken"}
    /\ runs' = runs + 1
    /\ whole' = whole + IF pc = "ended" THEN 1 ELSE 0
    /\ pc' = IF pc = "broken" THEN "aborted" ELSE "ready"
    /\ use' = IF runs' > WarmUps THEN "check" ELSE "time"
    /\ UNCHANGED <<simVars, runVars, compared, err>>

\* The end of the check, for better or worse.
Checked(failed) ==
    /\ err' = failed
    /\ use' = "measure" /\ runs' = 0 /\ whole' = 0
    /\ pc' = CASE failed /\ caller # "range"     -> "aborted"
               [] ~failed /\ caller = "run"      -> "done"
               [] OTHER                          -> "ready"
    /\ UNCHANGED <<simVars, runVars>>

\* check_tx_sim_validity starts with a run of its own.
CheckRun ==
    /\ use = "check"
    /\ \/ pc = "broken" /\ Checked(TRUE) /\ UNCHANGED compared
       \/ /\ pc = "ended" /\ pc' = "comparing" /\ compared' = 0
          /\ UNCHANGED <<simVars, runVars, tally, err>>

\* The receipt of i is what the chain's own execution of the block gave.
Receipt(i) == <<i, DependsOn[i]>>

\* Different transactions may well agree in gas and success.
Agrees(result, receipt) ==
    IF result[1] = receipt[1] THEN {result = receipt} ELSE BOOLEAN

\* sim_results[i] against the receipt of the i-th hash; an index out of
\* bounds panics.
Compare ==
    /\ pc = "comparing" /\ checkFirst + compared <= checkLast
    /\ IF compared >= Len(results)
       THEN pc' = "panicked" /\ UNCHANGED <<simVars, runVars, tally, compared, err>>
       ELSE \E agrees \in Agrees(results[compared + 1], Receipt(checkFirst + compared)) :
                \/ /\ agrees /\ compared' = compared + 1
                   /\ UNCHANGED <<pc, simVars, runVars, tally, err>>
                \/ ~agrees /\ Checked(TRUE) /\ UNCHANGED compared

\* All agree; the counters of Dispatch may still be refused.
CompareDone ==
    /\ pc = "comparing" /\ checkFirst + compared > checkLast
    /\ \E refused \in BOOLEAN : Checked(refused)
    /\ UNCHANGED compared

\* criterion and measure_execution_time drop the result of a run.
Measure ==
    /\ use = "measure" /\ pc \in {"ended", "broken"}
    /\ runs' = runs + 1
    /\ whole' = whole + IF pc = "ended" THEN 1 ELSE 0
    /\ pc' = "ready"
    /\ UNCHANGED <<simVars, runVars, use, compared, err>>

Record ==
    /\ use = "measure" /\ pc = "ready" /\ runs > 0
    /\ pc' = IF caller = "range" THEN "recorded" ELSE "done"
    /\ UNCHANGED <<simVars, runVars, tally, compared, err>>

Next ==
    \/ \E kind \in Kinds, k \in 0 .. N : Build(kind, k)
    \/ NoCoinbase \/ PreTx \/ Built
    \/ StartRun \/ RunTx \/ EndRun
    \/ Time \/ CheckRun \/ Compare \/ CompareDone \/ Measure \/ Record

Spec == Init /\ [][Next]_vars

-----------------------------------------------------------------------------
(* Properties.                                                             *)

\* Whatever failed before, a result that a run returns is the one the chain
\* had: a database that lacks or repeats a transaction ends the run by a
\* nonce before it can bend the result of another one.
CanonicalResults == \A k \in DOMAIN results : results[k] = Receipt(first + k - 1)

\* The database that the next run starts from is not the pre-executed one.
Spoilt ==
    /\ pc \notin {"start", "pre"}
    /\ (IF pc = "running" THEN prev_db ELSE db) # 1 .. first - 1

\* Simulation::run returns early on an error and leaves the database as it
\* is.  Once that happened to a later transaction of the part, no run of
\* this simulation is ever whole again, although the callers go on.
SpoiltForever == [][Spoilt => Spoilt' /\ whole' <= whole]_vars

\* Each run that is measured after a successful check executes the whole
\* part, as the checked run did: without transient faults run leaves
\* nothing behind that the next run would trip over.
MeasuredAreWhole ==
    ~transient /\ use = "measure" /\ ~err => whole = runs

\* check_tx_sim_validity holds each result against the receipt of the
\* transaction it belongs to ("gas-used mismatch for {tx_hash}").
ComparesOwnReceipt ==
    pc = "comparing" =>
        \A k \in DOMAIN results : results[k][1] = checkFirst + k - 1

\* A benchmark of the top or the bottom of a block runs to its end, or
\* returns an error.
NoPanic == pc # "panicked"

\* run_tx and run_block give the check exactly the hashes of what they
\* simulate, whatever part that is: each result is held against its own
\* receipt, and none is left out or looked for in vain.
RunComparesAll ==
    caller = "run" =>
        /\ NoPanic /\ ComparesOwnReceipt
        /\ pc = "comparing" => Len(results) = checkLast + 1 - checkFirst
        /\ pc = "done" => compared = last + 1 - first

\* A simulation that callers can use, from its construction to its drop.
Usable == pc \in {"ready", "running", "ended", "comparing", "broken"}

\* To its callers, Simulation::run is one repeatable operation: it answers
\* with the chain's results for all of its part, or with an error, which
\* spoils the simulation when it came after the first transaction; and a
\* spoilt one answers with errors only.
Repeatable == INSTANCE RepeatableRun WITH
    Chain    <- [i \in Txs |-> Receipt(i)],
    state    <- CASE pc \in {"start", "pre"}       -> "none"
                  [] pc = "ready"                  -> "idle"
                  [] pc = "running"                -> "busy"
                  [] pc \in {"ended", "comparing"} -> "answered"
                  [] pc = "broken"                 -> "failed"
                  [] OTHER                         -> "gone",
    expected <- IF Usable THEN SubSeq([i \in Txs |-> Receipt(i)], first, last) ELSE <<>>,
    answer   <- IF pc \in {"ended", "comparing"} THEN results ELSE <<>>,
    spoilt   <- Usable /\ Spoilt

RunIsRepeatable == Repeatable!Spec
=============================================================================
