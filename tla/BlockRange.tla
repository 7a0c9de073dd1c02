----------------------------- MODULE BlockRange -----------------------------
(***************************************************************************)
(* The benchmark of a range of blocks and its file of measurements.        *)
(*                                                                         *)
(* A session (one start of `bench block-range`) draws the blocks, opens    *)
(* data.csv, finds the bytecodes, and has the workers of rayon measure     *)
(* each block, first natively and then compiled.  A worker creates the     *)
(* simulation, checks it, times it, and appends a record to the file under *)
(* a mutex.  The first error stops the phase, and a panic is thrown again  *)
(* when the workers are done: either ends the session.  Sessions with the  *)
(* same label append to the same file; only the one that creates it writes *)
(* the line of column names.                                               *)
(*                                                                         *)
(* What happens inside a simulation is in BlockSim.  Proportions of a      *)
(* block are fractions; the code computes with f32.                        *)
(***************************************************************************)
EXTENDS Integers, Sequences, FiniteSets

CONSTANTS
    TxCount,        \* TxCount[b]: transactions in block b
    Arguments,      \* what a session may be asked for
    NoSample,       \* no --sample-size
    Header,         \* the line of column names in data.csv
    Shuffles,       \* what shuffles make of a set of numbers, a function per seed
    Threads,        \* workers of rayon's pool
    MaxSessions,    \* bound: sessions
    Faults          \* "open", "bytecodes", "compile", "sim", "write", "crash"

Block == DOMAIN TxCount

\* BlockRangeArgs: blocks start .. end-1, or a sample of them, each whole or
\* in part (num/den of it) or by one random transaction.
Argument ==
    [start : Nat, end : Nat, sample : Nat \cup {NoSample}, blacklist : SUBSET Nat,
     run_rnd_txs : BOOLEAN, seeded : BOOLEAN,
     part : {"none", "tob", "bob"}, num : Nat, den : Nat \ {0}, warmup_ms : Nat]

\* create_rnd_tx_sim: how many transactions are drawn from; `as usize` cuts
\* off fractions and makes negative numbers zero.
TxsLen(a, b) ==
    CASE a.part = "none" -> TxCount[b]
      [] a.part = "tob"  -> (TxCount[b] * a.num) \div a.den
      [] a.part = "bob"  -> IF a.num > a.den THEN 0
                            ELSE (TxCount[b] * (a.den - a.num)) \div a.den

ASSUME BlockRangeAssumption ==
    /\ Block \subseteq Nat /\ TxCount \in [Block -> Nat]
    /\ NoSample \notin Nat
    /\ Header \notin [session : Nat, run_type : {"native", "aot"}, block : Block, tx : Nat]
    /\ Arguments \subseteq Argument
    /\ \A a \in Arguments : a.start .. a.end - 1 \subseteq Block
    /\ Threads \in Nat \ {0}
    /\ MaxSessions \in Nat

ASSUME ShufflesAssumption ==
    \A dice \in Shuffles :
        /\ \A S \in DOMAIN dice :
              /\ dice[S] \in [1 .. Cardinality(S) -> S]
              /\ \A x \in S : \E k \in 1 .. Cardinality(S) : dice[S][k] = x
        /\ \A a \in Arguments :
              /\ SUBSET (a.start .. a.end - 1) \subseteq DOMAIN dice
              /\ \A b \in Block : 1 .. TxsLen(a, b) \in DOMAIN dice

VARIABLES
    seed,       \* the shuffles that --rnd-seed stands for
    asked,      \* asked[s]: the arguments of session s
    pc,         \* what the last session is doing
    block_iter, \* its blocks
    job,        \* job[b]: how far the worker for b is in this phase
    tx,         \* tx[b]: the transaction it simulates, 0 for the block
    created,    \* the session that created data.csv, 0 when there is no file
    header,     \* whether the writer has still to write the column names
    buffer,     \* lines in the writer's buffer
    data,       \* lines of data.csv
    returned    \* the sessions that returned Ok

fileVars == <<created, header, buffer, data>>
vars == <<seed, asked, pc, block_iter, job, tx, fileVars, returned>>

session == Len(asked)
args == asked[session]

Record == [session : Nat, run_type : {"native", "aot"}, block : Block, tx : Nat]

\* A record never names a transaction that its block does not have.
TypeOK ==
    /\ seed \in Shuffles
    /\ asked \in Seq(Arguments)
    /\ pc \in {"idle", "opening", "opened", "native", "compile", "aot"}
    /\ block_iter \subseteq Block
    /\ job \in [Block -> {"waiting", "sim", "measured", "written", "skipped",
                          "failed", "panicked"}]
    /\ tx \in [Block -> Nat] /\ \A b \in Block : tx[b] <= TxCount[b]
    /\ created \in 0 .. session
    /\ header \in BOOLEAN
    /\ buffer \in Seq(Record \cup {Header})
    /\ data \in Seq(Record \cup {Header})
    /\ returned \subseteq 1 .. session

Init ==
    /\ seed \in Shuffles
    /\ asked = <<>> /\ pc = "idle" /\ returned = {}
    /\ block_iter = {}
    /\ job = [b \in Block |-> "waiting"] /\ tx = [b \in Block |-> 0]
    /\ created = 0 /\ header = FALSE /\ buffer = <<>> /\ data = <<>>

-----------------------------------------------------------------------------
(* Random choices.                                                         *)

\* Mutant of Dice: the generator is always seeded from entropy.
DiceOfEntropy(seeded) == Shuffles

\* How a Vec is shuffled: with a seed always the same way.
Dice(seeded) == IF seeded THEN {seed} ELSE Shuffles

Least(m, n) == IF m <= n THEN m ELSE n

\* The first elements of S after the shuffle, `size` of them if there are.
Taken(S, size, dice) == {dice[S][k] : k \in 1 .. Least(size, Cardinality(S))}

\* Mutant of Drawn: the blacklist is applied after `size` elements are taken.
DrawnUnfiltered(S, blacklist, size, seeded) ==
    {Taken(S, size, dice) \ blacklist : dice \in Dice(seeded)}

\* random_sequence_with_blacklist: what may be drawn.
Drawn(S, blacklist, size, seeded) ==
    {Taken(S \ blacklist, size, dice) : dice \in Dice(seeded)}

\* The blacklist only counts with a sample size.
BlockIters(a) ==
    LET range == a.start .. a.end - 1
    IN  IF a.sample = NoSample THEN {range}
        ELSE Drawn(range, a.blacklist, a.sample, a.seeded)

-----------------------------------------------------------------------------
(* The session.                                                            *)

\* TryInto<BlockRangeArgs>; arguments that are refused start nothing.
Start(a) ==
    /\ pc = "idle" /\ session < MaxSessions
    /\ a.start <= a.end
    /\ a.sample # NoSample => a.sample <= a.end - a.start
    /\ block_iter' \in BlockIters(a)
    /\ asked' = Append(asked, a)
    /\ pc' = "opening"
    /\ UNCHANGED <<seed, job, tx, fileVars, returned>>

Idle ==
    /\ pc' = "idle" /\ block_iter' = {}
    /\ job' = [b \in Block |-> "waiting"] /\ tx' = [b \in Block |-> 0]
    /\ header' = FALSE /\ buffer' = <<>>

\* The writer is dropped, which flushes what it still holds and tells nobody
\* if it cannot.
Leave ==
    /\ Idle
    /\ data' \in {data \o buffer} \cup (IF "write" \in Faults THEN {data} ELSE {})

Fail(phase, fault) ==
    /\ pc = phase /\ fault \in Faults
    /\ Leave
    /\ UNCHANGED <<seed, asked, created, returned>>

\* Mutant of Open: the column names are written without looking at the file.
OpenAlwaysHeads ==
    /\ pc = "opening" /\ pc' = "opened"
    /\ created' = IF created = 0 THEN session ELSE created
    /\ header' = TRUE
    /\ UNCHANGED <<seed, asked, block_iter, job, tx, buffer, data, returned>>

\* create_csv_writer: has_headers(!file_exists).
Open ==
    /\ pc = "opening" /\ pc' = "opened"
    /\ created' = IF created = 0 THEN session ELSE created
    /\ header' = (created = 0)
    /\ UNCHANGED <<seed, asked, block_iter, job, tx, buffer, data, returned>>

EnterPhase(phase) ==
    /\ pc' = phase
    /\ job' = [b \in Block |-> "waiting"] /\ tx' = [b \in Block |-> 0]
    /\ UNCHANGED <<seed, asked, block_iter, fileVars, returned>>

\* bytecodes_for_range; the native phase compiles nothing.
FindBytecodes == pc = "opened" /\ EnterPhase("native")

\* compiled_fns_for_run_type: all bytecodes compiled and loaded.
Compile == pc = "compile" /\ EnterPhase("aot")

-----------------------------------------------------------------------------
(* A block.                                                                *)

Active == {b \in block_iter : job[b] \in {"sim", "measured"}}
Wrong  == {b \in block_iter : job[b] \in {"failed", "panicked"}}

SetJob(b, state) == job' = [job EXCEPT ![b] = state]

\* split_txs: the rounded size, and how many transactions are simulated.
ChunkSize(b) == (TxCount[b] * args.num + args.den - 1) \div args.den
Simulated(b) ==
    CASE args.run_rnd_txs   -> 1
      [] args.part = "none" -> TxCount[b]
      [] args.part = "tob"  -> Least(ChunkSize(b), TxCount[b])
      [] args.part = "bob"  -> TxCount[b] - ChunkSize(b)

\* Mutant of InBounds: the index is held against what was drawn from.
InPool(b, k) == k <= TxsLen(args, b)

\* block.body[tx_index], k counting from one.
InBounds(b, k) == k <= TxCount[b]

\* random_sequence(0, txs_len, 1, seed)?[0] and body[tx_index] both panic
\* when there is nothing there.
CreateRndTxSim(b) ==
    IF TxCount[b] = 0 THEN SetJob(b, "skipped") /\ UNCHANGED tx
    ELSE \E drawn \in Drawn(1 .. TxsLen(args, b), {}, 1, args.seeded) :
            \/ /\ drawn = {} /\ SetJob(b, "panicked") /\ UNCHANGED tx
            \/ \E k \in drawn :
                  IF InBounds(b, k) THEN SetJob(b, "sim") /\ tx' = [tx EXCEPT ![b] = k]
                                    ELSE SetJob(b, "panicked") /\ UNCHANGED tx

\* drain(..chunk_size) panics beyond the end.
CreateBlockSim(b) ==
    /\ SetJob(b, IF args.part = "bob" /\ ChunkSize(b) > TxCount[b] THEN "panicked" ELSE "sim")
    /\ UNCHANGED tx

blockFrame == <<seed, asked, pc, block_iter, returned>>

\* Mutant of Begin: a block whose simulation cannot be created is skipped.
BeginSkips(b) ==
    /\ pc \in {"native", "aot"} /\ b \in block_iter /\ job[b] = "waiting"
    /\ Cardinality(Active) < Threads
    /\ \A x \in block_iter : job[x] # "failed"
    /\ \/ args.run_rnd_txs /\ CreateRndTxSim(b)
       \/ ~args.run_rnd_txs /\ CreateBlockSim(b)
       \/ "sim" \in Faults /\ SetJob(b, "skipped") /\ UNCHANGED tx
    /\ UNCHANGED <<blockFrame, fileVars>>

\* A worker takes the block, unless an error has stopped the phase.
Begin(b) ==
    /\ pc \in {"native", "aot"} /\ b \in block_iter /\ job[b] = "waiting"
    /\ Cardinality(Active) < Threads
    /\ \A x \in block_iter : job[x] # "failed"
    /\ \/ args.run_rnd_txs /\ CreateRndTxSim(b)
       \/ ~args.run_rnd_txs /\ CreateBlockSim(b)
       \/ "sim" \in Faults /\ SetJob(b, "failed") /\ UNCHANGED tx
    /\ UNCHANGED <<blockFrame, fileVars>>

\* The check, whose error is kept for the record, and the measurement.  The
\* check may panic when the block has more hashes than the simulation has
\* results; a warm-up of 0 ms is divided by.
Simulate(b) ==
    /\ job[b] = "sim"
    /\ \/ args.warmup_ms > 0 /\ SetJob(b, "measured")
       \/ args.warmup_ms = 0 /\ SetJob(b, "panicked")
       \/ Simulated(b) < TxCount[b] /\ SetJob(b, "panicked")
       \/ "sim" \in Faults /\ SetJob(b, "failed")
    /\ UNCHANGED <<blockFrame, tx, fileVars>>

Measurement(b) == [session |-> session, run_type |-> pc, block |-> b, tx |-> tx[b]]
Lines(b) == IF header THEN <<Header, Measurement(b)>> ELSE <<Measurement(b)>>

\* Mutant of WriteMeasurement: the writer is not flushed.
WriteUnflushed(b) ==
    /\ job[b] = "measured"
    /\ header' = FALSE
    /\ \/ SetJob(b, "written")
       \/ "write" \in Faults /\ SetJob(b, "failed")
    /\ buffer' = buffer \o Lines(b)
    /\ UNCHANGED <<blockFrame, tx, created, data>>

\* Mutant of WriteMeasurement: a write that failed is tried again.
WriteRetried(b) ==
    /\ job[b] = "measured"
    /\ header' = FALSE
    /\ \/ /\ SetJob(b, "written")
          /\ data' = data \o buffer \o Lines(b) /\ buffer' = <<>>
       \/ /\ "write" \in Faults /\ UNCHANGED job
          /\ buffer' = buffer \o Lines(b) /\ UNCHANGED data
    /\ UNCHANGED <<blockFrame, tx, created>>

\* write_measurement, under the mutex; what is not written stays in the
\* buffer.
WriteMeasurement(b) ==
    /\ job[b] = "measured"
    /\ header' = FALSE
    /\ \/ /\ SetJob(b, "written")
          /\ data' = data \o buffer \o Lines(b) /\ buffer' = <<>>
       \/ /\ "write" \in Faults /\ SetJob(b, "failed")
          /\ buffer' = buffer \o Lines(b) /\ UNCHANGED data
    /\ UNCHANGED <<blockFrame, tx, created>>

-----------------------------------------------------------------------------
(* The end of a phase.                                                     *)

\* Mutant of PhaseOver: waits for every block, also after an error.
PhaseOverWhenAll ==
    /\ pc \in {"native", "aot"} /\ Active = {}
    /\ \A b \in block_iter : job[b] # "waiting"

\* After an error or a panic, blocks may be left that nobody takes any more.
PhaseOver ==
    /\ pc \in {"native", "aot"} /\ Active = {}
    /\ (\A b \in block_iter : job[b] # "waiting") \/ Wrong # {}

\* Mutant of EndPhase: the errors of the native phase are not looked at.
EndPhaseAnyway ==
    /\ PhaseOver
    /\ \/ /\ pc = "native"
          /\ pc' = "compile"
          /\ UNCHANGED <<seed, asked, block_iter, job, tx, fileVars, returned>>
       \/ /\ pc = "aot" \/ Wrong # {}
          /\ returned' = IF Wrong = {} THEN returned \cup {session} ELSE returned
          /\ Leave
          /\ UNCHANGED <<seed, asked, created>>

\* collect::<Result<Vec<_>>>()?, in run's loop over the two phases.
EndPhase ==
    /\ PhaseOver
    /\ \/ /\ pc = "native" /\ Wrong = {}
          /\ pc' = "compile"
          /\ UNCHANGED <<seed, asked, block_iter, job, tx, fileVars, returned>>
       \/ /\ pc = "aot" \/ Wrong # {}
          /\ returned' = IF Wrong = {} THEN returned \cup {session} ELSE returned
          /\ Leave
          /\ UNCHANGED <<seed, asked, created>>

Crash ==
    /\ pc # "idle" /\ "crash" \in Faults
    /\ Idle
    /\ UNCHANGED <<seed, asked, created, data, returned>>

Work ==
    \/ Open \/ FindBytecodes \/ Compile \/ EndPhase
    \/ Fail("opening", "open") \/ Fail("opened", "bytecodes") \/ Fail("compile", "compile")
    \/ \E b \in Block : Begin(b) \/ Simulate(b) \/ WriteMeasurement(b)

Next ==
    \/ \E a \in Arguments : Start(a)
    \/ Work
    \/ Crash

\* rayon's workers and the session go on as long as they can.
Spec == Init /\ [][Next]_vars /\ WF_vars(Work)

-----------------------------------------------------------------------------
(* Properties.                                                             *)

\* However many sessions append to data.csv and however they end, no column
\* names are ever in the middle of it, and it starts with them exactly when
\* its first record is of the session that created it (create_csv_writer).
HeaderOfCreator ==
    /\ \A i \in 2 .. Len(data) : data[i] # Header
    /\ data # <<>> =>
          IF data[1] = Header THEN Len(data) >= 2 /\ data[2].session = created
                              ELSE data[1].session # created

\* A measurement of compiled code is preceded by the native measurement of
\* the same session and block, of the same transaction if the session had a
\* seed: the native phase is over, and was complete, before the compiled one
\* begins (run's `?`).
CompiledIsPaired ==
    \A i \in DOMAIN data :
        data[i] # Header /\ data[i].run_type = "aot" =>
            \E j \in 1 .. i - 1 :
                /\ data[j] # Header /\ data[j].run_type = "native"
                /\ data[j].session = data[i].session /\ data[j].block = data[i].block
                /\ asked[data[i].session].seeded => data[j].tx = data[i].tx

Records(lines, s, run_type, b) ==
    {i \in DOMAIN lines : /\ lines[i] # Header /\ lines[i].session = s
                          /\ lines[i].run_type = run_type /\ lines[i].block = b}

\* A session that returns Ok has exactly one record per block and phase, of
\* all its blocks but those that have no transaction to pick.
CompleteWhenDone ==
    [][returned' # returned =>
        \A b \in block_iter, run_type \in {"native", "aot"} :
            Cardinality(Records(data', session, run_type, b)) =
                IF args.run_rnd_txs /\ TxCount[b] = 0 THEN 0 ELSE 1]_vars

\* What write_measurement has returned from is in the file, and no later
\* error, panic or crash takes a line out of it.
WrittenIsKept ==
    [][/\ \A b \in block_iter :
             pc # "compile" /\ job[b] = "written" => \E i \in DOMAIN data : data[i] = Measurement(b)
       /\ Len(data) <= Len(data') /\ \A i \in DOMAIN data : data'[i] = data[i]]_vars

\* A sample is within the range, leaves out the blacklist, and is as large
\* as was asked unless the blacklist leaves less.
SampleSound ==
    pc # "idle" /\ args.sample # NoSample =>
        LET allowed == (args.start .. args.end - 1) \ args.blacklist
        IN  /\ block_iter \subseteq allowed
            /\ Cardinality(block_iter) = Least(args.sample, Cardinality(allowed))

\* Two sessions with the same arguments and a seed that both return Ok have
\* measured the same blocks and transactions.
Reproducible ==
    LET Measured(s) == {<<data[i].run_type, data[i].block, data[i].tx>> :
                            i \in {i \in DOMAIN data : data[i] # Header /\ data[i].session = s}}
    IN  \A s, t \in returned :
            asked[s] = asked[t] /\ asked[s].seeded => Measured(s) = Measured(t)

\* A session ends, whichever blocks fail or panic while others are measured.
SessionEnds == pc # "idle" ~> pc = "idle"

\* To its readers, data.csv is a log of sessions that only grows, with one
\* line per block and phase, the compiled phase after a complete native one,
\* and nothing missing from a session that returned Ok: neither buffers nor
\* the interleaving of workers nor the end of a session show in it.
Log == INSTANCE MeasurementLog WITH
    log      <- data,
    phase    <- CASE pc = "idle"                           -> "idle"
                  [] pc \in {"opening", "opened", "native"} -> "native"
                  [] pc \in {"compile", "aot"}              -> "aot",
    blocks   <- {b \in block_iter : ~(args.run_rnd_txs /\ TxCount[b] = 0)},
    complete <- returned

ImplementsLog == Log!Spec
=============================================================================
