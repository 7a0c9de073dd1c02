--------------------------- MODULE BlockSimProofs ---------------------------
(***************************************************************************)
(* Proofs about BlockSim, for a block of any length, any senders and       *)
(* dependencies, and any number of runs.                                   *)
(*                                                                         *)
(* All of it rests on what the database can be between two runs: the       *)
(* transactions ahead of some transaction of the simulated part.  It is    *)
(* the first one until a run fails; afterwards the first transaction of    *)
(* the part is in the database already, so that its nonce ends every       *)
(* further run before it returns anything.                                 *)
(***************************************************************************)
EXTENDS BlockSim, TLAPS

\* The transactions ahead of p.
Ahead(p) == 1 .. p - 1

\* Where a run of the part may stop.
Stops == {first} \cup (first .. last)

PartInv == first <= last + 1

\* What the database holds, by what is going on.
DbInv ==
    /\ pc = "start" => pos = 1
    /\ pc \in {"start", "pre"} => db = Ahead(pos) /\ pos <= first /\ results = <<>>
    /\ pc \in {"ready", "broken"} => \E p \in Stops : db = Ahead(p)
    /\ pc \in {"ended", "comparing"} => db = Ahead(first)
    /\ pc = "running" =>
          \E p \in Stops :
              /\ prev_db = Ahead(p)
              /\ p # first => pos = first /\ db = Ahead(p)
              /\ p = first => db = Ahead(pos) /\ pos \in first .. last + 1

LengthInv ==
    /\ pc = "running" => Len(results) = pos - first
    /\ pc \in {"ended", "comparing"} => Len(results) = last + 1 - first

\* Whatever a whole run has executed is not refused.
RejectedInv ==
    /\ pc = "running" => \A i \in first .. pos - 1 : i \notin rejected
    /\ pc \in {"ended", "comparing"} => \A i \in first .. last : i \notin rejected
    /\ use = "measure" /\ ~err => \A i \in first .. last : i \notin rejected

\* After a check without an error, and without transient failures.
Steady == ~transient /\ use = "measure" /\ ~err

MeasureInv ==
    Steady => /\ whole = runs
              /\ pc # "broken"
              /\ pc = "ready" => db = Ahead(first)
              /\ pc = "running" => prev_db = Ahead(first)

\* Results are compared for the check, and the caller run_tx or run_block
\* compares all of them.
CallerInv ==
    /\ pc = "comparing" => use = "check"
    /\ caller = "run" =>
          /\ checkFirst = first /\ checkLast = last
          /\ pc # "panicked"
          /\ use = "measure" => pc \in {"aborted", "done"}
          /\ pc = "comparing" => compared <= last + 1 - first
          /\ pc = "done" => compared = last + 1 - first

SimInv ==
    /\ TypeOK /\ PartInv /\ DbInv /\ LengthInv /\ CanonicalResults
    /\ RejectedInv /\ MeasureInv /\ CallerInv

-----------------------------------------------------------------------------
(* A transaction and the database.                                         *)

\* The nonce of a transaction fits when exactly the ones ahead of it are
\* committed.
LEMMA FitsInOrder ==
    ASSUME NEW i \in Txs, db = Ahead(i)
    PROVE  NonceFits(i)
  BY BlockSimAssumption DEF NonceFits, Ahead, Txs

\* It does not fit any more once the transaction is among them.
LEMMA NeverTwice ==
    ASSUME NEW i \in Txs, i \in db
    PROVE  ~NonceFits(i)
  BY BlockSimAssumption DEF NonceFits, Txs

\* The result on the transactions ahead of it is the one the chain had.
LEMMA SeenIsReceipt ==
    ASSUME NEW i \in Txs, db = Ahead(i)
    PROVE  Seen(i) = Receipt(i)
<1>1. DependsOn[i] \subseteq Txs /\ \A j \in DependsOn[i] : j < i
  BY BlockSimAssumption
<1>2. db \cap DependsOn[i] = DependsOn[i]
  BY <1>1 DEF Ahead, Txs
<1> QED  BY <1>2 DEF Seen, Receipt

-----------------------------------------------------------------------------
(* The invariant holds at first, and every action keeps it.                *)

LEMMA SimInit == ASSUME Init PROVE SimInv
<1> USE BlockSimAssumption DEF Init
<1>a. transient \in BOOLEAN /\ err \in BOOLEAN  OBVIOUS
<1>b. rejected \subseteq Txs /\ caller \in {"run", "bench", "range"}  BY DEF Txs
<1>1. TypeOK  BY <1>a, <1>b DEF TypeOK, Txs, PcValues
<1>2. PartInv /\ DbInv /\ LengthInv /\ CanonicalResults
  BY DEF PartInv, DbInv, LengthInv, CanonicalResults, Ahead
<1>3. RejectedInv /\ MeasureInv /\ CallerInv
  BY DEF RejectedInv, MeasureInv, Steady, CallerInv
<1> QED  BY <1>1, <1>2, <1>3 DEF SimInv

LEMMA BuildInv ==
    ASSUME SimInv, NEW kind \in Kinds, NEW k \in 0 .. N, Build(kind, k)
    PROVE  SimInv'
<1> USE BlockSimAssumption DEF SimInv, Build
<1>1. PICK f \in 1 .. N + 1, l \in 0 .. N : Part(kind, k) = <<f, l>> /\ f <= l + 1
  BY DEF Part
<1>2. /\ CheckedPart(kind, k)[1] \in 1 .. N + 1 /\ CheckedPart(kind, k)[2] \in 0 .. N
      /\ caller = "run" => CheckedPart(kind, k) = Part(kind, k)
  BY <1>1 DEF CheckedPart
<1>3. TypeOK'  BY <1>1, <1>2 DEF TypeOK, PcValues, world, runVars, Txs
<1>4. PartInv' /\ DbInv' /\ LengthInv'
  BY <1>1 DEF PartInv, DbInv, LengthInv, Ahead, world, runVars, TypeOK
<1>6. CanonicalResults'
  BY DEF DbInv, CanonicalResults, runVars
<1>5. RejectedInv' /\ MeasureInv' /\ CallerInv'
  BY <1>1, <1>2 DEF RejectedInv, MeasureInv, Steady, CallerInv, world, runVars
<1> QED  BY <1>3, <1>4, <1>5, <1>6

LEMMA NoCoinbaseInv == ASSUME SimInv, NoCoinbase PROVE SimInv'
<1> USE BlockSimAssumption DEF SimInv, NoCoinbase
<1>1. TypeOK'  BY DEF TypeOK, PcValues, simVars, world, runVars, tally
<1>2. PartInv' /\ LengthInv' /\ CanonicalResults'
  BY DEF PartInv, LengthInv, CanonicalResults, simVars, runVars, Receipt
<1>3. DbInv'
  <2>1. CASE pc = "pre" /\ pos = 1 /\ pc' = "aborted"
    BY <2>1 DEF DbInv
  <2>2. CASE pc = "running" /\ pos = first /\ pc' = "broken"
    <3>1. \E p \in Stops : db = Ahead(p)  BY <2>2 DEF DbInv
    <3> QED  BY <2>2, <3>1 DEF DbInv, Stops, simVars, runVars
  <2> QED  BY <2>1, <2>2
<1>4. RejectedInv' /\ MeasureInv' /\ CallerInv'
  BY DEF RejectedInv, MeasureInv, Steady, CallerInv, simVars, world, runVars, tally
<1> QED  BY <1>1, <1>2, <1>3, <1>4

LEMMA PreTxInv == ASSUME SimInv, PreTx PROVE SimInv'
<1> USE BlockSimAssumption DEF SimInv, PreTx
<1>1. pos \in Txs /\ pos < first /\ db = Ahead(pos)
  BY DEF TypeOK, DbInv, Txs
<1>2. TypeOK'
  BY <1>1 DEF TypeOK, PcValues, Commits, Fails, simVars, world, tally, Txs
<1>3. PartInv' /\ LengthInv' /\ CanonicalResults'
  BY <1>1 DEF PartInv, LengthInv, DbInv, CanonicalResults, simVars, world
<1>5. DbInv'
  <2>1. CASE Commits(pos) /\ pos' = pos + 1 /\ UNCHANGED pc
    <3>1. Ahead(pos) \cup {pos} = Ahead(pos + 1)  BY <1>1 DEF Ahead, Txs
    <3>2. db' = Ahead(pos') /\ pos' <= first' /\ first' = first /\ results' = results
      BY <1>1, <2>1, <3>1 DEF Commits, simVars, TypeOK, Txs
    <3> QED  BY <2>1, <3>2 DEF DbInv
  <2>2. CASE Fails(pos) /\ pc' = "aborted" /\ UNCHANGED pos
    BY <2>2 DEF DbInv
  <2> QED  BY <2>1, <2>2
<1>4. RejectedInv' /\ MeasureInv' /\ CallerInv'
  BY <1>1 DEF RejectedInv, MeasureInv, Steady, CallerInv, simVars, world, tally
<1> QED  BY <1>2, <1>3, <1>4, <1>5

LEMMA BuiltInv == ASSUME SimInv, Built PROVE SimInv'
<1> USE BlockSimAssumption DEF SimInv, Built
<1>1. pos = first /\ db = Ahead(first)
  BY DEF TypeOK, DbInv
<1>2. TypeOK'  BY DEF TypeOK, PcValues, simVars, world, tally, runVars
<1>3. PartInv' /\ DbInv' /\ LengthInv' /\ CanonicalResults'
  BY <1>1 DEF PartInv, DbInv, LengthInv, CanonicalResults, Ahead, Stops, simVars, world,
              tally, runVars, Receipt
<1>4. RejectedInv' /\ MeasureInv' /\ CallerInv'
  BY <1>1 DEF RejectedInv, MeasureInv, Steady, CallerInv, Ahead, simVars, world, tally, runVars
<1> QED  BY <1>2, <1>3, <1>4

-----------------------------------------------------------------------------
(* Simulation::run.                                                        *)

LEMMA StartRunInv == ASSUME SimInv, StartRun PROVE SimInv'
<1> USE BlockSimAssumption DEF SimInv, StartRun
<1>1. PICK p \in Stops : db = Ahead(p)  BY DEF DbInv
<1>2. TypeOK'  BY DEF TypeOK, PcValues, simVars, world, tally
<1>3. PartInv' /\ LengthInv' /\ CanonicalResults'
  BY DEF PartInv, LengthInv, CanonicalResults, simVars, TypeOK
<1>4. DbInv'
  <2>1. prev_db' = Ahead(p) /\ db' = Ahead(p) /\ pos' = first' /\ first' = first /\ Stops' = Stops
    BY <1>1 DEF simVars, Stops
  <2>2. pos' \in first' .. last' + 1  BY DEF PartInv, simVars, TypeOK
  <2> QED  BY <2>1, <2>2 DEF DbInv
<1>5. RejectedInv' /\ MeasureInv' /\ CallerInv'
  BY DEF RejectedInv, MeasureInv, Steady, CallerInv, simVars, world, tally, TypeOK
<1> QED  BY <1>2, <1>3, <1>4, <1>5

\* Where a run stands at transaction pos: either nothing has failed before,
\* or it is at its first transaction, which does not fit.
LEMMA RunsInOrder ==
    ASSUME SimInv, pc = "running", pos <= last
    PROVE  /\ pos \in Txs /\ pos \in first .. last
           /\ \/ prev_db = Ahead(first) /\ db = Ahead(pos) /\ NonceFits(pos)
              \/ /\ pos = first /\ db = prev_db /\ ~NonceFits(pos)
                 /\ \E p \in first + 1 .. last : db = Ahead(p)
<1> USE DEF SimInv
<1>1. PICK p \in Stops :
         /\ prev_db = Ahead(p)
         /\ p # first => pos = first /\ db = Ahead(p)
         /\ p = first => db = Ahead(pos) /\ pos \in first .. last + 1
  BY DEF DbInv
<1>2. first \in Nat \ {0} /\ last \in Nat /\ last <= N /\ pos \in Nat /\ N \in Nat
  BY BlockSimAssumption DEF TypeOK
<1>3. CASE p = first
  <2>1. pos \in Txs /\ pos \in first .. last  BY <1>1, <1>2, <1>3 DEF Txs
  <2> QED  BY <1>1, <1>3, <2>1, FitsInOrder
<1>4. CASE p # first
  <2>1. p \in first + 1 .. last  BY <1>2, <1>4 DEF Stops
  <2>2. pos \in Txs /\ pos \in first .. last /\ pos \in db
    BY <1>1, <1>2, <1>4, <2>1 DEF Txs, Ahead
  <2> QED  BY <1>1, <1>4, <2>1, <2>2, NeverTwice
<1> QED  BY <1>3, <1>4

LEMMA RunTxInv == ASSUME SimInv, RunTx PROVE SimInv'
<1> USE BlockSimAssumption
<1>0. pc = "running" /\ pos <= last /\ first \in Nat \ {0} /\ last \in Nat /\ last <= N
  BY DEF RunTx, SimInv, TypeOK
<1>1. pos \in Txs /\ pos \in first .. last  BY <1>0, RunsInOrder
<1>2. CASE Commits(pos) /\ pos' = pos + 1 /\ results' = Append(results, Seen(pos)) /\ UNCHANGED pc
  <2>1. /\ prev_db = Ahead(first) /\ db = Ahead(pos)
        /\ Seen(pos) = Receipt(pos) /\ Seen(pos) \in Txs \X SUBSET Txs
    BY <1>0, <1>1, <1>2, RunsInOrder, SeenIsReceipt DEF Commits, Executable, Receipt
  <2>2. Len(results) = pos - first /\ results \in Seq(Txs \X SUBSET Txs)
    BY <1>0 DEF SimInv, LengthInv, TypeOK
  <2>3. TypeOK'
    BY <1>0, <1>1, <1>2, <2>1, <2>2
       DEF SimInv, TypeOK, RunTx, Commits, simVars, world, tally, Txs
  <2>4. DbInv'
    <3>1. Ahead(pos) \cup {pos} = Ahead(pos + 1)  BY <1>1 DEF Ahead, Txs
    <3>2. db' = Ahead(pos') /\ pos' \in first' .. last' + 1 /\ first' \in Stops'
      BY <1>0, <1>1, <1>2, <2>1, <3>1 DEF Commits, RunTx, simVars, Stops
    <3>3. prev_db' = Ahead(first') /\ pc' = "running"
      BY <1>0, <1>2, <2>1 DEF RunTx, simVars
    <3> QED  BY <3>2, <3>3 DEF DbInv
  <2>5. PartInv' /\ LengthInv'
    BY <1>0, <1>1, <1>2, <2>2 DEF SimInv, PartInv, LengthInv, RunTx, simVars
  <2>6. CanonicalResults'
    <3>1. first' = first  BY DEF RunTx, simVars
    <3>2. /\ DOMAIN results' = 1 .. pos - first + 1
          /\ \A k \in 1 .. pos - first : results'[k] = results[k]
          /\ results'[pos - first + 1] = Receipt(pos)
      BY <1>0, <1>1, <1>2, <2>1, <2>2
    <3>3. ASSUME NEW k \in 1 .. pos - first + 1  PROVE results'[k] = Receipt(first + k - 1)
      <4>1. CASE k = pos - first + 1
        <5>1. first + k - 1 = pos  BY <1>0, <1>1, <4>1
        <5> QED  BY <3>2, <4>1, <5>1
      <4>2. CASE k # pos - first + 1
        <5>1. k \in 1 .. pos - first /\ k \in DOMAIN results
          BY <1>0, <1>1, <2>2, <4>2
        <5> QED  BY <3>2, <5>1 DEF SimInv, CanonicalResults
      <4> QED  BY <4>1, <4>2
    <3> QED  BY <3>1, <3>2, <3>3 DEF CanonicalResults, Receipt
  <2>7. RejectedInv' /\ MeasureInv' /\ CallerInv'
    BY <1>0, <1>1, <1>2, <2>1
       DEF SimInv, RejectedInv, MeasureInv, Steady, CallerInv, RunTx, Commits, Executable,
           simVars, world, tally
  <2> QED  BY <2>3, <2>4, <2>5, <2>6, <2>7 DEF SimInv
<1>3. CASE Fails(pos) /\ pc' = "broken" /\ UNCHANGED <<pos, results>>
  <2>1. TypeOK'
    BY <1>3 DEF SimInv, TypeOK, PcValues, RunTx, Fails, simVars, world, tally
  <2>2. \E p \in Stops : db = Ahead(p)
    BY <1>0, <1>1, RunsInOrder DEF Stops
  <2>3. PartInv' /\ DbInv' /\ LengthInv' /\ CanonicalResults'
    BY <1>3, <2>2 DEF SimInv, PartInv, DbInv, LengthInv, CanonicalResults, Stops, RunTx, Fails,
                      simVars, world, Receipt
  <2>4. RejectedInv' /\ CallerInv'
    BY <1>0, <1>3 DEF SimInv, RejectedInv, CallerInv, RunTx, simVars, world, tally
  <2>5. ~Steady
    <3>1. SUFFICES ASSUME Steady PROVE FALSE  OBVIOUS
    <3>2. prev_db = Ahead(first) /\ pos \notin rejected /\ ~Executable(pos)
      BY <1>0, <1>1, <1>3, <3>1 DEF SimInv, MeasureInv, RejectedInv, Steady, Fails
    <3>3. PICK p \in first + 1 .. last : prev_db = Ahead(p)
      BY <1>0, <3>2, RunsInOrder DEF Executable
    <3>4. first \in Ahead(p)  BY <1>0 DEF Ahead
    <3> QED  BY <1>0, <3>2, <3>3, <3>4 DEF Ahead
  <2>6. MeasureInv'
    BY <2>5 DEF MeasureInv, Steady, RunTx, simVars, world, tally
  <2> QED  BY <2>1, <2>3, <2>4, <2>6 DEF SimInv
<1> QED  BY <1>2, <1>3 DEF RunTx

LEMMA EndRunInv == ASSUME SimInv, EndRun PROVE SimInv'
<1> USE BlockSimAssumption DEF SimInv, EndRun
<1>0. first \in Nat \ {0} /\ last \in Nat /\ pos \in Nat  BY DEF TypeOK
<1>1. prev_db = Ahead(first) /\ pos = last + 1
  <2>1. PICK p \in Stops :
           /\ prev_db = Ahead(p)
           /\ p # first => pos = first /\ db = Ahead(p)
           /\ p = first => db = Ahead(pos) /\ pos \in first .. last + 1
    BY DEF DbInv
  <2>2. p = first  BY <1>0, <2>1 DEF Stops
  <2> QED  BY <1>0, <2>1, <2>2
<1>2. TypeOK'  BY DEF TypeOK, PcValues, simVars, world, tally
<1>3. PartInv' /\ DbInv' /\ LengthInv' /\ CanonicalResults'
  BY <1>0, <1>1 DEF PartInv, DbInv, LengthInv, CanonicalResults, Ahead, simVars, Receipt
<1>4. RejectedInv' /\ MeasureInv' /\ CallerInv'
  BY <1>0, <1>1 DEF RejectedInv, MeasureInv, Steady, CallerInv, simVars, world, tally
<1> QED  BY <1>2, <1>3, <1>4

-----------------------------------------------------------------------------
(* The callers.                                                            *)

LEMMA TimeInv == ASSUME SimInv, Time PROVE SimInv'
<1> USE BlockSimAssumption DEF SimInv, Time
<1>1. TypeOK'  BY DEF TypeOK, PcValues, simVars, world, runVars
<1>2. PartInv' /\ DbInv' /\ LengthInv' /\ CanonicalResults'
  <2>1. PartInv' /\ LengthInv' /\ CanonicalResults'
    BY DEF PartInv, LengthInv, CanonicalResults, simVars, runVars, Receipt
  <2>2. pc = "ended" => first \in Stops /\ db = Ahead(first)  BY DEF DbInv, Stops
  <2>3. DbInv'  BY <2>2 DEF DbInv, Stops, simVars, runVars
  <2> QED  BY <2>1, <2>3
<1>3. RejectedInv' /\ MeasureInv' /\ CallerInv'
  BY DEF RejectedInv, MeasureInv, Steady, CallerInv, simVars, world, runVars
<1> QED  BY <1>1, <1>2, <1>3

\* The end of the check keeps the invariant, if all that it has executed is
\* known when it ends without an error.
LEMMA CheckedInv ==
    ASSUME SimInv, NEW failed \in BOOLEAN, Checked(failed), use = "check",
           pc \in {"broken", "comparing"}, compared' = compared,
           ~failed => pc = "comparing" /\ (caller = "run" => compared = last + 1 - first)
    PROVE  SimInv'
<1> USE BlockSimAssumption DEF SimInv, Checked
<1>1. TypeOK'  BY DEF TypeOK, PcValues, simVars, world, runVars
<1>2. PartInv' /\ LengthInv' /\ CanonicalResults'
  BY DEF PartInv, LengthInv, CanonicalResults, simVars, runVars, Receipt
<1>3. DbInv'
  <2>1. \E p \in Stops : db = Ahead(p)  BY DEF DbInv, Stops
  <2> QED  BY <2>1 DEF DbInv, Stops, simVars, runVars
<1>4. RejectedInv'
  BY DEF RejectedInv, simVars, world, runVars
<1>5. MeasureInv'
  BY DEF MeasureInv, Steady, DbInv, Ahead, simVars, world, runVars
<1>6. CallerInv'
  BY DEF CallerInv, simVars, world
<1> QED  BY <1>1, <1>2, <1>3, <1>4, <1>5, <1>6

LEMMA CheckRunInv == ASSUME SimInv, CheckRun PROVE SimInv'
<1> USE DEF CheckRun
<1>1. CASE pc = "broken" /\ Checked(TRUE) /\ UNCHANGED compared
  BY <1>1, CheckedInv
<1>2. CASE /\ pc = "ended" /\ pc' = "comparing" /\ compared' = 0
           /\ UNCHANGED <<simVars, runVars, tally, err>>
  <2> USE <1>2, BlockSimAssumption DEF SimInv
  <2>1. TypeOK'  BY DEF TypeOK, PcValues, simVars, world, runVars, tally
  <2>2. PartInv' /\ DbInv' /\ LengthInv' /\ CanonicalResults'
    BY DEF PartInv, DbInv, LengthInv, CanonicalResults, Ahead, simVars, runVars, Receipt
  <2>3. RejectedInv' /\ MeasureInv' /\ CallerInv'
    BY DEF RejectedInv, MeasureInv, Steady, CallerInv, PartInv, TypeOK, simVars, world, runVars,
           tally
  <2> QED  BY <2>1, <2>2, <2>3
<1> QED  BY <1>1, <1>2

LEMMA CompareInv == ASSUME SimInv, Compare PROVE SimInv'
<1>0. pc = "comparing" /\ use = "check" /\ checkFirst + compared <= checkLast
  BY DEF Compare, SimInv, CallerInv
<1>1. ASSUME compared >= Len(results), pc' = "panicked",
             UNCHANGED <<simVars, runVars, tally, compared, err>>
      PROVE  SimInv'
  <2> USE <1>0, <1>1, BlockSimAssumption DEF SimInv
  <2>1. TypeOK'  BY DEF TypeOK, PcValues, simVars, world, runVars, tally
  <2>2. PartInv' /\ DbInv' /\ LengthInv' /\ CanonicalResults'
    BY DEF PartInv, DbInv, LengthInv, CanonicalResults, simVars, runVars, Receipt
  <2>3. RejectedInv' /\ MeasureInv'
    BY DEF RejectedInv, MeasureInv, Steady, simVars, world, runVars, tally
  <2>4. CallerInv'
    <3>1. caller # "run"
      BY DEF CallerInv, LengthInv, TypeOK
    <3> QED  BY <3>1 DEF CallerInv, simVars, world
  <2> QED  BY <2>1, <2>2, <2>3, <2>4
<1>2. ASSUME compared' = compared + 1, UNCHANGED <<pc, simVars, runVars, tally, err>>
      PROVE  SimInv'
  <2> USE <1>0, <1>2, BlockSimAssumption DEF SimInv
  <2>1. TypeOK'  BY DEF TypeOK, PcValues, simVars, world, runVars, tally
  <2>2. PartInv' /\ DbInv' /\ LengthInv' /\ CanonicalResults'
    BY DEF PartInv, DbInv, LengthInv, CanonicalResults, simVars, runVars, Receipt
  <2>3. RejectedInv' /\ MeasureInv'
    BY DEF RejectedInv, MeasureInv, Steady, simVars, world, runVars, tally
  <2>4. CallerInv'
    BY DEF CallerInv, TypeOK, simVars, world, tally
  <2> QED  BY <2>1, <2>2, <2>3, <2>4
<1>3. ASSUME Checked(TRUE), UNCHANGED compared  PROVE SimInv'
  BY <1>0, <1>3, CheckedInv
<1> QED  BY <1>1, <1>2, <1>3 DEF Compare

LEMMA CompareDoneInv == ASSUME SimInv, CompareDone PROVE SimInv'
<1>1. PICK refused \in BOOLEAN : Checked(refused)  BY DEF CompareDone
<1>2. use = "check" /\ (caller = "run" => compared = last + 1 - first)
  BY DEF CompareDone, SimInv, CallerInv, TypeOK
<1> QED  BY <1>1, <1>2, CheckedInv DEF CompareDone

LEMMA MeasuredInv == ASSUME SimInv, Measure PROVE SimInv'
<1> USE BlockSimAssumption DEF SimInv, Measure
<1>1. TypeOK'  BY DEF TypeOK, PcValues, simVars, world, runVars
<1>2. PartInv' /\ LengthInv' /\ CanonicalResults'
  BY DEF PartInv, LengthInv, CanonicalResults, simVars, runVars, Receipt
<1>3. DbInv'
  <2>1. \E p \in Stops : db = Ahead(p)  BY DEF DbInv, Stops
  <2> QED  BY <2>1 DEF DbInv, Stops, simVars, runVars
<1>4. RejectedInv' /\ CallerInv'
  BY DEF RejectedInv, CallerInv, simVars, world, runVars
<1>5. MeasureInv'
  BY DEF MeasureInv, Steady, DbInv, Ahead, TypeOK, simVars, world, runVars
<1> QED  BY <1>1, <1>2, <1>3, <1>4, <1>5

LEMMA RecordInv == ASSUME SimInv, Record PROVE SimInv'
<1> USE BlockSimAssumption DEF SimInv, Record
<1>1. TypeOK'  BY DEF TypeOK, PcValues, simVars, world, runVars, tally
<1>2. PartInv' /\ DbInv' /\ LengthInv' /\ CanonicalResults'
  BY DEF PartInv, DbInv, LengthInv, CanonicalResults, simVars, runVars, Receipt
<1>3. RejectedInv' /\ MeasureInv' /\ CallerInv'
  BY DEF RejectedInv, MeasureInv, Steady, CallerInv, simVars, world, runVars, tally
<1> QED  BY <1>1, <1>2, <1>3

-----------------------------------------------------------------------------
(* The theorems.                                                           *)

LEMMA SimNext == ASSUME SimInv, [Next]_vars PROVE SimInv'
<1>1. ASSUME NEW kind \in Kinds, NEW k \in 0 .. N, Build(kind, k)  PROVE SimInv'
  BY <1>1, BuildInv
<1>2. CASE NoCoinbase \/ PreTx \/ Built
  BY <1>2, NoCoinbaseInv, PreTxInv, BuiltInv
<1>3. CASE StartRun \/ RunTx \/ EndRun
  BY <1>3, StartRunInv, RunTxInv, EndRunInv
<1>4. CASE Time \/ CheckRun \/ Compare \/ CompareDone \/ Measure \/ Record
  BY <1>4, TimeInv, CheckRunInv, CompareInv, CompareDoneInv, MeasuredInv, RecordInv
<1>5. CASE UNCHANGED vars
  <2> USE <1>5 DEF SimInv, vars, simVars, world, runVars, tally
  <2>1. TypeOK' /\ PartInv' /\ LengthInv'  BY DEF TypeOK, PartInv, LengthInv
  <2>2. DbInv' /\ CanonicalResults'  BY DEF DbInv, Stops, CanonicalResults, Receipt
  <2>3. RejectedInv' /\ MeasureInv' /\ CallerInv'
    BY DEF RejectedInv, MeasureInv, Steady, CallerInv
  <2> QED  BY <2>1, <2>2, <2>3
<1> QED  BY <1>1, <1>2, <1>3, <1>4, <1>5 DEF Next

LEMMA SimAlways == Spec => []SimInv
BY SimInit, SimNext, PTL DEF Spec

\* The simulation and its callers keep their type.
THEOREM SimTypes == Spec => []TypeOK
<1>1. SimInv => TypeOK  BY DEF SimInv
<1> QED  BY <1>1, SimAlways, PTL

\* Whatever has failed before, each result that Simulation::run returns is
\* the one that the chain had for that transaction: a database that is not
\* the pre-executed one ends a run before its first result.
THEOREM ResultsCanonical == Spec => []CanonicalResults
<1>1. SimInv => CanonicalResults  BY DEF SimInv
<1> QED  BY <1>1, SimAlways, PTL

\* After a check without an error, every run that criterion or
\* measure_execution_time counts is a whole one, unless reads fail now and
\* then.
THEOREM MeasuredWhole == Spec => []MeasuredAreWhole
<1>1. SimInv => MeasuredAreWhole  BY DEF SimInv, MeasureInv, Steady, MeasuredAreWhole
<1> QED  BY <1>1, SimAlways, PTL

\* run_tx and run_block hold each result against its own receipt, and all of
\* them, whatever part of the block they simulate.
THEOREM RunsCompareAll == Spec => []RunComparesAll
<1>1. ASSUME SimInv, caller = "run"  PROVE NoPanic
  BY <1>1 DEF SimInv, CallerInv, NoPanic
<1>2. ASSUME SimInv, caller = "run"  PROVE ComparesOwnReceipt
  <2>1. checkFirst = first  BY <1>2 DEF SimInv, CallerInv
  <2>2. \A k \in DOMAIN results : results[k][1] = first + k - 1
    BY <1>2 DEF SimInv, CanonicalResults, Receipt
  <2> QED  BY <2>1, <2>2 DEF ComparesOwnReceipt
<1>3. ASSUME SimInv, caller = "run"
      PROVE  /\ pc = "comparing" => Len(results) = checkLast + 1 - checkFirst
             /\ pc = "done" => compared = last + 1 - first
  BY <1>3 DEF SimInv, CallerInv, LengthInv
<1>4. SimInv => RunComparesAll  BY <1>1, <1>2, <1>3 DEF RunComparesAll
<1> QED  BY <1>4, SimAlways, PTL

\* Once a run has failed after its first transaction, no run of that
\* simulation is ever whole again: each step leaves the database other than
\* the pre-executed one, and counts no whole run.
THEOREM SpoiltStays == Spec => SpoiltForever
<1>1. ASSUME SimInv, [Next]_vars, Spoilt  PROVE Spoilt' /\ whole' <= whole
  <2> USE <1>1
  <2>0. whole \in Nat /\ first \in Nat \ {0} /\ last \in Nat  BY DEF SimInv, TypeOK
  <2>1. pc # "ended" /\ pc # "comparing"
    BY DEF Spoilt, Ahead, SimInv, DbInv
  <2>2. CASE StartRun
    BY <2>0, <2>2 DEF StartRun, Spoilt, simVars, tally
  <2>3. CASE RunTx
    <3>1. prev_db # Ahead(first) /\ pc = "running" /\ pos <= last
      BY <2>3 DEF RunTx, Spoilt, Ahead
    <3>2. db = prev_db /\ ~Executable(pos)
      BY <3>1, RunsInOrder DEF Executable
    <3>3. db' = db /\ pc' = "broken" /\ first' = first /\ whole' = whole
      BY <2>3, <3>2 DEF RunTx, Commits, Fails, simVars, tally
    <3> QED  BY <2>0, <3>1, <3>2, <3>3 DEF Spoilt, Ahead
  <2>4. CASE EndRun
    <3>1. prev_db # Ahead(first) /\ pos > last
      BY <2>4 DEF EndRun, Spoilt, Ahead
    <3>2. PICK p \in Stops : prev_db = Ahead(p) /\ (p # first => pos = first)
      BY <2>4 DEF EndRun, SimInv, DbInv
    <3> QED  BY <2>0, <3>1, <3>2 DEF Stops
  <2>5. CASE Time
    BY <2>0, <2>1, <2>5 DEF Time, Spoilt, simVars, runVars
  <2>6. ASSUME NEW failed \in BOOLEAN, Checked(failed), pc # "running"
        PROVE  Spoilt' /\ whole' <= whole
    BY <2>0, <2>6 DEF Checked, Spoilt, simVars, runVars
  <2>7. CASE CheckRun
    BY <2>1, <2>6, <2>7 DEF CheckRun
  <2>8. CASE Measure \/ Record
    BY <2>0, <2>1, <2>8 DEF Measure, Record, Spoilt, simVars, runVars, tally
  <2>9. CASE UNCHANGED vars
    BY <2>0, <2>9 DEF Spoilt, vars, simVars, runVars, tally
  <2>10. CASE NoCoinbase
    <3>1. pc = "running" /\ pc' = "broken" /\ pos = first
      BY <2>10 DEF NoCoinbase, Spoilt
    <3>2. db = prev_db  BY <3>1 DEF SimInv, DbInv
    <3> QED  BY <2>0, <2>10, <3>1, <3>2 DEF NoCoinbase, Spoilt, simVars, runVars, tally
  <2>11. ~(Compare \/ CompareDone \/ PreTx \/ Built) /\ ~\E kind \in Kinds, k \in 0 .. N : Build(kind, k)
    BY <2>1 DEF Compare, CompareDone, PreTx, Built, Build, Spoilt
  <2> QED  BY <2>2, <2>3, <2>4, <2>5, <2>7, <2>8, <2>9, <2>10, <2>11 DEF Next
<1>2. SimInv /\ [Next]_vars => [Spoilt => Spoilt' /\ whole' <= whole]_vars
  BY <1>1
<1> QED  BY <1>2, SimAlways, PTL DEF Spec, SpoiltForever

-----------------------------------------------------------------------------
(* A run is one repeatable operation.                                      *)

\* The results of the block on the chain, and of transactions f .. l of it.
Receipts == [i \in Txs |-> Receipt(i)]

LEMMA PartOfReceipts ==
    ASSUME NEW f \in 1 .. N + 1, NEW l \in 0 .. N, f <= l + 1
    PROVE  /\ Receipts \in Seq({Receipt(i) : i \in Txs}) /\ Len(Receipts) = N
           /\ Len(SubSeq(Receipts, f, l)) = l + 1 - f
           /\ \A k \in 1 .. l + 1 - f : SubSeq(Receipts, f, l)[k] = Receipt(f + k - 1)
           /\ SubSeq(Receipts, f, l) = [k \in 1 .. l + 1 - f |-> Receipt(f + k - 1)]
<1>1. N \in Nat  BY BlockSimAssumption
<1>2. Receipts \in Seq({Receipt(i) : i \in Txs}) /\ Len(Receipts) = N
  BY <1>1 DEF Receipts, Txs
<1>3. SubSeq(Receipts, f, l) = [k \in 1 .. l + 1 - f |-> Receipts[f + k - 1]]
  BY <1>1, <1>2 DEF SubSeq
<1>4. \A k \in 1 .. l + 1 - f : f + k - 1 \in Txs /\ Receipts[f + k - 1] = Receipt(f + k - 1)
  BY <1>1 DEF Receipts, Txs
<1>5. SubSeq(Receipts, f, l) = [k \in 1 .. l + 1 - f |-> Receipt(f + k - 1)]
  BY <1>3, <1>4
<1>6. l + 1 - f \in Nat  BY <1>1
<1> QED  BY <1>2, <1>5, <1>6

\* What a whole run has returned is the chain's results for the part.
LEMMA WholeIsExpected ==
    ASSUME SimInv, Len(results) = last + 1 - first
    PROVE  results = SubSeq(Receipts, first, last)
<1>1. /\ results \in Seq(Txs \X SUBSET Txs) /\ first \in 1 .. N + 1 /\ last \in 0 .. N
      /\ first <= last + 1 /\ \A k \in DOMAIN results : results[k] = Receipt(first + k - 1)
  BY DEF SimInv, TypeOK, PartInv, CanonicalResults
<1>2. results = [k \in 1 .. last + 1 - first |-> Receipt(first + k - 1)]
  <2>1. results = [k \in 1 .. Len(results) |-> results[k]] /\ DOMAIN results = 1 .. Len(results)
    BY <1>1
  <2> QED  BY <1>1, <2>1
<1> QED  BY <1>1, <1>2, PartOfReceipts

LEMMA RepeatableInit == ASSUME Init PROVE Repeatable!Init
BY DEF Init, Repeatable!Init, Usable

\* Each step is a step of the abstract operation, or none.
LEMMA RepeatableNext ==
    ASSUME SimInv, SimInv', [Next]_vars
    PROVE  [Repeatable!Next]_(Repeatable!repeatVars)
<1>0. /\ first \in 1 .. N + 1 /\ last \in 0 .. N /\ first <= last + 1 /\ N \in Nat
      /\ pc \in PcValues
  BY BlockSimAssumption DEF SimInv, TypeOK, PartInv
<1>1. CASE \E kind \in Kinds, k \in 0 .. N : Build(kind, k)
  <2>1. pc = "start" /\ pc' = "pre"  BY <1>1 DEF Build
  <2> QED  BY <2>1 DEF Repeatable!repeatVars, Usable
<1>2. CASE PreTx
  <2>1. pc = "pre" /\ pc' \in {"pre", "aborted"}  BY <1>2 DEF PreTx
  <2> QED  BY <2>1 DEF Repeatable!repeatVars, Repeatable!Next, Repeatable!Drop, Usable
<1>3. CASE Built
  <2>1. pc = "pre" /\ pc' = "ready" /\ first' = first /\ last' = last /\ db' = db
    BY <1>3 DEF Built, simVars, runVars
  <2>2. ~Spoilt'
    BY <1>0, <1>3, <2>1 DEF Built, Spoilt, SimInv, DbInv, Ahead, TypeOK
  <2>3. Repeatable!Make
    <3>1. Len(Receipts) = N  BY <1>0, PartOfReceipts
    <3>2. first \in 1 .. Len(Receipts) + 1 /\ last \in 0 .. Len(Receipts)
      BY <1>0, <3>1
    <3>3. SubSeq([i \in Txs |-> Receipt(i)], first', last') = SubSeq([i \in Txs |-> Receipt(i)], first, last)
      BY <2>1
    <3>4. Usable' /\ ~Usable
      BY <2>1 DEF Usable
    <3> QED  BY <2>1, <2>2, <3>2, <3>3, <3>4 DEF Repeatable!Make, Receipts, Usable
  <2> QED  BY <2>3 DEF Repeatable!Next
<1>4. CASE StartRun
  <2>1. /\ pc = "ready" /\ pc' = "running" /\ first' = first /\ last' = last
        /\ prev_db' = db
    BY <1>4 DEF StartRun, simVars
  <2>2. Spoilt' <=> Spoilt  BY <2>1 DEF Spoilt
  <2>3. Repeatable!Run  BY <2>1, <2>2 DEF Repeatable!Run, Usable
  <2> QED  BY <2>3 DEF Repeatable!Next
<1>5. CASE RunTx
  <2>0. /\ pc = "running" /\ pos <= last /\ first' = first /\ last' = last /\ prev_db' = prev_db
    BY <1>5 DEF RunTx, simVars
  <2>1. CASE pc' = pc
    <3>1. Spoilt' <=> Spoilt  BY <2>0, <2>1 DEF Spoilt
    <3> QED  BY <2>0, <2>1, <3>1 DEF Repeatable!repeatVars, Usable
  <2>2. CASE pc' = "broken" /\ db' = db
    <3>1. /\ pos \in first .. last
          /\ \/ prev_db = Ahead(first) /\ db = Ahead(pos)
             \/ pos = first /\ db = prev_db
      BY <2>0, RunsInOrder
    <3>2. (Spoilt' <=> Spoilt) \/ (Spoilt' /\ pos # first)
      BY <1>0, <2>0, <2>2, <3>1 DEF Spoilt, Ahead
    <3>3. Len(SubSeq(Receipts, first, last)) = last + 1 - first
      BY <1>0, PartOfReceipts
    <3>4. pos # first => Len(SubSeq(Receipts, first, last)) > 1
      BY <1>0, <3>1, <3>3
    <3>5. Repeatable!Fail
      BY <2>0, <2>2, <3>2, <3>4 DEF Repeatable!Fail, Usable, Receipts
    <3> QED  BY <3>5 DEF Repeatable!Next
  <2> QED  BY <1>5, <2>1, <2>2 DEF RunTx, Fails
<1>6. CASE EndRun
  <2>1. /\ pc = "running" /\ pc' = "ended" /\ first' = first /\ last' = last
        /\ db' = prev_db /\ results' = results
    BY <1>6 DEF EndRun, simVars
  <2>2. ~Spoilt /\ ~Spoilt'
    BY <2>1 DEF SimInv, DbInv, Spoilt, Ahead
  <2>3. results' = SubSeq(Receipts, first, last)
    <3>1. Len(results) = last + 1 - first
      BY <2>1 DEF SimInv, LengthInv
    <3> QED  BY <2>1, <3>1, WholeIsExpected
  <2>4. Repeatable!Answer
    BY <2>1, <2>2, <2>3 DEF Repeatable!Answer, Usable, Receipts
  <2> QED  BY <2>4 DEF Repeatable!Next
<1>7. ASSUME pc \in {"ended", "comparing", "broken"},
             pc' \in {"ready", "aborted", "done", "panicked"}, UNCHANGED <<simVars, runVars>>
      PROVE  Repeatable!Next
  <2>1. first' = first /\ last' = last /\ db' = db
    BY <1>7 DEF simVars, runVars
  <2>2. CASE pc' = "ready"
    <3>1. Spoilt' <=> Spoilt  BY <1>7, <2>1, <2>2 DEF Spoilt
    <3>2. Repeatable!Again  BY <1>7, <2>1, <2>2, <3>1 DEF Repeatable!Again, Usable
    <3> QED  BY <3>2 DEF Repeatable!Next
  <2>3. CASE pc' \in {"aborted", "done", "panicked"}
    <3>1. Repeatable!Drop  BY <1>7, <2>3 DEF Repeatable!Drop, Usable
    <3> QED  BY <3>1 DEF Repeatable!Next
  <2> QED  BY <1>7, <2>2, <2>3
<1>8. CASE Time
  BY <1>7, <1>8 DEF Time
<1>9. ASSUME pc \in {"ended", "comparing"}, pc' = "comparing", UNCHANGED <<simVars, runVars>>
      PROVE  UNCHANGED Repeatable!repeatVars
  <2>1. first' = first /\ last' = last /\ db' = db /\ results' = results
    BY <1>9 DEF simVars, runVars
  <2>2. Spoilt' <=> Spoilt  BY <1>9, <2>1 DEF Spoilt
  <2> QED  BY <1>9, <2>1, <2>2 DEF Repeatable!repeatVars, Usable
<1>10. ASSUME NEW failed \in BOOLEAN, Checked(failed), pc \in {"broken", "comparing"}
       PROVE  Repeatable!Next
  <2>1. pc' \in {"aborted", "done", "ready"} /\ UNCHANGED <<simVars, runVars>>
    BY <1>10 DEF Checked
  <2> QED  BY <1>7, <1>10, <2>1
<1>11. CASE CheckRun
  <2>1. CASE pc = "broken" /\ Checked(TRUE)
    BY <1>10, <2>1
  <2>2. CASE pc = "ended" /\ pc' = "comparing" /\ UNCHANGED <<simVars, runVars>>
    BY <1>9, <2>2
  <2> QED  BY <1>11, <2>1, <2>2 DEF CheckRun
<1>12. CASE Compare
  <2>1. CASE pc = "comparing" /\ pc' = "panicked" /\ UNCHANGED <<simVars, runVars>>
    BY <1>7, <2>1
  <2>2. CASE pc = "comparing" /\ pc' = pc /\ UNCHANGED <<simVars, runVars>>
    BY <1>9, <2>2
  <2>3. CASE pc = "comparing" /\ Checked(TRUE)
    BY <1>10, <2>3
  <2> QED  BY <1>12, <2>1, <2>2, <2>3 DEF Compare
<1>13. CASE CompareDone
  BY <1>10, <1>13 DEF CompareDone
<1>14. CASE Measure
  BY <1>7, <1>14 DEF Measure
<1>15. CASE Record
  <2>1. pc = "ready" /\ pc' \in {"recorded", "done"}  BY <1>15 DEF Record
  <2>2. Repeatable!Drop  BY <2>1 DEF Repeatable!Drop, Usable
  <2> QED  BY <2>2 DEF Repeatable!Next
<1>16. CASE NoCoinbase
  <2>1. CASE pc = "pre" /\ pc' = "aborted"
    BY <2>1 DEF Repeatable!repeatVars, Repeatable!Next, Repeatable!Drop, Usable
  <2>2. CASE pc = "running" /\ pos = first /\ pc' = "broken"
    <3>1. first' = first /\ last' = last /\ db' = db /\ db = prev_db
      BY <1>16, <2>2 DEF NoCoinbase, simVars, runVars, SimInv, DbInv
    <3>2. Spoilt' <=> Spoilt  BY <2>2, <3>1 DEF Spoilt
    <3>3. Repeatable!Fail  BY <2>2, <3>1, <3>2 DEF Repeatable!Fail, Usable
    <3> QED  BY <3>3 DEF Repeatable!Next
  <2> QED  BY <1>16, <2>1, <2>2 DEF NoCoinbase
<1>17. CASE UNCHANGED vars
  <2>1. pc' = pc /\ first' = first /\ last' = last /\ results' = results
        /\ (Spoilt' <=> Spoilt)
    BY <1>17 DEF vars, simVars, runVars, Spoilt
  <2> QED  BY <2>1 DEF Repeatable!repeatVars, Usable
<1> QED
  BY <1>1, <1>2, <1>3, <1>4, <1>5, <1>6, <1>8, <1>11, <1>12, <1>13, <1>14, <1>15, <1>16, <1>17 DEF Next

\* Simulation::run is one repeatable operation that answers with the chain's
\* results for the whole part until a failure spoils it, and with errors
\* only from then on, for blocks of any length and however often it is run.
THEOREM SimulationRepeats == Spec => RunIsRepeatable
BY RepeatableInit, RepeatableNext, SimAlways, PTL DEF Spec, RunIsRepeatable, Repeatable!Spec
=============================================================================
