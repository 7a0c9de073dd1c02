---------------------------- MODULE GasGuzzlers -----------------------------
(***************************************************************************)
(* Who used the gas: the report that `gas_guzzlers` contracts are selected *)
(* from.                                                                   *)
(*                                                                         *)
(* find_gas_guzzlers executes a sample of blocks in parallel, each with a  *)
(* BytecodeContractUsageInspector of its own; reduces their maps, in any   *)
(* grouping, to one; and GasGuzzlerReport::new groups that by the code     *)
(* each address has in the latest state.  The inspector is told of the     *)
(* beginning and the end of every call, not of creations.  It charges a    *)
(* call with everything spent below it and its caller with a deficit of    *)
(* as much, so that the difference should be what the caller itself spent. *)
(*                                                                         *)
(* The call stack and its gas accounting are revm's.                       *)
(***************************************************************************)
EXTENDS Integers, Sequences, FiniteSetsExt, Folds

CONSTANTS
    Block,          \* the sampled blocks
    Address,
    NoAddress,      \* Option::None
    Code,           \* bytecodes
    NoCode,         \* no account, or one without code
    MaxGas          \* bound: calls, creations and units of gas, over all blocks

ASSUME GasAssumption ==
    /\ IsFiniteSet(Block) /\ Block # {}
    /\ IsFiniteSet(Address)
    /\ NoAddress \notin Address
    /\ NoCode \notin Code
    /\ MaxGas \in Nat

VARIABLES
    frames,     \* frames[b]: revm's call stack in b
    clock,      \* what MaxGas bounds
    account_to_usage, parent_bytecode_stack, current_bytecode,  \* the inspectors
    parts,      \* the results of the parallel iterator, as far as reduced
    report,     \* None, the error, or the GasGuzzlerReport
    own         \* history: own[b][a] is the gas that the code of a spent itself

evmVars == <<frames, clock, own>>
inspectorVars == <<account_to_usage, parent_bytecode_stack, current_bytecode>>
vars == <<evmVars, inspectorVars, parts, report>>

ContractUsage == [gas_used : Nat, frequency : Nat, gas_deficit : Nat]
NoUsage == [gas_used |-> 0, frequency |-> 0, gas_deficit |-> 0]
Unused == [a \in Address |-> NoUsage]

Frame == [kind : {"call", "create"}, at : Address, spent : Nat]

Part == [from : SUBSET Block, ok : BOOLEAN, usage : [Address -> ContractUsage]]

NoReport == [state |-> "none"]
Failure  == [state |-> "error"]

TypeOK ==
    /\ frames \in [Block -> Seq(Frame)]
    /\ clock \in 0 .. MaxGas
    /\ account_to_usage \in [Block -> [Address -> ContractUsage]]
    /\ parent_bytecode_stack \in [Block -> Seq(Address)]
    /\ current_bytecode \in [Block -> Address \cup {NoAddress}]
    /\ parts \subseteq Part
    /\ report.state \in {"none", "error", "ok", "top", "panicked"}
    /\ own \in [Block -> [Address -> Nat]]

Init ==
    /\ frames = [b \in Block |-> <<>>] /\ clock = 0
    /\ account_to_usage = [b \in Block |-> Unused]
    /\ parent_bytecode_stack = [b \in Block |-> <<>>]
    /\ current_bytecode = [b \in Block |-> NoAddress]
    /\ parts = {} /\ report = NoReport
    /\ own = [b \in Block |-> [a \in Address |-> 0]]

-----------------------------------------------------------------------------
(* ContractUsage.                                                          *)

\* Mutant of Merged: the deficits of the other one are forgotten.
MergedGross(u, v) ==
    [u EXCEPT !.gas_used = @ + v.gas_used, !.frequency = @ + v.frequency]

\* Mutant of Merged: the frequency of the other one is forgotten.
MergedOnce(u, v) ==
    [u EXCEPT !.gas_used = @ + v.gas_used, !.gas_deficit = @ + v.gas_deficit]

Merged(u, v) ==
    [gas_used    |-> u.gas_used + v.gas_used,
     frequency   |-> u.frequency + v.frequency,
     gas_deficit |-> u.gas_deficit + v.gas_deficit]

\* ContractUsage::gas_used, which panics when the result is negative.
Net(u) == u.gas_used - u.gas_deficit

-----------------------------------------------------------------------------
(* The inspector of a block.                                               *)

\* Mutant of InspectCall: every call is taken for a call of the first one.
InspectCallKeeps(b, contract) ==
    /\ IF current_bytecode[b] # NoAddress
       THEN /\ parent_bytecode_stack' =
                    [parent_bytecode_stack EXCEPT ![b] = Append(@, current_bytecode[b])]
            /\ UNCHANGED current_bytecode
       ELSE /\ current_bytecode' = [current_bytecode EXCEPT ![b] = contract]
            /\ UNCHANGED parent_bytecode_stack
    /\ UNCHANGED account_to_usage

\* Mutant of InspectCall: None is pushed like any other caller.
InspectCallAlways(b, contract) ==
    /\ parent_bytecode_stack' =
           [parent_bytecode_stack EXCEPT ![b] = Append(@, current_bytecode[b])]
    /\ current_bytecode' = [current_bytecode EXCEPT ![b] = contract]
    /\ UNCHANGED account_to_usage

InspectCall(b, contract) ==
    /\ parent_bytecode_stack' =
           [parent_bytecode_stack EXCEPT
                ![b] = IF current_bytecode[b] # NoAddress
                       THEN Append(@, current_bytecode[b]) ELSE @]
    /\ current_bytecode' = [current_bytecode EXCEPT ![b] = contract]
    /\ UNCHANGED account_to_usage

Recorded(usage, contract, spent) ==
    [usage EXCEPT ![contract].gas_used = @ + spent, ![contract].frequency = @ + 1]

Deficit(usage, caller, spent) == [usage EXCEPT ![caller].gas_deficit = @ + spent]

\* Mutant of InspectCallEnd: the caller does not become current again.
InspectCallEndStays(b, contract, spent) ==
    LET parents == parent_bytecode_stack[b] IN
    /\ parent_bytecode_stack' =
           [parent_bytecode_stack EXCEPT ![b] = SubSeq(@, 1, Len(@) - 1)]
    /\ account_to_usage' =
           [account_to_usage EXCEPT
                ![b] = IF parents = <<>> THEN Recorded(@, contract, spent)
                       ELSE Deficit(Recorded(@, contract, spent), parents[Len(parents)], spent)]
    /\ current_bytecode' =
           [current_bytecode EXCEPT ![b] = IF parents = <<>> THEN NoAddress ELSE @]

InspectCallEnd(b, contract, spent) ==
    LET parents  == parent_bytecode_stack[b]
        recorded == Recorded(account_to_usage[b], contract, spent) IN
    IF parents = <<>>
    THEN /\ account_to_usage' = [account_to_usage EXCEPT ![b] = recorded]
         /\ current_bytecode' = [current_bytecode EXCEPT ![b] = NoAddress]
         /\ UNCHANGED parent_bytecode_stack
    ELSE LET parent == parents[Len(parents)] IN
         /\ account_to_usage' =
                [account_to_usage EXCEPT ![b] = Deficit(recorded, parent, spent)]
         /\ current_bytecode' = [current_bytecode EXCEPT ![b] = parent]
         /\ parent_bytecode_stack' =
                [parent_bytecode_stack EXCEPT ![b] = SubSeq(@, 1, Len(@) - 1)]

-----------------------------------------------------------------------------
(* The execution of a block.                                               *)

Executing(b) == \A x \in parts : b \notin x.from

\* Gas spent in the frame at the given depth is spent by the innermost
\* called code there, on a creation or not.
Spender(b, depth) ==
    LET calls == {i \in 1 .. depth : frames[b][i].kind = "call"}
    IN  IF calls = {} THEN NoAddress ELSE frames[b][Max(calls)].at

Charge(b, depth, gas) ==
    own' = [own EXCEPT ![b] = [a \in Address |->
                own[b][a] + IF a = Spender(b, depth) THEN gas ELSE 0]]

Begin(b, kind, a) ==
    /\ Executing(b) /\ clock < MaxGas
    /\ frames' = [frames EXCEPT ![b] = Append(@, [kind |-> kind, at |-> a, spent |-> 0])]
    /\ clock' = clock + 1
    /\ UNCHANGED <<own, parts, report>>

Call(b, a)   == Begin(b, "call", a) /\ InspectCall(b, a)
Create(b, a) == Begin(b, "create", a) /\ UNCHANGED inspectorVars

Spend(b) ==
    /\ Executing(b) /\ frames[b] # <<>> /\ clock < MaxGas
    /\ frames' = [frames EXCEPT ![b][Len(frames[b])].spent = @ + 1]
    /\ clock' = clock + 1
    /\ Charge(b, Len(frames[b]), 1)
    /\ UNCHANGED <<inspectorVars, parts, report>>

\* The caller pays what the frame spent, and what it had left if it came to
\* an exceptional halt.
Return(b, left) ==
    LET depth == Len(frames[b])
        frame == frames[b][depth]
    IN  /\ Executing(b) /\ depth > 0
        /\ left > 0 => depth > 1 /\ clock + left <= MaxGas
        /\ clock' = clock + left
        /\ frames' = [frames EXCEPT ![b] =
                          [i \in 1 .. depth - 1 |->
                              [frames[b][i] EXCEPT
                                  !.spent = IF i = depth - 1 THEN @ + frame.spent + left ELSE @]]]
        /\ Charge(b, depth - 1, left)
        /\ IF frame.kind = "call" THEN InspectCallEnd(b, frame.at, frame.spent)
                                  ELSE UNCHANGED inspectorVars
        /\ UNCHANGED <<parts, report>>

\* sim.run() returns, and the map is taken out of the evm; or it fails, by a
\* transaction or by the provider.
EndBlock(b, ok) ==
    /\ Executing(b)
    /\ ok => frames[b] = <<>>
    /\ parts' = parts \cup {[from |-> {b}, ok |-> ok,
                             usage |-> IF ok THEN account_to_usage[b] ELSE Unused]}
    /\ UNCHANGED <<evmVars, inspectorVars, report>>

-----------------------------------------------------------------------------
(* Reduction and report.                                                   *)

\* AddAssign of the maps; an error wins.
Reduce(x, y) ==
    /\ x # y
    /\ parts' = (parts \ {x, y}) \cup
            {[from |-> x.from \cup y.from, ok |-> x.ok /\ y.ok,
              usage |-> IF x.ok /\ y.ok
                        THEN [a \in Address |-> Merged(x.usage[a], y.usage[a])]
                        ELSE Unused]}
    /\ UNCHANGED <<evmVars, inspectorVars, report>>

\* The usage of the addresses in the set, merged in some order.
MergeAll(usage, addresses) ==
    MapThenFoldSet(Merged, NoUsage, LAMBDA a : usage[a], LAMBDA S : CHOOSE a \in S : TRUE,
                   addresses)

\* The addresses the report knows are those with a usage and a code.
Used(usage) == {a \in Address : usage[a] # NoUsage}

Report(latest) ==
    /\ report = NoReport
    /\ \E x \in parts :
          /\ x.from = Block
          /\ report' =
                IF ~x.ok THEN Failure
                ELSE [state |-> "ok",
                      latest |-> latest,
                      bytecode_stats |->
                          [c \in {latest[a] : a \in Used(x.usage)} \ {NoCode} |->
                              MergeAll(x.usage, {a \in Used(x.usage) : latest[a] = c})],
                      csum_stats |->
                          MergeAll(x.usage, {a \in Used(x.usage) : latest[a] # NoCode}),
                      top |-> <<>>]
    /\ UNCHANGED <<evmVars, inspectorVars, parts>>

\* Mutant of Weight: the gas of the calls counts for the caller too.
WeightWithCalls(usage) == usage.gas_used

\* What the bytecodes are sorted by, as a share of csum_stats.
Weight(usage) == Net(usage)

\* Heaviest first; equals in any order, as they come out of the HashMap.
Rankings(stats) ==
    {r \in [1 .. Cardinality(DOMAIN stats) -> DOMAIN stats] :
        \A i, j \in DOMAIN r : i < j => r[i] # r[j] /\ Weight(stats[r[i]]) >= Weight(stats[r[j]])}

\* into_top_guzzlers_stats.  Shares of nothing are not numbers, and two of
\* them cannot be compared: unwrap panics.
Top(size) ==
    /\ report.state = "ok"
    /\ IF Net(report.csum_stats) = 0 /\ Cardinality(DOMAIN report.bytecode_stats) > 1
       THEN report' = [report EXCEPT !.state = "panicked"]
       ELSE \E r \in Rankings(report.bytecode_stats) :
               report' = [report EXCEPT !.state = "top",
                              !.top = SubSeq(r, 1, IF size < Len(r) THEN size ELSE Len(r))]
    /\ UNCHANGED <<evmVars, inspectorVars, parts>>

\* Without a size, the number of calls is the size.
TopOfAll == report.state = "ok" /\ Top(report.csum_stats.frequency)

Next ==
    \/ \E b \in Block :
          \/ \E a \in Address : Call(b, a) \/ Create(b, a)
          \/ Spend(b)
          \/ \E left \in 0 .. 1 : Return(b, left)
          \/ \E ok \in BOOLEAN : EndBlock(b, ok)
    \/ \E x, y \in parts : Reduce(x, y)
    \/ \E latest \in [Address -> Code \cup {NoCode}] : Report(latest)
    \/ \E size \in 0 .. Cardinality(Code) : Top(size)
    \/ TopOfAll

Spec == Init /\ [][Next]_vars

-----------------------------------------------------------------------------
(* Properties.                                                             *)

\* The inspector's view of the stack is the stack of calls, although it is
\* told of no creation: nested creations neither shift it nor leave anything
\* on it, and a block starts every transaction with nothing on it.
FollowsCalls ==
    \A b \in Block :
        LET calls     == {i \in DOMAIN frames[b] : frames[b][i].kind = "call"}
            inspected == IF current_bytecode[b] = NoAddress THEN parent_bytecode_stack[b]
                         ELSE Append(parent_bytecode_stack[b], current_bytecode[b])
        IN  /\ Len(inspected) = Cardinality(calls)
            /\ \A i \in calls :
                  inspected[Cardinality({j \in calls : j <= i})] = frames[b][i].at

\* Between transactions, gas minus deficit of each address is the gas its
\* own code spent, however calls and creations nest and recur and however
\* they end; in particular ContractUsage::gas_used does not panic.
NetIsOwn ==
    \A b \in Block : frames[b] = <<>> =>
        \A a \in Address : Net(account_to_usage[b][a]) = own[b][a]

\* The gas that the code c spent itself, wherever it is and in all blocks.
Spent(c) ==
    MapThenSumSet(LAMBDA p : own[p[1]][p[2]],
                  {p \in Block \X Address : report.latest[p[2]] = c})

\* The report accounts for all blocks or is an error: for each bytecode, the
\* gas of all addresses that have it, over all blocks, each once, whichever
\* way the reduction went.
ReportIsOwn ==
    report.state = "ok" =>
        \A c \in DOMAIN report.bytecode_stats : Net(report.bytecode_stats[c]) = Spent(c)

\* What is compiled as gas guzzlers are those that spent most themselves: a
\* bytecode that spent more than a chosen one is chosen, and before it.  The
\* sort panics on its quotients only when there is nothing to choose by: no
\* reported bytecode spent anything.
TopIsHeaviest ==
    /\ report.state = "top" =>
          \A c \in DOMAIN report.bytecode_stats, i \in DOMAIN report.top :
              Spent(c) > Spent(report.top[i]) => \E j \in 1 .. i - 1 : report.top[j] = c
    /\ report.state = "panicked" =>
          \A c \in DOMAIN report.bytecode_stats : Spent(c) = 0

\* Without a size, into_top_guzzlers_stats takes as many bytecodes as there
\* were calls: that is all of them.
DefaultTakesAll ==
    [][TopOfAll /\ report'.state = "top" =>
        {report'.top[i] : i \in DOMAIN report'.top} = DOMAIN report.bytecode_stats]_vars
=============================================================================
