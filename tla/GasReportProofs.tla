-------------------------- MODULE GasReportProofs --------------------------
(***************************************************************************)
(* Theorems about the report of GasGuzzlers: for any number of blocks and  *)
(* addresses, whichever way the parts were reduced, and whichever code the *)
(* addresses have in the latest state, it accounts for the gas that every  *)
(* code spent itself, and what is chosen from it spent most.               *)
(*                                                                         *)
(* A part stands for the blocks it is from: by address, its gas minus its  *)
(* deficit is the sum of what the address spent in these blocks, in which  *)
(* nothing is spent any more (PartsInv).  The report sums the same gas by  *)
(* bytecode, and Spent(c) sums it over the pairs of a block and an         *)
(* address (StatsInv).                                                     *)
(***************************************************************************)
EXTENDS GasGuzzlersProofs

-----------------------------------------------------------------------------
(* The folds of the model are sums.                                        *)

\* The fold of the usage of some addresses, field by field.
LEMMA MergeAllIs ==
    ASSUME NEW usage \in [Address -> ContractUsage], NEW S \in SUBSET Address
    PROVE  \E G, N, D :
              /\ SumOf(G, [a \in S |-> usage[a].gas_used], S)
              /\ SumOf(N, [a \in S |-> usage[a].frequency], S)
              /\ SumOf(D, [a \in S |-> usage[a].gas_deficit], S)
              /\ MergeAll(usage, S) = [gas_used |-> G[S], frequency |-> N[S], gas_deficit |-> D[S]]
<1> DEFINE f == [a \in S |-> usage[a].gas_used]
           g == [a \in S |-> usage[a].frequency]
           h == [a \in S |-> usage[a].gas_deficit]
<1>1. IsFiniteSet(S)
    BY GasAssumption, FS_Subset
<1>2. /\ f \in [S -> Int] /\ g \in [S -> Int] /\ h \in [S -> Int]
      /\ \A a \in S : /\ f[a] = usage[a].gas_used /\ g[a] = usage[a].frequency
                      /\ h[a] = usage[a].gas_deficit
    BY DEF ContractUsage
<1> HIDE DEF f, g, h
<1>3. PICK F0, G0, H0 : Unfolds(F0, f, S) /\ Unfolds(G0, g, S) /\ Unfolds(H0, h, S)
    BY <1>1, UnfoldsExists
<1>4. \E all : all = [s \in SUBSET S |->
                        IF s = {} THEN NoUsage
                        ELSE Merged(usage[CHOOSE x \in s : TRUE], all[s \ {CHOOSE x \in s : TRUE}])]
    <2> DEFINE all == [s \in SUBSET S |->
                         [gas_used |-> F0[s], frequency |-> G0[s], gas_deficit |-> H0[s]]]
    <2>1. \A s \in SUBSET S :
             all[s] = IF s = {} THEN NoUsage
                      ELSE Merged(usage[CHOOSE x \in s : TRUE], all[s \ {CHOOSE x \in s : TRUE}])
        <3> SUFFICES ASSUME NEW s \in SUBSET S
                     PROVE  all[s] = IF s = {} THEN NoUsage
                                     ELSE Merged(usage[First(s)], all[s \ {First(s)}])
            BY DEF First
        <3>1. /\ F0[s] = IF s = {} THEN 0 ELSE f[First(s)] + F0[s \ {First(s)}]
              /\ G0[s] = IF s = {} THEN 0 ELSE g[First(s)] + G0[s \ {First(s)}]
              /\ H0[s] = IF s = {} THEN 0 ELSE h[First(s)] + H0[s \ {First(s)}]
            BY <1>3 DEF Unfolds
        <3>2. CASE s = {}
            BY <3>1, <3>2 DEF NoUsage
        <3>3. CASE s # {}
            <4>1. First(s) \in S /\ s \ {First(s)} \in SUBSET S
                BY <3>3, FirstIsIn
            <4> QED
                BY <1>2, <3>1, <3>3, <4>1 DEF Merged
        <3> QED
            BY <3>2, <3>3
    <2>2. all = [s \in SUBSET S |->
                   IF s = {} THEN NoUsage
                   ELSE Merged(usage[CHOOSE x \in s : TRUE], all[s \ {CHOOSE x \in s : TRUE}])]
        <3>1. all = [s \in SUBSET S |-> all[s]]
            OBVIOUS
        <3> HIDE DEF all
        <3> QED
            BY <2>1, <3>1
    <2> HIDE DEF all
    <2> WITNESS all
    <2> QED
        BY <2>2
<1>5. \E iter :
         /\ iter = [s \in SUBSET S |->
                      IF s = {} THEN NoUsage
                      ELSE Merged(usage[CHOOSE x \in s : TRUE], iter[s \ {CHOOSE x \in s : TRUE}])]
         /\ MergeAll(usage, S) = iter[S]
    BY ONLY <1>4 DEF MergeAll, MapThenFoldSet
<1>6. PICK all :
         /\ \A s \in SUBSET S :
               all[s] = IF s = {} THEN NoUsage
                        ELSE Merged(usage[First(s)], all[s \ {First(s)}])
         /\ MergeAll(usage, S) = all[S]
    BY <1>5 DEF First
<1>7. PICK F, G, H : /\ F = [s \in SUBSET S |-> all[s].gas_used]
                     /\ G = [s \in SUBSET S |-> all[s].frequency]
                     /\ H = [s \in SUBSET S |-> all[s].gas_deficit]
    OBVIOUS
<1>8. ASSUME NEW s \in SUBSET S
      PROVE  /\ F[s] = IF s = {} THEN 0 ELSE f[First(s)] + F[s \ {First(s)}]
             /\ G[s] = IF s = {} THEN 0 ELSE g[First(s)] + G[s \ {First(s)}]
             /\ H[s] = IF s = {} THEN 0 ELSE h[First(s)] + H[s \ {First(s)}]
             /\ all[s] = [gas_used |-> F[s], frequency |-> G[s], gas_deficit |-> H[s]]
    <2>1. F[s] = all[s].gas_used /\ G[s] = all[s].frequency /\ H[s] = all[s].gas_deficit
        BY <1>7
    <2>2. CASE s = {}
        <3>1. all[s] = NoUsage
            BY <1>6, <2>2
        <3> QED
            BY <2>1, <2>2, <3>1 DEF NoUsage
    <2>3. CASE s # {}
        <3>1. First(s) \in S /\ s \ {First(s)} \in SUBSET S
            BY <2>3, FirstIsIn
        <3>2. all[s] = Merged(usage[First(s)], all[s \ {First(s)}])
            BY <1>6, <2>3
        <3>3. /\ F[s \ {First(s)}] = all[s \ {First(s)}].gas_used
              /\ G[s \ {First(s)}] = all[s \ {First(s)}].frequency
              /\ H[s \ {First(s)}] = all[s \ {First(s)}].gas_deficit
            BY <1>7, <3>1
        <3> QED
            BY <1>2, <2>1, <2>3, <3>1, <3>2, <3>3 DEF Merged
    <2> QED
        BY <2>2, <2>3
<1>9. Unfolds(F, f, S) /\ Unfolds(G, g, S) /\ Unfolds(H, h, S)
    <2>1. F = [s \in SUBSET S |-> F[s]] /\ G = [s \in SUBSET S |-> G[s]] /\ H = [s \in SUBSET S |-> H[s]]
        BY <1>7
    <2> QED
        BY <1>8, <2>1 DEF Unfolds
<1>10. SumOf(F, f, S) /\ SumOf(G, g, S) /\ SumOf(H, h, S)
    BY <1>1, <1>2, <1>9, UnfoldsSum
<1>11. MergeAll(usage, S) = [gas_used |-> F[S], frequency |-> G[S], gas_deficit |-> H[S]]
    BY <1>6, <1>8
<1> QED
    BY <1>10, <1>11 DEF f, g, h

\* Gas minus deficit of the fold is the sum of gas minus deficit; and there is
\* a call for every address that has one.
LEMMA NetAll ==
    ASSUME NEW usage \in [Address -> ContractUsage], NEW S \in SUBSET Address,
           NEW g \in [Address -> Int], \A a \in Address : g[a] = Net(usage[a]),
           NEW G, SumOf(G, g, Address)
    PROVE  /\ Net(MergeAll(usage, S)) = G[S]
           /\ MergeAll(usage, S).frequency \in Nat
           /\ (\A a \in S : usage[a].frequency # 0)
                 => Cardinality(S) <= MergeAll(usage, S).frequency
<1> DEFINE f == [a \in S |-> usage[a].gas_used]
           n == [a \in S |-> usage[a].frequency]
           d == [a \in S |-> usage[a].gas_deficit]
<1>1. IsFiniteSet(S) /\ IsFiniteSet(Address)
    BY GasAssumption, FS_Subset
<1>2. /\ f \in [S -> Int] /\ n \in [S -> Nat] /\ d \in [S -> Int]
      /\ \A a \in S : /\ f[a] = usage[a].gas_used /\ n[a] = usage[a].frequency
                      /\ d[a] = usage[a].gas_deficit
    BY DEF ContractUsage
<1>3. PICK F, N, D :
         /\ SumOf(F, f, S) /\ SumOf(N, n, S) /\ SumOf(D, d, S)
         /\ MergeAll(usage, S) = [gas_used |-> F[S], frequency |-> N[S], gas_deficit |-> D[S]]
    BY MergeAllIs
<1> HIDE DEF f, n, d
<1>4. PICK m \in [S -> Int] : \A a \in S : m[a] = g[a]
    <2> DEFINE m == [a \in S |-> g[a]]
    <2>1. m \in [S -> Int] /\ \A a \in S : m[a] = g[a]
        OBVIOUS
    <2> QED
        BY <2>1
<1>5. PICK M : SumOf(M, m, S)
    BY <1>1, SumExists
<1>6. S \in SUBSET S
    OBVIOUS
<1>7. F[S] = D[S] + M[S]
    <2>1. \A a \in S : f[a] = d[a] + m[a]
        BY <1>2, <1>4 DEF ContractUsage, Net
    <2>2. \A s \in SUBSET S : F[s] = D[s] + M[s]
        <3>1. /\ IsFiniteSet(S) /\ d \in [S -> Int] /\ m \in [S -> Int] /\ f \in [S -> Int]
              /\ SumOf(D, d, S) /\ SumOf(M, m, S) /\ SumOf(F, f, S)
            BY <1>1, <1>2, <1>3, <1>5
        <3> QED
            BY ONLY <2>1, <3>1, SumPlus
    <2> QED
        BY <1>6, <2>2
<1>8. M[S] = G[S]
    BY <1>1, <1>4, <1>5, <1>6, SumSame
<1>9. D[S] \in Int /\ M[S] \in Int
    BY <1>3, <1>5, <1>6 DEF SumOf
<1>10. Net(MergeAll(usage, S)) = G[S]
    BY <1>3, <1>7, <1>8, <1>9 DEF Net
<1>11. N[S] \in Nat /\ ((\A a \in S : n[a] # 0) => Cardinality(S) <= N[S])
    BY <1>1, <1>2, <1>3, <1>6, SumNatural
<1> QED
    BY <1>2, <1>3, <1>10, <1>11

\* All gas, by block and address.
Gas == [p \in Block \X Address |-> own[p[1]][p[2]]]
GasSum(F) == SumOf(F, Gas, Block \X Address)

\* The addresses with the code c in the latest state.
Holders(c) == {a \in Address : report.latest[a] = c}

LEMMA GasIs ==
    ASSUME TypeOK
    PROVE  /\ IsFiniteSet(Block) /\ IsFiniteSet(Address) /\ IsFiniteSet(Block \X Address)
           /\ Gas \in [Block \X Address -> Nat]
           /\ Gas \in [Block \X Address -> Int]
           /\ \A b \in Block, a \in Address : Gas[<<b, a>>] = own[b][a]
<1>1. IsFiniteSet(Block) /\ IsFiniteSet(Address) /\ IsFiniteSet(Block \X Address)
    BY GasAssumption, FS_Product
<1>2. \A p \in Block \X Address : own[p[1]][p[2]] \in Nat
    BY DEF TypeOK
<1>3. Gas \in [Block \X Address -> Nat]
    BY <1>2 DEF Gas
<1>4. \A b \in Block, a \in Address : Gas[<<b, a>>] = own[b][a]
    BY DEF Gas
<1> QED
    BY <1>1, <1>3, <1>4

LEMMA SpentIs ==
    ASSUME TypeOK, NEW c, NEW F, GasSum(F)
    PROVE  Spent(c) = F[Block \X Holders(c)]
<1> DEFINE S == {p \in Block \X Address : report.latest[p[2]] = c}
           g == [p \in S |-> own[p[1]][p[2]]]
<1>1. S = Block \X Holders(c) /\ S \in SUBSET (Block \X Address)
    BY DEF Holders
<1>2. IsFiniteSet(S)
    BY <1>1, GasIs, FS_Subset
<1>3. g \in [S -> Int] /\ \A p \in S : g[p] = own[p[1]][p[2]] /\ g[p] = Gas[p]
    BY DEF Gas, TypeOK
<1>4. PICK T : T = S
    OBVIOUS
<1> HIDE DEF g
<1>5. PICK G0 : Unfolds(G0, g, S)
    BY <1>2, UnfoldsExists
<1>6. \A sum : Unfolds(sum, g, S) <=>
         sum = [s \in SUBSET S |->
                  IF s = {} THEN 0
                  ELSE own[(CHOOSE x \in s : TRUE)[1]][(CHOOSE x \in s : TRUE)[2]]
                         + sum[s \ {CHOOSE x \in s : TRUE}]]
    <2> HIDE DEF S
    <2>1. \A s \in SUBSET S : s # {} => g[First(s)] = own[First(s)[1]][First(s)[2]]
        BY <1>3, FirstIsIn
    <2> QED
        BY <2>1 DEF Unfolds, First
<1>7. \E sum : sum = [s \in SUBSET S |->
                  IF s = {} THEN 0
                  ELSE own[(CHOOSE x \in s : TRUE)[1]][(CHOOSE x \in s : TRUE)[2]]
                         + sum[s \ {CHOOSE x \in s : TRUE}]]
    <2>1. G0 = [s \in SUBSET S |->
                  IF s = {} THEN 0
                  ELSE own[(CHOOSE x \in s : TRUE)[1]][(CHOOSE x \in s : TRUE)[2]]
                         + G0[s \ {CHOOSE x \in s : TRUE}]]
        BY <1>5, <1>6
    <2> WITNESS G0
    <2> QED
        BY <2>1
<1>8. \E iter :
         /\ iter = [s \in SUBSET S |->
                  IF s = {} THEN 0
                  ELSE own[(CHOOSE x \in s : TRUE)[1]][(CHOOSE x \in s : TRUE)[2]]
                         + iter[s \ {CHOOSE x \in s : TRUE}]]
         /\ Spent(c) = iter[S]
    BY ONLY <1>7 DEF Spent, MapThenSumSet, MapThenFoldSet
<1>9. PICK G : Unfolds(G, g, S) /\ Spent(c) = G[S]
    BY <1>6, <1>8
<1> HIDE DEF S
<1>10. SumOf(G, g, S) /\ S \in SUBSET S
    BY <1>2, <1>3, <1>9, UnfoldsSum
<1>11. G[S] = F[S]
    BY <1>1, <1>2, <1>3, <1>10, GasIs, SumSame DEF GasSum
<1> QED
    BY <1>1, <1>9, <1>11

-----------------------------------------------------------------------------
(* The inductive invariant.                                                *)

\* What the address spent, by block.
OwnOf(a) == [b \in Block |-> own[b][a]]
OwnSum(F, a) == SumOf(F, OwnOf(a), Block)

\* An address that is known without having been called to the end is a caller
\* that is still on the stack.
CallsInv ==
    \A b \in Block, a \in Address :
        account_to_usage[b][a] # NoUsage /\ account_to_usage[b][a].frequency = 0 =>
            \E i \in 1 .. Len(frames[b]) : IsCall(frames[b], i) /\ frames[b][i].at = a

\* The part has what its blocks spent, and a call for each address it knows.
Accounts(x) ==
    \A a \in Address :
        /\ \A F : OwnSum(F, a) => Net(x.usage[a]) = F[x.from]
        /\ x.usage[a] # NoUsage => x.usage[a].frequency # 0

PartsInv ==
    /\ \A x, y \in parts : x # y => x.from \cap y.from = {}
    /\ \A x \in parts : x.ok => Accounts(x)

StatsInv ==
    /\ (report.state # "none" => \A b \in Block : ~Executing(b))
    /\ (report.state \in {"ok", "top", "panicked"} =>
          /\ {"state", "bytecode_stats", "csum_stats", "top"} \subseteq DOMAIN report
          /\ IsFiniteSet(DOMAIN report.bytecode_stats)
          /\ \A c \in DOMAIN report.bytecode_stats : \A F :
                GasSum(F) => Net(report.bytecode_stats[c]) = F[Block \X Holders(c)]
          /\ report.csum_stats.frequency \in Nat
          /\ Cardinality(DOMAIN report.bytecode_stats) <= report.csum_stats.frequency
          /\ Net(report.csum_stats) = 0 =>
                \A c \in DOMAIN report.bytecode_stats : Net(report.bytecode_stats[c]) = 0)

\* Whatever is heavier than something chosen comes before it.
Heaviest(stats, top) ==
    \A i \in DOMAIN top :
        /\ top[i] \in DOMAIN stats
        /\ \A c \in DOMAIN stats :
              Net(stats[c]) > Net(stats[top[i]]) => \E j \in 1 .. i - 1 : top[j] = c

TopInv ==
    /\ report.state = "top" => Heaviest(report.bytecode_stats, report.top)
    /\ report.state = "panicked" => Net(report.csum_stats) = 0

ReportedInv == GasInv /\ CallsInv /\ PartsInv /\ StatsInv /\ TopInv

LEMMA OwnIs ==
    ASSUME TypeOK, NEW a \in Address
    PROVE  /\ OwnOf(a) \in [Block -> Nat] /\ OwnOf(a) \in [Block -> Int]
           /\ \A b \in Block : OwnOf(a)[b] = own[b][a]
           /\ \E F : OwnSum(F, a)
<1>1. /\ OwnOf(a) \in [Block -> Nat] /\ OwnOf(a) \in [Block -> Int]
      /\ \A b \in Block : OwnOf(a)[b] = own[b][a]
    BY DEF OwnOf, TypeOK
<1> QED
    BY <1>1, GasAssumption, SumExists DEF OwnSum

-----------------------------------------------------------------------------
(* Execution.                                                              *)

\* While a block executes there is no report, and no part is about it.
LEMMA ExecutingStep ==
    ASSUME TypeOK, TypeOK', PartsInv, StatsInv, NEW b \in Block, Executing(b),
           UNCHANGED <<parts, report>>, \A c \in Block \ {b} : own'[c] = own[c]
    PROVE  PartsInv' /\ StatsInv' /\ TopInv'
<1>1. report'.state = "none"
    BY DEF StatsInv
<1>2. StatsInv' /\ TopInv'
    BY <1>1 DEF StatsInv, TopInv
<1>3. ASSUME NEW x \in parts, x.ok
      PROVE  Accounts(x)'
    <2>1. Accounts(x) /\ b \notin x.from /\ x.from \in SUBSET Block
        BY <1>3 DEF PartsInv, Executing, TypeOK, Part
    <2>2. ASSUME NEW a \in Address, NEW F, OwnSum(F, a)'
          PROVE  Net(x.usage[a]) = F[x.from]
        <3>1. PICK F0 : OwnSum(F0, a)
            BY OwnIs
        <3>2. /\ OwnOf(a) \in [Block -> Int] /\ OwnOf(a)' \in [Block -> Int]
              /\ \A c \in x.from : OwnOf(a)[c] = OwnOf(a)'[c]
            <4>1. own \in [Block -> [Address -> Nat]] /\ own' \in [Block -> [Address -> Nat]]
                BY DEF TypeOK
            <4>2. OwnOf(a)' = [c \in Block |-> own'[c][a]]
                BY DEF OwnOf
            <4>3. \A c \in x.from : own'[c] = own[c] /\ c \in Block
                BY <2>1
            <4>4. OwnOf(a) \in [Block -> Int] /\ OwnOf(a)' \in [Block -> Int]
                BY <4>1, <4>2 DEF OwnOf
            <4> QED
                BY <4>2, <4>3, <4>4 DEF OwnOf
        <3>3. F0[x.from] = F[x.from]
            BY <2>1, <2>2, <3>1, <3>2, GasAssumption, SumSame DEF OwnSum
        <3> QED
            BY <2>1, <3>1, <3>3 DEF Accounts
    <2>3. \A a \in Address : x.usage[a] # NoUsage => x.usage[a].frequency # 0
        BY <2>1 DEF Accounts
    <2> QED
        BY <2>2, <2>3 DEF Accounts
<1>4. PartsInv'
    BY <1>3 DEF PartsInv
<1> QED
    BY <1>2, <1>4

\* A call or a creation begins.
LEMMA BeginReported ==
    ASSUME ReportedInv, TypeOK', NEW b \in Block, NEW kind \in {"call", "create"},
           NEW a \in Address, Begin(b, kind, a), UNCHANGED account_to_usage
    PROVE  CallsInv' /\ PartsInv' /\ StatsInv' /\ TopInv'
<1>0. TypeOK
    BY DEF ReportedInv, GasInv
<1>1. /\ Len(frames[b]) \in Nat /\ Len(frames[b])' = Len(frames[b]) + 1
      /\ \A i \in 1 .. Len(frames[b]) : frames'[b][i] = frames[b][i]
      /\ \A c \in Block \ {b} : frames'[c] = frames[c]
      /\ UNCHANGED <<own, parts, report>>
    BY <1>0, BeginStep
<1>2. \A c \in Block : \A i \in 1 .. Len(frames[c]) :
         i \in 1 .. Len(frames[c])' /\ frames'[c][i] = frames[c][i]
    BY <1>1
<1>3. CallsInv'
    BY <1>2 DEF ReportedInv, CallsInv, IsCall
<1>4. Executing(b)
    BY DEF Begin
<1> QED
    BY <1>0, <1>1, <1>3, <1>4, ExecutingStep DEF ReportedInv

\* Gas is spent.
LEMMA SpendReported ==
    ASSUME ReportedInv, TypeOK', NEW b \in Block, Spend(b)
    PROVE  CallsInv' /\ PartsInv' /\ StatsInv' /\ TopInv'
<1>0. TypeOK
    BY DEF ReportedInv, GasInv
<1>1. PICK n : n = Len(frames[b])
    OBVIOUS
<1>2. frames[b] \in Seq(Frame) /\ n \in Nat /\ n # 0
    BY <1>0, <1>1 DEF Spend, TypeOK
<1>3. n \in 1 .. n /\ frames[b][n] \in Frame
    BY <1>1, <1>2
<1>4. PICK f : f = [frames[b][n] EXCEPT !.spent = @ + 1]
    OBVIOUS
<1>5. f \in Frame /\ f.kind = frames[b][n].kind /\ f.at = frames[b][n].at
    BY <1>3, <1>4 DEF Frame
<1>6. PICK gs : gs = [frames[b] EXCEPT ![n] = f]
    OBVIOUS
<1>7. /\ Len(gs) = n
      /\ \A i \in 1 .. n : gs[i].kind = frames[b][i].kind /\ gs[i].at = frames[b][i].at
    BY <1>1, <1>2, <1>3, <1>5, <1>6
<1>8. frames' = [frames EXCEPT ![b] = gs]
    BY <1>1, <1>4, <1>6 DEF Spend
<1>9. \A c \in Block : /\ Len(frames[c])' = Len(frames[c])
                       /\ \A i \in 1 .. Len(frames[c]) :
                             /\ frames'[c][i].kind = frames[c][i].kind
                             /\ frames'[c][i].at = frames[c][i].at
    BY <1>0, <1>1, <1>7, <1>8 DEF TypeOK
<1>10. CallsInv'
    BY <1>9 DEF ReportedInv, CallsInv, IsCall, Spend, inspectorVars
<1>11. Executing(b) /\ UNCHANGED <<parts, report>> /\ \A c \in Block \ {b} : own'[c] = own[c]
    BY <1>0 DEF Spend, Charge, TypeOK
<1> QED
    BY <1>0, <1>10, <1>11, ExecutingStep DEF ReportedInv

\* The end of a call is recorded, as a frequency for the contract; only its
\* caller is known for a deficit alone.
LEMMA ReturnUsage ==
    ASSUME TypeOK, NEW b \in Block, NEW left \in 0 .. 1, Return(b, left),
           NEW f, f = frames[b][Len(frames[b])], f \in Frame,
           NEW ps, ps = parent_bytecode_stack[b],
           NEW p, p = IF ps = <<>> THEN NoAddress ELSE ps[Len(ps)]
    PROVE  /\ \A c \in Block \ {b} : account_to_usage'[c] = account_to_usage[c]
           /\ f.kind # "call" => account_to_usage'[b] = account_to_usage[b]
           /\ f.kind = "call" =>
                 /\ account_to_usage'[b][f.at].frequency # 0
                 /\ \A a \in Address \ {f.at, p} :
                       account_to_usage'[b][a] = account_to_usage[b][a]
<1>1. CASE f.kind # "call"
    BY <1>1 DEF Return, inspectorVars
<1>2. CASE f.kind = "call"
    <2>1. InspectCallEnd(b, f.at, f.spent)
        BY <1>2 DEF Return
    <2>2. /\ ps \in Seq(Address) /\ (ps # <<>> => p \in Address)
          /\ account_to_usage[b] \in [Address -> ContractUsage]
          /\ f.at \in Address /\ f.spent \in Nat
        <3>1. ps \in Seq(Address) /\ account_to_usage[b] \in [Address -> ContractUsage]
            BY DEF TypeOK
        <3>2. ps # <<>> => ps[Len(ps)] \in Address
            BY <3>1
        <3> QED
            BY <3>1, <3>2 DEF Frame
    <2>3. PICK u : u = Recorded(account_to_usage[b], f.at, f.spent)
        OBVIOUS
    <2>4. /\ u[f.at].frequency # 0
          /\ u[f.at].frequency \in Nat
          /\ \A a \in Address \ {f.at} : u[a] = account_to_usage[b][a]
          /\ DOMAIN u = Address
          /\ \A a \in Address : u[a] \in ContractUsage
        <3>1. account_to_usage[b][f.at] \in ContractUsage
            BY <2>2
        <3>2. PICK r : r = [account_to_usage[b][f.at] EXCEPT !.gas_used = @ + f.spent,
                                                             !.frequency = @ + 1]
            OBVIOUS
        <3>3. r \in ContractUsage /\ r.frequency # 0
            <4>1. PICK w : w = account_to_usage[b][f.at]
                OBVIOUS
            <4>2. /\ w.gas_used \in Nat /\ w.frequency \in Nat /\ w.gas_deficit \in Nat
                  /\ w = [gas_used |-> w.gas_used, frequency |-> w.frequency,
                          gas_deficit |-> w.gas_deficit]
                BY <3>1, <4>1 DEF ContractUsage
            <4>3. r = [gas_used |-> w.gas_used + f.spent, frequency |-> w.frequency + 1,
                       gas_deficit |-> w.gas_deficit]
                BY <3>2, <4>1, <4>2
            <4> QED
                BY <2>2, <4>2, <4>3 DEF ContractUsage
        <3>4. u = [account_to_usage[b] EXCEPT ![f.at] = r]
            BY <2>3, <3>2 DEF Recorded
        <3> QED
            BY <2>2, <3>3, <3>4 DEF ContractUsage
    <2>5. CASE ps = <<>>
        <3>1. account_to_usage' = [account_to_usage EXCEPT ![b] = u]
            BY <2>1, <2>3, <2>5 DEF InspectCallEnd
        <3> QED
            BY <1>2, <2>4, <3>1 DEF TypeOK
    <2>6. CASE ps # <<>>
        <3>1. PICK v : v = Deficit(u, p, f.spent)
            OBVIOUS
        <3>2. account_to_usage' = [account_to_usage EXCEPT ![b] = v]
            BY <2>1, <2>3, <2>6, <3>1 DEF InspectCallEnd
        <3>3. v = [u EXCEPT ![p] = [u[p] EXCEPT !.gas_deficit = @ + f.spent]]
            BY <3>1 DEF Deficit
        <3>4. /\ v[f.at].frequency = u[f.at].frequency
              /\ \A a \in Address \ {p} : v[a] = u[a]
            BY <2>2, <2>4, <2>6, <3>3 DEF ContractUsage
        <3> QED
            BY <1>2, <2>4, <3>2, <3>4 DEF TypeOK
    <2> QED
        BY <2>5, <2>6
<1> QED
    BY <1>1, <1>2

\* A call or a creation ends.
LEMMA ReturnReported ==
    ASSUME ReportedInv, TypeOK', NEW b \in Block, NEW left \in 0 .. 1, Return(b, left)
    PROVE  CallsInv' /\ PartsInv' /\ StatsInv' /\ TopInv'
<1>0. TypeOK /\ LedgerAt(b)
    BY DEF ReportedInv, GasInv
<1>1. PICK m, n : m = Len(frames[b]) /\ n = m - 1
    OBVIOUS
<1>2. PICK fs, ps, f : fs = frames[b] /\ ps = parent_bytecode_stack[b] /\ f = fs[m]
    OBVIOUS
<1>3. PICK p : p = IF ps = <<>> THEN NoAddress ELSE ps[Len(ps)]
    OBVIOUS
<1>4. /\ n \in Nat /\ m = n + 1 /\ f \in Frame
      /\ \E gs \in Seq(Frame) :
            /\ frames' = [frames EXCEPT ![b] = gs] /\ Len(gs) = n
            /\ Spends(fs, gs, n, f.spent + left)
      /\ own' = [own EXCEPT ![b] =
                    [a \in Address |-> own[b][a] + IF a = Spender(b, n) THEN left ELSE 0]]
      /\ UNCHANGED <<parts, report>>
    BY <1>0, <1>1, <1>2, ReturnFrames
<1>5. PICK gs \in Seq(Frame) : /\ frames' = [frames EXCEPT ![b] = gs] /\ Len(gs) = n
                               /\ Spends(fs, gs, n, f.spent + left)
    BY <1>4
<1>6. /\ frames'[b] = gs /\ \A c \in Block \ {b} : frames'[c] = frames[c]
      /\ \A i \in 1 .. n : gs[i].kind = fs[i].kind /\ gs[i].at = fs[i].at
    BY <1>0, <1>5 DEF TypeOK, Spends, SameFrames
<1>7. /\ \A c \in Block \ {b} : account_to_usage'[c] = account_to_usage[c]
      /\ f.kind # "call" => account_to_usage'[b] = account_to_usage[b]
      /\ f.kind = "call" =>
            /\ account_to_usage'[b][f.at].frequency # 0
            /\ \A a \in Address \ {f.at, p} : account_to_usage'[b][a] = account_to_usage[b][a]
    BY <1>0, <1>1, <1>2, <1>3, <1>4, ReturnUsage
<1>8. f.kind = "call" /\ p # NoAddress => \E i \in 1 .. n : IsCall(fs, i) /\ fs[i].at = p
    <2> SUFFICES ASSUME f.kind = "call", p # NoAddress
                 PROVE  \E i \in 1 .. n : IsCall(fs, i) /\ fs[i].at = p
        OBVIOUS
    <2>1. PICK M, D, S : Tracked(fs, m, ps, current_bytecode[b], account_to_usage[b], own[b],
                                 M, D, S)
        BY <1>0, <1>1, <1>2 DEF LedgerAt
    <2>2. IsCall(fs, n + 1)
        BY <1>2, <1>4 DEF IsCall
    <2>3. /\ Innermost(fs, n + 1, M) /\ Counted(fs, n + 1, D) /\ Layered(n + 1, M, D)
          /\ Viewed(fs, n + 1, ps, current_bytecode[b], M, D)
        BY <1>4, <2>1 DEF Tracked
    <2>4. IF ps = <<>> THEN At(fs, M[n]) = NoAddress ELSE At(fs, M[n]) = ps[Len(ps)]
        BY <1>4, <2>2, <2>3, EndView
    <2>5. At(fs, M[n]) = p
        BY <1>3, <2>4
    <2>6. M[n] # 0
        BY <2>5 DEF At
    <2>7. M[n] \in 1 .. n /\ IsCall(fs, M[n])
        <3>1. n \in 0 .. n + 1
            BY <1>4
        <3> QED
            BY <1>4, <2>3, <2>6, <3>1 DEF Innermost
    <2> QED
        BY <2>5, <2>6, <2>7 DEF At
<1>9. CallsInv'
    <2>1. ASSUME NEW c \in Block, NEW a \in Address, c # b,
                 account_to_usage'[c][a] # NoUsage, account_to_usage'[c][a].frequency = 0
          PROVE  \E i \in 1 .. Len(frames'[c]) : IsCall(frames'[c], i) /\ frames'[c][i].at = a
        BY <1>6, <1>7, <2>1 DEF ReportedInv, CallsInv
    <2>2. ASSUME NEW a \in Address,
                 account_to_usage'[b][a] # NoUsage, account_to_usage'[b][a].frequency = 0
          PROVE  \E i \in 1 .. n : IsCall(fs, i) /\ fs[i].at = a
        <3>1. CASE f.kind = "call" /\ a = p
            BY <1>8, <3>1, GasAssumption
        <3>2. CASE f.kind = "call" /\ a # p
            <4>1. a # f.at /\ account_to_usage'[b][a] = account_to_usage[b][a]
                BY <1>7, <2>2, <3>2
            <4>2. PICK i \in 1 .. m : IsCall(fs, i) /\ fs[i].at = a
                BY <1>1, <1>2, <2>2, <4>1 DEF ReportedInv, CallsInv
            <4>3. i # m
                BY <1>2, <4>1, <4>2
            <4> QED
                BY <1>4, <4>2, <4>3
        <3>3. CASE f.kind # "call"
            <4>1. PICK i \in 1 .. m : IsCall(fs, i) /\ fs[i].at = a
                BY <1>1, <1>2, <1>7, <2>2, <3>3 DEF ReportedInv, CallsInv
            <4>2. i # m
                BY <1>2, <3>3, <4>1 DEF IsCall
            <4> QED
                BY <1>4, <4>1, <4>2
        <3> QED
            BY <3>1, <3>2, <3>3
    <2>3. ASSUME NEW a \in Address,
                 account_to_usage'[b][a] # NoUsage, account_to_usage'[b][a].frequency = 0
          PROVE  \E i \in 1 .. Len(frames'[b]) : IsCall(frames'[b], i) /\ frames'[b][i].at = a
        <3>1. PICK i \in 1 .. n : IsCall(fs, i) /\ fs[i].at = a
            BY <2>2, <2>3
        <3>2. IsCall(gs, i) /\ gs[i].at = a
            BY <1>6, <3>1 DEF IsCall
        <3> QED
            BY <1>5, <1>6, <3>2
    <2> QED
        BY <2>1, <2>3 DEF CallsInv
<1>10. \A c \in Block \ {b} : own'[c] = own[c]
    BY <1>0, <1>4 DEF TypeOK
<1>11. Executing(b)
    BY DEF Return
<1> QED
    BY <1>0, <1>4, <1>9, <1>10, <1>11, ExecutingStep DEF ReportedInv

\* A block ends: its part has what the inspector has.
LEMMA EndReported ==
    ASSUME ReportedInv, NEW b \in Block, NEW ok \in BOOLEAN, EndBlock(b, ok)
    PROVE  CallsInv' /\ PartsInv' /\ StatsInv' /\ TopInv'
<1>0. /\ TypeOK /\ NetIsOwn /\ PartsInv /\ Executing(b) /\ (ok => frames[b] = <<>>)
      /\ UNCHANGED <<frames, own, account_to_usage, report>>
    BY NetIs DEF ReportedInv, GasInv, EndBlock, evmVars, inspectorVars
<1>1. report'.state = "none"
    BY <1>0 DEF ReportedInv, StatsInv
<1>2. StatsInv' /\ TopInv'
    BY <1>1 DEF StatsInv, TopInv
<1>3. CallsInv'
    BY <1>0 DEF ReportedInv, CallsInv
<1>4. PICK z : /\ z = [from |-> {b}, ok |-> ok,
                       usage |-> IF ok THEN account_to_usage[b] ELSE Unused]
               /\ parts' = parts \cup {z}
    BY DEF EndBlock
<1>5. ASSUME ok
      PROVE  Accounts(z)
    <2>1. z.from = {b} /\ z.usage = account_to_usage[b] /\ frames[b] = <<>>
        BY <1>0, <1>4, <1>5
    <2>2. ASSUME NEW a \in Address, NEW F, OwnSum(F, a)
          PROVE  Net(z.usage[a]) = F[z.from]
        <3>1. F[{b}] = OwnOf(a)[b] + F[{b} \ {b}] /\ {b} \ {b} = {} /\ F[{}] = 0
            BY <2>2 DEF OwnSum, SumOf
        <3>2. OwnOf(a)[b] = own[b][a] /\ own[b][a] \in Nat
            BY <1>0 DEF OwnOf, TypeOK
        <3>3. Net(account_to_usage[b][a]) = own[b][a]
            BY <1>0, <2>1 DEF NetIsOwn
        <3>5. F[{b} \ {b}] = 0
            BY <3>1
        <3>4. F[{b}] = own[b][a]
            BY <3>1, <3>2, <3>5
        <3> QED
            BY <2>1, <3>3, <3>4
    <2>3. ASSUME NEW a \in Address, z.usage[a] # NoUsage
          PROVE  z.usage[a].frequency # 0
        <3>1. \A i \in 1 .. Len(frames[b]) : FALSE
            BY <2>1
        <3> QED
            BY <2>1, <2>3, <3>1 DEF ReportedInv, CallsInv
    <2> QED
        BY <2>2, <2>3 DEF Accounts
<1>6. \A x \in parts : x.from \cap z.from = {} /\ z.from \cap x.from = {}
    BY <1>0, <1>4 DEF Executing
<1>7. \A x, y \in parts' : x # y => x.from \cap y.from = {}
    BY <1>0, <1>4, <1>6 DEF PartsInv
<1>8. ASSUME NEW x \in parts', x.ok
      PROVE  Accounts(x)
    <2>1. CASE x \in parts
        BY <1>0, <1>8, <2>1 DEF PartsInv
    <2>2. CASE x = z
        <3>1. ok
            BY <1>4, <1>8, <2>2
        <3> QED
            BY <1>5, <2>2, <3>1
    <2> QED
        BY <1>4, <2>1, <2>2
<1>9. \A x : Accounts(x)' <=> Accounts(x)
    BY <1>0 DEF Accounts, OwnSum, OwnOf
<1> QED
    BY <1>2, <1>3, <1>7, <1>8, <1>9 DEF PartsInv

-----------------------------------------------------------------------------
(* Reduction.                                                              *)

\* A part of two parts has what their blocks, which are different ones, spent.
LEMMA MergedAccounts ==
    ASSUME TypeOK, NEW x \in Part, NEW y \in Part, x.from \cap y.from = {},
           Accounts(x), Accounts(y),
           NEW z, z.from = x.from \cup y.from,
           z.usage = [a \in Address |-> Merged(x.usage[a], y.usage[a])]
    PROVE  Accounts(z)
<1>1. /\ x.from \in SUBSET Block /\ y.from \in SUBSET Block
      /\ \A a \in Address : x.usage[a] \in ContractUsage /\ y.usage[a] \in ContractUsage
    BY DEF Part
<1>2. ASSUME NEW u \in ContractUsage, NEW v \in ContractUsage
      PROVE  /\ Net(Merged(u, v)) = Net(u) + Net(v)
             /\ Merged(u, v).frequency = u.frequency + v.frequency
             /\ u = NoUsage /\ v = NoUsage => Merged(u, v) = NoUsage
    <2>1. /\ u.gas_used \in Nat /\ u.frequency \in Nat /\ u.gas_deficit \in Nat
          /\ v.gas_used \in Nat /\ v.frequency \in Nat /\ v.gas_deficit \in Nat
        BY DEF ContractUsage
    <2>2. /\ Merged(u, v).gas_used = u.gas_used + v.gas_used
          /\ Merged(u, v).frequency = u.frequency + v.frequency
          /\ Merged(u, v).gas_deficit = u.gas_deficit + v.gas_deficit
        BY DEF Merged
    <2>3. Net(Merged(u, v)) = Net(u) + Net(v)
        BY <2>1, <2>2 DEF Net
    <2>4. u = NoUsage /\ v = NoUsage => Merged(u, v) = NoUsage
        BY DEF Merged, NoUsage
    <2> QED
        BY <2>2, <2>3, <2>4
<1>3. ASSUME NEW a \in Address, NEW F, OwnSum(F, a)
      PROVE  Net(z.usage[a]) = F[z.from]
    <2>1. F[x.from \cup y.from] = F[x.from] + F[y.from]
        <3>1. IsFiniteSet(Block) /\ OwnOf(a) \in [Block -> Int] /\ SumOf(F, OwnOf(a), Block)
            BY <1>3, OwnIs, GasAssumption DEF OwnSum
        <3>2. PICK s, t : s = x.from /\ t = y.from
            OBVIOUS
        <3>3. s \in SUBSET Block /\ t \in SUBSET Block /\ s \cap t = {}
            BY <1>1, <3>2
        <3>4. F[s \cup t] = F[s] + F[t]
            BY ONLY <3>1, <3>3, SumDisjoint
        <3> QED
            BY <3>2, <3>4
    <2>2. Net(x.usage[a]) = F[x.from] /\ Net(y.usage[a]) = F[y.from]
        BY <1>3 DEF Accounts
    <2>3. Net(z.usage[a]) = Net(x.usage[a]) + Net(y.usage[a])
        BY <1>1, <1>2
    <2> QED
        BY <2>1, <2>2, <2>3
<1>4. ASSUME NEW a \in Address, z.usage[a] # NoUsage
      PROVE  z.usage[a].frequency # 0
    <2>1. /\ z.usage[a] = Merged(x.usage[a], y.usage[a])
          /\ z.usage[a].frequency = x.usage[a].frequency + y.usage[a].frequency
          /\ x.usage[a].frequency \in Nat /\ y.usage[a].frequency \in Nat
        BY <1>1, <1>2 DEF ContractUsage
    <2>2. x.usage[a] # NoUsage \/ y.usage[a] # NoUsage
        BY <1>1, <1>2, <1>4, <2>1
    <2>3. x.usage[a].frequency # 0 \/ y.usage[a].frequency # 0
        BY <2>2 DEF Accounts
    <2> QED
        BY <2>1, <2>3
<1> QED
    BY <1>3, <1>4 DEF Accounts

\* What the report says stays true while its blocks do not execute.
LEMMA StatsStay ==
    ASSUME StatsInv, TopInv, UNCHANGED <<own, report>>,
           \A b \in Block : Executing(b)' => Executing(b)
    PROVE  StatsInv' /\ TopInv'
<1>1. \A F : GasSum(F)' <=> GasSum(F)
    BY DEF GasSum, Gas
<1>2. \A c : Holders(c)' = Holders(c)
    BY DEF Holders
<1>3. StatsInv'
    BY <1>1, <1>2 DEF StatsInv
<1>4. TopInv'
    BY DEF TopInv, Heaviest
<1> QED
    BY <1>3, <1>4

LEMMA ReduceReported ==
    ASSUME ReportedInv, NEW x \in parts, NEW y \in parts, Reduce(x, y)
    PROVE  CallsInv' /\ PartsInv' /\ StatsInv' /\ TopInv'
<1>0. /\ TypeOK /\ PartsInv /\ StatsInv /\ TopInv /\ CallsInv /\ x # y
      /\ UNCHANGED <<frames, own, account_to_usage, report>>
    BY DEF ReportedInv, GasInv, Reduce, evmVars, inspectorVars
<1>1. PICK z : /\ z = [from |-> x.from \cup y.from, ok |-> x.ok /\ y.ok,
                       usage |-> IF x.ok /\ y.ok
                                 THEN [a \in Address |-> Merged(x.usage[a], y.usage[a])]
                                 ELSE Unused]
               /\ parts' = (parts \ {x, y}) \cup {z}
    BY DEF Reduce
<1>2. CallsInv'
    BY <1>0 DEF CallsInv
<1>3. z.from = x.from \cup y.from /\ (z.ok <=> x.ok /\ y.ok)
    BY <1>1
<1>4. \A b \in Block : Executing(b)' => Executing(b)
    <2> SUFFICES ASSUME NEW b \in Block, Executing(b)', NEW w \in parts
                 PROVE  b \notin w.from
        BY DEF Executing
    <2>1. CASE w \in {x, y}
        BY <1>1, <1>3, <2>1 DEF Executing
    <2>2. CASE w \notin {x, y}
        BY <1>1, <2>2 DEF Executing
    <2> QED
        BY <2>1, <2>2
<1>5. StatsInv' /\ TopInv'
    BY <1>0, <1>4, StatsStay
<1>6. \A v, w \in parts' : v # w => v.from \cap w.from = {}
    <2>1. \A w \in parts \ {x, y} : w.from \cap z.from = {} /\ z.from \cap w.from = {}
        BY <1>0, <1>3 DEF PartsInv
    <2>2. \A v, w \in parts : v # w => v.from \cap w.from = {}
        BY <1>0 DEF PartsInv
    <2>3. parts' = (parts \ {x, y}) \cup {z}
        BY <1>1
    <2> QED
        BY ONLY <2>1, <2>2, <2>3
<1>7. z.ok => Accounts(z)
    <2> SUFFICES ASSUME z.ok  PROVE Accounts(z)
        OBVIOUS
    <2>1. x.ok /\ y.ok
        BY <1>3
    <2>2. z.usage = [a \in Address |-> Merged(x.usage[a], y.usage[a])]
        BY <1>1, <2>1
    <2>3. /\ x \in Part /\ y \in Part /\ x.from \cap y.from = {}
          /\ Accounts(x) /\ Accounts(y)
        BY <1>0, <2>1 DEF PartsInv, TypeOK
    <2> QED
        BY <1>0, <1>3, <2>2, <2>3, MergedAccounts
<1>8. \A v \in parts' : v.ok => Accounts(v)
    BY <1>0, <1>1, <1>7 DEF PartsInv
<1>9. \A v : Accounts(v)' <=> Accounts(v)
    BY <1>0 DEF Accounts, OwnSum, OwnOf
<1> QED
    BY <1>2, <1>5, <1>6, <1>8, <1>9 DEF PartsInv

-----------------------------------------------------------------------------
(* The report.                                                             *)

\* The addresses of S that have code c.
With(latest, c, S) == {a \in S : latest[a] = c}

\* What a bytecode is said to have spent, out of the part of all blocks, is
\* what its holders spent.
LEMMA StatsAre ==
    ASSUME TypeOK, NEW x \in Part, Accounts(x), x.from = Block,
           NEW latest \in [Address -> Code \cup {NoCode}], NEW c, NEW F, GasSum(F)
    PROVE  Net(MergeAll(x.usage, With(latest, c, Used(x.usage)))) =
               F[Pairs(Block, With(latest, c, Address))]
<1>0. PICK U, H : U = With(latest, c, Used(x.usage)) /\ H = With(latest, c, Address)
    OBVIOUS
<1> DEFINE g == [a \in Address |-> Net(x.usage[a])]
<1>1. x.usage \in [Address -> ContractUsage]
    BY DEF Part
<1>2. g \in [Address -> Int] /\ \A a \in Address : g[a] = Net(x.usage[a])
    BY <1>1 DEF ContractUsage, Net
<1> HIDE DEF g
<1>3. PICK G : SumOf(G, g, Address)
    BY <1>2, GasAssumption, SumExists
<1>4. U \in SUBSET H /\ H \in SUBSET Address /\ U \in SUBSET Address
    BY <1>0 DEF Used, With
<1>5. Net(MergeAll(x.usage, U)) = G[U]
    BY <1>1, <1>2, <1>3, <1>4, NetAll
<1>6. G[H] = G[U]
    <2>1. ASSUME NEW a \in H \ U
          PROVE  g[a] = 0
        <3>1. a \in Address /\ x.usage[a] = NoUsage
            BY <1>0 DEF Used, With
        <3> QED
            BY <1>2, <3>1 DEF NoUsage, Net
    <2> QED
        BY <1>2, <1>3, <1>4, <2>1, GasAssumption, SumWithout
<1>7. ASSUME NEW t \in Address
      PROVE  F[Pairs(Block, {t})] = g[t]
    <2>1. PICK R : OwnSum(R, t)
        BY OwnIs
    <2>2. \A b \in Block : OwnOf(t)[b] = Gas[<<b, t>>]
        BY OwnIs, GasIs
    <2>3. \A u \in SUBSET Block : F[Pairs(u, {t})] = R[u]
        <3>1. PICK f, r : f = Gas /\ r = OwnOf(t)
            OBVIOUS
        <3>2. f \in [Pairs(Block, Address) -> Int] /\ r \in [Block -> Int]
            BY <3>1, OwnIs, GasIs DEF Pairs
        <3>3. SumOf(F, f, Pairs(Block, Address)) /\ SumOf(R, r, Block)
            BY <2>1, <3>1 DEF GasSum, OwnSum, Pairs
        <3>4. \A b \in Block : r[b] = AtPair(f, b, t)
            BY <2>2, <3>1 DEF AtPair
        <3>5. IsFiniteSet(Block) /\ t \in Address
            BY GasAssumption
        <3>6. Column(Block, Address, f, F, t, r, R)
            BY ONLY <3>2, <3>3, <3>4, <3>5 DEF Column
        <3> QED
            BY <3>6, SumColumn
    <2>4. Net(x.usage[t]) = R[Block]
        BY <2>1 DEF Accounts
    <2> QED
        BY <1>2, <2>3, <2>4
<1>8. F[Pairs(Block, H)] = G[H]
    <2>1. PICK f : f = Gas
        OBVIOUS
    <2>2. /\ f \in [Pairs(Block, Address) -> Int] /\ SumOf(F, f, Pairs(Block, Address))
          /\ IsFiniteSet(Block) /\ IsFiniteSet(Address) /\ g \in [Address -> Int]
        BY <1>2, <2>1, GasIs DEF GasSum, Pairs
    <2>3. \A t \in Address : F[Pairs(Block, {t})] = g[t]
        BY <1>7
    <2>4. \A u \in SUBSET Address : F[Pairs(Block, u)] = G[u]
        <3>1. Columns(Block, Address, f, F, g, G)
            BY ONLY <1>3, <2>2, <2>3 DEF Columns
        <3> QED
            BY <3>1, SumColumns
    <2> QED
        BY <1>4, <2>4
<1> QED
    BY <1>0, <1>5, <1>6, <1>8

\* There are at least as many calls as bytecodes.
LEMMA CallsOfAll ==
    ASSUME TypeOK, NEW x \in Part, Accounts(x),
           NEW latest \in [Address -> Code \cup {NoCode}],
           NEW U, U = {a \in Used(x.usage) : latest[a] # NoCode},
           NEW C, C = {latest[a] : a \in Used(x.usage)} \ {NoCode}
    PROVE  /\ IsFiniteSet(C)
           /\ MergeAll(x.usage, U).frequency \in Nat
           /\ Cardinality(C) <= MergeAll(x.usage, U).frequency
<1> DEFINE g == [a \in Address |-> Net(x.usage[a])]
           f == [a \in U |-> latest[a]]
<1>1. x.usage \in [Address -> ContractUsage] /\ U \in SUBSET Address
    BY DEF Part, Used
<1>2. g \in [Address -> Int] /\ \A a \in Address : g[a] = Net(x.usage[a])
    BY <1>1 DEF ContractUsage, Net
<1> HIDE DEF g
<1>3. PICK G : SumOf(G, g, Address)
    BY <1>2, GasAssumption, SumExists
<1>4. \A a \in U : x.usage[a].frequency # 0
    BY DEF Accounts, Used
<1>5. MergeAll(x.usage, U).frequency \in Nat /\ Cardinality(U) <= MergeAll(x.usage, U).frequency
    BY <1>1, <1>2, <1>3, <1>4, NetAll
<1>6. f \in Surjection(U, C)
    BY DEF Surjection, Used
<1>7. IsFiniteSet(U) /\ Cardinality(U) \in Nat
    BY <1>1, GasAssumption, FS_Subset, FS_CardinalityType
<1> HIDE DEF f
<1>8. IsFiniteSet(C) /\ Cardinality(C) <= Cardinality(U) /\ Cardinality(C) \in Nat
    BY <1>6, <1>7, FS_Surjection, FS_CardinalityType
<1> QED
    BY <1>5, <1>7, <1>8

\* When all of them together spent nothing, no bytecode did.
LEMMA NothingOfAll ==
    ASSUME TypeOK, NEW x \in Part, Accounts(x),
           NEW U \in SUBSET Address, Net(MergeAll(x.usage, U)) = 0, NEW W \in SUBSET U
    PROVE  Net(MergeAll(x.usage, W)) = 0
<1> DEFINE g == [a \in Address |-> Net(x.usage[a])]
<1>1. x.usage \in [Address -> ContractUsage] /\ x.from \in SUBSET Block /\ W \in SUBSET Address
    BY DEF Part
<1>2. \A a \in Address : Net(x.usage[a]) \in Nat
    <2> SUFFICES ASSUME NEW a \in Address  PROVE Net(x.usage[a]) \in Nat
        OBVIOUS
    <2>1. PICK R : OwnSum(R, a)
        BY OwnIs
    <2>2. R[x.from] \in Nat
        <3>1. PICK f : f = OwnOf(a)
            OBVIOUS
        <3>2. f \in [Block -> Nat] /\ SumOf(R, f, Block) /\ IsFiniteSet(Block)
            BY <2>1, <3>1, OwnIs, GasAssumption DEF OwnSum
        <3> QED
            BY <1>1, <3>2, SumNatural
    <2> QED
        BY <2>1, <2>2 DEF Accounts
<1>3. /\ g \in [Address -> Nat] /\ g \in [Address -> Int]
      /\ \A a \in Address : g[a] = Net(x.usage[a])
    BY <1>2
<1> HIDE DEF g
<1>4. PICK G : SumOf(G, g, Address)
    BY <1>3, GasAssumption, SumExists
<1>5. Net(MergeAll(x.usage, U)) = G[U] /\ Net(MergeAll(x.usage, W)) = G[W]
    BY <1>1, <1>3, <1>4, NetAll
<1>6. \A a \in U : g[a] = 0
    BY <1>3, <1>4, <1>5, GasAssumption, SumNatural
<1>7. G[W] = 0
    BY <1>1, <1>3, <1>4, <1>6, GasAssumption, SumNatural
<1> QED
    BY <1>5, <1>7

LEMMA ReportReported ==
    ASSUME ReportedInv, NEW latest \in [Address -> Code \cup {NoCode}], Report(latest)
    PROVE  CallsInv' /\ PartsInv' /\ StatsInv' /\ TopInv'
<1>0. /\ TypeOK /\ PartsInv /\ StatsInv /\ TopInv /\ CallsInv
      /\ UNCHANGED <<frames, own, account_to_usage, parts>>
    BY DEF ReportedInv, GasInv, Report, evmVars, inspectorVars
<1>1. PICK x \in parts :
          /\ x.from = Block
          /\ report' =
                IF ~x.ok THEN Failure
                ELSE [state |-> "ok",
                      latest |-> latest,
                      bytecode_stats |->
                          [c \in {latest[a] : a \in Used(x.usage)} \ {NoCode} |->
                              MergeAll(x.usage, {a \in Used(x.usage) : latest[a] = c})],
                      csum_stats |->
                          MergeAll(x.usage, {a \in Used(x.usage) : latest[a] # NoCode}),
                      top |-> <<>>]
    BY DEF Report
<1>2. CallsInv'
    BY <1>0 DEF CallsInv
<1>3. \A v : Accounts(v)' <=> Accounts(v)
    BY <1>0 DEF Accounts, OwnSum, OwnOf
<1>4. PartsInv'
    BY <1>0, <1>3 DEF PartsInv
<1>5. \A b \in Block : ~Executing(b)'
    BY <1>0, <1>1 DEF Executing
<1>6. CASE ~x.ok
    <2>1. report'.state = "error"
        BY <1>1, <1>6 DEF Failure
    <2> QED
        BY <1>2, <1>4, <1>5, <2>1 DEF StatsInv, TopInv
<1>7. CASE x.ok
    <2>1. PICK stats, csum, C :
              /\ C = {latest[a] : a \in Used(x.usage)} \ {NoCode}
              /\ stats = [c \in C |-> MergeAll(x.usage, {a \in Used(x.usage) : latest[a] = c})]
              /\ csum = MergeAll(x.usage, {a \in Used(x.usage) : latest[a] # NoCode})
              /\ report' = [state |-> "ok", latest |-> latest, bytecode_stats |-> stats,
                            csum_stats |-> csum, top |-> <<>>]
        BY <1>1, <1>7
    <2>2. /\ report'.state = "ok" /\ report'.latest = latest
          /\ report'.bytecode_stats = stats /\ report'.csum_stats = csum
          /\ {"state", "bytecode_stats", "csum_stats", "top"} \subseteq DOMAIN report'
        BY <2>1
    <2>3. x \in Part /\ Accounts(x)
        BY <1>0, <1>7 DEF PartsInv, TypeOK
    <2>4. /\ IsFiniteSet(C) /\ csum.frequency \in Nat /\ Cardinality(C) <= csum.frequency
          /\ DOMAIN stats = C
        BY <1>0, <2>1, <2>3, CallsOfAll
    <2>5. \A F : GasSum(F)' <=> GasSum(F)
        BY <1>0 DEF GasSum, Gas
    <2>6. \A c : Holders(c)' = {a \in Address : latest[a] = c}
        BY <2>2 DEF Holders
    <2>7. ASSUME NEW c \in C, NEW F, GasSum(F)
          PROVE  Net(stats[c]) = F[Block \X {a \in Address : latest[a] = c}]
        <3>1. stats[c] = MergeAll(x.usage, {a \in Used(x.usage) : latest[a] = c})
            BY <2>1
        <3> QED
            <4>1. x.from = Block /\ latest \in [Address -> Code \cup {NoCode}]
                BY <1>1
            <4>2. Net(MergeAll(x.usage, With(latest, c, Used(x.usage)))) =
                      F[Pairs(Block, With(latest, c, Address))]
                BY <1>0, <2>3, <2>7, <4>1, StatsAre
            <4> QED
                BY <3>1, <4>2 DEF With, Pairs
    <2>8. ASSUME Net(csum) = 0, NEW c \in C
          PROVE  Net(stats[c]) = 0
        <3>1. PICK U, W : /\ U = {a \in Used(x.usage) : latest[a] # NoCode}
                          /\ W = {a \in Used(x.usage) : latest[a] = c}
            OBVIOUS
        <3>2. csum = MergeAll(x.usage, U) /\ stats[c] = MergeAll(x.usage, W) /\ c # NoCode
            BY <2>1, <3>1
        <3>3. U \in SUBSET Address /\ W \in SUBSET U
            BY <3>1, <3>2 DEF Used
        <3> QED
            BY <1>0, <2>3, <2>8, <3>2, <3>3, NothingOfAll
    <2>9. StatsInv'
        BY <1>5, <2>2, <2>4, <2>5, <2>6, <2>7, <2>8 DEF StatsInv
    <2>10. TopInv'
        BY <2>2 DEF TopInv
    <2> QED
        BY <1>2, <1>4, <2>9, <2>10
<1> QED
    BY <1>6, <1>7

-----------------------------------------------------------------------------
(* The choice.                                                             *)

\* r orders stats by weight, and top is the whole of stats.
Ranked(stats, r) ==
    /\ IsFiniteSet(DOMAIN stats)
    /\ \A c \in DOMAIN stats : Net(stats[c]) \in Int
    /\ r \in Rankings(stats)

All(stats, top) == {top[i] : i \in DOMAIN top} = DOMAIN stats

\* The first k of a ranking.
LEMMA FirstOfRanking ==
    ASSUME NEW stats, NEW r, Ranked(stats, r), NEW k \in 0 .. Cardinality(DOMAIN stats)
    PROVE  /\ Heaviest(stats, SubSeq(r, 1, k))
           /\ Len(r) = Cardinality(DOMAIN stats)
           /\ k = Len(r) => All(stats, SubSeq(r, 1, k))
<1>0. /\ IsFiniteSet(DOMAIN stats) /\ \A c \in DOMAIN stats : Net(stats[c]) \in Int
      /\ r \in Rankings(stats)
    BY DEF Ranked
<1>1. PICK n, C, top : n = Cardinality(DOMAIN stats) /\ C = DOMAIN stats /\ top = SubSeq(r, 1, k)
    OBVIOUS
<1>2. /\ n \in Nat /\ r \in [1 .. n -> C] /\ IsFiniteSet(C) /\ n = Cardinality(C)
      /\ \A i, j \in 1 .. n : i < j => r[i] # r[j] /\ Net(stats[r[i]]) >= Net(stats[r[j]])
    BY <1>0, <1>1, FS_CardinalityType DEF Rankings, Weight
<1>3. r \in Seq(C) /\ Len(r) = n
    BY <1>2
<1>4. /\ k \in Nat /\ k <= n /\ DOMAIN top = 1 .. k /\ Len(top) = k
      /\ \A i \in 1 .. k : top[i] = r[i] /\ i \in 1 .. n
    BY <1>1, <1>2, <1>3
<1>5. \A c \in C : \E j \in 1 .. n : r[j] = c
    <2>1. r \in Injection(1 .. n, C)
        <3>1. ASSUME NEW i \in 1 .. n, NEW j \in 1 .. n, r[i] = r[j]
              PROVE  i = j
            <4>1. i < j \/ j < i \/ i = j
                OBVIOUS
            <4> QED
                BY <1>2, <3>1, <4>1
        <3> QED
            BY <1>2, <3>1 DEF Injection, IsInjective
    <2>2. Cardinality(1 .. n) = n
        BY <1>2, FS_Interval
    <2>3. r \in Surjection(1 .. n, C)
        BY <1>2, <2>1, <2>2, FS_Injection
    <2> QED
        BY <2>3 DEF Surjection
<1>6. ASSUME NEW i \in 1 .. k, NEW c \in C, Net(stats[c]) > Net(stats[top[i]])
      PROVE  \E j \in 1 .. i - 1 : top[j] = c
    <2>1. PICK j \in 1 .. n : r[j] = c
        BY <1>5
    <2>2. i \in 1 .. n /\ top[i] = r[i] /\ r[i] \in C
        BY <1>2, <1>4
    <2>3. Net(stats[c]) \in Int /\ Net(stats[r[i]]) \in Int
        BY <1>0, <1>1, <2>2
    <2>4. ~(i < j) /\ i # j
        BY <1>2, <1>6, <2>1, <2>2, <2>3
    <2>5. j \in 1 .. i - 1 /\ j \in 1 .. k
        BY <1>4, <2>4
    <2> QED
        BY <1>4, <2>1, <2>5
<1>7. Heaviest(stats, top)
    <2>1. \A i \in 1 .. k : top[i] \in C
        BY <1>2, <1>4
    <2> QED
        BY <1>1, <1>4, <1>6, <2>1 DEF Heaviest
<1>8. ASSUME k = n
      PROVE  {top[i] : i \in DOMAIN top} = C
    BY <1>2, <1>4, <1>5, <1>8
<1> QED
    BY <1>1, <1>3, <1>7, <1>8 DEF All

LEMMA NetOfStats ==
    ASSUME TypeOK, StatsInv, report.state \in {"ok", "top", "panicked"}
    PROVE  \A c \in DOMAIN report.bytecode_stats :
              /\ Net(report.bytecode_stats[c]) \in Int
              /\ Net(report.bytecode_stats[c]) = Spent(c)
<1>1. PICK F : GasSum(F)
    BY GasIs, SumExists DEF GasSum
<1>2. ASSUME NEW c \in DOMAIN report.bytecode_stats
      PROVE  /\ Net(report.bytecode_stats[c]) \in Int
             /\ Net(report.bytecode_stats[c]) = Spent(c)
    <2>1. Net(report.bytecode_stats[c]) = F[Block \X Holders(c)]
        BY <1>1 DEF StatsInv
    <2>2. Spent(c) = F[Block \X Holders(c)]
        BY <1>1, SpentIs
    <2>3. Block \X Holders(c) \in SUBSET (Block \X Address)
        BY DEF Holders
    <2>4. F[Block \X Holders(c)] \in Int
        BY <1>1, <2>3 DEF GasSum, SumOf
    <2> QED
        BY <2>1, <2>2, <2>4
<1> QED
    BY <1>2

\* top is chosen: the heaviest, and all when all were asked for.
Chosen(size, top) ==
    /\ report' = [report EXCEPT !.state = "top", !.top = top]
    /\ Heaviest(report.bytecode_stats, top)
    /\ size >= Cardinality(DOMAIN report.bytecode_stats) => All(report.bytecode_stats, top)

\* What is chosen is the beginning of a ranking.
LEMMA TopIs ==
    ASSUME TypeOK, StatsInv, NEW size \in Nat, Top(size)
    PROVE  \/ report' = [report EXCEPT !.state = "panicked"] /\ Net(report.csum_stats) = 0
           \/ \E top : Chosen(size, top)
<1>1. PICK stats, n : stats = report.bytecode_stats /\ n = Cardinality(DOMAIN stats)
    OBVIOUS
<1>2. /\ IsFiniteSet(DOMAIN stats) /\ \A c \in DOMAIN stats : Net(stats[c]) \in Int
      /\ n \in Nat
    BY <1>1, NetOfStats, FS_CardinalityType DEF Top, StatsInv
<1>3. CASE report' = [report EXCEPT !.state = "panicked"] /\ Net(report.csum_stats) = 0
    BY <1>3
<1>4. ASSUME NEW r \in Rankings(stats),
             report' = [report EXCEPT !.state = "top",
                            !.top = SubSeq(r, 1, IF size < Len(r) THEN size ELSE Len(r))]
      PROVE  \E top : Chosen(size, top)
    <2>1. Ranked(stats, r)
        BY <1>2 DEF Ranked
    <2>2. Len(r) = n
        <3>1. 0 \in 0 .. Cardinality(DOMAIN stats)
            BY <1>1, <1>2
        <3> QED
            BY <1>1, <2>1, <3>1, FirstOfRanking
    <2>3. PICK k : k = IF size < Len(r) THEN size ELSE Len(r)
        OBVIOUS
    <2>4. k \in 0 .. Cardinality(DOMAIN stats) /\ (size >= n => k = Len(r))
        BY <1>1, <1>2, <2>2, <2>3
    <2>5. PICK top : top = SubSeq(r, 1, k)
        OBVIOUS
    <2>6. Heaviest(stats, top) /\ (k = Len(r) => All(stats, top))
        BY <2>1, <2>4, <2>5, FirstOfRanking
    <2>7. report' = [report EXCEPT !.state = "top", !.top = top]
        BY <1>4, <2>3, <2>5
    <2>8. Chosen(size, top)
        BY <1>1, <2>4, <2>6, <2>7 DEF Chosen
    <2> QED
        BY <2>8
<1> QED
    BY <1>1, <1>3, <1>4 DEF Top

LEMMA TopReported ==
    ASSUME ReportedInv, NEW size \in Nat, Top(size)
    PROVE  CallsInv' /\ PartsInv' /\ StatsInv' /\ TopInv'
<1>0. /\ TypeOK /\ PartsInv /\ StatsInv /\ TopInv /\ CallsInv /\ report.state = "ok"
      /\ UNCHANGED <<frames, own, account_to_usage, parts>>
    BY DEF ReportedInv, GasInv, Top, evmVars, inspectorVars
<1>1. CallsInv'
    BY <1>0 DEF CallsInv
<1>2. \A v : Accounts(v)' <=> Accounts(v)
    BY <1>0 DEF Accounts, OwnSum, OwnOf
<1>3. PartsInv'
    BY <1>0, <1>2 DEF PartsInv
<1>4. \A b \in Block : ~Executing(b)'
    BY <1>0 DEF StatsInv, Executing
<1>5. {"state", "bytecode_stats", "csum_stats", "top"} \subseteq DOMAIN report
    BY <1>0 DEF StatsInv
<1>6. CASE report' = [report EXCEPT !.state = "panicked"] /\ Net(report.csum_stats) = 0
    <2>1. /\ report'.state = "panicked"
          /\ report'.bytecode_stats = report.bytecode_stats
          /\ report'.csum_stats = report.csum_stats
          /\ report'.latest = report.latest
          /\ DOMAIN report' = DOMAIN report
        BY <1>5, <1>6
    <2>2. \A F : GasSum(F)' <=> GasSum(F)
        BY <1>0 DEF GasSum, Gas
    <2>3. \A c : Holders(c)' = Holders(c)
        BY <2>1 DEF Holders
    <2>4. StatsInv'
        BY <1>0, <1>4, <2>1, <2>2, <2>3 DEF StatsInv
    <2>5. TopInv'
        BY <1>6, <2>1 DEF TopInv
    <2> QED
        BY <1>1, <1>3, <2>4, <2>5
<1>7. ASSUME NEW top, report' = [report EXCEPT !.state = "top", !.top = top],
             Heaviest(report.bytecode_stats, top)
      PROVE  CallsInv' /\ PartsInv' /\ StatsInv' /\ TopInv'
    <2>1. /\ report'.state = "top" /\ report'.top = top
          /\ report'.bytecode_stats = report.bytecode_stats
          /\ report'.csum_stats = report.csum_stats
          /\ report'.latest = report.latest
          /\ DOMAIN report' = DOMAIN report
        BY <1>5, <1>7
    <2>2. \A F : GasSum(F)' <=> GasSum(F)
        BY <1>0 DEF GasSum, Gas
    <2>3. \A c : Holders(c)' = Holders(c)
        BY <2>1 DEF Holders
    <2>4. StatsInv'
        BY <1>0, <1>4, <2>1, <2>2, <2>3 DEF StatsInv
    <2>5. TopInv'
        BY <1>7, <2>1 DEF TopInv, Heaviest
    <2> QED
        BY <1>1, <1>3, <2>4, <2>5
<1> QED
    BY <1>0, <1>6, <1>7, TopIs DEF Chosen

-----------------------------------------------------------------------------
(* Theorems.                                                               *)

LEMMA ReportedInit ==
    ASSUME Init
    PROVE  ReportedInv
<1>1. report.state = "none" /\ parts = {}
    BY DEF Init, NoReport
<1>2. \A b \in Block, a \in Address : account_to_usage[b][a] = NoUsage
    BY DEF Init, Unused
<1> QED
    BY <1>1, <1>2, GasInit DEF ReportedInv, CallsInv, PartsInv, StatsInv, TopInv

LEMMA ReportedNext ==
    ASSUME ReportedInv, [Next]_vars
    PROVE  ReportedInv'
<1>0. GasInv' /\ TypeOK'
    BY GasNext DEF ReportedInv, GasInv
<1>1. ASSUME NEW b \in Block, NEW a \in Address, Call(b, a) \/ Create(b, a)
      PROVE  ReportedInv'
    <2>1. UNCHANGED account_to_usage /\ \E kind \in {"call", "create"} : Begin(b, kind, a)
        BY <1>1 DEF Call, Create, InspectCall, inspectorVars
    <2> QED
        BY <1>0, <2>1, BeginReported DEF ReportedInv
<1>2. ASSUME NEW b \in Block, Spend(b)
      PROVE  ReportedInv'
    BY <1>0, <1>2, SpendReported DEF ReportedInv
<1>3. ASSUME NEW b \in Block, NEW left \in 0 .. 1, Return(b, left)
      PROVE  ReportedInv'
    BY <1>0, <1>3, ReturnReported DEF ReportedInv
<1>4. ASSUME NEW b \in Block, NEW ok \in BOOLEAN, EndBlock(b, ok)
      PROVE  ReportedInv'
    BY <1>0, <1>4, EndReported DEF ReportedInv
<1>5. ASSUME NEW x \in parts, NEW y \in parts, Reduce(x, y)
      PROVE  ReportedInv'
    BY <1>0, <1>5, ReduceReported DEF ReportedInv
<1>6. ASSUME NEW latest \in [Address -> Code \cup {NoCode}], Report(latest)
      PROVE  ReportedInv'
    BY <1>0, <1>6, ReportReported DEF ReportedInv
<1>7. ASSUME NEW size \in 0 .. Cardinality(Code), Top(size)
      PROVE  ReportedInv'
    <2>1. size \in Nat
        OBVIOUS
    <2> QED
        BY <1>0, <1>7, <2>1, TopReported DEF ReportedInv
<1>8. CASE TopOfAll
    <2>1. report.csum_stats.frequency \in Nat /\ Top(report.csum_stats.frequency)
        BY <1>8 DEF TopOfAll, ReportedInv, StatsInv
    <2> QED
        BY <1>0, <2>1, TopReported DEF ReportedInv
<1>9. CASE UNCHANGED vars
    <2>1. UNCHANGED <<frames, own, account_to_usage, parts, report>>
        BY <1>9 DEF vars, evmVars, inspectorVars
    <2>2. \A v : Accounts(v)' <=> Accounts(v)
        BY <2>1 DEF Accounts, OwnSum, OwnOf
    <2>3. CallsInv' /\ PartsInv'
        BY <2>1, <2>2 DEF ReportedInv, CallsInv, PartsInv
    <2>4. StatsInv' /\ TopInv'
        BY <2>1, StatsStay DEF ReportedInv, Executing
    <2> QED
        BY <1>0, <2>3, <2>4 DEF ReportedInv
<1> QED
    BY <1>1, <1>2, <1>3, <1>4, <1>5, <1>6, <1>7, <1>8, <1>9 DEF Next

LEMMA ReportedAlways == Spec => []ReportedInv
BY ReportedInit, ReportedNext, PTL DEF Spec

\* For each bytecode the report has the gas that all its holders spent
\* themselves in all blocks: however the blocks interleave, whichever way
\* their parts were reduced, and whichever addresses have the same code.
THEOREM ReportAccountsForAll == Spec => []ReportIsOwn
<1>1. ReportedInv => ReportIsOwn
    BY NetOfStats DEF ReportedInv, GasInv, ReportIsOwn
<1> QED
    BY <1>1, ReportedAlways, PTL

\* What is selected is what spent most itself: whatever spent more than a
\* selected bytecode is selected before it, and nothing is selected for a
\* panic of the sort only when no bytecode of the report spent anything.
THEOREM TopSpentMost == Spec => []TopIsHeaviest
<1>1. ReportedInv => TopIsHeaviest
    <2>1. ASSUME ReportedInv, report.state = "top",
                 NEW c \in DOMAIN report.bytecode_stats, NEW i \in DOMAIN report.top,
                 Spent(c) > Spent(report.top[i])
          PROVE  \E j \in 1 .. i - 1 : report.top[j] = c
        <3>1. Heaviest(report.bytecode_stats, report.top)
            BY <2>1 DEF ReportedInv, TopInv
        <3>2. /\ Net(report.bytecode_stats[c]) = Spent(c)
              /\ Net(report.bytecode_stats[report.top[i]]) = Spent(report.top[i])
            BY <2>1, <3>1, NetOfStats DEF ReportedInv, GasInv, Heaviest
        <3> QED
            BY <2>1, <3>1, <3>2 DEF Heaviest
    <2>2. ASSUME ReportedInv, report.state = "panicked", NEW c \in DOMAIN report.bytecode_stats
          PROVE  Spent(c) = 0
        <3>1. Net(report.csum_stats) = 0
            BY <2>2 DEF ReportedInv, TopInv
        <3>2. Net(report.bytecode_stats[c]) = 0
            BY <2>2, <3>1 DEF ReportedInv, StatsInv
        <3> QED
            BY <2>2, <3>2, NetOfStats DEF ReportedInv, GasInv
    <2> QED
        BY <2>1, <2>2 DEF TopIsHeaviest
<1> QED
    BY <1>1, ReportedAlways, PTL

\* The number of calls is not below the number of bytecodes, so that without
\* a size all of them are taken.
THEOREM DefaultIsAll == Spec => DefaultTakesAll
<1>1. ASSUME ReportedInv, TopOfAll, report'.state = "top"
      PROVE  {report'.top[i] : i \in DOMAIN report'.top} = DOMAIN report.bytecode_stats
    <2>1. /\ TypeOK /\ StatsInv /\ report.csum_stats.frequency \in Nat
          /\ Top(report.csum_stats.frequency)
          /\ report.csum_stats.frequency >= Cardinality(DOMAIN report.bytecode_stats)
          /\ {"state", "top"} \subseteq DOMAIN report
        BY <1>1, FS_CardinalityType DEF TopOfAll, ReportedInv, StatsInv, GasInv
    <2>2. report' # [report EXCEPT !.state = "panicked"]
        BY <1>1, <2>1
    <2>3. PICK size : size = report.csum_stats.frequency
        OBVIOUS
    <2>4. size \in Nat /\ Top(size) /\ size >= Cardinality(DOMAIN report.bytecode_stats)
        BY <2>1, <2>3
    <2>5. PICK top : Chosen(size, top)
        BY <2>1, <2>2, <2>4, TopIs
    <2>6. report'.top = top
        BY <2>1, <2>5 DEF Chosen
    <2> QED
        BY <2>4, <2>5, <2>6 DEF Chosen, All
<1>2. ReportedInv => [TopOfAll /\ report'.state = "top" =>
          {report'.top[i] : i \in DOMAIN report'.top} = DOMAIN report.bytecode_stats]_vars
    BY <1>1
<1> QED
    BY <1>2, ReportedAlways, PTL DEF DefaultTakesAll
=============================================================================
