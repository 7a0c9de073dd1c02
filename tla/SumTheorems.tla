---------------------------- MODULE SumTheorems -----------------------------
(***************************************************************************)
(* Sums over finite sets.                                                  *)
(*                                                                         *)
(* MapThenSumSet is a recursive function on the subsets of a set, hidden   *)
(* in a LET; that there is such a function, and that it may be unfolded at *)
(* any element, takes an induction over the subsets.  The theorems about   *)
(* induction have an operator for a parameter; here it is a minimal        *)
(* element of the set of counterexamples, which exists because strict      *)
(* inclusion of finite sets is well-founded.                               *)
(*                                                                         *)
(* A summand is a function, f, and a sum is a function of sets, sum.       *)
(***************************************************************************)
EXTENDS Integers, FiniteSetsExt, FiniteSetTheorems, TLAPS

\* The element that a fold takes next.
First(s) == CHOOSE x \in s : TRUE

\* What a fold computes: sum is the function that is recursive in this way.
Unfolds(sum, f, S) ==
    sum = [s \in SUBSET S |-> IF s = {} THEN 0 ELSE f[First(s)] + sum[s \ {First(s)}]]

\* What a sum is.
SumOf(sum, f, S) ==
    /\ sum \in [SUBSET S -> Int]
    /\ sum[{}] = 0
    /\ \A s \in SUBSET S : \A x \in s : sum[s] = f[x] + sum[s \ {x}]

-----------------------------------------------------------------------------
(* Induction.                                                              *)

\* A set of subsets of a finite set has a minimal element.
LEMMA Minimal ==
    ASSUME NEW S, IsFiniteSet(S), NEW T \in SUBSET SUBSET S, T # {}
    PROVE  \E s \in T : \A t \in T : t \subseteq s => t = s
<1>1. IsWellFoundedOn(StrictSubsetOrdering(S), FiniteSubsetsOf(S))
    BY FS_StrictSubsetOrderingWellFounded
<1>2. FiniteSubsetsOf(S) = SUBSET S
    BY FS_FiniteSubsetsOfFinite
<1>3. \E s \in T : \A t \in T : ~(<<t, s>> \in StrictSubsetOrdering(S))
    BY <1>1, <1>2, WFMin
<1> QED BY <1>3 DEF StrictSubsetOrdering

\* Induction over the subsets of a finite set; good is the set of those that
\* have the property.
LEMMA SubsetInduction ==
    ASSUME NEW S, IsFiniteSet(S), NEW good,
           {} \in good,
           \A s \in SUBSET S : \A x \in s : s \ {x} \in good => s \in good
    PROVE  \A s \in SUBSET S : s \in good
<1> DEFINE bad == {s \in SUBSET S : s \notin good}
<1> SUFFICES ASSUME bad # {} PROVE FALSE
    OBVIOUS
<1>0. \E s \in bad : \A t \in bad : t \subseteq s => t = s
    <2>1. bad \in SUBSET SUBSET S
        OBVIOUS
    <2> HIDE DEF bad
    <2> QED BY <2>1, Minimal
<1>1. PICK s \in bad : \A t \in bad : t \subseteq s => t = s
    BY <1>0
<1>2. PICK x : x \in s
    BY <1>1
<1>3. s \ {x} \in SUBSET S /\ s \ {x} # s /\ s \ {x} \subseteq s
    BY <1>1, <1>2
<1>4. s \ {x} \in good
    BY <1>1, <1>3
<1> QED BY <1>1, <1>2, <1>4

\* A set of numbers up to n has a least element.
LEMMA Least ==
    ASSUME NEW n \in Nat, NEW T \in SUBSET (0 .. n), T # {}
    PROVE  \E m \in T : \A k \in T : m <= k
<1> PICK S, below : S = 0 .. n /\ below = {0 .. k : k \in T}
    OBVIOUS
<1>1. PICK s \in below : \A t \in below : t \subseteq s => t = s
    <2>1. \A k \in T : 0 .. k \in SUBSET S
        OBVIOUS
    <2>2. below \in SUBSET SUBSET S
        BY <2>1
    <2>3. below # {}
        OBVIOUS
    <2>4. IsFiniteSet(S)
        BY FS_Interval
    <2>5. \E s \in below : \A t \in below : t \subseteq s => t = s
        BY ONLY <2>2, <2>3, <2>4, Minimal
    <2> QED BY <2>5
<1>2. PICK m \in T : \A k \in T : 0 .. k \subseteq 0 .. m => 0 .. k = 0 .. m
    <2>1. PICK m \in T : s = 0 .. m
        BY <1>1
    <2>2. \A k \in T : 0 .. k \in below
        OBVIOUS
    <2> QED BY <1>1, <2>1, <2>2
<1>3. ASSUME NEW k \in T, ~(m <= k) PROVE FALSE
    <2>1. m \in Nat /\ k \in Nat /\ k < m
        BY <1>3
    <2>2. 0 .. k \subseteq 0 .. m /\ m \in 0 .. m /\ m \notin 0 .. k
        BY <2>1
    <2> QED BY <1>2, <2>2
<1> QED BY <1>3

-----------------------------------------------------------------------------
(* The recursion has a solution, and it is a sum.                          *)

LEMMA FirstIsIn == \A s : s # {} => First(s) \in s
BY DEF First

\* Solutions for two sets agree on their common subsets.
LEMMA UnfoldsAgree ==
    ASSUME NEW f, NEW S, IsFiniteSet(S), NEW T \in SUBSET S,
           NEW g, Unfolds(g, f, S), NEW h, Unfolds(h, f, T)
    PROVE  \A s \in SUBSET T : g[s] = h[s]
<1> DEFINE bad == {s \in SUBSET T : g[s] # h[s]}
<1> SUFFICES ASSUME bad # {} PROVE FALSE
    OBVIOUS
<1>1. bad \in SUBSET SUBSET S
    OBVIOUS
<1>0. \E s \in bad : \A t \in bad : t \subseteq s => t = s
    <2> HIDE DEF bad
    <2> QED BY <1>1, Minimal
<1>2. PICK s \in bad : \A t \in bad : t \subseteq s => t = s
    BY <1>0
<1>3. \A t \in SUBSET T :
        /\ g[t] = IF t = {} THEN 0 ELSE f[First(t)] + g[t \ {First(t)}]
        /\ h[t] = IF t = {} THEN 0 ELSE f[First(t)] + h[t \ {First(t)}]
    <2>1. ASSUME NEW t \in SUBSET T
          PROVE  /\ g[t] = IF t = {} THEN 0 ELSE f[First(t)] + g[t \ {First(t)}]
                 /\ h[t] = IF t = {} THEN 0 ELSE f[First(t)] + h[t \ {First(t)}]
        <3>1. t \in SUBSET S
            OBVIOUS
        <3> QED BY <3>1 DEF Unfolds
    <2> QED BY <2>1
<1>4. s # {}
    BY <1>2, <1>3
<1>5. First(s) \in s
    BY <1>4, FirstIsIn
<1>6. g[s \ {First(s)}] = h[s \ {First(s)}]
    BY <1>2, <1>5
<1> QED BY <1>2, <1>3, <1>4, <1>6

LEMMA UnfoldsExists ==
    ASSUME NEW f, NEW S, IsFiniteSet(S)
    PROVE  \E sum : Unfolds(sum, f, S)
<1> DEFINE bad == {s \in SUBSET S : ~ \E sum : Unfolds(sum, f, s)}
<1> SUFFICES ASSUME bad # {} PROVE FALSE
    OBVIOUS
<1>0. \E s \in bad : \A t \in bad : t \subseteq s => t = s
    <2>1. bad \in SUBSET SUBSET S
        OBVIOUS
    <2> HIDE DEF bad
    <2> QED BY <2>1, Minimal
<1>1. PICK s \in bad : \A t \in bad : t \subseteq s => t = s
    BY <1>0
<1>2. \A t \in SUBSET s : t # s => \E sum : Unfolds(sum, f, t)
    BY <1>1
<1> DEFINE Sum(t) == CHOOSE sum : Unfolds(sum, f, t)
           Value(t) == IF t = {} THEN 0 ELSE f[First(t)] + Sum(t \ {First(t)})[t \ {First(t)}]
           all == [t \in SUBSET s |-> Value(t)]
<1>3. \A t \in SUBSET s : t # s => Unfolds(Sum(t), f, t)
    BY <1>2
<1>4. \A t \in SUBSET s : t # s => Sum(t)[t] = Value(t)
    <2> SUFFICES ASSUME NEW t \in SUBSET s, t # s PROVE Sum(t)[t] = Value(t)
        OBVIOUS
    <2>1. Unfolds(Sum(t), f, t)
        BY <1>3
    <2> HIDE DEF Sum
    <2>2. Sum(t)[t] = IF t = {} THEN 0 ELSE f[First(t)] + Sum(t)[t \ {First(t)}]
        BY <2>1 DEF Unfolds
    <2>3. CASE t = {}
        BY <2>2, <2>3
    <2>4. CASE t # {}
        <3> DEFINE u == t \ {First(t)}
        <3>1. u \in SUBSET s /\ u # s /\ u \in SUBSET t
            BY <2>4, FirstIsIn
        <3>2. Unfolds(Sum(u), f, u)
            BY <1>3, <3>1
        <3>3. IsFiniteSet(t)
            BY FS_Subset
        <3>4. Sum(t)[u] = Sum(u)[u]
            BY <2>1, <3>1, <3>2, <3>3, UnfoldsAgree
        <3> QED BY <2>2, <2>4, <3>4
    <2> QED BY <2>3, <2>4
<1> HIDE DEF Sum
<1>5. \A t \in SUBSET s : t # {} => all[t \ {First(t)}] = Sum(t \ {First(t)})[t \ {First(t)}]
    <2> SUFFICES ASSUME NEW t \in SUBSET s, t # {}
                 PROVE  all[t \ {First(t)}] = Sum(t \ {First(t)})[t \ {First(t)}]
        OBVIOUS
    <2>1. t \ {First(t)} \in SUBSET s /\ t \ {First(t)} # s
        BY FirstIsIn
    <2> QED BY <1>4, <2>1
<1>6. \A t \in SUBSET s :
        Value(t) = IF t = {} THEN 0 ELSE f[First(t)] + all[t \ {First(t)}]
    BY <1>5
<1>7. Unfolds(all, f, s)
    <2> HIDE DEF Value
    <2> QED BY <1>6 DEF Unfolds
<1> QED BY <1>1, <1>7

\* The recursion takes out elements in an order of its own, which makes no
\* difference.
LEMMA UnfoldsSum ==
    ASSUME NEW S, IsFiniteSet(S), NEW f \in [S -> Int], NEW sum, Unfolds(sum, f, S)
    PROVE  SumOf(sum, f, S)
<1>1. \A s \in SUBSET S : sum[s] = IF s = {} THEN 0 ELSE f[First(s)] + sum[s \ {First(s)}]
    BY DEF Unfolds
<1>2. DOMAIN sum = SUBSET S
    BY DEF Unfolds
<1> DEFINE Good(s) == sum[s] \in Int /\ \A x \in s : sum[s] = f[x] + sum[s \ {x}]
           bad == {s \in SUBSET S : ~Good(s)}
<1>3. bad = {}
    <2> SUFFICES ASSUME bad # {} PROVE FALSE
        OBVIOUS
    <2>1. \E s \in bad : \A t \in bad : t \subseteq s => t = s
        <3>1. bad \in SUBSET SUBSET S
            OBVIOUS
        <3> HIDE DEF bad
        <3> QED BY <3>1, Minimal
    <2>2. PICK s \in bad : \A t \in bad : t \subseteq s => t = s
        BY <2>1
    <2>3. \A t \in SUBSET s : t # s => Good(t)
        BY <2>2
    <2>4. CASE s = {}
        <3>1. sum[s] = 0
            BY <1>1, <2>2, <2>4
        <3>2. \A x \in s : FALSE
            BY <2>4
        <3> QED BY <2>2, <3>1, <3>2
    <2>5. CASE s # {}
        <3>1. PICK y \in s : y = First(s)
            BY <2>5, FirstIsIn
        <3>2. sum[s] = f[y] + sum[s \ {y}] /\ Good(s \ {y}) /\ f[y] \in Int
            BY <1>1, <2>2, <2>3, <2>5, <3>1
        <3>3. ASSUME NEW x \in s PROVE sum[s] = f[x] + sum[s \ {x}]
            <4>1. CASE x = y
                BY <3>2, <4>1
            <4>2. CASE x # y
                <5>1. Good(s \ {x}) /\ f[x] \in Int /\ x \in s \ {y} /\ y \in s \ {x}
                    BY <2>2, <2>3, <4>2
                <5>2. PICK rest : rest = (s \ {y}) \ {x}
                    OBVIOUS
                <5>3. rest = (s \ {x}) \ {y} /\ rest \in SUBSET s /\ rest # s
                    BY <5>1, <5>2
                <5>4. sum[s \ {y}] = f[x] + sum[rest] /\ sum[s \ {x}] = f[y] + sum[rest]
                    BY <3>2, <5>1, <5>2, <5>3
                <5>5. sum[rest] \in Int
                    BY <2>3, <5>3
                <5> QED BY <3>2, <5>1, <5>4, <5>5
            <4> QED BY <4>1, <4>2
        <3>4. sum[s] \in Int
            BY <3>2
        <3> QED BY <2>2, <3>3, <3>4
    <2> QED BY <2>4, <2>5
<1>4. \A s \in SUBSET S : Good(s)
    BY <1>3
<1>5. sum = [s \in SUBSET S |-> sum[s]]
    BY <1>2 DEF Unfolds
<1>6. sum \in [SUBSET S -> Int]
    BY <1>4, <1>5
<1> QED BY <1>1, <1>4, <1>6 DEF SumOf

LEMMA SumExists ==
    ASSUME NEW S, IsFiniteSet(S), NEW f \in [S -> Int]
    PROVE  \E sum : Unfolds(sum, f, S) /\ SumOf(sum, f, S)
BY UnfoldsExists, UnfoldsSum

-----------------------------------------------------------------------------
(* What sums are good for.                                                 *)

\* Larger summands, larger sum; as large only if no summand is larger.
LEMMA SumMonotonic ==
    ASSUME NEW S, IsFiniteSet(S), NEW f \in [S -> Int], NEW g \in [S -> Int],
           \A x \in S : f[x] <= g[x],
           NEW F, SumOf(F, f, S), NEW G, SumOf(G, g, S)
    PROVE  \A s \in SUBSET S : F[s] <= G[s] /\ (F[s] = G[s] <=> \A x \in s : f[x] = g[x])
<1> DEFINE good == {s \in SUBSET S :
                      F[s] <= G[s] /\ (F[s] = G[s] <=> \A x \in s : f[x] = g[x])}
<1>1. {} \in good
    BY DEF SumOf
<1>2. ASSUME NEW s \in SUBSET S, NEW x \in s, s \ {x} \in good
      PROVE  s \in good
    <2>1. /\ F[s] = f[x] + F[s \ {x}] /\ G[s] = g[x] + G[s \ {x}]
          /\ F[s \ {x}] \in Int /\ G[s \ {x}] \in Int
        BY DEF SumOf
    <2>2. f[x] \in Int /\ g[x] \in Int /\ f[x] <= g[x]
        OBVIOUS
    <2>3. /\ F[s \ {x}] <= G[s \ {x}]
          /\ F[s \ {x}] = G[s \ {x}] <=> \A z \in s \ {x} : f[z] = g[z]
        BY <1>2
    <2>4. F[s] <= G[s] /\ (F[s] = G[s] <=> f[x] = g[x] /\ F[s \ {x}] = G[s \ {x}])
        BY <2>1, <2>2, <2>3
    <2>5. (\A z \in s : f[z] = g[z]) <=> f[x] = g[x] /\ \A z \in s \ {x} : f[z] = g[z]
        OBVIOUS
    <2> QED BY <2>3, <2>4, <2>5
<1> HIDE DEF good
<1>3. \A s \in SUBSET S : s \in good
    BY <1>1, <1>2, SubsetInduction
<1> QED BY <1>3 DEF good

\* Sums of equal summands are equal.
LEMMA SumSame ==
    ASSUME NEW S, IsFiniteSet(S), NEW f \in [S -> Int],
           NEW T, IsFiniteSet(T), NEW g \in [T -> Int],
           NEW F, SumOf(F, f, S), NEW G, SumOf(G, g, T),
           NEW U \in SUBSET S, U \in SUBSET T, \A x \in U : f[x] = g[x]
    PROVE  F[U] = G[U]
<1> DEFINE good == {s \in SUBSET U : F[s] = G[s]}
<1>1. {} \in good
    BY DEF SumOf
<1>2. ASSUME NEW s \in SUBSET U, NEW x \in s, s \ {x} \in good
      PROVE  s \in good
    <2>1. F[s] = f[x] + F[s \ {x}] /\ G[s] = g[x] + G[s \ {x}]
        BY DEF SumOf
    <2> QED BY <1>2, <2>1
<1>3. IsFiniteSet(U)
    BY FS_Subset
<1> HIDE DEF good
<1>4. \A s \in SUBSET U : s \in good
    BY <1>1, <1>2, <1>3, SubsetInduction
<1> QED BY <1>4 DEF good

\* Natural summands: the sum is natural, and at least the number of summands
\* that are not zero.
LEMMA SumNatural ==
    ASSUME NEW S, IsFiniteSet(S), NEW f \in [S -> Nat], NEW F, SumOf(F, f, S)
    PROVE  \A s \in SUBSET S :
               /\ F[s] \in Nat
               /\ F[s] = 0 <=> \A x \in s : f[x] = 0
               /\ (\A x \in s : f[x] # 0) => Cardinality(s) <= F[s]
<1> DEFINE good == {s \in SUBSET S :
                      /\ F[s] \in Nat
                      /\ F[s] = 0 <=> \A x \in s : f[x] = 0
                      /\ (\A x \in s : f[x] # 0) => Cardinality(s) <= F[s]}
<1>1. {} \in good
    BY FS_EmptySet DEF SumOf
<1>2. ASSUME NEW s \in SUBSET S, NEW x \in s, s \ {x} \in good
      PROVE  s \in good
    <2>1. F[s] = f[x] + F[s \ {x}] /\ f[x] \in Nat
        BY DEF SumOf
    <2>2. F[s \ {x}] \in Nat /\ (F[s \ {x}] = 0 <=> \A z \in s \ {x} : f[z] = 0)
        BY <1>2
    <2>3. F[s] \in Nat /\ (F[s] = 0 <=> f[x] = 0 /\ F[s \ {x}] = 0)
        BY <2>1, <2>2
    <2>4. (\A z \in s : f[z] = 0) <=> f[x] = 0 /\ \A z \in s \ {x} : f[z] = 0
        OBVIOUS
    <2>5. ASSUME \A z \in s : f[z] # 0 PROVE Cardinality(s) <= F[s]
        <3>1. IsFiniteSet(s)
            BY FS_Subset
        <3>2. Cardinality(s) \in Nat /\ Cardinality(s \ {x}) = Cardinality(s) - 1
            BY <3>1, FS_CardinalityType, FS_RemoveElement
        <3>3. Cardinality(s \ {x}) <= F[s \ {x}] /\ f[x] # 0
            BY <1>2, <2>5
        <3> QED BY <2>1, <2>2, <3>2, <3>3
    <2> QED BY <2>2, <2>3, <2>4, <2>5
<1> HIDE DEF good
<1>3. \A s \in SUBSET S : s \in good
    BY <1>1, <1>2, SubsetInduction
<1> QED BY <1>3 DEF good

\* The sum over two disjoint sets.
LEMMA SumDisjoint ==
    ASSUME NEW S, IsFiniteSet(S), NEW f \in [S -> Int], NEW F, SumOf(F, f, S),
           NEW s \in SUBSET S, NEW t \in SUBSET S, s \cap t = {}
    PROVE  F[s \cup t] = F[s] + F[t]
<1> DEFINE good == {u \in SUBSET t : F[s \cup u] = F[s] + F[u]}
<1>1. {} \in good
    <2>1. s \cup {} = s /\ F[s] \in Int /\ F[{}] = 0
        BY DEF SumOf
    <2> QED BY <2>1
<1>2. ASSUME NEW u \in SUBSET t, NEW x \in u, u \ {x} \in good
      PROVE  u \in good
    <2>1. (s \cup u) \ {x} = s \cup (u \ {x})
        OBVIOUS
    <2>2. F[s \cup u] = f[x] + F[(s \cup u) \ {x}] /\ F[u] = f[x] + F[u \ {x}]
        BY DEF SumOf
    <2>3. f[x] \in Int /\ F[s] \in Int /\ F[u \ {x}] \in Int
        BY DEF SumOf
    <2>4. F[s \cup (u \ {x})] = F[s] + F[u \ {x}]
        BY <1>2
    <2>5. F[s \cup u] = f[x] + F[s \cup (u \ {x})]
        BY <2>1, <2>2
    <2>6. F[s \cup u] = F[s] + F[u]
        BY ONLY <2>2, <2>3, <2>4, <2>5
    <2> QED BY <2>6
<1>3. IsFiniteSet(t)
    BY FS_Subset
<1> HIDE DEF good
<1>4. \A u \in SUBSET t : u \in good
    BY <1>1, <1>2, <1>3, SubsetInduction
<1>5. t \in good
    BY <1>4
<1> QED BY <1>5 DEF good

\* The sum of sums.
LEMMA SumPlus ==
    ASSUME NEW S, IsFiniteSet(S), NEW f \in [S -> Int], NEW g \in [S -> Int],
           NEW h \in [S -> Int], \A x \in S : h[x] = f[x] + g[x],
           NEW F, SumOf(F, f, S), NEW G, SumOf(G, g, S), NEW H, SumOf(H, h, S)
    PROVE  \A s \in SUBSET S : H[s] = F[s] + G[s]
<1> DEFINE good == {s \in SUBSET S : H[s] = F[s] + G[s]}
<1>1. {} \in good
    BY DEF SumOf
<1>2. ASSUME NEW s \in SUBSET S, NEW x \in s, s \ {x} \in good
      PROVE  s \in good
    <2>1. /\ F[s] = f[x] + F[s \ {x}] /\ G[s] = g[x] + G[s \ {x}]
          /\ H[s] = h[x] + H[s \ {x}] /\ h[x] = f[x] + g[x]
          /\ F[s \ {x}] \in Int /\ G[s \ {x}] \in Int /\ f[x] \in Int /\ g[x] \in Int
        BY DEF SumOf
    <2> QED BY <1>2, <2>1
<1> HIDE DEF good
<1>3. \A s \in SUBSET S : s \in good
    BY <1>1, <1>2, SubsetInduction
<1> QED BY <1>3 DEF good
-----------------------------------------------------------------------------
(* Sums over pairs.                                                        *)

Pairs(S, T) == S \X T
AtPair(f, s, t) == f[<<s, t>>]

\* F sums f over pairs; R sums r, the column of f at t.
Column(S, T, f, F, t, r, R) ==
    /\ IsFiniteSet(S) /\ t \in T
    /\ f \in [Pairs(S, T) -> Int] /\ SumOf(F, f, Pairs(S, T))
    /\ r \in [S -> Int] /\ SumOf(R, r, S)
    /\ \A s \in S : r[s] = AtPair(f, s, t)

\* F sums f over pairs; G sums g, the sums of the columns of f.
Columns(S, T, f, F, g, G) ==
    /\ IsFiniteSet(S) /\ IsFiniteSet(T)
    /\ f \in [Pairs(S, T) -> Int] /\ SumOf(F, f, Pairs(S, T))
    /\ g \in [T -> Int] /\ SumOf(G, g, T)
    /\ \A t \in T : F[Pairs(S, {t})] = g[t]

\* The sum over a column.
LEMMA SumColumn ==
    ASSUME NEW S, NEW T, NEW f, NEW F, NEW t, NEW r, NEW R, Column(S, T, f, F, t, r, R)
    PROVE  \A u \in SUBSET S : F[Pairs(u, {t})] = R[u]
<1>0. /\ IsFiniteSet(S) /\ t \in T
      /\ f \in [Pairs(S, T) -> Int] /\ SumOf(F, f, Pairs(S, T))
      /\ r \in [S -> Int] /\ SumOf(R, r, S)
      /\ \A s \in S : r[s] = AtPair(f, s, t)
    BY DEF Column
<1> DEFINE good == {u \in SUBSET S : F[u \X {t}] = R[u]}
<1>1. {} \in good
    <2>1. {} \X {t} = {}
        OBVIOUS
    <2> QED BY <1>0, <2>1 DEF SumOf
<1>2. ASSUME NEW u \in SUBSET S, NEW x \in u, u \ {x} \in good
      PROVE  u \in good
    <2>1. (u \X {t}) \ {<<x, t>>} = (u \ {x}) \X {t}
        OBVIOUS
    <2>2. u \X {t} \in SUBSET Pairs(S, T) /\ <<x, t>> \in u \X {t}
        BY <1>0 DEF Pairs
    <2>3. F[u \X {t}] = f[<<x, t>>] + F[(u \X {t}) \ {<<x, t>>}]
        BY <1>0, <2>2 DEF SumOf
    <2>4. R[u] = r[x] + R[u \ {x}] /\ r[x] = f[<<x, t>>]
        BY <1>0 DEF SumOf, AtPair
    <2> QED BY <1>2, <2>1, <2>3, <2>4
<1> HIDE DEF good
<1>3. \A u \in SUBSET S : u \in good
    BY <1>0, <1>1, <1>2, SubsetInduction
<1> QED BY <1>3 DEF good, Pairs

\* The sum over a rectangle is the sum of the sums over its columns.
LEMMA SumColumns ==
    ASSUME NEW S, NEW T, NEW f, NEW F, NEW g, NEW G, Columns(S, T, f, F, g, G)
    PROVE  \A u \in SUBSET T : F[Pairs(S, u)] = G[u]
<1>0. /\ IsFiniteSet(S) /\ IsFiniteSet(T)
      /\ f \in [Pairs(S, T) -> Int] /\ SumOf(F, f, Pairs(S, T))
      /\ g \in [T -> Int] /\ SumOf(G, g, T)
      /\ \A t \in T : F[Pairs(S, {t})] = g[t]
    BY DEF Columns
<1> DEFINE good == {u \in SUBSET T : F[Pairs(S, u)] = G[u]}
<1>1. {} \in good
    <2>1. Pairs(S, {}) = {}
        BY DEF Pairs
    <2> QED BY <1>0, <2>1 DEF SumOf
<1>2. ASSUME NEW u \in SUBSET T, NEW x \in u, u \ {x} \in good
      PROVE  u \in good
    <2>1. PICK v, w, P : v = Pairs(S, u \ {x}) /\ w = Pairs(S, {x}) /\ P = Pairs(S, T)
        OBVIOUS
    <2>2. /\ v \in SUBSET P /\ w \in SUBSET P
          /\ v \cap w = {} /\ v \cup w = Pairs(S, u)
        BY <2>1 DEF Pairs
    <2>3. IsFiniteSet(P) /\ f \in [P -> Int] /\ SumOf(F, f, P)
        BY <1>0, <2>1, FS_Product DEF Pairs
    <2>4. F[v \cup w] = F[v] + F[w]
        BY <2>2, <2>3, SumDisjoint
    <2>5. F[v] = G[u \ {x}] /\ F[w] = g[x]
        BY <1>0, <1>2, <2>1
    <2>6. G[u] = g[x] + G[u \ {x}] /\ g[x] \in Int /\ G[u \ {x}] \in Int
        BY <1>0 DEF SumOf
    <2>7. F[Pairs(S, u)] = F[v] + F[w]
        BY <2>2, <2>4, Zenon
    <2>8. F[Pairs(S, u)] = G[u]
        BY ONLY <2>5, <2>6, <2>7
    <2> QED BY <2>8
<1> HIDE DEF good
<1>3. \A u \in SUBSET T : u \in good
    BY <1>0, <1>1, <1>2, SubsetInduction
<1> QED BY <1>3 DEF good

\* A set with zeros is as good as one without.
LEMMA SumWithout ==
    ASSUME NEW S, IsFiniteSet(S), NEW f \in [S -> Int], NEW F, SumOf(F, f, S),
           NEW s \in SUBSET S, NEW t \in SUBSET s, \A x \in s \ t : f[x] = 0
    PROVE  F[s] = F[t]
<1> PICK r : r = s \ t
    OBVIOUS
<1> DEFINE good == {u \in SUBSET r : F[t \cup u] = F[t]}
<1>1. {} \in good
    <2>1. t \cup {} = t
        OBVIOUS
    <2> QED BY <2>1
<1>2. ASSUME NEW u \in SUBSET r, NEW x \in u, u \ {x} \in good
      PROVE  u \in good
    <2>1. (t \cup u) \ {x} = t \cup (u \ {x}) /\ t \cup u \in SUBSET S /\ x \in t \cup u
        OBVIOUS
    <2>2. F[t \cup u] = f[x] + F[(t \cup u) \ {x}] /\ f[x] = 0 /\ F[t] \in Int
        BY <2>1 DEF SumOf
    <2>3. F[t \cup (u \ {x})] = F[t]
        BY <1>2
    <2>4. F[t \cup u] = 0 + F[t]
        BY <2>1, <2>2, <2>3
    <2> QED BY <2>2, <2>4
<1> HIDE DEF good
<1>3. IsFiniteSet(r)
    BY FS_Subset
<1>4. \A u \in SUBSET r : u \in good
    BY ONLY <1>1, <1>2, <1>3, SubsetInduction
<1>5. s \ t \in good /\ t \cup (s \ t) = s
    BY <1>4
<1> QED BY <1>5 DEF good
=============================================================================
