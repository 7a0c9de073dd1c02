------------------------- MODULE GasGuzzlersProofs -------------------------
(***************************************************************************)
(* Theorems about GasGuzzlers, for any number of blocks, addresses and     *)
(* codes, and call stacks of any depth.                                    *)
(*                                                                         *)
(* The argument is about one block: Stack relates revm's n frames fs to    *)
(* the inspector's stack ps and current bytecode cur, Book relates them to *)
(* the inspector's map use and to the gas mine that each address spent.    *)
(***************************************************************************)
EXTENDS GasGuzzlers, SumTheorems, TLAPS

IsCall(fs, i) == fs[i].kind = "call"

\* M[i] is the innermost call among the first i frames, or 0.
Innermost(fs, n, M) ==
    /\ M \in [0 .. n -> Nat]
    /\ \A i \in 0 .. n : M[i] <= i
    /\ \A i \in 0 .. n : M[i] # 0 => IsCall(fs, M[i])
    /\ \A i \in 0 .. n, j \in 1 .. n : j <= i /\ IsCall(fs, j) => j <= M[i]

\* D[i] is the number of calls among the first i frames.
Counted(fs, n, D) ==
    /\ D \in [0 .. n -> Nat]
    /\ \A i \in 1 .. n : D[i] = D[i - 1] + IF IsCall(fs, i) THEN 1 ELSE 0

\* Frames of equal depth have the same innermost call.
Layered(n, M, D) ==
    /\ \A i, j \in 0 .. n : i <= j => D[i] <= D[j]
    /\ \A i, j \in 0 .. n : D[i] = D[j] => M[i] = M[j]
    /\ \A i \in 0 .. n : D[i] = 0 <=> M[i] = 0

At(fs, m) == IF m = 0 THEN NoAddress ELSE fs[m].at

\* G is F and one value more.
Longer(F, n, v, G) ==
    /\ \A i \in 0 .. n : G[i] = F[i]
    /\ G[n + 1] = v

\* gs begins with the first n frames of fs, or they differ in what they spent.
SameFrames(fs, gs, n) ==
    \A i \in 1 .. n : gs[i].kind = fs[i].kind /\ gs[i].at = fs[i].at

-----------------------------------------------------------------------------
\* The innermost call is what the gas of a frame is charged to.
LEMMA SpenderIs ==
    ASSUME NEW b, NEW n \in Nat, NEW M, Innermost(frames[b], n, M), NEW k \in 0 .. n
    PROVE  Spender(b, k) = At(frames[b], M[k])
<1> DEFINE calls == {i \in 1 .. k : frames[b][i].kind = "call"}
<1>1. CASE M[k] = 0
    <2>1. calls = {}
        BY <1>1 DEF Innermost, IsCall
    <2> QED
        BY <1>1, <2>1 DEF Spender, At
<1>2. CASE M[k] # 0
    <2>1. /\ M[k] \in calls
          /\ \A y \in calls : M[k] >= y
        BY <1>2 DEF Innermost, IsCall
    <2>2. \A x \in calls : (\A y \in calls : x >= y) => x = M[k]
        BY <2>1
    <2>3. Max(calls) = M[k]
        BY <2>1, <2>2 DEF Max
    <2>4. calls # {}
        BY <2>1
    <2> QED
        BY <1>2, <2>3, <2>4 DEF Spender, At
<1> QED
    BY <1>1, <1>2

\* The innermost calls and the depths of the same frames are the same.
LEMMA SameDepths ==
    ASSUME NEW n \in Nat, NEW fs, NEW gs, SameFrames(fs, gs, n), NEW M, NEW D,
           Innermost(fs, n, M), Counted(fs, n, D)
    PROVE  /\ Innermost(gs, n, M) /\ Counted(gs, n, D)
           /\ \A i \in 0 .. n : At(gs, M[i]) = At(fs, M[i])
<1>1. \A i \in 1 .. n : IsCall(gs, i) <=> IsCall(fs, i)
    BY DEF SameFrames, IsCall
<1>2. \A i \in 0 .. n : M[i] = 0 \/ M[i] \in 1 .. n
    BY DEF Innermost
<1>3. Innermost(gs, n, M)
    BY <1>1, <1>2 DEF Innermost
<1>4. Counted(gs, n, D)
    BY <1>1 DEF Counted
<1>5. \A i \in 0 .. n : At(gs, M[i]) = At(fs, M[i])
    BY <1>2 DEF SameFrames, At
<1> QED
    BY <1>3, <1>4, <1>5

\* A call is its own innermost call, one deeper than the frames below it.
LEMMA CallDepths ==
    ASSUME NEW n \in Nat, NEW fs, NEW M, NEW D,
           Innermost(fs, n, M), Counted(fs, n, D), Layered(n, M, D), IsCall(fs, n + 1),
           NEW N \in [0 .. n + 1 -> Nat], Longer(M, n, n + 1, N),
           NEW E \in [0 .. n + 1 -> Nat], Longer(D, n, D[n] + 1, E)
    PROVE  Innermost(fs, n + 1, N) /\ Counted(fs, n + 1, E) /\ Layered(n + 1, N, E)
<1>1. /\ \A i \in 0 .. n + 1 : i \in 0 .. n \/ i = n + 1
      /\ \A i \in 1 .. n + 1 : i \in 1 .. n \/ i = n + 1
      /\ n + 1 \in Nat /\ n \in 0 .. n /\ n + 1 \notin 0 .. n
    OBVIOUS
<1>2. \A i \in 0 .. n : /\ N[i] = M[i] /\ M[i] \in Nat /\ M[i] <= i
                        /\ E[i] = D[i] /\ D[i] \in Nat /\ D[i] <= D[n]
    BY <1>1 DEF Innermost, Counted, Layered, Longer
<1>3. N[n + 1] = n + 1 /\ E[n + 1] = D[n] + 1
    BY DEF Longer
<1>4. Innermost(fs, n + 1, N)
    <2>1. ASSUME NEW i \in 0 .. n + 1
          PROVE  N[i] <= i /\ (N[i] # 0 => IsCall(fs, N[i]))
        <3>1. CASE i \in 0 .. n
            BY <1>2, <3>1 DEF Innermost
        <3>2. CASE i = n + 1
            BY <1>1, <1>2, <1>3, <3>2 DEF Innermost
        <3> QED
            BY <1>1, <3>1, <3>2
    <2>2. ASSUME NEW i \in 0 .. n + 1, NEW j \in 1 .. n + 1, j <= i, IsCall(fs, j)
          PROVE  j <= N[i]
        <3>1. CASE i \in 0 .. n
            <4>1. j \in 1 .. n
                BY <2>2, <3>1
            <4> QED
                BY <1>2, <2>2, <3>1, <4>1 DEF Innermost
        <3>2. CASE i = n + 1 /\ j \in 1 .. n
            <4>1. j <= M[n]
                BY <1>1, <2>2, <3>2 DEF Innermost
            <4> QED
                BY <1>1, <1>2, <1>3, <3>2, <4>1
        <3>3. CASE i = n + 1 /\ j = n + 1
            BY <1>3, <2>2, <3>3
        <3> QED
            BY <1>1, <3>1, <3>2, <3>3
    <2> QED
        BY <2>1, <2>2 DEF Innermost
<1>5. Counted(fs, n + 1, E)
    <2>1. ASSUME NEW i \in 1 .. n + 1
          PROVE  E[i] = E[i - 1] + IF IsCall(fs, i) THEN 1 ELSE 0
        <3>1. CASE i \in 1 .. n
            <4>1. i \in 0 .. n /\ i - 1 \in 0 .. n
                BY <3>1
            <4> QED
                BY <1>2, <3>1, <4>1 DEF Counted
        <3>2. CASE i = n + 1
            <4>1. i - 1 = n
                BY <3>2
            <4> QED
                BY <1>1, <1>2, <1>3, <3>2, <4>1
        <3> QED
            BY <1>1, <3>1, <3>2
    <2> QED
        BY <2>1 DEF Counted
<1>6. Layered(n + 1, N, E)
    <2>1. ASSUME NEW i \in 0 .. n + 1, NEW j \in 0 .. n + 1
          PROVE  (i <= j => E[i] <= E[j]) /\ (E[i] = E[j] => N[i] = N[j])
        <3>1. CASE i \in 0 .. n /\ j \in 0 .. n
            BY <1>2, <3>1 DEF Layered
        <3>2. CASE i \in 0 .. n /\ j = n + 1
            BY <1>1, <1>2, <1>3, <3>2 DEF Layered
        <3>3. CASE i = n + 1 /\ j \in 0 .. n
            BY <1>1, <1>2, <1>3, <3>3 DEF Layered
        <3>4. CASE i = n + 1 /\ j = n + 1
            BY <1>1, <1>2, <1>3, <3>4
        <3> QED
            BY <1>1, <3>1, <3>2, <3>3, <3>4
    <2>2. ASSUME NEW i \in 0 .. n + 1
          PROVE  E[i] = 0 <=> N[i] = 0
        <3>1. CASE i \in 0 .. n
            BY <1>2, <3>1 DEF Layered
        <3>2. CASE i = n + 1
            BY <1>1, <1>2, <1>3, <3>2 DEF Layered
        <3> QED
            BY <1>1, <3>1, <3>2
    <2> QED
        BY <2>1, <2>2 DEF Layered
<1> QED
    BY <1>4, <1>5, <1>6

\* A creation has the innermost call and the depth of the frame below it.
LEMMA CreateDepths ==
    ASSUME NEW n \in Nat, NEW fs, NEW M, NEW D,
           Innermost(fs, n, M), Counted(fs, n, D), Layered(n, M, D), ~IsCall(fs, n + 1),
           NEW N \in [0 .. n + 1 -> Nat], Longer(M, n, M[n], N),
           NEW E \in [0 .. n + 1 -> Nat], Longer(D, n, D[n], E)
    PROVE  Innermost(fs, n + 1, N) /\ Counted(fs, n + 1, E) /\ Layered(n + 1, N, E)
<1>1. /\ \A i \in 0 .. n + 1 : i \in 0 .. n \/ i = n + 1
      /\ \A i \in 1 .. n + 1 : i \in 1 .. n \/ i = n + 1
      /\ n + 1 \in Nat /\ n \in 0 .. n /\ n + 1 \notin 0 .. n
    OBVIOUS
<1>2. \A i \in 0 .. n : /\ N[i] = M[i] /\ M[i] \in Nat /\ M[i] <= i
                        /\ E[i] = D[i] /\ D[i] \in Nat /\ D[i] <= D[n]
    BY <1>1 DEF Innermost, Counted, Layered, Longer
<1>3. N[n + 1] = M[n] /\ E[n + 1] = D[n]
    BY DEF Longer
<1>4. Innermost(fs, n + 1, N)
    <2>1. ASSUME NEW i \in 0 .. n + 1
          PROVE  N[i] <= i /\ (N[i] # 0 => IsCall(fs, N[i]))
        <3>1. CASE i \in 0 .. n
            BY <1>2, <3>1 DEF Innermost
        <3>2. CASE i = n + 1
            BY <1>1, <1>2, <1>3, <3>2 DEF Innermost
        <3> QED
            BY <1>1, <3>1, <3>2
    <2>2. ASSUME NEW i \in 0 .. n + 1, NEW j \in 1 .. n + 1, j <= i, IsCall(fs, j)
          PROVE  j <= N[i]
        <3>1. CASE i \in 0 .. n
            <4>1. j \in 1 .. n
                BY <2>2, <3>1
            <4> QED
                BY <1>2, <2>2, <3>1, <4>1 DEF Innermost
        <3>2. CASE i = n + 1 /\ j \in 1 .. n
            <4>1. j <= M[n]
                BY <1>1, <2>2, <3>2 DEF Innermost
            <4> QED
                BY <1>1, <1>2, <1>3, <3>2, <4>1
        <3>3. CASE i = n + 1 /\ j = n + 1
            BY <1>3, <2>2, <3>3
        <3> QED
            BY <1>1, <3>1, <3>2, <3>3
    <2> QED
        BY <2>1, <2>2 DEF Innermost
<1>5. Counted(fs, n + 1, E)
    <2>1. ASSUME NEW i \in 1 .. n + 1
          PROVE  E[i] = E[i - 1] + IF IsCall(fs, i) THEN 1 ELSE 0
        <3>1. CASE i \in 1 .. n
            <4>1. i \in 0 .. n /\ i - 1 \in 0 .. n
                BY <3>1
            <4> QED
                BY <1>2, <3>1, <4>1 DEF Counted
        <3>2. CASE i = n + 1
            <4>1. i - 1 = n
                BY <3>2
            <4> QED
                BY <1>1, <1>2, <1>3, <3>2, <4>1
        <3> QED
            BY <1>1, <3>1, <3>2
    <2> QED
        BY <2>1 DEF Counted
<1>6. Layered(n + 1, N, E)
    <2>1. ASSUME NEW i \in 0 .. n + 1, NEW j \in 0 .. n + 1
          PROVE  (i <= j => E[i] <= E[j]) /\ (E[i] = E[j] => N[i] = N[j])
        <3>1. CASE i \in 0 .. n /\ j \in 0 .. n
            BY <1>2, <3>1 DEF Layered
        <3>2. CASE i \in 0 .. n /\ j = n + 1
            BY <1>1, <1>2, <1>3, <3>2 DEF Layered
        <3>3. CASE i = n + 1 /\ j \in 0 .. n
            BY <1>1, <1>2, <1>3, <3>3 DEF Layered
        <3>4. CASE i = n + 1 /\ j = n + 1
            BY <1>1, <1>2, <1>3, <3>4
        <3> QED
            BY <1>1, <3>1, <3>2, <3>3, <3>4
    <2>2. ASSUME NEW i \in 0 .. n + 1
          PROVE  E[i] = 0 <=> N[i] = 0
        <3>1. CASE i \in 0 .. n
            BY <1>2, <3>1 DEF Layered
        <3>2. CASE i = n + 1
            BY <1>1, <1>2, <1>3, <3>2 DEF Layered
        <3> QED
            BY <1>1, <3>1, <3>2
    <2> QED
        BY <2>1, <2>2 DEF Layered
<1> QED
    BY <1>4, <1>5, <1>6

\* F without its last value.
Shorter(F, n) == [i \in 0 .. n |-> F[i]]

\* What remains when a frame returns.
LEMMA ShorterDepths ==
    ASSUME NEW n \in Nat, NEW fs, NEW M, NEW D,
           Innermost(fs, n + 1, M), Counted(fs, n + 1, D), Layered(n + 1, M, D)
    PROVE  /\ Innermost(fs, n, Shorter(M, n)) /\ Counted(fs, n, Shorter(D, n))
           /\ Layered(n, Shorter(M, n), Shorter(D, n))
<1>1. /\ \A i \in 0 .. n : Shorter(M, n)[i] = M[i] /\ Shorter(D, n)[i] = D[i]
      /\ \A i \in 0 .. n : i \in 0 .. n + 1
      /\ \A i \in 1 .. n : i \in 1 .. n + 1 /\ i \in 0 .. n /\ i - 1 \in 0 .. n
    BY DEF Shorter
<1>2. Shorter(M, n) \in [0 .. n -> Nat] /\ Shorter(D, n) \in [0 .. n -> Nat]
    BY DEF Shorter, Innermost, Counted
<1>3. Innermost(fs, n, Shorter(M, n))
    BY <1>1, <1>2 DEF Innermost
<1>4. Counted(fs, n, Shorter(D, n))
    BY <1>1, <1>2 DEF Counted
<1>5. Layered(n, Shorter(M, n), Shorter(D, n))
    BY <1>1 DEF Layered
<1> QED
    BY <1>3, <1>4, <1>5

-----------------------------------------------------------------------------
(* The inspector's stack.                                                  *)

\* The inspector's stack holds the calls but the innermost, which is current.
Viewed(fs, n, ps, cur, M, D) ==
    /\ ps \in Seq(Address)
    /\ cur = At(fs, M[n])
    /\ Len(ps) = IF D[n] = 0 THEN 0 ELSE D[n] - 1
    /\ \A i \in 0 .. n : 0 < D[i] /\ D[i] < D[n] => ps[D[i]] = At(fs, M[i])

\* What the inspector does at a call: the caller is pushed, unless it is the
\* first call of a transaction.
LEMMA CallView ==
    ASSUME NEW n \in Nat, NEW fs, NEW M, NEW D, NEW ps, NEW cur,
           \A i \in 1 .. n : fs[i].at \in Address,
           Innermost(fs, n, M), Counted(fs, n, D), Layered(n, M, D),
           Viewed(fs, n, ps, cur, M, D),
           NEW N, Longer(M, n, n + 1, N), NEW E, Longer(D, n, D[n] + 1, E)
    PROVE  Viewed(fs, n + 1, IF cur # NoAddress THEN Append(ps, cur) ELSE ps,
                  fs[n + 1].at, N, E)
<1> DEFINE qs == IF cur # NoAddress THEN Append(ps, cur) ELSE ps
<1>1. /\ \A i \in 0 .. n : N[i] = M[i] /\ E[i] = D[i] /\ D[i] \in Nat
      /\ N[n + 1] = n + 1 /\ E[n + 1] = D[n] + 1
    BY DEF Longer, Counted
<1>2. /\ n \in 0 .. n /\ \A i \in 0 .. n + 1 : i \in 0 .. n \/ i = n + 1
      /\ D[n] \in Nat
    BY <1>1
<1>3. cur = At(fs, M[n]) /\ (D[n] = 0 <=> M[n] = 0) /\ (M[n] = 0 \/ M[n] \in 1 .. n)
    BY <1>2 DEF Viewed, Layered, Innermost
<1>4. cur \in Address \cup {NoAddress} /\ (cur = NoAddress <=> D[n] = 0)
    BY <1>3, GasAssumption DEF At
<1>5. ps \in Seq(Address) /\ Len(ps) \in Nat /\ Len(ps) = IF D[n] = 0 THEN 0 ELSE D[n] - 1
    BY DEF Viewed
<1>6. /\ qs \in Seq(Address) /\ Len(qs) = D[n]
      /\ \A k \in 1 .. Len(ps) : qs[k] = ps[k]
      /\ D[n] # 0 => qs[D[n]] = cur
    <2>1. CASE D[n] = 0
        BY <1>4, <1>5, <2>1
    <2>2. CASE D[n] # 0
        <3>1. cur \in Address /\ Len(ps) + 1 = D[n] /\ qs = Append(ps, cur)
            BY <1>2, <1>4, <1>5, <2>2
        <3> QED
            BY <1>5, <3>1
    <2> QED
        BY <2>1, <2>2
<1> HIDE DEF qs
<1>7. ASSUME NEW i \in 0 .. n + 1, 0 < E[i], E[i] < E[n + 1]
      PROVE  qs[E[i]] = At(fs, N[i])
    <2>1. i \in 0 .. n
        BY <1>1, <1>2, <1>7
    <2>2. E[i] = D[i] /\ N[i] = M[i] /\ D[i] \in Nat /\ D[i] <= D[n]
        BY <1>1, <1>2, <1>7, <2>1
    <2>3. CASE D[i] = D[n]
        <3>1. M[i] = M[n]
            BY <1>2, <2>1, <2>3 DEF Layered
        <3> QED
            BY <1>3, <1>6, <1>7, <2>2, <2>3, <3>1
    <2>4. CASE D[i] < D[n]
        <3>1. ps[D[i]] = At(fs, M[i])
            BY <1>7, <2>1, <2>2, <2>4 DEF Viewed
        <3>2. D[i] \in 1 .. Len(ps)
            BY <1>2, <1>5, <1>7, <2>2, <2>4
        <3> QED
            BY <1>6, <2>2, <3>1, <3>2
    <2> QED
        BY <1>2, <2>2, <2>3, <2>4
<1>8. fs[n + 1].at = At(fs, N[n + 1])
    BY <1>1 DEF At
<1>9. Len(qs) = IF E[n + 1] = 0 THEN 0 ELSE E[n + 1] - 1
    BY <1>1, <1>2, <1>6
<1>10. Viewed(fs, n + 1, qs, fs[n + 1].at, N, E)
    BY <1>6, <1>7, <1>8, <1>9 DEF Viewed
<1> QED
    BY <1>10 DEF qs

\* The inspector is not told of a creation, and need not be.
LEMMA CreateView ==
    ASSUME NEW n \in Nat, NEW fs, NEW M, NEW D, NEW ps, NEW cur,
           Counted(fs, n, D), Viewed(fs, n, ps, cur, M, D),
           NEW N, Longer(M, n, M[n], N), NEW E, Longer(D, n, D[n], E)
    PROVE  Viewed(fs, n + 1, ps, cur, N, E)
<1>1. /\ \A i \in 0 .. n : N[i] = M[i] /\ E[i] = D[i] /\ D[i] \in Nat
      /\ N[n + 1] = M[n] /\ E[n + 1] = D[n]
    BY DEF Longer, Counted
<1>2. /\ n \in 0 .. n /\ \A i \in 0 .. n + 1 : i \in 0 .. n \/ i = n + 1
      /\ D[n] \in Nat
    BY <1>1
<1>3. ASSUME NEW i \in 0 .. n + 1, 0 < E[i], E[i] < E[n + 1]
      PROVE  ps[E[i]] = At(fs, N[i])
    <2>1. i \in 0 .. n
        BY <1>1, <1>2, <1>3
    <2> QED
        BY <1>1, <1>3, <2>1 DEF Viewed
<1> QED
    BY <1>1, <1>3 DEF Viewed

\* At the end of a call the inspector takes the caller from its stack, and
\* an empty stack means that there is none.
LEMMA EndView ==
    ASSUME NEW n \in Nat, NEW fs, NEW M, NEW D, NEW ps, NEW cur,
           Counted(fs, n + 1, D), Layered(n + 1, M, D),
           Viewed(fs, n + 1, ps, cur, M, D), IsCall(fs, n + 1)
    PROVE  IF ps = <<>>
           THEN /\ At(fs, M[n]) = NoAddress
                /\ Viewed(fs, n, ps, NoAddress, Shorter(M, n), Shorter(D, n))
           ELSE /\ At(fs, M[n]) = ps[Len(ps)]
                /\ ps[Len(ps)] \in Address
                /\ Viewed(fs, n, SubSeq(ps, 1, Len(ps) - 1), ps[Len(ps)],
                          Shorter(M, n), Shorter(D, n))
<1>1. /\ \A i \in 0 .. n : i \in 0 .. n + 1 /\ Shorter(M, n)[i] = M[i] /\ Shorter(D, n)[i] = D[i]
      /\ n \in 0 .. n /\ n + 1 \in 1 .. n + 1 /\ n + 1 \in 0 .. n + 1 /\ n + 1 - 1 = n
    BY DEF Shorter
<1>2. \A i \in 0 .. n : D[i] \in Nat /\ D[i] <= D[n]
    BY <1>1 DEF Counted, Layered
<1>3. D[n + 1] = D[n] + 1 /\ D[n] \in Nat /\ (D[n] = 0 <=> M[n] = 0)
    BY <1>1, <1>2 DEF Counted, Layered
<1>4. ps \in Seq(Address) /\ Len(ps) = D[n]
    BY <1>3 DEF Viewed
<1>5. \A i \in 0 .. n : 0 < D[i] => ps[D[i]] = At(fs, M[i])
    BY <1>1, <1>2, <1>3 DEF Viewed
<1>6. CASE ps = <<>>
    <2>1. D[n] = 0 /\ At(fs, M[n]) = NoAddress
        BY <1>3, <1>4, <1>6 DEF At
    <2> QED
        BY <1>1, <1>2, <1>4, <1>6, <2>1 DEF Viewed
<1>7. CASE ps # <<>>
    <2>1. D[n] # 0 /\ ps[Len(ps)] \in Address /\ At(fs, M[n]) = ps[Len(ps)]
        BY <1>1, <1>3, <1>4, <1>5, <1>7
    <2>2. DEFINE qs == SubSeq(ps, 1, Len(ps) - 1)
    <2>3. /\ qs \in Seq(Address) /\ Len(qs) = D[n] - 1
          /\ \A k \in 1 .. D[n] - 1 : qs[k] = ps[k]
        BY <1>3, <1>4, <2>1
    <2> HIDE DEF qs
    <2>4. \A i \in 0 .. n : 0 < D[i] /\ D[i] < D[n] => qs[D[i]] = At(fs, M[i])
        <3> SUFFICES ASSUME NEW i \in 0 .. n, 0 < D[i], D[i] < D[n]
                     PROVE  qs[D[i]] = At(fs, M[i])
            OBVIOUS
        <3>1. D[i] \in 1 .. D[n] - 1
            BY <1>2, <1>3
        <3> QED
            BY <1>5, <2>3, <3>1
    <2>5. Viewed(fs, n, qs, ps[Len(ps)], Shorter(M, n), Shorter(D, n))
        BY <1>1, <2>1, <2>3, <2>4 DEF Viewed
    <2> QED
        BY <1>7, <2>1, <2>5 DEF qs
<1> QED
    BY <1>6, <1>7

-----------------------------------------------------------------------------
(* The books.                                                              *)

\* S[i][a] is what the first i frames have spent by a and not passed on.
Sums(fs, n, M, S) ==
    /\ S \in [0 .. n -> [Address -> Nat]]
    /\ \A a \in Address : S[0][a] = 0
    /\ \A i \in 1 .. n, a \in Address :
          S[i][a] = S[i - 1][a] + IF At(fs, M[i]) = a THEN fs[i].spent ELSE 0

\* What an address spent is on the books, or still on the stack.
Balanced(n, use, mine, S) ==
    /\ use \in [Address -> ContractUsage]
    /\ mine \in [Address -> Nat]
    /\ \A a \in Address : Net(use[a]) + S[n][a] = mine[a]

\* A frame that has spent nothing adds nothing.
LEMMA PushSums ==
    ASSUME NEW n \in Nat, NEW fs, NEW M, NEW S, Sums(fs, n, M, S), fs[n + 1].spent = 0,
           NEW N, \A i \in 0 .. n : N[i] = M[i],
           NEW T \in [0 .. n + 1 -> [Address -> Nat]], Longer(S, n, S[n], T)
    PROVE  Sums(fs, n + 1, N, T) /\ T[n + 1] = S[n]
<1>1. /\ n \in 0 .. n /\ n + 1 - 1 = n /\ 0 \in 0 .. n
      /\ \A i \in 1 .. n + 1 : i = n + 1 \/ i \in 1 .. n
      /\ \A i \in 1 .. n : i \in 0 .. n /\ i - 1 \in 0 .. n
    OBVIOUS
<1>3. T[n + 1] = S[n] /\ \A i \in 0 .. n : T[i] = S[i]
    BY DEF Longer
<1>4. ASSUME NEW i \in 1 .. n + 1, NEW a \in Address
      PROVE  T[i][a] = T[i - 1][a] + IF At(fs, N[i]) = a THEN fs[i].spent ELSE 0
    <2>1. CASE i = n + 1
        <3>1. S[n] \in [Address -> Nat]
            BY <1>1 DEF Sums
        <3>2. T[i][a] = S[n][a] /\ T[i - 1][a] = S[n][a] /\ S[n][a] \in Nat
            BY <1>1, <1>3, <2>1, <3>1
        <3> QED
            BY <2>1, <3>2
    <2>2. CASE i \in 1 .. n
        BY <1>1, <1>3, <2>2 DEF Sums
    <2> QED
        BY <1>1, <2>1, <2>2
<1>5. \A a \in Address : T[0][a] = 0
    BY <1>1, <1>3 DEF Sums
<1> QED
    BY <1>3, <1>4, <1>5 DEF Sums

\* gs are n frames of fs, after the last of them has spent some more gas.
Spends(fs, gs, n, gas) ==
    /\ SameFrames(fs, gs, n)
    /\ \A i \in 1 .. n - 1 : gs[i].spent = fs[i].spent
    /\ n # 0 => fs[n].spent \in Nat /\ gs[n].spent = fs[n].spent + gas

\* T is S, and gas more for a in the last frame.
More(S, n, a, gas, T) ==
    /\ T \in [0 .. n -> [Address -> Nat]]
    /\ \A i \in 0 .. n - 1 : T[i] = S[i]
    /\ \A b \in Address : T[n][b] = S[n][b] + IF a = b THEN gas ELSE 0

\* What the last frame spends is added to what its innermost call spent.
LEMMA SpendSums ==
    ASSUME NEW n \in Nat, n # 0, NEW fs, NEW gs, NEW gas \in Nat, Spends(fs, gs, n, gas),
           NEW M, \A i \in 0 .. n : At(gs, M[i]) = At(fs, M[i]),
           NEW S, Sums(fs, n, M, S), NEW T, More(S, n, At(fs, M[n]), gas, T)
    PROVE  Sums(gs, n, M, T)
<1>1. /\ n \in 0 .. n /\ n \in 1 .. n /\ n - 1 \in 0 .. n /\ n - 1 # n /\ 0 \in 0 .. n /\ 0 # n
      /\ \A i \in 1 .. n : i = n \/ i \in 1 .. n - 1
      /\ \A i \in 1 .. n - 1 : i \in 1 .. n /\ i \in 0 .. n /\ i - 1 \in 0 .. n /\ i # n /\ i - 1 # n
    OBVIOUS
<1>2. S[n] \in [Address -> Nat] /\ S[n - 1] \in [Address -> Nat]
    BY <1>1 DEF Sums
<1>3. \A a \in Address : S[n][a] \in Nat /\ S[n - 1][a] \in Nat
    BY <1>2
<1>5. \A i \in 0 .. n : i # n => T[i] = S[i]
    <2>1. \A i \in 0 .. n : i # n => i \in 0 .. n - 1
        OBVIOUS
    <2> QED
        BY <2>1 DEF More
<1>6. ASSUME NEW i \in 1 .. n, NEW a \in Address
      PROVE  T[i][a] = T[i - 1][a] + IF At(gs, M[i]) = a THEN gs[i].spent ELSE 0
    <2>1. CASE i = n
        <3>1. S[n][a] = S[n - 1][a] + IF At(fs, M[n]) = a THEN fs[n].spent ELSE 0
            BY <1>1 DEF Sums
        <3>2. T[i - 1][a] = S[n - 1][a] /\ At(gs, M[i]) = At(fs, M[n])
            BY <1>1, <1>5, <2>1
        <3> QED
            BY <1>3, <2>1, <3>1, <3>2 DEF More, Spends
    <2>2. CASE i \in 1 .. n - 1
        <3>1. S[i][a] = S[i - 1][a] + IF At(fs, M[i]) = a THEN fs[i].spent ELSE 0
            BY DEF Sums
        <3>2. T[i] = S[i] /\ T[i - 1] = S[i - 1] /\ At(gs, M[i]) = At(fs, M[i])
            BY <1>1, <1>5, <2>2
        <3> QED
            BY <2>2, <3>1, <3>2 DEF Spends
    <2> QED
        BY <1>1, <2>1, <2>2
<1>7. \A a \in Address : T[0][a] = 0
    BY <1>1, <1>5 DEF Sums
<1> QED
    BY <1>6, <1>7 DEF Sums, More

\* What remains when a frame returns.
LEMMA PopSums ==
    ASSUME NEW n \in Nat, NEW m, m = n + 1, NEW fs, NEW M, NEW S, Sums(fs, m, M, S)
    PROVE  /\ Sums(fs, n, Shorter(M, n), Shorter(S, n))
           /\ S[n] \in [Address -> Nat] /\ S[m] \in [Address -> Nat]
           /\ Shorter(S, n)[n] = S[n]
           /\ \A a \in Address :
                 S[m][a] = S[n][a] + IF At(fs, M[m]) = a THEN fs[m].spent ELSE 0
<1>1. /\ n \in 0 .. n /\ n \in 0 .. m /\ 0 \in 0 .. n
      /\ m \in 1 .. m /\ m \in 0 .. m /\ m - 1 = n
      /\ \A i \in 0 .. n : i \in 0 .. m
      /\ \A i \in 1 .. n : i \in 1 .. m /\ i \in 0 .. n /\ i - 1 \in 0 .. n
    OBVIOUS
<1>2. \A i \in 0 .. n : Shorter(S, n)[i] = S[i] /\ Shorter(M, n)[i] = M[i]
    BY DEF Shorter
<1>3. Shorter(S, n) \in [0 .. n -> [Address -> Nat]]
    BY <1>1 DEF Shorter, Sums
<1>4. Sums(fs, n, Shorter(M, n), Shorter(S, n))
    BY <1>1, <1>2, <1>3 DEF Sums
<1> QED
    BY <1>1, <1>2, <1>4 DEF Sums

\* A call or a creation below the one that returned is charged with what it
\* spent and with what it lost.
LEMMA ReturnSums ==
    ASSUME NEW n \in Nat, NEW m, m = n + 1, NEW fs, NEW gs, NEW gas \in Nat,
           Spends(fs, gs, n, gas),
           NEW M, Innermost(fs, m, M), NEW S, Sums(fs, m, M, S)
    PROVE  \E T : /\ Sums(gs, n, Shorter(M, n), T)
                  /\ \A a \in Address :
                        T[n][a] = S[n][a] + IF At(fs, M[n]) = a THEN gas ELSE 0
<1>1. /\ Sums(fs, n, Shorter(M, n), Shorter(S, n)) /\ Shorter(S, n)[n] = S[n]
      /\ S[n] \in [Address -> Nat]
    <2>1. Sums(fs, n, Shorter(M, n), Shorter(S, n))
        BY ONLY PopSums, Sums(fs, m, M, S), n \in Nat, m = n + 1, Zenon
    <2>2. n \in 0 .. n /\ n \in 0 .. m
        OBVIOUS
    <2> QED
        BY <2>1, <2>2 DEF Shorter, Sums
<1> DEFINE K == Shorter(M, n)
           U == Shorter(S, n)
<1>2. /\ \A i \in 0 .. n : K[i] = M[i] /\ M[i] \in Nat /\ M[i] <= i
      /\ n \in 0 .. n /\ 0 \in 0 .. n
    BY DEF Shorter, Innermost
<1>3. \A i \in 0 .. n : At(gs, K[i]) = At(fs, K[i])
    <2>1. \A i \in 0 .. n : K[i] = 0 \/ K[i] \in 1 .. n
        BY <1>2
    <2> QED
        BY <2>1 DEF At, SameFrames, Spends
<1>4. CASE n = 0
    <2>1. M[n] = 0 /\ At(fs, M[n]) = NoAddress
        BY <1>2, <1>4 DEF At
    <2>2. \A a \in Address : U[n][a] = S[n][a] + IF At(fs, M[n]) = a THEN gas ELSE 0
        BY <1>1, <2>1, GasAssumption
    <2>3. Sums(gs, n, K, U)
        <3>1. \A i \in 1 .. n : FALSE
            BY <1>4
        <3> QED
            BY <1>1, <3>1 DEF Sums
    <2> QED
        BY <2>2, <2>3
<1>5. CASE n # 0
    <2> DEFINE v == [a \in Address |-> U[n][a] + IF At(fs, K[n]) = a THEN gas ELSE 0]
               T == [i \in 0 .. n |-> IF i = n THEN v ELSE U[i]]
    <2>1. v \in [Address -> Nat]
        BY <1>1
    <2>2. T \in [0 .. n -> [Address -> Nat]]
        BY <2>1, <1>1 DEF Sums
    <2>3. \A i \in 0 .. n - 1 : T[i] = U[i]
        BY <1>5
    <2>4. \A a \in Address : T[n][a] = U[n][a] + IF At(fs, K[n]) = a THEN gas ELSE 0
        BY <1>2
    <2> HIDE DEF v, T
    <2>5. More(U, n, At(fs, K[n]), gas, T)
        BY <2>2, <2>3, <2>4 DEF More
    <2> HIDE DEF K, U
    <2>6. Sums(fs, n, K, U)
        BY <1>1 DEF K, U
    <2>7. Sums(gs, n, K, T)
        BY <1>3, <1>5, <2>5, <2>6, SpendSums
    <2>8. \A a \in Address : T[n][a] = S[n][a] + IF At(fs, M[n]) = a THEN gas ELSE 0
        BY <1>1, <1>2, <2>4 DEF U
    <2> QED
        BY <2>7, <2>8 DEF K
<1> QED
    BY <1>4, <1>5

-----------------------------------------------------------------------------
(* One block.                                                              *)

Tracked(fs, n, ps, cur, use, mine, M, D, S) ==
    /\ Innermost(fs, n, M) /\ Counted(fs, n, D) /\ Layered(n, M, D)
    /\ Viewed(fs, n, ps, cur, M, D)
    /\ Sums(fs, n, M, S) /\ Balanced(n, use, mine, S)

\* A begun frame, seen from below, changes nothing.
LEMMA SameTracked ==
    ASSUME NEW n \in Nat, NEW fs, NEW gs, SameFrames(fs, gs, n),
           \A i \in 1 .. n : gs[i].spent = fs[i].spent,
           NEW ps, NEW cur, NEW use, NEW mine, NEW M, NEW D, NEW S,
           Tracked(fs, n, ps, cur, use, mine, M, D, S)
    PROVE  Tracked(gs, n, ps, cur, use, mine, M, D, S)
<1>1. /\ Innermost(gs, n, M) /\ Counted(gs, n, D)
      /\ \A i \in 0 .. n : At(gs, M[i]) = At(fs, M[i])
    BY SameDepths DEF Tracked
<1>2. n \in 0 .. n /\ \A i \in 1 .. n : i \in 0 .. n
    OBVIOUS
<1>3. Viewed(gs, n, ps, cur, M, D)
    BY <1>1, <1>2 DEF Tracked, Viewed
<1>4. Sums(gs, n, M, S)
    BY <1>1, <1>2 DEF Tracked, Sums
<1> QED
    BY <1>1, <1>3, <1>4 DEF Tracked

\* The beginning of a call.
LEMMA CallTracked ==
    ASSUME NEW n \in Nat, NEW fs, \A i \in 1 .. n : fs[i].at \in Address,
           IsCall(fs, n + 1), fs[n + 1].spent = 0,
           NEW ps, NEW cur, NEW use, NEW mine, NEW M, NEW D, NEW S,
           Tracked(fs, n, ps, cur, use, mine, M, D, S)
    PROVE  \E N, E, T :
              Tracked(fs, n + 1, IF cur # NoAddress THEN Append(ps, cur) ELSE ps,
                      fs[n + 1].at, use, mine, N, E, T)
<1>1. PICK N \in [0 .. n + 1 -> Nat] : Longer(M, n, n + 1, N)
    <2> DEFINE N == [i \in 0 .. n + 1 |-> IF i <= n THEN M[i] ELSE n + 1]
    <2>1. N \in [0 .. n + 1 -> Nat]
        BY DEF Tracked, Innermost
    <2>2. Longer(M, n, n + 1, N)
        BY DEF Longer
    <2> QED
        BY <2>1, <2>2
<1>2. PICK E \in [0 .. n + 1 -> Nat] : Longer(D, n, D[n] + 1, E)
    <2> DEFINE E == [i \in 0 .. n + 1 |-> IF i <= n THEN D[i] ELSE D[n] + 1]
    <2>1. E \in [0 .. n + 1 -> Nat]
        BY DEF Tracked, Counted
    <2>2. Longer(D, n, D[n] + 1, E)
        BY DEF Longer
    <2> QED
        BY <2>1, <2>2
<1>3. PICK T \in [0 .. n + 1 -> [Address -> Nat]] : Longer(S, n, S[n], T)
    <2> DEFINE T == [i \in 0 .. n + 1 |-> IF i <= n THEN S[i] ELSE S[n]]
    <2>1. T \in [0 .. n + 1 -> [Address -> Nat]]
        BY DEF Tracked, Sums
    <2>2. Longer(S, n, S[n], T)
        BY DEF Longer
    <2> QED
        BY <2>1, <2>2
<1>4. Innermost(fs, n + 1, N) /\ Counted(fs, n + 1, E) /\ Layered(n + 1, N, E)
    BY <1>1, <1>2, CallDepths DEF Tracked
<1>5. Viewed(fs, n + 1, IF cur # NoAddress THEN Append(ps, cur) ELSE ps,
             fs[n + 1].at, N, E)
    BY <1>1, <1>2, CallView DEF Tracked
<1>6. Sums(fs, n + 1, N, T) /\ T[n + 1] = S[n]
    <2>1. \A i \in 0 .. n : N[i] = M[i]
        BY <1>1 DEF Longer
    <2> QED
        BY <1>3, <2>1, PushSums DEF Tracked
<1>7. Balanced(n + 1, use, mine, T)
    BY <1>6 DEF Tracked, Balanced
<1> QED
    BY <1>4, <1>5, <1>6, <1>7 DEF Tracked

\* The beginning of a creation.
LEMMA CreateTracked ==
    ASSUME NEW n \in Nat, NEW fs, ~IsCall(fs, n + 1), fs[n + 1].spent = 0,
           NEW ps, NEW cur, NEW use, NEW mine, NEW M, NEW D, NEW S,
           Tracked(fs, n, ps, cur, use, mine, M, D, S)
    PROVE  \E N, E, T : Tracked(fs, n + 1, ps, cur, use, mine, N, E, T)
<1>1. PICK N \in [0 .. n + 1 -> Nat] : Longer(M, n, M[n], N)
    <2> DEFINE N == [i \in 0 .. n + 1 |-> IF i <= n THEN M[i] ELSE M[n]]
    <2>1. N \in [0 .. n + 1 -> Nat]
        BY DEF Tracked, Innermost
    <2>2. Longer(M, n, M[n], N)
        BY DEF Longer
    <2> QED
        BY <2>1, <2>2
<1>2. PICK E \in [0 .. n + 1 -> Nat] : Longer(D, n, D[n], E)
    <2> DEFINE E == [i \in 0 .. n + 1 |-> IF i <= n THEN D[i] ELSE D[n]]
    <2>1. E \in [0 .. n + 1 -> Nat]
        BY DEF Tracked, Counted
    <2>2. Longer(D, n, D[n], E)
        BY DEF Longer
    <2> QED
        BY <2>1, <2>2
<1>3. PICK T \in [0 .. n + 1 -> [Address -> Nat]] : Longer(S, n, S[n], T)
    <2> DEFINE T == [i \in 0 .. n + 1 |-> IF i <= n THEN S[i] ELSE S[n]]
    <2>1. T \in [0 .. n + 1 -> [Address -> Nat]]
        BY DEF Tracked, Sums
    <2>2. Longer(S, n, S[n], T)
        BY DEF Longer
    <2> QED
        BY <2>1, <2>2
<1>4. Innermost(fs, n + 1, N) /\ Counted(fs, n + 1, E) /\ Layered(n + 1, N, E)
    BY <1>1, <1>2, CreateDepths DEF Tracked
<1>5. Viewed(fs, n + 1, ps, cur, N, E)
    BY <1>1, <1>2, CreateView DEF Tracked
<1>6. Sums(fs, n + 1, N, T) /\ T[n + 1] = S[n]
    <2>1. \A i \in 0 .. n : N[i] = M[i]
        BY <1>1 DEF Longer
    <2> QED
        BY <1>3, <2>1, PushSums DEF Tracked
<1>7. Balanced(n + 1, use, mine, T)
    BY <1>6 DEF Tracked, Balanced
<1> QED
    BY <1>4, <1>5, <1>6, <1>7 DEF Tracked

\* mine2 is mine, and gas more for a.
Charged(mine, a, gas, mine2) ==
    /\ mine2 \in [Address -> Nat]
    /\ \A b \in Address : mine2[b] = mine[b] + IF b = a THEN gas ELSE 0

\* Gas spent in the last frame.
LEMMA SpendTracked ==
    ASSUME NEW n \in Nat, n # 0, NEW fs, NEW gs, NEW gas \in Nat, Spends(fs, gs, n, gas),
           NEW ps, NEW cur, NEW use, NEW mine, NEW M, NEW D, NEW S,
           Tracked(fs, n, ps, cur, use, mine, M, D, S),
           NEW mine2, Charged(mine, At(fs, M[n]), gas, mine2)
    PROVE  \E T : Tracked(gs, n, ps, cur, use, mine2, M, D, T)
<1>1. /\ Innermost(gs, n, M) /\ Counted(gs, n, D)
      /\ \A i \in 0 .. n : At(gs, M[i]) = At(fs, M[i])
    BY SameDepths DEF Tracked, Spends
<1>2. Viewed(gs, n, ps, cur, M, D)
    <2>1. n \in 0 .. n
        OBVIOUS
    <2> QED
        BY <1>1, <2>1 DEF Tracked, Viewed
<1> DEFINE v == [a \in Address |-> S[n][a] + IF At(fs, M[n]) = a THEN gas ELSE 0]
           T == [i \in 0 .. n |-> IF i = n THEN v ELSE S[i]]
<1>3. S[n] \in [Address -> Nat]
    BY DEF Tracked, Sums
<1>4. v \in [Address -> Nat]
    BY <1>3
<1>5. T \in [0 .. n -> [Address -> Nat]]
    BY <1>4 DEF Tracked, Sums
<1>6. \A a \in Address : T[n][a] = S[n][a] + IF At(fs, M[n]) = a THEN gas ELSE 0
    OBVIOUS
<1>7. \A i \in 0 .. n - 1 : T[i] = S[i]
    OBVIOUS
<1> HIDE DEF v, T
<1>8. More(S, n, At(fs, M[n]), gas, T)
    BY <1>5, <1>6, <1>7 DEF More
<1>9. Sums(gs, n, M, T)
    BY <1>1, <1>8, SpendSums DEF Tracked
<1>10. Balanced(n, use, mine2, T)
    <2>1. ASSUME NEW a \in Address
          PROVE  Net(use[a]) + T[n][a] = mine2[a]
        <3>1. Net(use[a]) + S[n][a] = mine[a]
            BY DEF Tracked, Balanced
        <3>2. mine2[a] = mine[a] + IF a = At(fs, M[n]) THEN gas ELSE 0
            BY DEF Charged
        <3>3. use[a] \in ContractUsage /\ S[n][a] \in Nat
            BY <1>3 DEF Tracked, Balanced
        <3> QED
            BY <1>6, <3>1, <3>2, <3>3 DEF Net, ContractUsage
    <2> QED
        BY <2>1 DEF Balanced, Tracked, Charged
<1> QED
    BY <1>1, <1>2, <1>9, <1>10 DEF Tracked

\* use2 is use with the gas of a call, recorded for the code that was called
\* and deducted from its caller if there is one.
Settled(use, contract, caller, gas, use2) ==
    /\ use2 \in [Address -> ContractUsage]
    /\ \A a \in Address :
          Net(use2[a]) = Net(use[a]) + (IF a = contract THEN gas ELSE 0)
                                     - (IF a = caller THEN gas ELSE 0)

\* The end of a call: what it spent goes from the stack to the books.
LEMMA EndTracked ==
    ASSUME NEW n \in Nat, NEW m, m = n + 1, NEW fs, NEW gs, NEW left \in Nat,
           IsCall(fs, m), fs[m].spent \in Nat,
           Spends(fs, gs, n, fs[m].spent + left),
           NEW ps, NEW cur, NEW use, NEW mine, NEW M, NEW D, NEW S,
           Tracked(fs, m, ps, cur, use, mine, M, D, S),
           NEW use2, Settled(use, fs[m].at, At(fs, M[n]), fs[m].spent, use2),
           NEW mine2, Charged(mine, At(fs, M[n]), left, mine2)
    PROVE  \E T :
              Tracked(gs, n, IF ps = <<>> THEN ps ELSE SubSeq(ps, 1, Len(ps) - 1),
                      IF ps = <<>> THEN NoAddress ELSE ps[Len(ps)],
                      use2, mine2, Shorter(M, n), Shorter(D, n), T)
<1> DEFINE qs == IF ps = <<>> THEN ps ELSE SubSeq(ps, 1, Len(ps) - 1)
           now == IF ps = <<>> THEN NoAddress ELSE ps[Len(ps)]
<1>1. /\ Innermost(fs, n, Shorter(M, n)) /\ Counted(fs, n, Shorter(D, n))
      /\ Layered(n, Shorter(M, n), Shorter(D, n))
    BY ShorterDepths DEF Tracked
<1>2. /\ Innermost(gs, n, Shorter(M, n)) /\ Counted(gs, n, Shorter(D, n))
      /\ \A i \in 0 .. n : At(gs, Shorter(M, n)[i]) = At(fs, Shorter(M, n)[i])
    BY <1>1, SameDepths DEF Spends
<1>3. Viewed(fs, n, qs, now, Shorter(M, n), Shorter(D, n))
    BY EndView DEF Tracked
<1> HIDE DEF qs, now
<1>4. Viewed(gs, n, qs, now, Shorter(M, n), Shorter(D, n))
    <2>1. n \in 0 .. n
        OBVIOUS
    <2> QED
        BY <1>2, <1>3, <2>1 DEF Viewed
<1>5. PICK T : /\ Sums(gs, n, Shorter(M, n), T)
               /\ \A a \in Address :
                     T[n][a] = S[n][a] + IF At(fs, M[n]) = a THEN fs[m].spent + left ELSE 0
    <2>1. fs[m].spent + left \in Nat
        OBVIOUS
    <2> QED
        BY <2>1, ReturnSums DEF Tracked
<1>6. At(fs, M[m]) = fs[m].at
    <2>1. m \in 0 .. m /\ m \in 1 .. m
        OBVIOUS
    <2>2. M[m] = m
        BY <2>1 DEF Tracked, Innermost
    <2> QED
        BY <2>2 DEF At
<1>7. Balanced(n, use2, mine2, T)
    <2>1. ASSUME NEW a \in Address
          PROVE  Net(use2[a]) + T[n][a] = mine2[a]
        <3>1. Net(use[a]) + S[m][a] = mine[a] /\ use[a] \in ContractUsage
            BY DEF Tracked, Balanced
        <3>2. S[m][a] = S[n][a] + IF fs[m].at = a THEN fs[m].spent ELSE 0
            <4>1. m \in 1 .. m /\ m - 1 = n
                OBVIOUS
            <4> QED
                BY <1>6, <4>1 DEF Tracked, Sums
        <3>3. mine2[a] = mine[a] + IF a = At(fs, M[n]) THEN left ELSE 0
            BY DEF Charged
        <3>4. Net(use2[a]) = Net(use[a]) + (IF a = fs[m].at THEN fs[m].spent ELSE 0)
                                        - (IF a = At(fs, M[n]) THEN fs[m].spent ELSE 0)
            BY DEF Settled
        <3>5. Net(use[a]) \in Int
            BY <3>1 DEF Net, ContractUsage
        <3>6. S[n][a] \in Nat
            <4>1. n \in 0 .. m
                OBVIOUS
            <4> QED
                BY <4>1 DEF Tracked, Sums
        <3>7. T[n][a] = S[n][a] + IF At(fs, M[n]) = a THEN fs[m].spent + left ELSE 0
            BY <1>5
        <3> QED
            BY <3>1, <3>2, <3>3, <3>4, <3>5, <3>6, <3>7
    <2> QED
        BY <2>1 DEF Balanced, Settled, Charged
<1>8. Tracked(gs, n, qs, now, use2, mine2, Shorter(M, n), Shorter(D, n), T)
    BY <1>1, <1>2, <1>4, <1>5, <1>7 DEF Tracked
<1> QED
    BY <1>8 DEF qs, now

\* The end of a creation, whose gas was its caller's all along.
LEMMA EndCreateTracked ==
    ASSUME NEW n \in Nat, NEW m, m = n + 1, NEW fs, NEW gs, NEW left \in Nat,
           ~IsCall(fs, m), fs[m].spent \in Nat,
           Spends(fs, gs, n, fs[m].spent + left),
           NEW ps, NEW cur, NEW use, NEW mine, NEW M, NEW D, NEW S,
           Tracked(fs, m, ps, cur, use, mine, M, D, S),
           NEW mine2, Charged(mine, At(fs, M[n]), left, mine2)
    PROVE  \E T : Tracked(gs, n, ps, cur, use, mine2, Shorter(M, n), Shorter(D, n), T)
<1>1. /\ Innermost(fs, n, Shorter(M, n)) /\ Counted(fs, n, Shorter(D, n))
      /\ Layered(n, Shorter(M, n), Shorter(D, n))
    BY ShorterDepths DEF Tracked
<1>2. /\ Innermost(gs, n, Shorter(M, n)) /\ Counted(gs, n, Shorter(D, n))
      /\ \A i \in 0 .. n : At(gs, Shorter(M, n)[i]) = At(fs, Shorter(M, n)[i])
    BY <1>1, SameDepths DEF Spends
<1>3. M[m] = M[n] /\ D[m] = D[n]
    <2>1. m \in 0 .. m /\ n \in 0 .. m /\ m \in 1 .. m /\ m - 1 = n
        OBVIOUS
    <2>2. D[n] \in Nat
        BY <2>1 DEF Tracked, Counted
    <2>3. D[m] = D[n]
        BY <2>1, <2>2 DEF Tracked, Counted
    <2> QED
        BY <2>1, <2>3 DEF Tracked, Layered
<1>4. Viewed(gs, n, ps, cur, Shorter(M, n), Shorter(D, n))
    <2>1. /\ n \in 0 .. n
          /\ \A i \in 0 .. n : /\ i \in 0 .. m
                               /\ Shorter(M, n)[i] = M[i] /\ Shorter(D, n)[i] = D[i]
        BY DEF Shorter
    <2> QED
        BY <1>2, <1>3, <2>1 DEF Tracked, Viewed
<1>5. PICK T : /\ Sums(gs, n, Shorter(M, n), T)
               /\ \A a \in Address :
                     T[n][a] = S[n][a] + IF At(fs, M[n]) = a THEN fs[m].spent + left ELSE 0
    <2>1. fs[m].spent + left \in Nat
        OBVIOUS
    <2> QED
        BY <2>1, ReturnSums DEF Tracked
<1>6. Balanced(n, use, mine2, T)
    <2>1. ASSUME NEW a \in Address
          PROVE  Net(use[a]) + T[n][a] = mine2[a]
        <3>1. Net(use[a]) + S[m][a] = mine[a] /\ use[a] \in ContractUsage
            BY DEF Tracked, Balanced
        <3>2. S[m][a] = S[n][a] + IF At(fs, M[n]) = a THEN fs[m].spent ELSE 0
            <4>1. m \in 1 .. m /\ m - 1 = n
                OBVIOUS
            <4> QED
                BY <1>3, <4>1 DEF Tracked, Sums
        <3>3. mine2[a] = mine[a] + IF a = At(fs, M[n]) THEN left ELSE 0
            BY DEF Charged
        <3>4. Net(use[a]) \in Int
            BY <3>1 DEF Net, ContractUsage
        <3>5. S[n][a] \in Nat
            <4>1. n \in 0 .. m
                OBVIOUS
            <4> QED
                BY <4>1 DEF Tracked, Sums
        <3> QED
            BY <1>5, <3>1, <3>2, <3>3, <3>4, <3>5
    <2> QED
        BY <2>1 DEF Balanced, Tracked, Charged
<1> QED
    BY <1>1, <1>2, <1>4, <1>5, <1>6 DEF Tracked

-----------------------------------------------------------------------------
(* The steps of the specification.                                         *)

LedgerAt(b) ==
    \E M, D, S : Tracked(frames[b], Len(frames[b]), parent_bytecode_stack[b],
                         current_bytecode[b], account_to_usage[b], own[b], M, D, S)

\* The report is a record that has a state.
ReportInv == "state" \in DOMAIN report

GasInv == TypeOK /\ ReportInv /\ \A b \in Block : LedgerAt(b)

\* No step of one block touches another.
Elsewhere(b) ==
    \A c \in Block \ {b} :
        UNCHANGED <<frames[c], parent_bytecode_stack[c], current_bytecode[c],
                    account_to_usage[c], own[c]>>

LEMMA OtherLedgers ==
    ASSUME \A c \in Block : LedgerAt(c), NEW b \in Block, Elsewhere(b), LedgerAt(b)'
    PROVE  (\A c \in Block : LedgerAt(c))'
<1>1. ASSUME NEW c \in Block \ {b}
      PROVE  LedgerAt(c)'
    <2>1. UNCHANGED <<frames[c], parent_bytecode_stack[c], current_bytecode[c],
                      account_to_usage[c], own[c]>>
        BY DEF Elsewhere
    <2>2. LedgerAt(c)
        OBVIOUS
    <2> QED
        BY <2>1, <2>2 DEF LedgerAt
<1> QED
    BY <1>1

\* A new frame on top of the others.
LEMMA BeginStep ==
    ASSUME TypeOK, NEW b \in Block, NEW kind \in {"call", "create"}, NEW a \in Address,
           Begin(b, kind, a)
    PROVE  /\ Len(frames[b]) \in Nat
           /\ Len(frames[b])' = Len(frames[b]) + 1
           /\ \A i \in 1 .. Len(frames[b]) : /\ frames'[b][i] = frames[b][i]
                                             /\ frames[b][i] \in Frame
           /\ frames'[b][Len(frames[b]) + 1] = [kind |-> kind, at |-> a, spent |-> 0]
           /\ \A c \in Block \ {b} : frames'[c] = frames[c]
           /\ frames' \in [Block -> Seq(Frame)]
           /\ clock' \in 0 .. MaxGas
           /\ UNCHANGED <<own, parts, report>>
<1> DEFINE f == [kind |-> kind, at |-> a, spent |-> 0]
<1>1. f \in Frame
    BY DEF Frame
<1>2. frames' = [frames EXCEPT ![b] = Append(@, f)]
    BY DEF Begin
<1> HIDE DEF f
<1>3. frames[b] \in Seq(Frame)
    BY DEF TypeOK
<1>4. frames'[b] = Append(frames[b], f)
    BY <1>2 DEF TypeOK
<1>5. Append(frames[b], f) \in Seq(Frame)
    BY <1>1, <1>3
<1>6. /\ Len(frames[b]) \in Nat
      /\ Len(frames[b])' = Len(frames[b]) + 1
      /\ \A i \in 1 .. Len(frames[b]) : /\ frames'[b][i] = frames[b][i]
                                        /\ frames[b][i] \in Frame
      /\ frames'[b][Len(frames[b]) + 1] = f
    BY <1>1, <1>3, <1>4
<1>7. /\ frames' \in [Block -> Seq(Frame)]
      /\ \A c \in Block \ {b} : frames'[c] = frames[c]
    BY <1>2, <1>5 DEF TypeOK
<1>8. clock' \in 0 .. MaxGas /\ UNCHANGED <<own, parts, report>>
    BY GasAssumption DEF Begin, TypeOK
<1> QED
    BY <1>6, <1>7, <1>8 DEF f

\* Calls.
LEMMA CallStep ==
    ASSUME GasInv, NEW b \in Block, NEW a \in Address, Call(b, a)
    PROVE  GasInv'
<1> DEFINE n == Len(frames[b])
<1>0. TypeOK /\ ReportInv /\ LedgerAt(b)
    BY DEF GasInv
<1>1. /\ n \in Nat /\ Len(frames[b])' = n + 1
      /\ \A i \in 1 .. n : frames'[b][i] = frames[b][i] /\ frames[b][i] \in Frame
      /\ frames'[b][n + 1] = [kind |-> "call", at |-> a, spent |-> 0]
      /\ \A c \in Block \ {b} : frames'[c] = frames[c]
      /\ frames' \in [Block -> Seq(Frame)]
      /\ clock' \in 0 .. MaxGas
      /\ UNCHANGED <<own, parts, report>>
    BY <1>0, BeginStep DEF Call
<1>2. /\ parent_bytecode_stack' =
             [parent_bytecode_stack EXCEPT
                  ![b] = IF current_bytecode[b] # NoAddress
                         THEN Append(@, current_bytecode[b]) ELSE @]
      /\ current_bytecode' = [current_bytecode EXCEPT ![b] = a]
      /\ UNCHANGED account_to_usage
    BY DEF Call, InspectCall
<1>3. /\ parent_bytecode_stack[b] \in Seq(Address)
      /\ current_bytecode[b] \in Address \cup {NoAddress}
    BY <1>0 DEF TypeOK
<1>4. PICK qs : qs = IF current_bytecode[b] # NoAddress
                     THEN Append(parent_bytecode_stack[b], current_bytecode[b])
                     ELSE parent_bytecode_stack[b]
    OBVIOUS
<1>5. qs \in Seq(Address)
    BY <1>3, <1>4
<1>6. /\ parent_bytecode_stack' = [parent_bytecode_stack EXCEPT ![b] = qs]
      /\ parent_bytecode_stack'[b] = qs /\ current_bytecode'[b] = a
    BY <1>0, <1>2, <1>4 DEF TypeOK
<1>7. TypeOK'
    BY <1>0, <1>1, <1>2, <1>5, <1>6 DEF TypeOK
<1>8. ReportInv'
    BY <1>0, <1>1 DEF ReportInv
<1>9. Elsewhere(b)
    BY <1>0, <1>1, <1>2, <1>6 DEF Elsewhere, TypeOK
<1>10. LedgerAt(b)'
    <2>1. PICK M, D, S :
              Tracked(frames[b], n, parent_bytecode_stack[b], current_bytecode[b],
                      account_to_usage[b], own[b], M, D, S)
        BY <1>0 DEF LedgerAt
    <2>2. PICK gs : gs = frames'[b]
        OBVIOUS
    <2> HIDE DEF n
    <2>3. /\ SameFrames(frames[b], gs, n)
          /\ \A i \in 1 .. n : gs[i].spent = frames[b][i].spent
          /\ IsCall(gs, n + 1) /\ gs[n + 1].spent = 0 /\ gs[n + 1].at = a
        BY <1>1, <2>2 DEF SameFrames, IsCall
    <2>9. \A i \in 1 .. n : gs[i].at \in Address
        BY <1>1, <2>2 DEF Frame
    <2>4. n \in Nat
        BY <1>1
    <2>5. Tracked(gs, n, parent_bytecode_stack[b], current_bytecode[b],
                  account_to_usage[b], own[b], M, D, S)
        BY <2>1, <2>3, <2>4, SameTracked
    <2>6. \E N, E, T : Tracked(gs, n + 1, qs, gs[n + 1].at,
                               account_to_usage[b], own[b], N, E, T)
        BY <1>4, <2>9, <2>3, <2>4, <2>5, CallTracked
    <2>7. \E N, E, T : Tracked(gs, n + 1, qs, a, account_to_usage[b], own[b], N, E, T)
        BY <2>3, <2>6
    <2>8. /\ frames'[b] = gs /\ Len(frames'[b]) = n + 1
          /\ parent_bytecode_stack'[b] = qs /\ current_bytecode'[b] = a
          /\ account_to_usage'[b] = account_to_usage[b] /\ own'[b] = own[b]
        BY <1>1, <1>2, <1>6, <2>2
    <2> QED
        BY <2>7, <2>8 DEF LedgerAt
<1> QED
    BY <1>7, <1>8, <1>9, <1>10, OtherLedgers DEF GasInv

\* Creations.
LEMMA CreateStep ==
    ASSUME GasInv, NEW b \in Block, NEW a \in Address, Create(b, a)
    PROVE  GasInv'
<1> DEFINE n == Len(frames[b])
<1>0. TypeOK /\ ReportInv /\ LedgerAt(b)
    BY DEF GasInv
<1>1. /\ n \in Nat /\ Len(frames[b])' = n + 1
      /\ \A i \in 1 .. n : frames'[b][i] = frames[b][i] /\ frames[b][i] \in Frame
      /\ frames'[b][n + 1] = [kind |-> "create", at |-> a, spent |-> 0]
      /\ \A c \in Block \ {b} : frames'[c] = frames[c]
      /\ frames' \in [Block -> Seq(Frame)]
      /\ clock' \in 0 .. MaxGas
      /\ UNCHANGED <<own, parts, report>>
    BY <1>0, BeginStep DEF Create
<1>2. UNCHANGED inspectorVars
    BY DEF Create
<1>3. TypeOK' /\ ReportInv'
    BY <1>0, <1>1, <1>2 DEF TypeOK, ReportInv, inspectorVars
<1>4. Elsewhere(b)
    BY <1>0, <1>1, <1>2 DEF Elsewhere, inspectorVars
<1>5. LedgerAt(b)'
    <2>1. PICK M, D, S :
              Tracked(frames[b], n, parent_bytecode_stack[b], current_bytecode[b],
                      account_to_usage[b], own[b], M, D, S)
        BY <1>0 DEF LedgerAt
    <2>2. PICK gs : gs = frames'[b]
        OBVIOUS
    <2>3. /\ SameFrames(frames[b], gs, n)
          /\ \A i \in 1 .. n : gs[i].spent = frames[b][i].spent
          /\ ~IsCall(gs, n + 1) /\ gs[n + 1].spent = 0
        BY <1>1, <2>2 DEF SameFrames, IsCall
    <2> HIDE DEF n
    <2>4. n \in Nat
        BY <1>1
    <2>5. Tracked(gs, n, parent_bytecode_stack[b], current_bytecode[b],
                  account_to_usage[b], own[b], M, D, S)
        BY <2>1, <2>3, <2>4, SameTracked
    <2>6. \E N, E, T : Tracked(gs, n + 1, parent_bytecode_stack[b], current_bytecode[b],
                               account_to_usage[b], own[b], N, E, T)
        BY <2>3, <2>4, <2>5, CreateTracked
    <2> QED
        BY <1>1, <1>2, <2>2, <2>6 DEF LedgerAt, inspectorVars
<1> QED
    BY <1>3, <1>4, <1>5, OtherLedgers DEF GasInv

\* Gas spent in the running frame.
LEMMA SpendStep ==
    ASSUME GasInv, NEW b \in Block, Spend(b)
    PROVE  GasInv'
<1> DEFINE n == Len(frames[b])
<1>0. TypeOK /\ ReportInv /\ LedgerAt(b)
    BY DEF GasInv
<1>1. frames[b] \in Seq(Frame) /\ n \in Nat /\ n # 0
    BY <1>0 DEF Spend, TypeOK
<1>2. PICK gs : gs = [frames[b] EXCEPT ![n].spent = @ + 1]
    OBVIOUS
<1>3. frames' = [frames EXCEPT ![b] = gs]
    BY <1>2 DEF Spend
<1>4. n \in 1 .. n /\ frames[b][n] \in Frame
    BY <1>1
<1>5. /\ gs \in Seq(Frame) /\ Len(gs) = n
      /\ gs[n] = [frames[b][n] EXCEPT !.spent = @ + 1]
      /\ \A i \in 1 .. n - 1 : gs[i] = frames[b][i]
    <2>1. [frames[b][n] EXCEPT !.spent = @ + 1] \in Frame
        BY <1>4 DEF Frame
    <2>2. gs = [frames[b] EXCEPT ![n] = [frames[b][n] EXCEPT !.spent = @ + 1]]
        BY <1>2
    <2> QED
        BY <1>1, <1>4, <2>1, <2>2
<1>6. Spends(frames[b], gs, n, 1)
    <2>1. /\ gs[n].spent = frames[b][n].spent + 1 /\ frames[b][n].spent \in Nat
          /\ gs[n].kind = frames[b][n].kind /\ gs[n].at = frames[b][n].at
        BY <1>4, <1>5 DEF Frame
    <2>2. \A i \in 1 .. n : i = n \/ i \in 1 .. n - 1
        BY <1>1
    <2> HIDE DEF n
    <2> QED
        BY <1>5, <2>1, <2>2 DEF Spends, SameFrames
<1>7. PICK M, D, S :
          Tracked(frames[b], n, parent_bytecode_stack[b], current_bytecode[b],
                  account_to_usage[b], own[b], M, D, S)
    BY <1>0 DEF LedgerAt
<1>8. Spender(b, n) = At(frames[b], M[n])
    <2>1. n \in 0 .. n
        BY <1>1
    <2> QED
        BY <1>1, <1>7, <2>1, SpenderIs DEF Tracked
<1>9. PICK mine2 : mine2 = [a \in Address |-> own[b][a] + IF a = Spender(b, n) THEN 1 ELSE 0]
    OBVIOUS
<1>10. own' = [own EXCEPT ![b] = mine2]
    BY <1>9 DEF Spend, Charge
<1>11. mine2 \in [Address -> Nat] /\ Charged(own[b], At(frames[b], M[n]), 1, mine2)
    <2>1. own[b] \in [Address -> Nat]
        BY <1>0 DEF TypeOK
    <2>2. mine2 \in [Address -> Nat]
        BY <1>9, <2>1
    <2> QED
        BY <1>8, <1>9, <2>2 DEF Charged
<1>12. UNCHANGED <<inspectorVars, parts, report>> /\ clock' \in 0 .. MaxGas
    BY <1>0, GasAssumption DEF Spend, TypeOK
<1>13. frames'[b] = gs /\ own'[b] = mine2
    BY <1>0, <1>3, <1>10 DEF TypeOK
<1>14. TypeOK' /\ ReportInv'
    BY <1>0, <1>3, <1>5, <1>10, <1>11, <1>12 DEF TypeOK, ReportInv, inspectorVars
<1>15. Elsewhere(b)
    BY <1>0, <1>3, <1>10, <1>12 DEF Elsewhere, TypeOK, inspectorVars
<1>16. \E T : Tracked(gs, n, parent_bytecode_stack[b], current_bytecode[b],
                      account_to_usage[b], mine2, M, D, T)
    <2> HIDE DEF n
    <2> QED
        BY <1>1, <1>6, <1>7, <1>11, SpendTracked
<1>17. LedgerAt(b)'
    <2>1. /\ frames'[b] = gs /\ Len(frames'[b]) = n /\ own'[b] = mine2
          /\ UNCHANGED <<parent_bytecode_stack, current_bytecode, account_to_usage>>
        BY <1>5, <1>12, <1>13 DEF inspectorVars
    <2> QED
        BY <1>16, <2>1 DEF LedgerAt
<1> QED
    BY <1>14, <1>15, <1>17, OtherLedgers DEF GasInv

\* What the inspector does with its map at the end of a call.
LEMMA SettledByEnd ==
    ASSUME NEW use \in [Address -> ContractUsage], NEW c \in Address,
           NEW p \in Address \cup {NoAddress}, NEW gas \in Nat, NEW use2,
           use2 = IF p = NoAddress THEN Recorded(use, c, gas)
                  ELSE Deficit(Recorded(use, c, gas), p, gas)
    PROVE  Settled(use, c, p, gas, use2)
<1>1. PICK u : u = Recorded(use, c, gas)
    OBVIOUS
<1>2. /\ u \in [Address -> ContractUsage]
      /\ \A a \in Address : Net(u[a]) = Net(use[a]) + IF a = c THEN gas ELSE 0
    <2>1. u = [use EXCEPT ![c] = [use[c] EXCEPT !.gas_used = use[c].gas_used + gas,
                                                !.frequency = use[c].frequency + 1]]
        BY <1>1 DEF Recorded
    <2>2. use[c] \in ContractUsage
        OBVIOUS
    <2>3. PICK r : r = [use[c] EXCEPT !.gas_used = use[c].gas_used + gas,
                                      !.frequency = use[c].frequency + 1]
        OBVIOUS
    <2>4. r \in ContractUsage /\ Net(r) = Net(use[c]) + gas
        <3>1. /\ use[c].gas_used \in Nat /\ use[c].gas_deficit \in Nat
              /\ use[c].frequency \in Nat
            BY <2>2 DEF ContractUsage
        <3>2. use[c] = [gas_used |-> use[c].gas_used, frequency |-> use[c].frequency,
                        gas_deficit |-> use[c].gas_deficit]
            BY <2>2 DEF ContractUsage
        <3>3. r = [gas_used |-> use[c].gas_used + gas, frequency |-> use[c].frequency + 1,
                   gas_deficit |-> use[c].gas_deficit]
            BY <2>3, <3>2
        <3> QED
            BY <3>1, <3>3 DEF ContractUsage, Net
    <2>5. u = [use EXCEPT ![c] = r]
        BY <2>1, <2>3
    <2>6. \A a \in Address : Net(use[a]) \in Int
        BY DEF ContractUsage, Net
    <2> QED
        BY <2>4, <2>5, <2>6
<1>3. CASE p = NoAddress
    <2>1. use2 = u
        BY <1>1, <1>3
    <2>2. \A a \in Address : a # p /\ Net(use[a]) \in Int
        BY <1>3, GasAssumption DEF ContractUsage, Net
    <2> QED
        BY <1>2, <2>1, <2>2 DEF Settled
<1>4. CASE p # NoAddress
    <2>1. use2 = [u EXCEPT ![p] = [u[p] EXCEPT !.gas_deficit = u[p].gas_deficit + gas]]
        BY <1>1, <1>4 DEF Deficit
    <2>2. p \in Address /\ u[p] \in ContractUsage
        BY <1>2, <1>4
    <2>3. PICK r : r = [u[p] EXCEPT !.gas_deficit = u[p].gas_deficit + gas]
        OBVIOUS
    <2>4. r \in ContractUsage /\ Net(r) = Net(u[p]) - gas
        <3>1. /\ u[p].gas_used \in Nat /\ u[p].gas_deficit \in Nat
              /\ r.gas_used = u[p].gas_used /\ r.gas_deficit = u[p].gas_deficit + gas
            BY <2>2, <2>3 DEF ContractUsage
        <3>2. r \in ContractUsage
            BY <2>2, <2>3 DEF ContractUsage
        <3> QED
            BY <3>1, <3>2 DEF Net
    <2>5. use2 = [u EXCEPT ![p] = r]
        BY <2>1, <2>3
    <2>6. \A a \in Address : Net(use[a]) \in Int /\ Net(u[a]) \in Int
        BY <1>2 DEF ContractUsage, Net
    <2>7. /\ use2 \in [Address -> ContractUsage]
          /\ \A a \in Address : Net(use2[a]) = Net(u[a]) - IF a = p THEN gas ELSE 0
        BY <1>2, <2>2, <2>4, <2>5, <2>6
    <2>8. ASSUME NEW a \in Address
          PROVE  Net(use2[a]) = Net(use[a]) + (IF a = c THEN gas ELSE 0)
                                            - (IF a = p THEN gas ELSE 0)
        BY <1>2, <2>6, <2>7
    <2> QED
        BY <2>7, <2>8 DEF Settled
<1> QED
    BY <1>3, <1>4

\* What a return does to the frames and to the gas that was spent.
LEMMA ReturnFrames ==
    ASSUME TypeOK, NEW b \in Block, NEW left \in 0 .. 1, Return(b, left),
           NEW m, m = Len(frames[b]), NEW n, n = m - 1
    PROVE  /\ n \in Nat /\ m = n + 1 /\ frames[b][m] \in Frame
           /\ \E gs \in Seq(Frame) :
                 /\ frames' = [frames EXCEPT ![b] = gs] /\ Len(gs) = n
                 /\ Spends(frames[b], gs, n, frames[b][m].spent + left)
           /\ own' = [own EXCEPT ![b] =
                         [a \in Address |-> own[b][a] + IF a = Spender(b, n) THEN left ELSE 0]]
           /\ clock' \in 0 .. MaxGas
           /\ UNCHANGED <<parts, report>>
<1> DEFINE s == frames[b][m].spent + left
           gs == [i \in 1 .. n |-> [frames[b][i] EXCEPT !.spent = IF i = n THEN @ + s ELSE @]]
<1>1. frames[b] \in Seq(Frame) /\ m \in Nat /\ m > 0 /\ n \in Nat /\ m = n + 1
    BY DEF TypeOK, Return
<1>2. /\ \A i \in 1 .. m : frames[b][i] \in Frame
      /\ m \in 1 .. m /\ \A i \in 1 .. n : i \in 1 .. m
    BY <1>1
<1>3. s \in Nat
    BY <1>2 DEF Frame
<1>4. frames' = [frames EXCEPT ![b] = gs]
    <2> DEFINE hs == [i \in 1 .. m - 1 |->
                        [frames[b][i] EXCEPT
                            !.spent = IF i = m - 1 THEN @ + frames[b][m].spent + left ELSE @]]
    <2>1. frames' = [frames EXCEPT ![b] = hs]
        BY DEF Return
    <2>2. ASSUME NEW i \in 1 .. n
          PROVE  [frames[b][i] EXCEPT
                     !.spent = IF i = m - 1 THEN @ + frames[b][m].spent + left ELSE @]
                    = [frames[b][i] EXCEPT !.spent = IF i = n THEN @ + s ELSE @]
        <3>1. /\ frames[b][i].spent \in Nat /\ frames[b][m].spent \in Nat
              /\ frames[b][i].spent + frames[b][m].spent + left = frames[b][i].spent + s
            BY <1>2 DEF Frame
        <3> QED
            BY <3>1
    <2>3. m - 1 = n
        BY <1>1
    <2>4. hs = gs
        BY <2>2, <2>3
    <2> HIDE DEF hs, gs
    <2> QED
        BY <2>1, <2>4
<1> HIDE DEF s
<1>5. \A i \in 1 .. n :
         [frames[b][i] EXCEPT !.spent = IF i = n THEN @ + s ELSE @] \in Frame
    BY <1>2, <1>3 DEF Frame
<1>6. gs \in Seq(Frame) /\ Len(gs) = n
    <2>1. gs \in [1 .. n -> Frame]
        BY <1>2, <1>5
    <2> QED
        BY <1>1, <2>1
<1>7. Spends(frames[b], gs, n, s)
    <2>1. \A i \in 1 .. n : gs[i].kind = frames[b][i].kind /\ gs[i].at = frames[b][i].at
        BY <1>2 DEF Frame
    <2>2. \A i \in 1 .. n - 1 : gs[i].spent = frames[b][i].spent
        BY <1>1
    <2>3. ASSUME n # 0
          PROVE  frames[b][n].spent \in Nat /\ gs[n].spent = frames[b][n].spent + s
        <3>1. n \in 1 .. n /\ frames[b][n] \in Frame
            <4> HIDE DEF gs
            <4>1. n \in Nat /\ n # 0
                BY <1>1, <2>3
            <4>2. n \in 1 .. n
                BY ONLY <4>1
            <4> QED
                BY <1>2, <4>2
        <3>2. gs[n] = [frames[b][n] EXCEPT !.spent = @ + s]
            BY <3>1
        <3> QED
            BY <3>1, <3>2 DEF Frame
    <2> HIDE DEF gs
    <2> QED
        BY <2>1, <2>2, <2>3 DEF Spends, SameFrames
<1>8. clock' \in 0 .. MaxGas /\ UNCHANGED <<parts, report>>
    BY GasAssumption DEF Return, TypeOK
<1>9. own' = [own EXCEPT ![b] =
                 [a \in Address |-> own[b][a] + IF a = Spender(b, n) THEN left ELSE 0]]
    BY DEF Return, Charge
<1> HIDE DEF gs
<1> QED
    BY <1>1, <1>2, <1>4, <1>6, <1>7, <1>8, <1>9 DEF s

\* What a return does to the inspector: p becomes current, and qs is the stack.
Returned(b, f, p, qs) ==
    IF f.kind = "call"
    THEN \E use2 :
            /\ Settled(account_to_usage[b], f.at, p, f.spent, use2)
            /\ account_to_usage' = [account_to_usage EXCEPT ![b] = use2]
            /\ current_bytecode' = [current_bytecode EXCEPT ![b] = p]
            /\ parent_bytecode_stack' = [parent_bytecode_stack EXCEPT ![b] = qs]
    ELSE UNCHANGED inspectorVars

LEMMA ReturnInspector ==
    ASSUME TypeOK, NEW b \in Block, NEW left \in 0 .. 1, Return(b, left),
           NEW f, f = frames[b][Len(frames[b])], f \in Frame,
           NEW ps, ps = parent_bytecode_stack[b],
           NEW p, p = IF ps = <<>> THEN NoAddress ELSE ps[Len(ps)],
           NEW qs, qs = IF ps = <<>> THEN ps ELSE SubSeq(ps, 1, Len(ps) - 1)
    PROVE  Returned(b, f, p, qs)
<1>1. CASE f.kind # "call"
    BY <1>1 DEF Return, Returned
<1>2. CASE f.kind = "call"
    <2>1. InspectCallEnd(b, f.at, f.spent)
        BY <1>2 DEF Return
    <2>2. /\ ps \in Seq(Address) /\ p \in Address \cup {NoAddress}
          /\ ps # <<>> => p \in Address /\ p # NoAddress
          /\ account_to_usage[b] \in [Address -> ContractUsage]
          /\ f.at \in Address /\ f.spent \in Nat
        <3>1. ps \in Seq(Address) /\ account_to_usage[b] \in [Address -> ContractUsage]
            BY DEF TypeOK
        <3>2. ps # <<>> => ps[Len(ps)] \in Address
            BY <3>1
        <3> QED
            BY <3>1, <3>2, GasAssumption DEF Frame
    <2>3. PICK use2 : use2 = IF p = NoAddress THEN Recorded(account_to_usage[b], f.at, f.spent)
                             ELSE Deficit(Recorded(account_to_usage[b], f.at, f.spent),
                                          p, f.spent)
        OBVIOUS
    <2>4. Settled(account_to_usage[b], f.at, p, f.spent, use2)
        BY <2>2, <2>3, SettledByEnd
    <2>5. CASE ps = <<>>
        <3>1. /\ account_to_usage' = [account_to_usage EXCEPT ![b] = use2]
              /\ current_bytecode' = [current_bytecode EXCEPT ![b] = p]
              /\ UNCHANGED parent_bytecode_stack
            BY <2>1, <2>3, <2>5 DEF InspectCallEnd
        <3>2. parent_bytecode_stack' = [parent_bytecode_stack EXCEPT ![b] = ps]
            BY <3>1 DEF TypeOK
        <3> QED
            BY <1>2, <2>4, <2>5, <3>1, <3>2 DEF Returned
    <2>6. CASE ps # <<>>
        <3>1. /\ account_to_usage' = [account_to_usage EXCEPT ![b] = use2]
              /\ current_bytecode' = [current_bytecode EXCEPT ![b] = p]
              /\ parent_bytecode_stack' =
                    [parent_bytecode_stack EXCEPT ![b] = SubSeq(ps, 1, Len(ps) - 1)]
            BY <2>1, <2>2, <2>3, <2>6 DEF InspectCallEnd
        <3> QED
            BY <1>2, <2>4, <2>6, <3>1 DEF Returned
    <2> QED
        BY <2>5, <2>6
<1> QED
    BY <1>1, <1>2

\* The end of a call or of a creation.
LEMMA ReturnStep ==
    ASSUME GasInv, NEW b \in Block, NEW left \in 0 .. 1, Return(b, left)
    PROVE  GasInv'
<1>0. TypeOK /\ ReportInv /\ LedgerAt(b)
    BY DEF GasInv
<1>1. PICK m, n : m = Len(frames[b]) /\ n = m - 1
    OBVIOUS
<1>2. PICK fs, ps, f : /\ fs = frames[b] /\ ps = parent_bytecode_stack[b]
                       /\ f = fs[m]
    OBVIOUS
<1>3. /\ n \in Nat /\ m = n + 1 /\ f \in Frame
      /\ \E gs \in Seq(Frame) :
            /\ frames' = [frames EXCEPT ![b] = gs] /\ Len(gs) = n
            /\ Spends(fs, gs, n, f.spent + left)
      /\ own' = [own EXCEPT ![b] =
                    [a \in Address |-> own[b][a] + IF a = Spender(b, n) THEN left ELSE 0]]
      /\ clock' \in 0 .. MaxGas
      /\ UNCHANGED <<parts, report>>
    BY <1>0, <1>1, <1>2, ReturnFrames
<1>4. PICK gs \in Seq(Frame) : /\ frames' = [frames EXCEPT ![b] = gs] /\ Len(gs) = n
                               /\ Spends(fs, gs, n, f.spent + left)
    BY <1>3
<1>5. PICK M, D, S : Tracked(fs, m, ps, current_bytecode[b], account_to_usage[b], own[b],
                             M, D, S)
    BY <1>0, <1>1, <1>2 DEF LedgerAt
<1>6. Spender(b, n) = At(fs, M[n])
    <2>1. n \in 0 .. m /\ m \in Nat
        BY <1>3
    <2> QED
        BY <1>2, <1>5, <2>1, SpenderIs DEF Tracked
<1>7. PICK mine2 : mine2 = [a \in Address |-> own[b][a] + IF a = Spender(b, n) THEN left ELSE 0]
    OBVIOUS
<1>8. own' = [own EXCEPT ![b] = mine2] /\ own'[b] = mine2
    BY <1>0, <1>3, <1>7 DEF TypeOK
<1>9. mine2 \in [Address -> Nat] /\ Charged(own[b], At(fs, M[n]), left, mine2)
    <2>1. own[b] \in [Address -> Nat] /\ left \in Nat
        BY <1>0 DEF TypeOK
    <2>2. mine2 \in [Address -> Nat]
        BY <1>7, <2>1
    <2> QED
        BY <1>6, <1>7, <2>2 DEF Charged
<1>10. PICK p, qs : /\ p = IF ps = <<>> THEN NoAddress ELSE ps[Len(ps)]
                    /\ qs = IF ps = <<>> THEN ps ELSE SubSeq(ps, 1, Len(ps) - 1)
    OBVIOUS
<1>11. ps \in Seq(Address) /\ p \in Address \cup {NoAddress} /\ qs \in Seq(Address)
    <2>1. ps \in Seq(Address)
        BY <1>0, <1>2 DEF TypeOK
    <2>2. ps # <<>> => ps[Len(ps)] \in Address /\ SubSeq(ps, 1, Len(ps) - 1) \in Seq(Address)
        BY <2>1
    <2> QED
        BY <1>10, <2>1, <2>2
<1>12. Returned(b, f, p, qs)
    <2>1. /\ f = frames[b][Len(frames[b])] /\ f \in Frame
          /\ ps = parent_bytecode_stack[b]
        BY <1>1, <1>2, <1>3
    <2> QED
        BY <1>0, <1>10, <2>1, ReturnInspector
<1>13. f.spent \in Nat /\ left \in Nat /\ (IsCall(fs, m) <=> f.kind = "call")
    BY <1>2, <1>3 DEF Frame, IsCall
<1>14. frames'[b] = gs /\ Len(frames'[b]) = n /\ \A c \in Block \ {b} : frames'[c] = frames[c]
    BY <1>0, <1>4 DEF TypeOK
<1>15. frames' \in [Block -> Seq(Frame)] /\ own' \in [Block -> [Address -> Nat]]
    BY <1>0, <1>4, <1>8, <1>9 DEF TypeOK
<1>16. CASE f.kind = "call"
    <2>1. PICK use2 :
              /\ Settled(account_to_usage[b], f.at, p, f.spent, use2)
              /\ account_to_usage' = [account_to_usage EXCEPT ![b] = use2]
              /\ current_bytecode' = [current_bytecode EXCEPT ![b] = p]
              /\ parent_bytecode_stack' = [parent_bytecode_stack EXCEPT ![b] = qs]
        BY <1>12, <1>16 DEF Returned
    <2>2. use2 \in [Address -> ContractUsage]
        BY <2>1 DEF Settled
    <2>3. /\ account_to_usage'[b] = use2 /\ current_bytecode'[b] = p
          /\ parent_bytecode_stack'[b] = qs
        BY <1>0, <2>1 DEF TypeOK
    <2>4. /\ account_to_usage' \in [Block -> [Address -> ContractUsage]]
          /\ current_bytecode' \in [Block -> Address \cup {NoAddress}]
          /\ parent_bytecode_stack' \in [Block -> Seq(Address)]
        BY <1>0, <1>11, <2>1, <2>2 DEF TypeOK
    <2>5. TypeOK' /\ ReportInv'
        BY <1>0, <1>3, <1>15, <2>4 DEF TypeOK, ReportInv
    <2>6. Elsewhere(b)
        BY <1>0, <1>8, <1>14, <2>1 DEF Elsewhere, TypeOK
    <2>7. At(fs, M[n]) = p
        <3>1. IF ps = <<>> THEN At(fs, M[n]) = NoAddress ELSE At(fs, M[n]) = ps[Len(ps)]
            BY <1>3, <1>5, <1>13, <1>16, EndView DEF Tracked
        <3> QED
            BY <1>10, <3>1
    <2>8. \E T : Tracked(gs, n, qs, p, use2, mine2, Shorter(M, n), Shorter(D, n), T)
        <3>1. \E T :
                 Tracked(gs, n, IF ps = <<>> THEN ps ELSE SubSeq(ps, 1, Len(ps) - 1),
                         IF ps = <<>> THEN NoAddress ELSE ps[Len(ps)],
                         use2, mine2, Shorter(M, n), Shorter(D, n), T)
            <4>1. /\ IsCall(fs, m) /\ fs[m].spent \in Nat
                  /\ Spends(fs, gs, n, fs[m].spent + left)
                  /\ Settled(account_to_usage[b], fs[m].at, At(fs, M[n]), fs[m].spent, use2)
                BY <1>2, <1>4, <1>13, <1>16, <2>1, <2>7
            <4> QED
                BY <1>3, <1>5, <1>9, <1>13, <4>1, EndTracked
        <3> QED
            BY <1>10, <3>1
    <2>9. LedgerAt(b)'
        BY <1>8, <1>14, <2>3, <2>8 DEF LedgerAt
    <2> QED
        BY <2>5, <2>6, <2>9, OtherLedgers DEF GasInv
<1>17. CASE f.kind # "call"
    <2>1. UNCHANGED inspectorVars
        BY <1>12, <1>17 DEF Returned
    <2>2. TypeOK' /\ ReportInv'
        BY <1>0, <1>3, <1>15, <2>1 DEF TypeOK, ReportInv, inspectorVars
    <2>3. Elsewhere(b)
        BY <1>0, <1>8, <1>14, <2>1 DEF Elsewhere, TypeOK, inspectorVars
    <2>4. \E T : Tracked(gs, n, ps, current_bytecode[b], account_to_usage[b], mine2,
                         Shorter(M, n), Shorter(D, n), T)
        <3>1. /\ ~IsCall(fs, m) /\ fs[m].spent \in Nat
              /\ Spends(fs, gs, n, fs[m].spent + left)
            BY <1>2, <1>4, <1>13, <1>17
        <3> QED
            BY <1>3, <1>5, <1>9, <1>13, <3>1, EndCreateTracked
    <2>5. LedgerAt(b)'
        BY <1>2, <1>8, <1>14, <2>1, <2>4 DEF LedgerAt, inspectorVars
    <2> QED
        BY <2>2, <2>3, <2>5, OtherLedgers DEF GasInv
<1> QED
    BY <1>16, <1>17

\* The rest leaves the blocks that it reports about alone.
LEMMA AfterStep ==
    ASSUME GasInv, UNCHANGED <<frames, own, inspectorVars>>, clock' = clock,
           parts' \subseteq Part, ReportInv',
           report.state' \in {"none", "error", "ok", "top", "panicked"}
    PROVE  GasInv'
<1>1. TypeOK'
    BY DEF GasInv, TypeOK, inspectorVars
<1>2. \A b \in Block : LedgerAt(b)'
    BY DEF GasInv, LedgerAt, inspectorVars
<1> QED
    BY <1>1, <1>2 DEF GasInv

\* The end of a block.
LEMMA EndStep ==
    ASSUME GasInv, NEW b \in Block, NEW ok \in BOOLEAN, EndBlock(b, ok)
    PROVE  GasInv'
<1>1. Unused \in [Address -> ContractUsage]
    BY DEF Unused, NoUsage, ContractUsage
<1>2. account_to_usage[b] \in [Address -> ContractUsage] /\ parts \subseteq Part
    BY DEF GasInv, TypeOK
<1>3. [from |-> {b}, ok |-> ok, usage |-> IF ok THEN account_to_usage[b] ELSE Unused] \in Part
    BY <1>1, <1>2 DEF Part
<1>4. parts' \subseteq Part
    BY <1>2, <1>3 DEF EndBlock
<1> QED
    BY <1>4, AfterStep DEF EndBlock, evmVars, GasInv, TypeOK, ReportInv

\* The reduction.
LEMMA ReduceStep ==
    ASSUME GasInv, NEW x \in parts, NEW y \in parts, Reduce(x, y)
    PROVE  GasInv'
<1>1. Unused \in [Address -> ContractUsage]
    BY DEF Unused, NoUsage, ContractUsage
<1>2. parts \subseteq Part /\ x \in Part /\ y \in Part
    BY DEF GasInv, TypeOK
<1>3. \A a \in Address : Merged(x.usage[a], y.usage[a]) \in ContractUsage
    <2>1. \A u, v \in ContractUsage : Merged(u, v) \in ContractUsage
        BY DEF Merged, ContractUsage
    <2> QED
        BY <1>2, <2>1 DEF Part
<1>4. PICK u : u = IF x.ok /\ y.ok THEN [a \in Address |-> Merged(x.usage[a], y.usage[a])]
                   ELSE Unused
    OBVIOUS
<1>5. u \in [Address -> ContractUsage]
    BY <1>1, <1>3, <1>4
<1>6. [from |-> x.from \cup y.from, ok |-> x.ok /\ y.ok, usage |-> u] \in Part
    <2>1. x.from \cup y.from \in SUBSET Block /\ (x.ok /\ y.ok) \in BOOLEAN
        BY <1>2 DEF Part
    <2> QED
        BY <1>5, <2>1 DEF Part
<1>7. parts' \subseteq Part
    BY <1>2, <1>4, <1>6 DEF Reduce
<1> QED
    BY <1>7, AfterStep DEF Reduce, evmVars, GasInv, TypeOK, ReportInv

\* The report.
LEMMA ReportStep ==
    ASSUME GasInv, NEW latest, Report(latest)
    PROVE  GasInv'
<1>1. "state" \in DOMAIN report' /\ report'.state \in {"error", "ok"}
    BY DEF Report, Failure
<1> QED
    BY <1>1, AfterStep DEF Report, evmVars, GasInv, TypeOK, ReportInv

\* The heaviest.
LEMMA TopStep ==
    ASSUME GasInv, NEW size, Top(size)
    PROVE  GasInv'
<1>1. \/ report' = [report EXCEPT !.state = "panicked"]
      \/ \E t : report' = [report EXCEPT !.state = "top", !.top = t]
    BY DEF Top
<1>2. "state" \in DOMAIN report
    BY DEF GasInv, ReportInv
<1>3. "state" \in DOMAIN report' /\ report'.state \in {"top", "panicked"}
    BY <1>1, <1>2
<1> QED
    BY <1>3, AfterStep DEF Top, evmVars, GasInv, TypeOK, ReportInv

LEMMA GasInit ==
    ASSUME Init
    PROVE  GasInv
<1>1. TypeOK
    <2>1. Unused \in [Address -> ContractUsage]
        BY DEF Unused, NoUsage, ContractUsage
    <2>2. report.state = "none"
        BY DEF Init, NoReport
    <2> QED
        BY <2>1, <2>2, GasAssumption DEF Init, TypeOK
<1>2. ReportInv
    BY DEF Init, NoReport, ReportInv
<1>3. ASSUME NEW b \in Block
      PROVE  LedgerAt(b)
    <2>1. /\ frames[b] = <<>> /\ parent_bytecode_stack[b] = <<>>
          /\ current_bytecode[b] = NoAddress /\ account_to_usage[b] = Unused
          /\ own[b] = [a \in Address |-> 0]
        BY DEF Init
    <2> DEFINE M == [i \in 0 .. 0 |-> 0]
               S == [i \in 0 .. 0 |-> [a \in Address |-> 0]]
    <2>2. Innermost(<<>>, 0, M) /\ Counted(<<>>, 0, M) /\ Layered(0, M, M)
        BY DEF Innermost, Counted, Layered
    <2>3. Viewed(<<>>, 0, <<>>, NoAddress, M, M)
        BY DEF Viewed, At
    <2>4. Sums(<<>>, 0, M, S)
        BY DEF Sums
    <2>5. Balanced(0, Unused, [a \in Address |-> 0], S)
        BY DEF Balanced, Unused, NoUsage, ContractUsage, Net
    <2>6. Tracked(<<>>, 0, <<>>, NoAddress, Unused, [a \in Address |-> 0], M, M, S)
        BY <2>2, <2>3, <2>4, <2>5 DEF Tracked
    <2>7. Len(frames[b]) = 0
        BY <2>1
    <2> HIDE DEF M, S
    <2> QED
        BY <2>1, <2>6, <2>7 DEF LedgerAt
<1> QED
    BY <1>1, <1>2, <1>3 DEF GasInv

LEMMA GasNext ==
    ASSUME GasInv, [Next]_vars
    PROVE  GasInv'
<1>1. ASSUME NEW b \in Block, NEW a \in Address, Call(b, a)
      PROVE  GasInv'
    BY <1>1, CallStep
<1>2. ASSUME NEW b \in Block, NEW a \in Address, Create(b, a)
      PROVE  GasInv'
    BY <1>2, CreateStep
<1>3. ASSUME NEW b \in Block, Spend(b)
      PROVE  GasInv'
    BY <1>3, SpendStep
<1>4. ASSUME NEW b \in Block, NEW left \in 0 .. 1, Return(b, left)
      PROVE  GasInv'
    BY <1>4, ReturnStep
<1>5. ASSUME NEW b \in Block, NEW ok \in BOOLEAN, EndBlock(b, ok)
      PROVE  GasInv'
    BY <1>5, EndStep
<1>6. ASSUME NEW x \in parts, NEW y \in parts, Reduce(x, y)
      PROVE  GasInv'
    BY <1>6, ReduceStep
<1>7. ASSUME NEW latest, Report(latest)
      PROVE  GasInv'
    BY <1>7, ReportStep
<1>8. ASSUME NEW size, Top(size)
      PROVE  GasInv'
    BY <1>8, TopStep
<1>9. CASE TopOfAll
    BY <1>8, <1>9 DEF TopOfAll
<1>10. CASE UNCHANGED vars
    BY <1>10, AfterStep DEF vars, evmVars, GasInv, TypeOK, ReportInv
<1> QED
    BY <1>1, <1>2, <1>3, <1>4, <1>5, <1>6, <1>7, <1>8, <1>9, <1>10 DEF Next

LEMMA GasAlways == Spec => []GasInv
<1>1. Init => GasInv
    BY GasInit
<1>2. GasInv /\ [Next]_vars => GasInv'
    BY GasNext
<1> QED
    BY <1>1, <1>2, PTL DEF Spec

-----------------------------------------------------------------------------
(* The number of calls.                                                    *)

\* The depth of a frame is the number of calls up to it.
LEMMA DepthIs ==
    ASSUME NEW n \in Nat, NEW fs, NEW M, NEW D,
           Innermost(fs, n, M), Counted(fs, n, D), Layered(n, M, D)
    PROVE  \A i \in 0 .. n : /\ IsFiniteSet({j \in 1 .. i : IsCall(fs, j)})
                             /\ D[i] = Cardinality({j \in 1 .. i : IsCall(fs, j)})
<1> DEFINE calls(i) == {j \in 1 .. i : IsCall(fs, j)}
           bad == {i \in 0 .. n : ~(IsFiniteSet(calls(i)) /\ D[i] = Cardinality(calls(i)))}
<1> SUFFICES ASSUME bad # {}  PROVE FALSE
    OBVIOUS
<1>1. \E m \in bad : \A k \in bad : m <= k
    <2>1. bad \in SUBSET (0 .. n)
        OBVIOUS
    <2> HIDE DEF bad
    <2> QED
        BY <2>1, Least
<1>2. PICK m \in bad : \A k \in bad : m <= k
    BY <1>1
<1>3. CASE m = 0
    <2>1. calls(0) = {}
        OBVIOUS
    <2>2. D[0] = 0
        BY DEF Innermost, Layered
    <2> QED
        BY <1>2, <1>3, <2>1, <2>2, FS_EmptySet
<1>4. CASE m # 0
    <2>1. m \in 1 .. n /\ m - 1 \in 0 .. n /\ ~(m <= m - 1)
        BY <1>2, <1>4
    <2>2. IsFiniteSet(calls(m - 1)) /\ D[m - 1] = Cardinality(calls(m - 1))
        BY <1>2, <2>1
    <2>3. D[m] = D[m - 1] + IF IsCall(fs, m) THEN 1 ELSE 0
        BY <2>1 DEF Counted
    <2>4. m \notin calls(m - 1) /\ \A j : j \in 1 .. m <=> j \in 1 .. m - 1 \/ j = m
        BY <2>1
    <2>5. CASE IsCall(fs, m)
        <3>1. calls(m) = calls(m - 1) \cup {m}
            BY <2>4, <2>5
        <3> HIDE DEF calls
        <3> QED
            BY <1>2, <2>2, <2>3, <2>4, <2>5, <3>1, FS_AddElement
    <2>6. CASE ~IsCall(fs, m)
        <3>1. calls(m) = calls(m - 1)
            BY <2>4, <2>6
        <3>2. D[m - 1] \in Nat
            BY <2>1 DEF Counted
        <3> HIDE DEF calls
        <3> QED
            BY <1>2, <2>2, <2>3, <2>6, <3>1, <3>2
    <2> QED
        BY <2>5, <2>6
<1> QED
    BY <1>3, <1>4

\* qs lists the calls among n frames.
Listed(fs, n, D, qs) ==
    /\ Len(qs) = D[n]
    /\ \A i \in 1 .. n : IsCall(fs, i) => qs[D[i]] = fs[i].at

\* The inspector's stack does, with the current bytecode on top of it.
LEMMA InspectedIs ==
    ASSUME NEW n \in Nat, NEW fs, NEW M, NEW D, NEW ps, NEW cur,
           \A i \in 1 .. n : fs[i].at \in Address,
           Innermost(fs, n, M), Counted(fs, n, D), Layered(n, M, D),
           Viewed(fs, n, ps, cur, M, D)
    PROVE  Listed(fs, n, D, IF cur = NoAddress THEN ps ELSE Append(ps, cur))
<1> PICK qs : qs = IF cur = NoAddress THEN ps ELSE Append(ps, cur)
    OBVIOUS
<1>1. /\ n \in 0 .. n /\ D[n] \in Nat
      /\ \A i \in 1 .. n : i \in 0 .. n /\ D[i] \in Nat /\ D[i] <= D[n]
    BY DEF Counted, Layered
<1>2. cur = At(fs, M[n]) /\ (D[n] = 0 <=> M[n] = 0) /\ (M[n] = 0 \/ M[n] \in 1 .. n)
    BY <1>1 DEF Viewed, Layered, Innermost
<1>3. cur \in Address \cup {NoAddress} /\ (cur = NoAddress <=> D[n] = 0)
    BY <1>2, GasAssumption DEF At
<1>4. ps \in Seq(Address) /\ Len(ps) = IF D[n] = 0 THEN 0 ELSE D[n] - 1
    BY DEF Viewed
<1>5. /\ Len(qs) = D[n]
      /\ \A k \in 1 .. D[n] - 1 : qs[k] = ps[k]
      /\ D[n] # 0 => qs[D[n]] = cur
    <2>1. CASE D[n] = 0
        BY <1>3, <1>4, <2>1
    <2>2. CASE D[n] # 0
        <3>1. cur \in Address /\ Len(ps) + 1 = D[n] /\ qs = Append(ps, cur)
            BY <1>1, <1>3, <1>4, <2>2
        <3> QED
            BY <1>4, <3>1
    <2> QED
        BY <2>1, <2>2
<1>6. ASSUME NEW i \in 1 .. n, IsCall(fs, i)
      PROVE  qs[D[i]] = fs[i].at
    <2>1. M[i] = i
        BY <1>1, <1>6 DEF Innermost
    <2>2. At(fs, M[i]) = fs[i].at /\ D[i] # 0
        BY <1>1, <2>1 DEF At, Layered
    <2>3. CASE D[i] = D[n]
        <3>1. M[i] = M[n]
            BY <1>1, <2>3 DEF Layered
        <3> QED
            BY <1>2, <1>5, <2>2, <2>3, <3>1
    <2>4. CASE D[i] < D[n]
        <3>1. ps[D[i]] = At(fs, M[i])
            BY <1>1, <2>2, <2>4 DEF Viewed
        <3>2. D[i] \in 1 .. D[n] - 1
            BY <1>1, <2>2, <2>4
        <3> QED
            BY <1>5, <2>2, <3>1, <3>2
    <2>5. D[i] \in Nat /\ D[n] \in Nat /\ D[i] <= D[n]
        BY <1>1
    <2>6. D[i] = D[n] \/ D[i] < D[n]
        BY ONLY <2>5
    <2> QED
        BY <2>3, <2>4, <2>6
<1>7. Listed(fs, n, D, qs)
    BY <1>5, <1>6 DEF Listed
<1> QED
    BY <1>7

\* Between transactions nothing is left on the stack of an address.
LEMMA NetIs ==
    ASSUME GasInv
    PROVE  NetIsOwn
<1> SUFFICES ASSUME NEW b \in Block, frames[b] = <<>>, NEW a \in Address
             PROVE  Net(account_to_usage[b][a]) = own[b][a]
    BY DEF NetIsOwn
<1>1. Len(frames[b]) = 0
    OBVIOUS
<1>2. PICK M, D, S : Tracked(frames[b], 0, parent_bytecode_stack[b], current_bytecode[b],
                             account_to_usage[b], own[b], M, D, S)
    BY <1>1 DEF GasInv, LedgerAt
<1>3. S[0][a] = 0 /\ account_to_usage[b][a] \in ContractUsage
    BY <1>2 DEF Tracked, Sums, Balanced
<1>4. Net(account_to_usage[b][a]) + S[0][a] = own[b][a]
    BY <1>2 DEF Tracked, Balanced
<1>5. Net(account_to_usage[b][a]) \in Int
    BY <1>3 DEF Net, ContractUsage
<1> QED
    BY <1>3, <1>4, <1>5

-----------------------------------------------------------------------------
(* Theorems.                                                               *)

\* The inspectors, the partial results and the report keep their types; in
\* particular what is on an inspector's stack is always the address of a
\* call, never None.
THEOREM UsageTypes == Spec => []TypeOK
<1>1. GasInv => TypeOK
    BY DEF GasInv
<1> QED
    BY <1>1, GasAlways, PTL

\* The inspector's stack is the stack of calls, at any depth and however
\* creations are nested between them: the position of a call on it is the
\* number of calls up to it.
THEOREM InspectorFollows == Spec => []FollowsCalls
<1>1. ASSUME GasInv, NEW b \in Block
      PROVE  LET calls == {i \in DOMAIN frames[b] : frames[b][i].kind = "call"}
                 qs    == IF current_bytecode[b] = NoAddress THEN parent_bytecode_stack[b]
                          ELSE Append(parent_bytecode_stack[b], current_bytecode[b])
             IN  /\ Len(qs) = Cardinality(calls)
                 /\ \A i \in calls :
                       qs[Cardinality({j \in calls : j <= i})] = frames[b][i].at
    <2>0. PICK calls, qs, ps, cur :
              /\ calls = {i \in DOMAIN frames[b] : frames[b][i].kind = "call"}
              /\ ps = parent_bytecode_stack[b] /\ cur = current_bytecode[b]
              /\ qs = IF cur = NoAddress THEN ps ELSE Append(ps, cur)
        OBVIOUS
    <2>1. PICK fs, n : fs = frames[b] /\ n = Len(fs)
        OBVIOUS
    <2>2. fs \in Seq(Frame) /\ n \in Nat /\ DOMAIN fs = 1 .. n
        BY <1>1, <2>1 DEF GasInv, TypeOK
    <2>3. \A i \in 1 .. n : fs[i].at \in Address
        <3>1. \A i \in 1 .. n : fs[i] \in Frame
            BY <2>2
        <3> QED
            BY <3>1 DEF Frame
    <2>4. PICK M, D, S : Tracked(fs, n, parent_bytecode_stack[b], current_bytecode[b],
                                 account_to_usage[b], own[b], M, D, S)
        BY <1>1, <2>1 DEF GasInv, LedgerAt
    <2>10. /\ Innermost(fs, n, M) /\ Counted(fs, n, D) /\ Layered(n, M, D)
           /\ Viewed(fs, n, ps, cur, M, D)
        BY <2>0, <2>4 DEF Tracked
    <2>5. /\ Len(qs) = D[n]
          /\ \A i \in 1 .. n : IsCall(fs, i) => qs[D[i]] = fs[i].at
        <3>1. n \in Nat
            BY <2>2
        <3>2. Listed(fs, n, D, IF cur = NoAddress THEN ps ELSE Append(ps, cur))
            BY ONLY <2>3, <2>10, <3>1, InspectedIs
        <3> QED
            BY <2>0, <3>2 DEF Listed
    <2>6. \A i \in 0 .. n : D[i] = Cardinality({j \in 1 .. i : IsCall(fs, j)})
        <3>1. n \in Nat
            BY <2>2
        <3> QED
            BY ONLY <2>10, <3>1, DepthIs
    <2>7. calls = {j \in 1 .. n : IsCall(fs, j)}
        BY <2>0, <2>1, <2>2 DEF IsCall
    <2>8. \A i \in calls : {j \in calls : j <= i} = {j \in 1 .. i : IsCall(fs, j)}
        BY <2>2, <2>7
    <2>9. n \in 0 .. n /\ \A i \in calls : i \in 0 .. n /\ i \in 1 .. n /\ IsCall(fs, i)
        BY <2>2, <2>7
    <2>11. /\ Len(qs) = Cardinality(calls)
           /\ \A i \in calls : qs[Cardinality({j \in calls : j <= i})] = frames[b][i].at
        BY <2>1, <2>5, <2>6, <2>7, <2>8, <2>9
    <2> QED
        BY <2>0, <2>11
<1>2. GasInv => FollowsCalls
    BY <1>1 DEF FollowsCalls
<1> QED
    BY <1>2, GasAlways, PTL

\* Between transactions gas minus deficit of an address is what its own code
\* spent: the inspector keeps the books, at any depth of calls and
\* creations, whoever calls whom, itself included, and ContractUsage::gas_used
\* does not go below zero.
THEOREM NetIsOwnGas == Spec => []NetIsOwn
BY NetIs, GasAlways, PTL
=============================================================================
