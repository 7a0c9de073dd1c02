---------------------------- MODULE MCBlockRange ----------------------------
(* Three blocks, one of them empty; parts that round to nothing and that    *)
(* are larger than the block.                                               *)
EXTENDS BlockRange, SequencesExt

MCTxCount == <<2, 0, 1>>

Plain ==
    [start |-> 1, end |-> 3, sample |-> NoSample, blacklist |-> {},
     run_rnd_txs |-> FALSE, seeded |-> FALSE,
     part |-> "none", num |-> 1, den |-> 1, warmup_ms |-> 1]
Random == [Plain EXCEPT !.end = 4, !.sample = 2, !.run_rnd_txs = TRUE]

MCArguments ==
    {Plain,
     [Plain EXCEPT !.start = 3],
     [Plain EXCEPT !.start = 3, !.end = 1],
     [Plain EXCEPT !.end = 4, !.sample = 3, !.blacklist = {1}],
     [Plain EXCEPT !.end = 4, !.sample = 1, !.blacklist = {1}],
     [Plain EXCEPT !.sample = 3],
     [Plain EXCEPT !.end = 2, !.part = "tob", !.den = 2],
     [Plain EXCEPT !.end = 2, !.part = "bob", !.num = 3, !.den = 2],
     [Plain EXCEPT !.end = 2, !.warmup_ms = 0],
     Random,
     [Random EXCEPT !.seeded = TRUE],
     [Plain EXCEPT !.end = 2, !.run_rnd_txs = TRUE, !.seeded = TRUE,
                   !.part = "tob", !.num = 3, !.den = 2],
     [Random EXCEPT !.seeded = TRUE, !.part = "bob", !.den = 4]}

\* Two of the shuffles: none at all, and the reverse order.
MCShuffles ==
    {[S \in SUBSET (0 .. 3) |-> SetToSortSeq(S, LAMBDA x, y : x < y)],
     [S \in SUBSET (0 .. 3) |-> SetToSortSeq(S, LAMBDA x, y : y < x)]}
=============================================================================
