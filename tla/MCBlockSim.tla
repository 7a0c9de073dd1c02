----------------------------- MODULE MCBlockSim -----------------------------
(* Instances of BlockSim for TLC. *)
EXTENDS BlockSim

\* Two senders take turns; each result but the first depends on earlier
\* transactions of both.
TwoSenders == [i \in 1 .. N |-> i % 2]
Neighbours == [i \in 1 .. N |-> {j \in 1 .. i - 1 : j >= i - 2}]
=============================================================================
