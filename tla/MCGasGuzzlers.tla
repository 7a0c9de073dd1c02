--------------------------- MODULE MCGasGuzzlers ----------------------------
(* Instances of GasGuzzlers for TLC. *)
EXTENDS GasGuzzlers, TLC

CONSTANTS b1, b2, a1, a2, c1, c2

\* Blocks, addresses and bytecodes are interchangeable.
Symmetry == Permutations({b1, b2}) \cup Permutations({a1, a2}) \cup Permutations({c1, c2})
=============================================================================
