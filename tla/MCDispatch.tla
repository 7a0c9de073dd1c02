----------------------------- MODULE MCDispatch -----------------------------
(* Instances of Dispatch for TLC. *)
EXTENDS Dispatch, TLC

CONSTANTS a1, a2, c1, c2

\* Addresses and bytecodes are interchangeable.
Symmetry == Permutations({a1, a2}) \cup Permutations({c1, c2})
=============================================================================
