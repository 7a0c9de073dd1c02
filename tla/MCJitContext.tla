---------------------------- MODULE MCJitContext ----------------------------
(* Instances of JitContext for TLC. *)
EXTENDS JitContext, TLC

CONSTANTS a, b, x, y

\* Contracts and execution contexts are interchangeable.
Symmetry == Permutations({a, b}) \cup Permutations({x, y})
=============================================================================
