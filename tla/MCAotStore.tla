----------------------------- MODULE MCAotStore -----------------------------
(* Instances of AotStore for TLC. *)
EXTENDS AotStore, TLC

CONSTANTS h1, h2, p1, p2

\* Hashes and processes are interchangeable; the runs with a liveness
\* property do not use this.
Symmetry == Permutations({h1, h2}) \cup Permutations({p1, p2})

=============================================================================
