--------------------------- MODULE RepeatableRun ---------------------------
(***************************************************************************)
(* What the callers of a Simulation rely on, without databases, nonces or  *)
(* single transactions: a run is one operation that may be repeated.  It   *)
(* answers with the chain's own results for the whole part that the        *)
(* simulation was made for, or it fails.  A failure may spoil the          *)
(* simulation if its part has more than one transaction; a spoilt one      *)
(* never answers again.                                                    *)
(***************************************************************************)
EXTENDS Naturals, Sequences

CONSTANT Chain      \* the results of the block's transactions on the chain

VARIABLES
    state,      \* "none", "idle", "busy", "answered", "failed" or "gone"
    expected,   \* the chain's results for the part
    answer,     \* what the last run answered, as long as it is looked at
    spoilt      \* no run can answer any more

repeatVars == <<state, expected, answer, spoilt>>

Init == state = "none" /\ expected = <<>> /\ answer = <<>> /\ spoilt = FALSE

\* The simulation of some part is made.
Make ==
    /\ state = "none" /\ state' = "idle"
    /\ \E i \in 1 .. Len(Chain) + 1, j \in 0 .. Len(Chain) : expected' = SubSeq(Chain, i, j)
    /\ UNCHANGED <<answer, spoilt>>

Run ==
    /\ state = "idle" /\ state' = "busy"
    /\ UNCHANGED <<expected, answer, spoilt>>

Answer ==
    /\ state = "busy" /\ state' = "answered"
    /\ ~spoilt
    /\ answer' = expected
    /\ UNCHANGED <<expected, spoilt>>

Fail ==
    /\ state = "busy" /\ state' = "failed"
    /\ \/ UNCHANGED spoilt
       \/ Len(expected) > 1 /\ spoilt' = TRUE
    /\ UNCHANGED <<expected, answer>>

\* The caller has seen how the run ended and may start another one.
Again ==
    /\ state \in {"answered", "failed"} /\ state' = "idle"
    /\ answer' = <<>>
    /\ UNCHANGED <<expected, spoilt>>

\* The simulation is dropped, or was never made.
Drop ==
    /\ state \notin {"busy", "gone"} /\ state' = "gone"
    /\ expected' = <<>> /\ answer' = <<>> /\ spoilt' = FALSE

Next == Make \/ Run \/ Answer \/ Fail \/ Again \/ Drop

Spec == Init /\ [][Next]_repeatVars
=============================================================================
