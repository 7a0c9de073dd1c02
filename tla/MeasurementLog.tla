--------------------------- MODULE MeasurementLog ---------------------------
(***************************************************************************)
(* What data.csv is to those who read it, without workers, buffers, seeds  *)
(* or arguments: a log that only grows.  Sessions follow one another.  A   *)
(* session measures some blocks, first natively and then compiled; it adds *)
(* at most one line per block and phase, begins the second phase when the  *)
(* first is complete, and succeeds when the second one is.  At any time it *)
(* may end without success.                                                *)
(***************************************************************************)
EXTENDS Naturals, Sequences

CONSTANTS
    Block,
    Header      \* the line of column names

VARIABLES
    log,        \* the lines
    session,    \* the number of the last session
    phase,      \* "native" or "aot", or "idle" between sessions
    blocks,     \* the blocks that the session measures
    complete    \* the sessions that succeeded

logVars == <<log, session, phase, blocks, complete>>

Init == log = <<>> /\ session = 0 /\ phase = "idle" /\ blocks = {} /\ complete = {}

\* The line of b in this phase.
IsLine(line, b) ==
    line # Header /\ line.session = session /\ line.run_type = phase /\ line.block = b

PhaseComplete == \A b \in blocks : \E i \in DOMAIN log : IsLine(log[i], b)

SameCell(x, y) == x.session = y.session /\ x.run_type = y.run_type /\ x.block = y.block

\* Nothing is lost, and what is new, if anything, are lines of this phase
\* that were not there, and the column names if there was nothing.
Extended ==
    /\ \A i \in DOMAIN log : i \in DOMAIN log' /\ log'[i] = log[i]
    /\ \A i \in DOMAIN log' \ DOMAIN log :
          \/ log'[i] = Header /\ i = 1
          \/ /\ \E b \in blocks : IsLine(log'[i], b)
             /\ \A j \in DOMAIN log' \ {i} : log'[j] # Header => ~SameCell(log'[j], log'[i])

Begin ==
    /\ phase = "idle" /\ phase' = "native"
    /\ session' = session + 1
    /\ blocks' \in SUBSET Block
    /\ UNCHANGED <<log, complete>>

Measure ==
    /\ phase # "idle"
    /\ Extended
    /\ UNCHANGED <<session, phase, blocks, complete>>

GoOn ==
    /\ phase = "native" /\ phase' = "aot"
    /\ PhaseComplete
    /\ UNCHANGED <<log, session, blocks, complete>>

End ==
    /\ phase # "idle" /\ phase' = "idle"
    /\ Extended
    /\ blocks' = {}
    /\ \/ UNCHANGED complete
       \/ phase = "aot" /\ PhaseComplete /\ complete' = complete \cup {session}
    /\ UNCHANGED session

Next == Begin \/ Measure \/ GoOn \/ End

Spec == Init /\ [][Next]_logVars
=============================================================================
