---------------------------- MODULE FunctionPool ----------------------------
(***************************************************************************)
(* What the execution contexts rely on, without chunks, wrappers or memory *)
(* addresses: a pool of functions that exists while somebody uses it.  It  *)
(* has a function for every contract that was asked for or does not come   *)
(* to exist, nothing of it is released while it has users, a function is   *)
(* called by users only, who stay until it returns, and the last user to   *)
(* leave takes the pool along.                                             *)
(***************************************************************************)
CONSTANTS
    Contract,
    User

VARIABLES
    state,      \* "compiling", "usable", "failed" or "gone"
    wanted,     \* the contracts that were asked for
    functions,  \* the contracts with a function in the pool
    users,
    calling,    \* the users that execute a function
    released    \* memory that a function was compiled into was released

poolVars == <<state, wanted, functions, users, calling, released>>

Init ==
    /\ state = "compiling" /\ wanted \in SUBSET Contract
    /\ functions = {} /\ users = {} /\ calling = {} /\ released = FALSE

Compiled(x) ==
    /\ state = "compiling" /\ state' = "usable"
    /\ ~released
    /\ functions' = wanted /\ users' = {x}
    /\ UNCHANGED <<wanted, calling, released>>

Failed ==
    /\ state = "compiling" /\ state' = "failed"
    /\ UNCHANGED <<wanted, functions, users, calling, released>>

Share(x) ==
    /\ users # {} /\ users' = users \cup {x}
    /\ UNCHANGED <<state, wanted, functions, calling, released>>

Call(x) ==
    /\ x \in users \ calling /\ functions # {}
    /\ calling' = calling \cup {x}
    /\ UNCHANGED <<state, wanted, functions, users, released>>

Return(x) ==
    /\ x \in calling /\ calling' = calling \ {x}
    /\ UNCHANGED <<state, wanted, functions, users, released>>

Leave(x) ==
    /\ x \in users \ calling /\ users' = users \ {x}
    /\ IF users' = {} THEN state' = "gone" /\ functions' = {}
                      ELSE UNCHANGED <<state, functions>>
    /\ UNCHANGED <<wanted, calling, released>>

\* Before the pool exists this is for good: it will fail.
Release ==
    /\ state # "usable" /\ released' = TRUE
    /\ UNCHANGED <<state, wanted, functions, users, calling>>

Next ==
    \/ Failed \/ Release
    \/ \E x \in User : Compiled(x) \/ Share(x) \/ Call(x) \/ Return(x) \/ Leave(x)

Spec == Init /\ [][Next]_poolVars
=============================================================================
