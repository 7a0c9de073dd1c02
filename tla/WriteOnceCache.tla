--------------------------- MODULE WriteOnceCache ---------------------------
(***************************************************************************)
(* What the directory of compiled contracts promises, without files, tasks *)
(* or linkers: a function is published at most once per contract and never *)
(* replaced or taken back, and a process that asked for contracts either   *)
(* gets an error or gets, for each of them, the published function or none *)
(* at all (the contract is then interpreted).                              *)
(***************************************************************************)
CONSTANTS Hash, Process, Level, Absent

VARIABLES
    store,      \* store[h]: the published function, or Absent
    client,     \* what process p is waiting for or doing
    wanted,     \* wanted[p]: the contracts p asked for
    got         \* got[p][h]: the function p runs for h

cacheVars == <<store, client, wanted, got>>

Nothing == [h \in Hash |-> Absent]

TypeOK ==
    /\ store \in [Hash -> Level \cup {Absent}]
    /\ client \in [Process -> {"idle", "waiting", "running", "failed"}]
    /\ wanted \in [Process -> SUBSET Hash]
    /\ got \in [Process -> [Hash -> Level \cup {Absent}]]

Init ==
    /\ store = Nothing
    /\ client = [p \in Process |-> "idle"]
    /\ wanted = [p \in Process |-> {}]
    /\ got = [p \in Process |-> Nothing]

\* A process asks for some contracts; it may be refused at once.
Ask(p, hashes) ==
    /\ client[p] = "idle"
    /\ \E c \in {"waiting", "failed"} : client' = [client EXCEPT ![p] = c]
    /\ wanted' = [wanted EXCEPT ![p] = hashes]
    /\ UNCHANGED <<store, got>>

\* Some process that waits for h publishes it.
Publish(p, h, l) ==
    /\ client[p] = "waiting"
    /\ h \in wanted[p]
    /\ store[h] = Absent
    /\ store' = [store EXCEPT ![h] = l]
    /\ UNCHANGED <<client, wanted, got>>

Answer(p, fns) ==
    /\ client[p] = "waiting"
    /\ \A h \in Hash : fns[h] # Absent => h \in wanted[p] /\ fns[h] = store[h]
    /\ client' = [client EXCEPT ![p] = "running"]
    /\ got' = [got EXCEPT ![p] = fns]
    /\ UNCHANGED <<store, wanted>>

Refuse(p) ==
    /\ client[p] = "waiting"
    /\ client' = [client EXCEPT ![p] = "failed"]
    /\ UNCHANGED <<store, wanted, got>>

Leave(p) ==
    /\ client[p] # "idle"
    /\ client' = [client EXCEPT ![p] = "idle"]
    /\ wanted' = [wanted EXCEPT ![p] = {}]
    /\ got' = [got EXCEPT ![p] = Nothing]
    /\ UNCHANGED store

Next ==
    \E p \in Process :
        \/ \E hashes \in SUBSET Hash : Ask(p, hashes)
        \/ \E h \in Hash, l \in Level : Publish(p, h, l)
        \/ \E fns \in [Hash -> Level \cup {Absent}] : Answer(p, fns)
        \/ Refuse(p)
        \/ Leave(p)

Spec == Init /\ [][Next]_cacheVars
=============================================================================
