--------------------------- MODULE AotStoreProofs ---------------------------
(***************************************************************************)
(* Theorems about AotStore, for any set of contracts, processes and levels *)
(* and any number of linking attempts.                                     *)
(***************************************************************************)
EXTENDS AotStore, TLAPS

\* Which tasks a process may hold where it is: none before it asks, none at
\* work once it has collected, none failed once it loads.
TasksFitPc ==
    \A p \in Process, h \in Hash :
        /\ pc[p] = "idle" => task[p][h] = "unwanted"
        /\ pc[p] = "asked" => task[p][h] \in {"unwanted", "asked"}
        /\ pc[p] = "compiling" => task[p][h] # "asked"
        /\ pc[p] \in {"loading", "running"} => task[p][h] \in {"unwanted", "skip", "found", "ok"}
        /\ pc[p] = "failed" => task[p][h] \notin Working

\* A task that has used up its attempts has failed.
AttemptsLeft ==
    \A p \in Process, h \in Hash :
        task[p][h] # "err" => tries[p][h] < LinkAttempts

BaseInv == TypeOK /\ TasksFitPc /\ AttemptsLeft

-----------------------------------------------------------------------------
\* What a step of one task does to the state, and to the base invariant.
LEMMA StepBase ==
    ASSUME TypeOK, TasksFitPc, NEW p \in Process, NEW h \in Hash,
           NEW from \in Working, NEW to \in TaskValues \ {"asked"},
           Step(p, h, from, to)
    PROVE  /\ pc' \in [Process -> PcValues]
           /\ lvl' \in [Process -> Level]
           /\ task' \in [Process -> [Hash -> TaskValues]]
           /\ loaded' \in [Process -> [Hash -> Level \cup {NoFile, Unread}]]
           /\ suspect' \subseteq Hash
           /\ TasksFitPc'
           /\ task[p][h] = from
           /\ task'[p][h] = to
           /\ \A q \in Process, g \in Hash :
                  q # p \/ g # h => task'[q][g] = task[q][g]
<1>1. /\ pc' = pc /\ lvl' = lvl /\ loaded' = loaded
      /\ task' = [task EXCEPT ![p][h] = to]
      /\ task[p][h] = from
    BY DEF Step
<1>2. task' \in [Process -> [Hash -> TaskValues]]
    BY <1>1 DEF TypeOK
<1>3. task'[p][h] = to
    BY <1>1 DEF TypeOK
<1>4. \A q \in Process, g \in Hash : q # p \/ g # h => task'[q][g] = task[q][g]
    BY <1>1 DEF TypeOK
<1>5. TasksFitPc'
    BY <1>1, <1>3, <1>4 DEF TasksFitPc, Step
<1>6. suspect' \subseteq Hash
    BY DEF Step, TypeOK
<1> QED
    BY <1>1, <1>2, <1>3, <1>4, <1>5, <1>6 DEF TypeOK

\* An empty directory and idle processes satisfy the base invariant.
LEMMA BaseInit == Init => BaseInv
<1> USE StoreAssumption
<1> QED
    BY DEF Init, BaseInv, TypeOK, TasksFitPc, AttemptsLeft, PcValues, TaskValues

\* A step of a task that counts no attempt keeps the base invariant as long
\* as the files keep their types.
LEMMA StepKeepsBase ==
    ASSUME BaseInv, NEW p \in Process, NEW h \in Hash,
           NEW from \in Working, NEW to \in TaskValues \ {"asked"},
           Step(p, h, from, to),
           dir' \subseteq Hash,
           obj' \in [Hash -> Level \cup {NoFile, Partial}],
           so' \in [Hash -> Level \cup {NoFile, Partial}],
           torn' \in [Process -> SUBSET Hash],
           tries' = tries
    PROVE  BaseInv'
<1>1. /\ TypeOK /\ TasksFitPc
      /\ task[p][h] # "err"
    BY DEF BaseInv, Step, Working, InStore, Filling
<1>2. /\ pc' \in [Process -> PcValues]
      /\ lvl' \in [Process -> Level]
      /\ task' \in [Process -> [Hash -> TaskValues]]
      /\ loaded' \in [Process -> [Hash -> Level \cup {NoFile, Unread}]]
      /\ suspect' \subseteq Hash
      /\ TasksFitPc'
      /\ \A q \in Process, g \in Hash : q # p \/ g # h => task'[q][g] = task[q][g]
    BY <1>1, StepBase
<1>3. AttemptsLeft'
    BY <1>1, <1>2 DEF BaseInv, AttemptsLeft
<1>4. TypeOK'
    BY <1>1, <1>2 DEF TypeOK
<1> QED
    BY <1>2, <1>3, <1>4 DEF BaseInv

\* The steps of the tasks keep the base invariant.
LEMMA BaseTask ==
    ASSUME BaseInv, NEW p \in Process, NEW h \in Hash, TaskStep(p, h)
    PROVE  BaseInv'
<1> USE StoreAssumption
<1>0. /\ {"todo", "translated", "made", "writing", "object", "linking", "linked"}
            \subseteq Working
      /\ {"translated", "made", "writing", "object", "linking", "linked", "ok", "err"}
            \subseteq TaskValues \ {"asked"}
      /\ dir \subseteq Hash
      /\ obj \in [Hash -> Level \cup {NoFile, Partial}]
      /\ so \in [Hash -> Level \cup {NoFile, Partial}]
      /\ lvl \in [Process -> Level]
      /\ torn \in [Process -> SUBSET Hash]
    BY DEF Working, InStore, Filling, TaskValues, BaseInv, TypeOK
<1>1. CASE Translate(p, h)
    <2>1. PICK to \in {"translated", "err"} : Step(p, h, "todo", to)
        BY <1>1 DEF Translate
    <2>2. dir' \subseteq Hash /\ UNCHANGED <<obj, so, torn, tries>>
        BY <1>0, <1>1 DEF Translate
    <2> QED
        BY <1>0, <2>1, <2>2, StepKeepsBase
<1>2. CASE MakeDir(p, h)
    <2>1. PICK to \in {"made", "err"} : Step(p, h, "translated", to)
        BY <1>2 DEF MakeDir
    <2>2. dir' \subseteq Hash /\ UNCHANGED <<obj, so, torn, tries>>
        BY <1>0, <1>2 DEF MakeDir
    <2> QED
        BY <1>0, <2>1, <2>2, StepKeepsBase
<1>3. CASE OpenObject(p, h)
    <2>1. PICK to \in {"writing", "err"} : Step(p, h, "made", to)
        BY <1>3 DEF OpenObject
    <2>2. obj' \in [Hash -> Level \cup {NoFile, Partial}] /\ UNCHANGED <<dir, so, tries>>
        BY <1>0, <1>3 DEF OpenObject
    <2>3. torn' \in [Process -> SUBSET Hash]
        <3>1. \A q \in Process : torn[q] \cup {h} \in SUBSET Hash
            BY <1>0
        <3> QED
            BY <1>0, <1>3, <3>1 DEF OpenObject
    <2> QED
        BY <1>0, <2>1, <2>2, <2>3, StepKeepsBase
<1>4. CASE WriteObject(p, h)
    <2>1. PICK to \in {"ok", "object", "err"} : Step(p, h, "writing", to)
        BY <1>4 DEF WriteObject
    <2>2. /\ obj' \in [Hash -> Level \cup {NoFile, Partial}]
          /\ torn' \in [Process -> SUBSET Hash]
          /\ UNCHANGED <<dir, so, tries>>
        BY <1>0, <1>4 DEF WriteObject, Outcomes
    <2> QED
        BY <1>0, <2>1, <2>2, StepKeepsBase
<1>5. CASE LinkStart(p, h)
    <2>1. /\ so' \in [Hash -> Level \cup {NoFile, Partial}]
          /\ torn' \in [Process -> SUBSET Hash]
          /\ UNCHANGED <<dir, obj, tries>>
        BY <1>0, <1>5 DEF LinkStart
    <2>2. Step(p, h, "object", "linking")
        BY <1>5 DEF LinkStart
    <2> QED
        BY <1>0, <2>1, <2>2, StepKeepsBase
<1>6. CASE LinkReturn(p, h)
    <2>1. PICK to \in {"linked", "err"} : Step(p, h, "linking", to)
        BY <1>6 DEF LinkReturn
    <2>2. torn' \in [Process -> SUBSET Hash] /\ UNCHANGED <<dir, obj, tries>>
        BY <1>0, <1>6 DEF LinkReturn
    <2>3. so' \in [Hash -> Level \cup {NoFile, Partial}]
        <3>1. \A f \in Level \cup {NoFile, Partial} :
                 [so EXCEPT ![h] = f] \in [Hash -> Level \cup {NoFile, Partial}]
            BY <1>0
        <3>2. Outcomes(p, h, obj[h]) \cup {Partial} \subseteq Level \cup {NoFile, Partial}
            BY <1>0 DEF Outcomes
        <3> QED
            BY <1>0, <1>6, <3>1, <3>2 DEF LinkReturn
    <2> QED
        BY <1>0, <2>1, <2>2, <2>3, StepKeepsBase
<1>7. CASE CheckLinked(p, h) /\ so[h] # NoFile
    <2>1. Step(p, h, "linked", "ok") /\ UNCHANGED <<dir, obj, so, torn, tries>>
        BY <1>7 DEF CheckLinked, storeVars
    <2> QED
        BY <1>0, <2>1, StepKeepsBase
<1>8. CASE CheckLinked(p, h) /\ so[h] = NoFile
    <2>1. /\ TypeOK /\ TasksFitPc /\ AttemptsLeft
          /\ task[p][h] = "linked"
        BY <1>8 DEF CheckLinked, Step, BaseInv
    <2>2. tries[p][h] \in Nat /\ tries[p][h] < LinkAttempts
        BY <2>1 DEF TypeOK, AttemptsLeft
    <2>3. PICK to \in {"object", "err"} :
             /\ Step(p, h, "linked", to)
             /\ to # "err" => tries[p][h] + 1 < LinkAttempts
        BY <1>8, <2>2 DEF CheckLinked
    <2>4. tries' = [tries EXCEPT ![p][h] = @ + 1] /\ UNCHANGED <<dir, obj, so, torn>>
        BY <1>8 DEF CheckLinked, storeVars
    <2>5. /\ pc' \in [Process -> PcValues]
          /\ lvl' \in [Process -> Level]
          /\ task' \in [Process -> [Hash -> TaskValues]]
          /\ loaded' \in [Process -> [Hash -> Level \cup {NoFile, Unread}]]
          /\ suspect' \subseteq Hash
          /\ TasksFitPc'
          /\ task'[p][h] = to
          /\ \A q \in Process, g \in Hash : q # p \/ g # h => task'[q][g] = task[q][g]
        BY <1>0, <2>1, <2>3, StepBase
    <2>6. tries' \in [Process -> [Hash -> 0 .. LinkAttempts]]
        BY <2>1, <2>2, <2>4 DEF TypeOK
    <2>7. AttemptsLeft'
        BY <2>1, <2>2, <2>3, <2>4, <2>5 DEF TypeOK, AttemptsLeft
    <2> QED
        BY <1>0, <2>4, <2>5, <2>6, <2>7 DEF BaseInv, TypeOK
<1> QED
    BY <1>1, <1>2, <1>3, <1>4, <1>5, <1>6, <1>7, <1>8 DEF TaskStep

\* What load_all does: it finds names of the directory, or fails.
LEMMA LoadAllMoves ==
    ASSUME BaseInv, NEW p \in Process, LoadAll(p)
    PROVE  /\ UNCHANGED <<storeVars, raceVars, lvl, tries, loaded>>
           /\ pc[p] = "idle" /\ pc'[p] \in {"loading", "failed"}
           /\ pc' \in [Process -> PcValues]
           /\ task' \in [Process -> [Hash -> TaskValues]]
           /\ \A q \in Process \ {p} : pc'[q] = pc[q] /\ task'[q] = task[q]
           /\ \A h \in Hash :
                 /\ task[p][h] = "unwanted"
                 /\ task'[p][h] \in {"found", "unwanted"}
                 /\ task'[p][h] = "found" => h \in dir
<1>0. TypeOK /\ TasksFitPc
    BY DEF BaseInv
<1>1. UNCHANGED <<storeVars, raceVars, lvl, tries, loaded>> /\ pc[p] = "idle"
    BY DEF LoadAll
<1>2. \A h \in Hash : task[p][h] = "unwanted"
    BY <1>0, <1>1 DEF TasksFitPc
<1>3. CASE /\ pc' = [pc EXCEPT ![p] = "loading"]
           /\ task' = [task EXCEPT ![p] =
                          [h \in Hash |-> IF h \in dir THEN "found" ELSE "unwanted"]]
    <2>1. [h \in Hash |-> IF h \in dir THEN "found" ELSE "unwanted"] \in [Hash -> TaskValues]
        BY DEF TaskValues
    <2>2. task' \in [Process -> [Hash -> TaskValues]]
        BY <1>0, <1>3, <2>1 DEF TypeOK
    <2>3. pc' \in [Process -> PcValues] /\ pc'[p] = "loading"
        BY <1>0, <1>3 DEF TypeOK, PcValues
    <2>4. /\ task'[p] = [h \in Hash |-> IF h \in dir THEN "found" ELSE "unwanted"]
          /\ \A q \in Process \ {p} : pc'[q] = pc[q] /\ task'[q] = task[q]
        BY <1>0, <1>3 DEF TypeOK
    <2> QED
        BY <1>1, <1>2, <2>2, <2>3, <2>4
<1>4. CASE pc' = [pc EXCEPT ![p] = "failed"] /\ task' = task
    BY <1>0, <1>1, <1>2, <1>4 DEF TypeOK, PcValues
<1> QED
    BY <1>3, <1>4 DEF LoadAll

\* A process that holds no task, or found ones only, fits where it is.
LEMMA FitsElsewhere ==
    ASSUME TasksFitPc, NEW p \in Process,
           \A q \in Process \ {p} : pc'[q] = pc[q] /\ task'[q] = task[q],
           \/ pc'[p] = "idle" /\ \A h \in Hash : task'[p][h] = "unwanted"
           \/ /\ pc'[p] \in {"loading", "failed"}
              /\ \A h \in Hash : task'[p][h] \in {"found", "unwanted"}
    PROVE  TasksFitPc'
<1>1. {"found", "unwanted"} \cap Working = {}
    BY DEF Working, InStore, Filling
<1>2. CASE pc'[p] = "idle"
    BY <1>2 DEF TasksFitPc
<1>3. CASE pc'[p] = "loading"
    BY <1>3 DEF TasksFitPc
<1>4. CASE pc'[p] = "failed"
    BY <1>1, <1>4 DEF TasksFitPc
<1> QED
    BY <1>2, <1>3, <1>4

\* The steps of the process itself keep the base invariant.
LEMMA BaseProcess ==
    ASSUME BaseInv, NEW p \in Process,
           \/ \E wanted \in SUBSET Hash, l \in Level : Ask(p, wanted, l)
           \/ LoadAll(p) \/ List(p) \/ Collect(p) \/ Run(p) \/ Exit(p) \/ Crash(p)
           \/ \E h \in Hash : Load(p, h)
    PROVE  BaseInv'
<1> USE StoreAssumption DEF BaseInv, TypeOK, TasksFitPc, AttemptsLeft, PcValues,
        TaskValues, storeVars, raceVars
<1>1. CASE \E wanted \in SUBSET Hash, l \in Level : Ask(p, wanted, l)
    BY <1>1 DEF Ask
<1>2. CASE List(p)
    <2>1. PICK compiled \in Compiled :
             task' = [task EXCEPT ![p] =
                        [h \in Hash |-> IF h \notin Wanted(p) THEN "unwanted"
                                        ELSE IF h \in compiled THEN "skip" ELSE "todo"]]
        BY <1>2 DEF List
    <2> QED
        BY <1>2, <2>1 DEF List
<1>3. CASE Collect(p)
    <2>1. \A h \in Hash : task[p][h] \in {"unwanted", "skip", "found", "ok", "err"}
        BY <1>3 DEF Collect, Working, InStore, Filling
    <2>2. CASE \E h \in Hash : task[p][h] = "err"
        BY <1>3, <2>1, <2>2 DEF Collect, Working, InStore, Filling
    <2>3. CASE \A h \in Hash : task[p][h] # "err"
        BY <1>3, <2>1, <2>3 DEF Collect
    <2> QED
        BY <2>2, <2>3
<1>4. CASE Run(p)
    BY <1>4 DEF Run
<1>5. CASE Exit(p) \/ Crash(p)
    <2>1. Gone(p)
        BY <1>5 DEF Exit, Crash
    <2>2. TypeOK'
        BY <2>1 DEF Gone
    <2>3. /\ pc'[p] = "idle"
          /\ \A h \in Hash : task'[p][h] = "unwanted" /\ tries'[p][h] = 0
          /\ \A q \in Process \ {p} :
                pc'[q] = pc[q] /\ task'[q] = task[q] /\ tries'[q] = tries[q]
        BY <2>1 DEF Gone
    <2>4. TasksFitPc'
        BY ONLY BaseInv, <2>3, FitsElsewhere DEF BaseInv
    <2>5. AttemptsLeft'
        BY <2>3
    <2> QED
        BY <2>2, <2>4, <2>5
<1>6. CASE \E h \in Hash : Load(p, h)
    <2>1. PICK h \in Hash : Load(p, h)
        BY <1>6
    <2>2. loaded' \in [Process -> [Hash -> Level \cup {NoFile, Unread}]]
        BY <2>1 DEF Load
    <2> QED
        BY <2>1, <2>2 DEF Load
<1>7. CASE LoadAll(p)
    <2>1. /\ UNCHANGED <<storeVars, raceVars, lvl, tries, loaded>>
          /\ pc'[p] \in {"loading", "failed"}
          /\ pc' \in [Process -> PcValues]
          /\ task' \in [Process -> [Hash -> TaskValues]]
          /\ \A q \in Process \ {p} : pc'[q] = pc[q] /\ task'[q] = task[q]
          /\ \A h \in Hash :
                task[p][h] = "unwanted" /\ task'[p][h] \in {"found", "unwanted"}
        BY ONLY BaseInv, <1>7, LoadAllMoves
    <2>2. TypeOK'
        BY <2>1
    <2>3. TasksFitPc'
        BY ONLY BaseInv, <2>1, FitsElsewhere DEF BaseInv
    <2>4. AttemptsLeft'
        BY <2>1
    <2> QED
        BY <2>2, <2>3, <2>4
<1> QED
    BY <1>1, <1>2, <1>3, <1>4, <1>5, <1>6, <1>7

\* Every step, stuttering included, keeps the base invariant.
LEMMA BaseNext == BaseInv /\ [Next]_vars => BaseInv'
<1> SUFFICES ASSUME BaseInv, [Next]_vars
             PROVE  BaseInv'
    OBVIOUS
<1>1. CASE UNCHANGED vars
    BY <1>1 DEF BaseInv, TypeOK, TasksFitPc, AttemptsLeft, vars, storeVars, procVars, raceVars
<1>2. CASE Next
    BY <1>2, BaseTask, BaseProcess DEF Next, Progress
<1> QED
    BY <1>1, <1>2

\* The base invariant holds throughout every behaviour.
LEMMA BaseAlways == Spec => []BaseInv
    BY BaseInit, BaseNext, PTL DEF Spec

\* The variables of the store and of its processes keep their types; a task
\* never uses more than the attempts of the linking loop.
THEOREM TypeCorrect == Spec => []TypeOK
<1>1. BaseInv => TypeOK
    BY DEF BaseInv
<1> QED
    BY BaseAlways, <1>1, PTL

\* A step of a task moves that task on, and touches no other entry.
LEMMA TaskMoves ==
    ASSUME BaseInv, NEW p \in Process, NEW h \in Hash, TaskStep(p, h)
    PROVE  /\ \E from \in Working, to \in TaskValues \ {"asked"} : Step(p, h, from, to)
           /\ dir \subseteq dir'
           /\ \A g \in Hash \ {h} :
                 /\ so'[g] = so[g]
                 /\ obj'[g] = obj[g]
                 /\ g \in dir' <=> g \in dir
                 /\ g \in suspect' <=> g \in suspect
                 /\ \A q \in Process : g \in torn'[q] <=> g \in torn[q]
<1>0. /\ so \in [Hash -> Level \cup {NoFile, Partial}]
      /\ obj \in [Hash -> Level \cup {NoFile, Partial}]
      /\ torn \in [Process -> SUBSET Hash]
    BY DEF BaseInv, TypeOK
<1>1. \E from \in Working, to \in TaskValues \ {"asked"} : Step(p, h, from, to)
    <2>1. CASE CheckLinked(p, h)
        <3>1. PICK to \in {"ok", "object", "err"} : Step(p, h, "linked", to)
            BY <2>1 DEF CheckLinked
        <3> QED
            BY <3>1 DEF Working, InStore, Filling, TaskValues
    <2>2. CASE WriteObject(p, h)
        <3>1. PICK to \in {"ok", "object", "err"} : Step(p, h, "writing", to)
            BY <2>2 DEF WriteObject
        <3> QED
            BY <3>1 DEF Working, InStore, Filling, TaskValues
    <2> QED
        BY <2>1, <2>2 DEF TaskStep, Translate, MakeDir, OpenObject, LinkStart, LinkReturn,
            Working, InStore, Filling, TaskValues
<1>2. \A g \in Hash \ {h} : g \in suspect' <=> g \in suspect
    BY <1>1 DEF Step
<1>3. CASE Translate(p, h) \/ MakeDir(p, h)
    <2>1. UNCHANGED <<obj, so, torn>> /\ (dir' = dir \/ dir' = dir \cup {h})
        BY <1>3 DEF Translate, MakeDir
    <2> QED
        BY <1>1, <1>2, <2>1
<1>4. CASE OpenObject(p, h)
    <2>1. UNCHANGED <<dir, so>>
        BY <1>4 DEF OpenObject
    <2>2. /\ obj' = obj \/ obj' = [obj EXCEPT ![h] = Partial]
          /\ \/ torn' = torn
             \/ torn' = [q \in Process |->
                            IF \/ q # p /\ task[q][h] \in {"writing", "linking"}
                               \/ q = p /\ AlsoAt(p, h, {"writing"})
                            THEN torn[q] \cup {h} ELSE torn[q]]
        BY <1>4 DEF OpenObject
    <2>3. \A q \in Process : torn'[q] = torn[q] \/ torn'[q] = torn[q] \cup {h}
        BY <2>2
    <2>4. \A g \in Hash \ {h} : obj'[g] = obj[g]
        BY <1>0, <2>2
    <2> QED
        BY <1>1, <1>2, <2>1, <2>3, <2>4
<1>5. CASE WriteObject(p, h)
    <2>1. UNCHANGED <<dir, so>>
        BY <1>5 DEF WriteObject
    <2>2. /\ obj' = obj \/ \E f : obj' = [obj EXCEPT ![h] = f]
          /\ torn' = [torn EXCEPT ![p] = @ \ {h}]
        BY <1>5 DEF WriteObject
    <2>3. \A q \in Process : torn'[q] = torn[q] \/ torn'[q] = torn[q] \ {h}
        BY <1>0, <2>2
    <2>4. \A g \in Hash \ {h} : obj'[g] = obj[g]
        BY <1>0, <2>2
    <2> QED
        BY <1>1, <1>2, <2>1, <2>3, <2>4
<1>6. CASE LinkStart(p, h)
    <2>1. UNCHANGED <<dir, obj>>
        BY <1>6 DEF LinkStart
    <2>2. \A q \in Process :
             torn'[q] = torn[q] \/ torn'[q] = torn[q] \ {h} \/ torn'[q] = torn[q] \cup {h}
        BY <1>0, <1>6 DEF LinkStart
    <2>3. \A g \in Hash \ {h} : so'[g] = so[g]
        BY <1>0, <1>6 DEF LinkStart
    <2> QED
        BY <1>1, <1>2, <2>1, <2>2, <2>3
<1>7. CASE LinkReturn(p, h)
    <2>1. UNCHANGED <<dir, obj>>
        BY <1>7 DEF LinkReturn
    <2>2. /\ so' = so \/ \E f : so' = [so EXCEPT ![h] = f]
          /\ torn' = [torn EXCEPT ![p] = @ \ {h}]
        BY <1>7 DEF LinkReturn
    <2>3. \A q \in Process : torn'[q] = torn[q] \/ torn'[q] = torn[q] \ {h}
        BY <1>0, <2>2
    <2>4. \A g \in Hash \ {h} : so'[g] = so[g]
        BY <1>0, <2>2
    <2> QED
        BY <1>1, <1>2, <2>1, <2>3, <2>4
<1>8. CASE CheckLinked(p, h)
    <2>1. UNCHANGED <<dir, obj, so, torn>>
        BY <1>8 DEF CheckLinked, storeVars
    <2> QED
        BY <1>1, <1>2, <2>1
<1> QED
    BY <1>3, <1>4, <1>5, <1>6, <1>7, <1>8 DEF TaskStep

-----------------------------------------------------------------------------
(* The names in the directory.                                             *)

\* A task that skipped h, or made its entry, has a name in the directory.
NamedInv ==
    \A p \in Process, h \in Hash :
        task[p][h] \in InStore \cup {"skip", "found", "ok"} => h \in dir

\* Every step keeps the invariant that a contract skipped, or compiled well,
\* has a name in the directory.
LEMMA NamedNext == BaseInv /\ NamedInv /\ [Next]_vars => NamedInv'
<1> SUFFICES ASSUME BaseInv, NamedInv, [Next]_vars
             PROVE  NamedInv'
    OBVIOUS
<1>0. TypeOK /\ TasksFitPc
    BY DEF BaseInv
<1>1. CASE UNCHANGED vars
    BY <1>1 DEF NamedInv, vars, storeVars, procVars, raceVars
<1>2. ASSUME NEW p \in Process, NEW h \in Hash, TaskStep(p, h)
      PROVE  NamedInv'
    <2>1. dir \subseteq dir'
        BY <1>2, TaskMoves
    <2>2. PICK from \in Working, to \in TaskValues \ {"asked"} : Step(p, h, from, to)
        BY <1>2, TaskMoves
    <2>3. /\ task[p][h] = from
          /\ task'[p][h] = to
          /\ \A q \in Process, g \in Hash : q # p \/ g # h => task'[q][g] = task[q][g]
        BY <1>0, <2>2, StepBase
    <2>4. to \in InStore \cup {"skip", "found", "ok"} => h \in dir'
        <3>1. CASE from \in InStore
            BY <1>0, <2>1, <2>3, <3>1 DEF NamedInv
        <3>2. CASE from = "todo"
            <4>1. Translate(p, h)
                BY <1>2, <2>3, <3>2 DEF TaskStep, MakeDir, OpenObject, WriteObject, LinkStart,
                    LinkReturn, CheckLinked, Step
            <4>2. PICK next \in {"translated", "err"} : Step(p, h, "todo", next)
                BY <4>1 DEF Translate
            <4>3. task'[p][h] = next
                BY <1>0, <4>2 DEF Step, TypeOK
            <4> QED
                BY ONLY <2>3, <4>2, <4>3 DEF InStore, Filling
        <3>3. CASE from = "translated"
            <4>1. MakeDir(p, h)
                BY <1>2, <2>3, <3>3 DEF TaskStep, Translate, OpenObject, WriteObject,
                    LinkStart, LinkReturn, CheckLinked, Step
            <4>2. CASE dir' = dir \cup {h}
                BY <4>2
            <4>3. CASE Step(p, h, "translated", "err")
                <5>1. task'[p][h] = "err"
                    BY <1>0, <4>3 DEF Step, TypeOK
                <5> QED
                    BY <2>3, <5>1 DEF InStore, Filling
            <4> QED
                BY <4>1, <4>2, <4>3 DEF MakeDir
        <3> QED
            BY <3>1, <3>2, <3>3 DEF Working
    <2> QED
        BY <2>1, <2>3, <2>4 DEF NamedInv
<1>3. ASSUME NEW p \in Process, List(p)
      PROVE  NamedInv'
    <2>1. PICK compiled \in Compiled :
             task' = [task EXCEPT ![p] =
                        [h \in Hash |-> IF h \notin Wanted(p) THEN "unwanted"
                                        ELSE IF h \in compiled THEN "skip" ELSE "todo"]]
        BY <1>3 DEF List
    <2>2. compiled \subseteq dir /\ dir' = dir
        BY <1>3 DEF Compiled, List, storeVars
    <2>3. ASSUME NEW q \in Process, NEW h \in Hash,
                 task'[q][h] \in InStore \cup {"skip", "found", "ok"}
          PROVE  h \in dir
        <3>1. CASE q = p
            <4>1. task'[p][h] = IF h \notin Wanted(p) THEN "unwanted"
                                ELSE IF h \in compiled THEN "skip" ELSE "todo"
                BY <1>0, <2>1 DEF TypeOK
            <4> QED
                BY <2>2, <2>3, <3>1, <4>1 DEF InStore, Filling
        <3>2. CASE q # p
            BY <1>0, <2>1, <2>3, <3>2 DEF NamedInv, TypeOK
        <3> QED
            BY <3>1, <3>2
    <2> QED
        BY <2>2, <2>3 DEF NamedInv
<1>4. ASSUME NEW p \in Process,
             \/ \E wanted \in SUBSET Hash, l \in Level : Ask(p, wanted, l)
             \/ Collect(p) \/ Run(p) \/ Exit(p) \/ Crash(p)
             \/ \E h \in Hash : Load(p, h)
      PROVE  NamedInv'
    <2>1. dir' = dir
        BY <1>4 DEF Ask, Collect, Run, Exit, Crash, Gone, Load, storeVars
    <2>2. \A q \in Process, h \in Hash :
             task'[q][h] = task[q][h] \/ task'[q][h] \in {"unwanted", "asked"}
        <3>1. CASE \E wanted \in SUBSET Hash, l \in Level : Ask(p, wanted, l)
            BY <1>0, <3>1 DEF Ask, TypeOK
        <3>2. CASE Exit(p) \/ Crash(p)
            <4>1. task' = [task EXCEPT ![p] = [h \in Hash |-> "unwanted"]]
                BY <3>2 DEF Exit, Crash, Gone
            <4> QED
                BY <1>0, <4>1 DEF TypeOK
        <3> QED
            BY <1>4, <3>1, <3>2 DEF Collect, Run, Load
    <2> QED
        BY <2>1, <2>2 DEF NamedInv, InStore, Filling
<1>5. ASSUME NEW p \in Process, LoadAll(p)
      PROVE  NamedInv'
    <2>1. /\ dir' = dir
          /\ \A q \in Process \ {p} : task'[q] = task[q]
          /\ \A h \in Hash : task'[p][h] = "found" => h \in dir \/ task[p][h] = "found"
          /\ \A h \in Hash : task'[p][h] \in {"found", "unwanted"} \/ task'[p][h] = task[p][h]
        BY <1>0, <1>5 DEF LoadAll, storeVars, TypeOK
    <2> QED
        BY <2>1 DEF NamedInv, InStore, Filling
<1> QED
    BY <1>1, <1>2, <1>3, <1>4, <1>5 DEF Next, Progress

-----------------------------------------------------------------------------
(* No entry is left without its shared object for no reason.               *)

\* A task on its way to the shared object of the entry.
Finishing == Filling \cup {"translated", "made"}

\* One task at most is at the files of the entry, and works on a whole
\* object; a shared object is half written, or missing, only while a task is
\* still on its way to it.
EntryOK(h) ==
    /\ \A p, q \in Process :
          task[p][h] \in Filling /\ task[q][h] \in Filling => p = q
    /\ \A p \in Process :
          /\ h \notin torn[p]
          /\ task[p][h] \in {"object", "linking", "linked"} => obj[h] \in Level
    /\ so[h] = Partial => \E p \in Process : task[p][h] = "linking"
    /\ h \in dir /\ so[h] = NoFile => \E p \in Process : task[p][h] \in Finishing

\* Every entry is sound in which no task failed or died and that no two
\* processes filled at once.
StoreInv == \A h \in Hash : h \notin suspect => EntryOK(h)

\* An empty directory has no entry to be unsound.
LEMMA StoreInit == Init => StoreInv
<1> USE StoreAssumption
<1> QED
    BY DEF Init, StoreInv, EntryOK, Filling

\* What makes an entry suspect.
LEMMA StepSuspects ==
    ASSUME NEW p \in Process, NEW h \in Hash, NEW from, NEW to, Step(p, h, from, to)
    PROVE  /\ h \in suspect => h \in suspect'
           /\ h \in dir' /\ to = "err" => h \in suspect'
           /\ h \in dir' /\ to = "writing" /\ AlsoAt(p, h, Filling) => h \in suspect'
BY DEF Step

\* Every step of a task keeps the entries sound.
LEMMA StoreTask ==
    ASSUME ~NoLink, BaseInv, NamedInv, StoreInv,
           NEW p \in Process, NEW h \in Hash, TaskStep(p, h)
    PROVE  StoreInv'
<1> USE StoreAssumption
<1>0. /\ {"todo", "translated", "made", "writing", "object", "linking", "linked"}
            \subseteq Working
      /\ {"translated", "made", "writing", "object", "linking", "linked", "ok", "err"}
            \subseteq TaskValues \ {"asked"}
      /\ TypeOK /\ TasksFitPc
    BY DEF Working, InStore, Filling, TaskValues, BaseInv
<1> DEFINE Moves(from, to) ==
        /\ task[p][h] = from
        /\ task'[p][h] = to
        /\ \A q \in Process, g \in Hash : q # p \/ g # h => task'[q][g] = task[q][g]
<1>1. ASSUME NEW g \in Hash \ {h}, g \notin suspect'
      PROVE  EntryOK(g)'
    <2>1. PICK from \in Working, to \in TaskValues \ {"asked"} : Step(p, h, from, to)
        BY TaskMoves
    <2>2. \A q \in Process : task'[q][g] = task[q][g]
        BY <1>0, <2>1, StepBase
    <2>3. /\ so'[g] = so[g] /\ obj'[g] = obj[g]
          /\ g \in dir' <=> g \in dir
          /\ g \in suspect' <=> g \in suspect
          /\ \A q \in Process : g \in torn'[q] <=> g \in torn[q]
        BY TaskMoves
    <2>4. EntryOK(g)
        BY <1>1, <2>3 DEF StoreInv
    <2> QED
        BY <2>2, <2>3, <2>4 DEF EntryOK
<1>2. ASSUME h \notin suspect'
      PROVE  EntryOK(h)'
    <2>0. EntryOK(h)
        <3>1. PICK from \in Working, to \in TaskValues \ {"asked"} : Step(p, h, from, to)
            BY TaskMoves
        <3> QED
            BY <1>2, <3>1, StepSuspects DEF StoreInv
    <2>1. CASE Translate(p, h)
        <3>1. PICK to \in {"translated", "err"} : Step(p, h, "todo", to)
            BY <2>1 DEF Translate
        <3>2. Moves("todo", to)
            BY <1>0, <3>1, StepBase
        <3>3. UNCHANGED <<obj, so, torn>>
            BY <2>1 DEF Translate
        <3>4. CASE to = "err"
            <4>1. h \notin dir'
                BY <1>2, <3>1, <3>4, StepSuspects
            <4> QED
                BY <2>0, <3>2, <3>3, <3>4, <4>1 DEF EntryOK, Filling
        <3>5. CASE to = "translated"
            BY <2>0, <3>2, <3>3, <3>5 DEF EntryOK, Finishing, Filling
        <3> QED
            BY <3>4, <3>5
    <2>2. CASE MakeDir(p, h)
        <3>1. PICK to \in {"made", "err"} : Step(p, h, "translated", to)
            BY <2>2 DEF MakeDir
        <3>2. Moves("translated", to)
            BY <1>0, <3>1, StepBase
        <3>3. UNCHANGED <<obj, so, torn>>
            BY <2>2 DEF MakeDir
        <3>4. CASE to = "err"
            <4>1. h \notin dir'
                BY <1>2, <3>1, <3>4, StepSuspects
            <4> QED
                BY <2>0, <3>2, <3>3, <3>4, <4>1 DEF EntryOK, Filling
        <3>5. CASE to = "made"
            BY <2>0, <3>2, <3>3, <3>5 DEF EntryOK, Finishing, Filling
        <3> QED
            BY <3>4, <3>5
    <2>3. CASE OpenObject(p, h)
        <3>1. task[p][h] = "made"
            BY <2>3 DEF OpenObject, Step
        <3>2. h \in dir' /\ UNCHANGED <<dir, so>>
            BY <2>3, <3>1 DEF OpenObject, NamedInv, InStore
        <3>3. PICK to \in {"writing", "err"} : Step(p, h, "made", to)
            BY <2>3 DEF OpenObject
        <3>4. to = "writing" /\ ~AlsoAt(p, h, Filling)
            BY <1>2, <3>2, <3>3, StepSuspects
        <3>5. Moves("made", "writing")
            BY <1>0, <3>3, <3>4, StepBase
        <3>6. \A q \in Process \ {p} : task[q][h] \notin Filling
            BY <3>4 DEF AlsoAt
        <3>7. torn' = [q \in Process |->
                         IF \/ q # p /\ task[q][h] \in {"writing", "linking"}
                            \/ q = p /\ AlsoAt(p, h, {"writing"})
                         THEN torn[q] \cup {h} ELSE torn[q]]
            <4>1. task' # [task EXCEPT ![p][h] = "err"]
                BY <1>0, <3>5 DEF TypeOK
            <4> QED
                BY <2>3, <4>1 DEF OpenObject, Step
        <3>8. \A q \in Process : torn'[q] = torn[q]
            BY <3>6, <3>7 DEF AlsoAt, Filling
        <3> QED
            BY <2>0, <3>2, <3>5, <3>6, <3>8 DEF EntryOK, Finishing, Filling
    <2>4. CASE WriteObject(p, h)
        <3>1. task[p][h] = "writing"
            BY <2>4 DEF WriteObject, Step
        <3>2. h \in dir' /\ UNCHANGED <<dir, so>>
            BY <2>4, <3>1 DEF WriteObject, NamedInv, InStore, Filling
        <3>3. PICK to \in {"object", "err"} : Step(p, h, "writing", to)
            BY <2>4 DEF WriteObject
        <3>4. to = "object"
            BY <1>2, <3>2, <3>3, StepSuspects
        <3>5. Moves("writing", "object")
            BY <1>0, <3>3, <3>4, StepBase
        <3>6. obj' = [obj EXCEPT ![h] = lvl[p]]
            <4>1. task' # [task EXCEPT ![p][h] = "err"]
                BY <1>0, <3>5 DEF TypeOK
            <4>2. Outcomes(p, h, lvl[p]) = {lvl[p]}
                BY <2>0 DEF EntryOK, Outcomes
            <4> QED
                BY <2>4, <4>1, <4>2 DEF WriteObject, Step
        <3>7. obj'[h] \in Level
            BY <1>0, <3>6 DEF TypeOK
        <3>8. \A q \in Process : torn'[q] \subseteq torn[q]
            BY <1>0, <2>4 DEF WriteObject, TypeOK
        <3> QED
            BY <2>0, <3>2, <3>5, <3>7, <3>8 DEF EntryOK, Finishing, Filling
    <2>5. CASE LinkStart(p, h)
        <3>1. Step(p, h, "object", "linking") /\ UNCHANGED <<dir, obj>>
            BY <2>5 DEF LinkStart
        <3>2. Moves("object", "linking")
            BY <1>0, <3>1, StepBase
        <3>3. so'[h] = Partial
            BY <1>0, <2>5 DEF LinkStart, TypeOK
        <3>4. obj[h] \in Level /\ ~AlsoAt(p, h, {"writing"})
            BY <2>0, <3>2 DEF EntryOK, AlsoAt, Filling
        <3>5. \A q \in Process : torn'[q] \subseteq torn[q]
            BY <1>0, <2>5, <3>4 DEF LinkStart, TypeOK
        <3> QED
            BY <2>0, <3>1, <3>2, <3>3, <3>4, <3>5 DEF EntryOK, Finishing, Filling
    <2>6. CASE LinkReturn(p, h)
        <3>1. task[p][h] = "linking"
            BY <2>6 DEF LinkReturn, Step
        <3>2. h \in dir' /\ UNCHANGED <<dir, obj>>
            BY <2>6, <3>1 DEF LinkReturn, NamedInv, InStore, Filling
        <3>3. PICK to \in {"linked", "err"} : Step(p, h, "linking", to)
            BY <2>6 DEF LinkReturn
        <3>4. to = "linked"
            BY <1>2, <3>2, <3>3, StepSuspects
        <3>5. Moves("linking", "linked")
            BY <1>0, <3>3, <3>4, StepBase
        <3>6. obj[h] \in Level /\ Outcomes(p, h, obj[h]) = {obj[h]}
            BY <2>0, <3>1 DEF EntryOK, Outcomes
        <3>7. ~AlsoAt(p, h, {"linking"})
            BY <2>0, <3>1 DEF EntryOK, AlsoAt, Filling
        <3>8. so'[h] # Partial
            <4>1. task' # [task EXCEPT ![p][h] = "err"]
                BY <1>0, <3>5 DEF TypeOK
            <4>2. \/ so' = [so EXCEPT ![h] = obj[h]]
                  \/ so' = [so EXCEPT ![h] = IF @ = Partial THEN NoFile ELSE @]
                BY <2>6, <3>6, <3>7, <4>1 DEF LinkReturn, Step
            <4> QED
                BY <1>0, <3>6, <4>2 DEF TypeOK
        <3>9. \A q \in Process : torn'[q] \subseteq torn[q]
            BY <1>0, <2>6 DEF LinkReturn, TypeOK
        <3> QED
            BY <2>0, <3>2, <3>5, <3>6, <3>8, <3>9 DEF EntryOK, Finishing, Filling
    <2>7. CASE CheckLinked(p, h)
        <3>1. task[p][h] = "linked"
            BY <2>7 DEF CheckLinked, Step
        <3>2. h \in dir' /\ UNCHANGED <<dir, obj, so, torn>>
            BY <2>7, <3>1 DEF CheckLinked, storeVars, NamedInv, InStore, Filling
        <3>3. PICK to \in {"ok", "object", "err"} :
                 Step(p, h, "linked", to) /\ (to = "ok" => so[h] # NoFile)
            BY <2>7 DEF CheckLinked
        <3>4. to # "err"
            BY <1>2, <3>2, <3>3, StepSuspects
        <3>5. Moves("linked", to)
            BY <1>0, <3>3, StepBase
        <3>6. CASE to = "ok"
            BY <2>0, <3>2, <3>3, <3>5, <3>6 DEF EntryOK, Finishing, Filling
        <3>7. CASE to = "object"
            BY <2>0, <3>2, <3>5, <3>7 DEF EntryOK, Finishing, Filling
        <3> QED
            BY <3>4, <3>6, <3>7
    <2> QED
        BY <2>1, <2>2, <2>3, <2>4, <2>5, <2>6, <2>7 DEF TaskStep
<1> QED
    BY <1>1, <1>2 DEF StoreInv

\* The steps outside the tasks touch no file.  A process that is gone leaves
\* its unfinished entries suspect, or leaves nothing.
LEMMA StoreProcess ==
    ASSUME BaseInv, NamedInv, StoreInv, NEW p \in Process,
           \/ \E wanted \in SUBSET Hash, l \in Level : Ask(p, wanted, l)
           \/ LoadAll(p) \/ List(p) \/ Collect(p) \/ Run(p) \/ Exit(p) \/ Crash(p)
           \/ \E h \in Hash : Load(p, h)
    PROVE  StoreInv'
<1>0. TypeOK /\ TasksFitPc
    BY DEF BaseInv
<1>1. CASE Exit(p) \/ Crash(p)
    <2>1. /\ UNCHANGED <<dir, obj, so>>
          /\ task' = [task EXCEPT ![p] = [h \in Hash |-> "unwanted"]]
          /\ torn' = [torn EXCEPT ![p] = {}]
          /\ suspect' = suspect \cup {h \in dir : task[p][h] \in Working}
        BY <1>1 DEF Exit, Crash, Gone, storeVars
    <2>2. ASSUME NEW h \in Hash, h \notin suspect'
          PROVE  EntryOK(h)'
        <3>1. h \notin suspect /\ EntryOK(h)
            BY <2>1, <2>2 DEF StoreInv
        <3>2. h \in dir => task[p][h] \notin Working
            BY <2>1, <2>2
        <3>3. /\ task'[p][h] = "unwanted"
              /\ \A q \in Process \ {p} : task'[q][h] = task[q][h] /\ torn'[q] = torn[q]
              /\ torn'[p] = {}
            BY <1>0, <2>1 DEF TypeOK
        <3>4. task[p][h] # "linking"
            BY <3>2 DEF NamedInv, InStore, Filling, Working
        <3>5. h \in dir => task[p][h] \notin Finishing
            BY <3>2 DEF Finishing, InStore, Working
        <3> QED
            BY <2>1, <3>1, <3>3, <3>4, <3>5 DEF EntryOK, Filling
    <2> QED
        BY <2>2 DEF StoreInv
<1>2. CASE ~Exit(p) /\ ~Crash(p)
    <2>1. /\ UNCHANGED <<dir, obj, so, torn, suspect>>
          /\ \A q \in Process, h \in Hash :
                task[q][h] \in Finishing \/ task'[q][h] \in Finishing =>
                    task'[q][h] = task[q][h]
        <3>1. CASE \E wanted \in SUBSET Hash, l \in Level : Ask(p, wanted, l)
            BY <1>0, <3>1 DEF Ask, storeVars, raceVars, TypeOK, TasksFitPc, Finishing, Filling
        <3>2. CASE List(p)
            <4>1. PICK compiled \in Compiled :
                     task' = [task EXCEPT ![p] =
                                [h \in Hash |-> IF h \notin Wanted(p) THEN "unwanted"
                                                ELSE IF h \in compiled THEN "skip" ELSE "todo"]]
                BY <3>2 DEF List
            <4>2. /\ \A q \in Process \ {p} : task'[q] = task[q]
                  /\ \A h \in Hash : task'[p][h] \in {"unwanted", "skip", "todo"}
                BY <1>0, <4>1 DEF TypeOK
            <4>3. \A h \in Hash : task[p][h] \in {"unwanted", "asked"}
                BY <1>0, <3>2 DEF List, TasksFitPc
            <4>4. UNCHANGED <<dir, obj, so, torn, suspect>>
                BY <3>2 DEF List, storeVars, raceVars
            <4> QED
                BY <4>2, <4>3, <4>4 DEF Finishing, Filling
        <3>3. CASE Collect(p) \/ Run(p) \/ \E h \in Hash : Load(p, h)
            BY <3>3 DEF Collect, Run, Load, storeVars, raceVars
        <3>4. CASE LoadAll(p)
            BY <3>4, LoadAllMoves DEF storeVars, raceVars, Finishing, Filling
        <3> QED
            BY <1>2, <3>1, <3>2, <3>3, <3>4
    <2>2. ASSUME NEW h \in Hash, h \notin suspect'
          PROVE  EntryOK(h)'
        <3>1. EntryOK(h)
            BY <2>1, <2>2 DEF StoreInv
        <3> QED
            BY <2>1, <3>1 DEF EntryOK, Finishing, Filling
    <2> QED
        BY <2>2 DEF StoreInv
<1> QED
    BY <1>1, <1>2

\* Every step keeps each entry that is not suspect sound: finished, or in the
\* hands of a task on its way to the shared object.
LEMMA StoreNext == ~NoLink /\ BaseInv /\ NamedInv /\ StoreInv /\ [Next]_vars => StoreInv'
<1> SUFFICES ASSUME ~NoLink, BaseInv, NamedInv, StoreInv, [Next]_vars
             PROVE  StoreInv'
    OBVIOUS
<1>1. CASE UNCHANGED vars
    BY <1>1 DEF StoreInv, EntryOK, vars, storeVars, procVars, raceVars
<1>2. CASE Next
    BY <1>2, StoreTask, StoreProcess DEF Next, Progress
<1> QED
    BY <1>1, <1>2

\* The entries that are not suspect are sound throughout every behaviour.
LEMMA StoreAlways == ~NoLink => (Spec => [](BaseInv /\ NamedInv /\ StoreInv))
<1> SUFFICES ASSUME ~NoLink
             PROVE  Spec => [](BaseInv /\ NamedInv /\ StoreInv)
    OBVIOUS
<1>1. Init => BaseInv /\ NamedInv /\ StoreInv
    <2>1. Init => NamedInv
        BY DEF Init, NamedInv, InStore, Filling
    <2> QED
        BY <2>1, BaseInit, StoreInit
<1>2. BaseInv /\ NamedInv /\ StoreInv /\ [Next]_vars => (BaseInv /\ NamedInv /\ StoreInv)'
    BY BaseNext, NamedNext, StoreNext
<1> QED
    BY <1>1, <1>2, PTL DEF Spec

\* However many processes fill the directory at once, and whatever fails or
\* dies there: an entry is left without a shared object only if a task failed
\* or died in it, or two processes came to write its files at once.
THEOREM PoisonIsExplained ==
    ASSUME ~NoLink
    PROVE  Spec => []PoisonExplained
<1>1. BaseInv /\ StoreInv => PoisonExplained
    <2> SUFFICES ASSUME BaseInv, StoreInv, NEW h \in Hash, Poisoned(h), h \notin suspect
                 PROVE  FALSE
        BY DEF PoisonExplained
    <2>1. h \in dir /\ (so[h] = NoFile \/ so[h] = Partial)
        BY DEF Poisoned, BaseInv, TypeOK
    <2>2. \A p \in Process : task[p][h] \notin Finishing /\ task[p][h] # "linking"
        BY DEF Poisoned, Finishing, Working, InStore, Filling
    <2> QED
        BY <2>1, <2>2 DEF StoreInv, EntryOK
<1> QED
    BY <1>1, StoreAlways, PTL

-----------------------------------------------------------------------------
(* A process alone with the directory runs all it asked for compiled.      *)

\* What the loader has read so far, and that it has read everything before
\* the process runs.
LoadedInv ==
    \A p \in Process, h \in Hash :
        /\ pc[p] \notin {"loading", "running"} => loaded[p][h] = Unread
        /\ loaded[p][h] # NoFile
        /\ pc[p] = "running" /\ h \in Wanted(p) => loaded[p][h] # Unread

\* At most one process uses the directory at a time.
Alone == \A p, q \in Process : p = q

\* The faults that leave the entries of a process alone in its directory
\* sound: nothing fails or dies between the making of an entry and the end of
\* its linking, the contracts are linked at all, and the silent attempts of a
\* linker are fewer than the turns of the loop.
SoundFaults ==
    /\ Faults \subseteq {"listing", "mkdir", "load"}
    /\ ~NoLink
    /\ MaxSilent < LinkAttempts

\* No entry is suspect, for the loop in link has turns left.
Unsuspected ==
    /\ suspect = {}
    /\ \A p \in Process, h \in Hash :
          task[p][h] = "linked" /\ so[h] = NoFile => tries[p][h] < MaxSilent

\* A process alone meets no error that would leave an entry half made.
LEMMA UnsuspectedNext ==
    ASSUME Alone, SoundFaults, BaseInv, NamedInv, StoreInv, Unsuspected, [Next]_vars
    PROVE  Unsuspected'
<1> USE StoreAssumption
<1>0. TypeOK /\ TasksFitPc
    BY DEF BaseInv
<1>1. CASE UNCHANGED vars
    BY <1>1 DEF Unsuspected, vars, storeVars, procVars, raceVars
<1>2. ASSUME NEW p \in Process, NEW h \in Hash, TaskStep(p, h)
      PROVE  Unsuspected'
    <2>0. Process = {p}
        BY DEF Alone
    <2>1. /\ EntryOK(h)
          /\ \A places : ~AlsoAt(p, h, places)
          /\ tries[p][h] \in Nat
          /\ task[p][h] = "linked" /\ so[h] = NoFile => tries[p][h] < MaxSilent
        BY <1>0, <2>0 DEF Unsuspected, StoreInv, AlsoAt, TypeOK
    <2>2. /\ \A g \in Hash \ {h} : task'[p][g] = task[p][g] /\ so'[g] = so[g]
          /\ task' # [task EXCEPT ![p][h] = "err"] \/ h \notin dir' => suspect' = suspect
        <3>1. PICK from \in Working, to \in TaskValues \ {"asked"} : Step(p, h, from, to)
            BY <1>2, TaskMoves
        <3>2. \A g \in Hash \ {h} : task'[p][g] = task[p][g] /\ so'[g] = so[g]
            BY <1>0, <1>2, <3>1, StepBase, TaskMoves
        <3>3. task' = [task EXCEPT ![p][h] = to]
            BY <3>1 DEF Step
        <3>4. to # "err" \/ h \notin dir' => suspect' = suspect
            BY <2>1, <3>1 DEF Step
        <3> QED
            BY <3>2, <3>3, <3>4
    <2>3. /\ task'[p][h] = "err" => h \notin dir'
          /\ task'[p][h] = "linked" /\ so'[h] = NoFile => tries'[p][h] < MaxSilent
          /\ \A g \in Hash \ {h} : tries'[p][g] = tries[p][g]
        <3>1. CASE Translate(p, h)
            <4>1. Step(p, h, "todo", "translated") /\ tries' = tries
                BY <3>1 DEF Translate, SoundFaults
            <4> QED
                BY <1>0, <4>1 DEF Step, TypeOK
        <3>2. CASE MakeDir(p, h)
            <4>1. PICK to \in {"made", "err"} :
                     Step(p, h, "translated", to) /\ (to = "err" => h \notin dir')
                BY <3>2 DEF MakeDir
            <4>2. task'[p][h] = to /\ tries' = tries
                BY <1>0, <3>2, <4>1 DEF MakeDir, Step, TypeOK
            <4> QED
                BY <4>1, <4>2
        <3>3. CASE OpenObject(p, h)
            <4>1. Step(p, h, "made", "writing") /\ tries' = tries
                BY <3>3 DEF OpenObject, SoundFaults
            <4> QED
                BY <1>0, <4>1 DEF Step, TypeOK
        <3>4. CASE WriteObject(p, h)
            <4>1. Step(p, h, "writing", "object") /\ tries' = tries
                BY <3>4 DEF WriteObject, SoundFaults
            <4> QED
                BY <1>0, <4>1 DEF Step, TypeOK
        <3>5. CASE LinkStart(p, h)
            <4>1. Step(p, h, "object", "linking") /\ tries' = tries
                BY <3>5 DEF LinkStart
            <4> QED
                BY <1>0, <4>1 DEF Step, TypeOK
        <3>6. CASE LinkReturn(p, h)
            <4>1. Step(p, h, "linking", "linked") /\ tries' = tries
                BY <2>1, <3>6 DEF LinkReturn, SoundFaults, EntryOK
            <4>2. obj[h] \in Level /\ Outcomes(p, h, obj[h]) = {obj[h]}
                BY <2>1, <4>1 DEF EntryOK, Outcomes, Step
            <4>3. so' = [so EXCEPT ![h] = obj[h]] \/ tries[p][h] < MaxSilent
                BY <2>1, <3>6, <4>2 DEF LinkReturn, SoundFaults, EntryOK
            <4>4. task'[p][h] = "linked"
                BY <1>0, <4>1 DEF Step, TypeOK
            <4> QED
                BY <1>0, <4>1, <4>2, <4>3, <4>4 DEF TypeOK
        <3>7. CASE CheckLinked(p, h) /\ so[h] # NoFile
            <4>1. Step(p, h, "linked", "ok") /\ tries' = tries
                BY <3>7 DEF CheckLinked
            <4> QED
                BY <1>0, <4>1 DEF Step, TypeOK
        <3>8. CASE CheckLinked(p, h) /\ so[h] = NoFile
            <4>1. task[p][h] = "linked"
                BY <3>8 DEF CheckLinked, Step
            <4>2. tries[p][h] + 1 < LinkAttempts
                BY <2>1, <3>8, <4>1 DEF SoundFaults
            <4>3. /\ Step(p, h, "linked", "object")
                  /\ tries' = [tries EXCEPT ![p][h] = @ + 1]
                BY <3>8, <4>2 DEF CheckLinked
            <4> QED
                BY <1>0, <4>3 DEF Step, TypeOK
        <3> QED
            BY <1>2, <3>1, <3>2, <3>3, <3>4, <3>5, <3>6, <3>7, <3>8 DEF TaskStep
    <2>4. suspect' = suspect
        BY <1>0, <2>2, <2>3 DEF TypeOK
    <2> QED
        BY <2>0, <2>2, <2>3, <2>4 DEF Unsuspected
<1>3. ASSUME NEW p \in Process, Exit(p)
      PROVE  Unsuspected'
    <2>1. \A h \in Hash : task[p][h] \notin Working
        BY <1>0, <1>3 DEF Exit, TasksFitPc, Working, InStore, Filling
    <2>2. suspect' = suspect /\ \A h \in Hash : task'[p][h] = "unwanted"
        BY <1>0, <1>3, <2>1 DEF Exit, Gone, TypeOK
    <2>3. Process = {p}
        BY DEF Alone
    <2> QED
        BY <2>2, <2>3 DEF Unsuspected
<1>4. ASSUME NEW p \in Process,
             \/ \E wanted \in SUBSET Hash, l \in Level : Ask(p, wanted, l)
             \/ LoadAll(p) \/ List(p) \/ Collect(p) \/ Run(p)
             \/ \E h \in Hash : Load(p, h)
      PROVE  Unsuspected'
    <2>1. UNCHANGED <<so, suspect, tries>>
        BY <1>4 DEF Ask, LoadAll, List, Collect, Run, Load, storeVars, raceVars
    <2>2. \A q \in Process, h \in Hash : task'[q][h] = "linked" => task[q][h] = "linked"
        <3>1. CASE \E wanted \in SUBSET Hash, l \in Level : Ask(p, wanted, l)
            BY <1>0, <3>1 DEF Ask, TypeOK
        <3>2. CASE List(p)
            <4>1. PICK compiled \in Compiled :
                     task' = [task EXCEPT ![p] =
                                [h \in Hash |-> IF h \notin Wanted(p) THEN "unwanted"
                                                ELSE IF h \in compiled THEN "skip" ELSE "todo"]]
                BY <3>2 DEF List
            <4>2. \A h \in Hash : task'[p][h] \in {"unwanted", "skip", "todo"}
                BY <1>0, <4>1 DEF TypeOK
            <4> QED
                BY <1>0, <4>1, <4>2 DEF TypeOK
        <3>3. CASE LoadAll(p)
            BY <3>3, LoadAllMoves
        <3> QED
            BY <1>4, <3>1, <3>2, <3>3 DEF Collect, Run, Load
    <2> QED
        BY <2>1, <2>2 DEF Unsuspected
<1>5. \A p \in Process : ~Crash(p)
    BY DEF Crash, SoundFaults
<1> QED
    BY <1>1, <1>2, <1>3, <1>4, <1>5 DEF Next, Progress

\* What the loader finds behind a name, when nobody else is at work.
LEMMA FoundCompiled ==
    ASSUME Alone, BaseInv, StoreInv, NamedInv, Unsuspected,
           NEW p \in Process, NEW h \in Hash,
           pc[p] = "loading", h \in Wanted(p)
    PROVE  so[h] \in Level
<1>1. task[p][h] \in {"skip", "found", "ok"}
    BY DEF BaseInv, TasksFitPc, Wanted
<1>2. \A q \in Process : task[q][h] \notin Finishing /\ task[q][h] # "linking"
    BY <1>1 DEF Alone, Finishing, Filling
<1>3. h \in dir /\ EntryOK(h)
    BY <1>1 DEF NamedInv, StoreInv, Unsuspected
<1> QED
    BY <1>2, <1>3 DEF EntryOK, BaseInv, TypeOK

\* A process alone on a sound directory finds each function it loads.
LEMMA LoadedNext ==
    ASSUME Alone, "load" \notin Faults, BaseInv, StoreInv, NamedInv, Unsuspected, LoadedInv,
           [Next]_vars
    PROVE  LoadedInv'
<1> USE StoreAssumption
<1>0. TypeOK /\ TasksFitPc
    BY DEF BaseInv
<1>1. CASE UNCHANGED vars
    BY <1>1 DEF LoadedInv, Wanted, vars, storeVars, procVars, raceVars
<1>2. ASSUME NEW p \in Process, NEW h \in Hash, TaskStep(p, h)
      PROVE  LoadedInv'
    <2>1. UNCHANGED <<pc, loaded>> /\ pc[p] = "compiling"
        BY <1>2 DEF TaskStep, Translate, MakeDir, OpenObject, WriteObject, LinkStart, LinkReturn,
            CheckLinked, Step
    <2>2. Process = {p}
        BY DEF Alone
    <2> QED
        BY <2>1, <2>2 DEF LoadedInv
<1>3. ASSUME NEW p \in Process, NEW h \in Hash, Load(p, h)
      PROVE  LoadedInv'
    <2>1. so[h] \in Level
        BY <1>3, FoundCompiled DEF Load
    <2>2. loaded' = [loaded EXCEPT ![p][h] = so[h]] /\ UNCHANGED <<pc, task>>
        BY <1>3, <2>1 DEF Load
    <2>3. /\ loaded'[p][h] = so[h]
          /\ \A q \in Process, g \in Hash :
                q # p \/ g # h => loaded'[q][g] = loaded[q][g]
        BY <1>0, <2>2 DEF TypeOK
    <2>4. pc[p] = "loading" /\ so[h] # NoFile /\ so[h] # Unread
        BY <1>3, <2>1 DEF Load
    <2> QED
        BY <2>2, <2>3, <2>4 DEF LoadedInv, Wanted
<1>4. ASSUME NEW p \in Process, Run(p)
      PROVE  LoadedInv'
    BY <1>0, <1>4 DEF LoadedInv, Run, Wanted, TypeOK
<1>5. ASSUME NEW p \in Process,
             \/ \E wanted \in SUBSET Hash, l \in Level : Ask(p, wanted, l)
             \/ LoadAll(p) \/ List(p) \/ Collect(p)
      PROVE  LoadedInv'
    <2>1. /\ pc[p] \notin {"loading", "running"} /\ pc'[p] # "running"
          /\ loaded' = loaded /\ \A q \in Process \ {p} : pc'[q] = pc[q]
        BY <1>0, <1>5 DEF Ask, LoadAll, List, Collect, TypeOK
    <2>2. Process = {p}
        BY DEF Alone
    <2> QED
        BY <2>1, <2>2 DEF LoadedInv
<1>6. ASSUME NEW p \in Process, Exit(p) \/ Crash(p)
      PROVE  LoadedInv'
    <2>1. pc'[p] = "idle" /\ \A h \in Hash : loaded'[p][h] = Unread
        BY <1>0, <1>6 DEF Exit, Crash, Gone, TypeOK
    <2>2. Process = {p}
        BY DEF Alone
    <2> QED
        BY <2>1, <2>2 DEF LoadedInv
<1> QED
    BY <1>1, <1>2, <1>3, <1>4, <1>5, <1>6 DEF Next, Progress

\* A process that has the directory to itself and meets no more than the
\* sound faults executes every contract it asked for compiled, whatever
\* runs came before it.
THEOREM SelectedRunCompiled ==
    ASSUME Alone, SoundFaults, "load" \notin Faults
    PROVE  Spec => []SelectedAreCompiled
<1> USE StoreAssumption
<1>1. Init => Unsuspected /\ LoadedInv
    BY DEF Init, Unsuspected, LoadedInv
<1>2. /\ BaseInv /\ StoreInv /\ NamedInv /\ Unsuspected /\ LoadedInv /\ [Next]_vars
      => Unsuspected' /\ LoadedInv'
    BY UnsuspectedNext, LoadedNext
<1>3. BaseInv /\ LoadedInv => SelectedAreCompiled
    BY DEF BaseInv, TypeOK, LoadedInv, SelectedAreCompiled, Wanted
<1>4. Spec => [](BaseInv /\ NamedInv /\ StoreInv)
    BY StoreAlways DEF SoundFaults
<1> QED
    BY <1>1, <1>2, <1>3, <1>4, PTL DEF Spec

\* What was dropped by the loader is poisoned, and everything was read before
\* the process runs.
DroppedInv ==
    \A p \in Process, h \in Hash :
        /\ pc[p] \notin {"loading", "running"} => loaded[p][h] = Unread
        /\ loaded[p][h] = NoFile => Poisoned(h)

\* While one process alone loads or runs, nothing happens to the directory.
LEMMA DroppedNext ==
    ASSUME Alone, "load" \notin Faults, BaseInv, NamedInv, DroppedInv, [Next]_vars
    PROVE  DroppedInv'
<1> USE StoreAssumption
<1>0. TypeOK /\ TasksFitPc
    BY DEF BaseInv
<1>1. CASE UNCHANGED vars
    BY <1>1 DEF DroppedInv, Poisoned, vars, storeVars, procVars, raceVars
<1>2. ASSUME NEW p \in Process, NEW h \in Hash, TaskStep(p, h)
      PROVE  DroppedInv'
    <2>1. UNCHANGED <<pc, loaded>> /\ pc[p] = "compiling"
        BY <1>2 DEF TaskStep, Translate, MakeDir, OpenObject, WriteObject, LinkStart, LinkReturn,
            CheckLinked, Step
    <2>2. Process = {p}
        BY DEF Alone
    <2> QED
        BY <2>1, <2>2 DEF DroppedInv
<1>3. ASSUME NEW p \in Process, NEW h \in Hash, Load(p, h)
      PROVE  DroppedInv'
    <2>1. /\ pc[p] = "loading" /\ h \in Wanted(p)
          /\ UNCHANGED <<dir, so, pc, task>>
          /\ loaded' = [loaded EXCEPT ![p][h] = IF so[h] \in Level THEN so[h] ELSE NoFile]
        BY <1>3 DEF Load, storeVars
    <2>2. /\ loaded'[p][h] = IF so[h] \in Level THEN so[h] ELSE NoFile
          /\ \A q \in Process, g \in Hash :
                q # p \/ g # h => loaded'[q][g] = loaded[q][g]
        BY <1>0, <2>1 DEF TypeOK
    <2>3. task[p][h] \in {"skip", "found", "ok"} /\ h \in dir
        BY <1>0, <2>1 DEF TasksFitPc, Wanted, NamedInv
    <2>4. \A q \in Process : task[q][h] \notin Working
        BY <2>3 DEF Alone, Working, InStore, Filling
    <2>5. loaded'[p][h] = NoFile => Poisoned(h)
        BY <2>2, <2>3, <2>4 DEF Poisoned
    <2>6. \A g \in Hash : Poisoned(g) => Poisoned(g)'
        BY <2>1 DEF Poisoned
    <2> QED
        BY <2>1, <2>2, <2>5, <2>6 DEF DroppedInv
<1>4. ASSUME NEW p \in Process, Run(p)
      PROVE  DroppedInv'
    <2>1. UNCHANGED <<dir, so, task, loaded>> /\ pc[p] = "loading"
          /\ \A q \in Process : pc'[q] \notin {"loading", "running"} => pc'[q] = pc[q]
        BY <1>0, <1>4 DEF Run, storeVars, TypeOK
    <2> QED
        BY <2>1 DEF DroppedInv, Poisoned
<1>5. ASSUME NEW p \in Process,
             \/ \E wanted \in SUBSET Hash, l \in Level : Ask(p, wanted, l)
             \/ LoadAll(p) \/ List(p) \/ Collect(p)
      PROVE  DroppedInv'
    <2>1. pc[p] \notin {"loading", "running"} /\ loaded' = loaded
        BY <1>5 DEF Ask, LoadAll, List, Collect
    <2>2. Process = {p}
        BY DEF Alone
    <2> QED
        BY <2>1, <2>2 DEF DroppedInv
<1>6. ASSUME NEW p \in Process, Exit(p) \/ Crash(p)
      PROVE  DroppedInv'
    <2>1. pc'[p] = "idle" /\ \A h \in Hash : loaded'[p][h] = Unread
        BY <1>0, <1>6 DEF Exit, Crash, Gone, TypeOK
    <2>2. Process = {p}
        BY DEF Alone
    <2> QED
        BY <2>1, <2>2 DEF DroppedInv
<1> QED
    BY <1>1, <1>2, <1>3, <1>4, <1>5, <1>6 DEF Next, Progress

\* Whatever may fail or die in a process alone with the directory, save the
\* loader itself: a contract it interprets although it asked for it lies in
\* an entry left half made.
THEOREM InterpretedWasLeft ==
    ASSUME Alone, "load" \notin Faults
    PROVE  Spec => []InterpretedArePoisoned
<1> USE StoreAssumption
<1>1. Init => NamedInv /\ DroppedInv
    BY DEF Init, NamedInv, DroppedInv, InStore, Filling
<1>2. BaseInv /\ NamedInv /\ DroppedInv /\ [Next]_vars => NamedInv' /\ DroppedInv'
    BY NamedNext, DroppedNext
<1>3. DroppedInv => InterpretedArePoisoned
    BY DEF DroppedInv, InterpretedArePoisoned, Wanted
<1> QED
    BY <1>1, <1>2, <1>3, BaseAlways, PTL DEF Spec

\* What a task writes and links is at its process's level, and what it linked
\* in place is what the loader reads.
FreshInv ==
    \A p \in Process, h \in Hash :
        /\ h \notin torn[p]
        /\ task[p][h] \in {"object", "linking", "linked"} => obj[h] = lvl[p]
        /\ task[p][h] = "linking" => so[h] = Partial
        /\ task[p][h] = "linked" => so[h] \in {lvl[p], NoFile}
        /\ task[p][h] = "ok" => so[h] = lvl[p]
        /\ pc[p] \notin {"loading", "running"} => loaded[p][h] = Unread
        /\ task[p][h] = "ok" => loaded[p][h] \in {Unread, lvl[p]}
        /\ pc[p] = "running" /\ h \in Wanted(p) => loaded[p][h] # Unread

\* The link loop ends well only on the file that its own linker wrote.
LEMMA FreshNext ==
    ASSUME Alone, ~NoLink, "load" \notin Faults, BaseInv, FreshInv, [Next]_vars
    PROVE  FreshInv'
<1> USE StoreAssumption
<1>0. TypeOK /\ TasksFitPc
    BY DEF BaseInv
<1>1. CASE UNCHANGED vars
    BY <1>1 DEF FreshInv, Wanted, vars, storeVars, procVars, raceVars
<1>2. ASSUME NEW p \in Process, NEW h \in Hash, TaskStep(p, h)
      PROVE  FreshInv'
    <2>1. /\ UNCHANGED <<pc, lvl, loaded>> /\ pc[p] = "compiling"
          /\ \A g \in Hash \ {h} : task'[p][g] = task[p][g]
        <3>1. PICK from \in Working, to \in TaskValues \ {"asked"} : Step(p, h, from, to)
            BY <1>2, TaskMoves
        <3> QED
            BY <1>0, <3>1 DEF Step, TypeOK
    <2>2. Process = {p}
        BY DEF Alone
    <2>3. \A g \in Hash \ {h} :
              so'[g] = so[g] /\ obj'[g] = obj[g] /\ (g \in torn'[p] <=> g \in torn[p])
        BY <1>2, TaskMoves
    <2>4. /\ loaded[p][h] = Unread
          /\ h \notin torn[p]
          /\ task[p][h] \in {"object", "linking", "linked"} => obj[h] = lvl[p]
          /\ task[p][h] = "linked" => so[h] \in {lvl[p], NoFile}
          /\ \A places : ~AlsoAt(p, h, places)
        BY <2>1, <2>2 DEF FreshInv, AlsoAt
    <2>5. /\ h \notin torn'[p]
          /\ task'[p][h] \in {"object", "linking", "linked"} => obj'[h] = lvl'[p]
          /\ task'[p][h] = "linking" => so'[h] = Partial
          /\ task'[p][h] = "linked" => so'[h] \in {lvl'[p], NoFile}
          /\ task'[p][h] = "ok" => so'[h] = lvl'[p]
        <3>1. CASE Translate(p, h) \/ MakeDir(p, h)
            <4>1. torn' = torn
                BY <3>1 DEF Translate, MakeDir
            <4>2. PICK t \in {"translated", "made", "err"} : task' = [task EXCEPT ![p][h] = t]
                BY <3>1 DEF Translate, MakeDir, Step
            <4> QED
                BY <1>0, <2>4, <4>1, <4>2 DEF TypeOK
        <3>2. CASE OpenObject(p, h)
            <4>1. PICK t \in {"writing", "err"} : task' = [task EXCEPT ![p][h] = t]
                BY <3>2 DEF OpenObject, Step
            <4>2. torn'[p] = torn[p]
                BY <2>4, <3>2 DEF OpenObject
            <4> QED
                BY <1>0, <2>4, <4>1, <4>2 DEF TypeOK
        <3>3. CASE WriteObject(p, h)
            <4>1. PICK t \in {"object", "err"} :
                     /\ task' = [task EXCEPT ![p][h] = t]
                     /\ t = "object" => obj' = [obj EXCEPT ![h] = lvl[p]]
                BY <2>4, <3>3 DEF WriteObject, Step, Outcomes
            <4>2. torn'[p] = torn[p] \ {h}
                BY <1>0, <3>3 DEF WriteObject, TypeOK
            <4> QED
                BY <1>0, <2>1, <4>1, <4>2 DEF TypeOK
        <3>4. CASE LinkStart(p, h)
            <4>1. task[p][h] = "object" /\ obj' = obj
                BY <3>4 DEF LinkStart, Step
            <4>2. obj[h] \in Level
                BY <1>0, <2>4, <4>1 DEF TypeOK
            <4>3. torn'[p] = torn[p] \ {h}
                BY <1>0, <2>4, <3>4, <4>2 DEF LinkStart, TypeOK
            <4>4. task'[p][h] = "linking" /\ so'[h] = Partial
                BY <1>0, <3>4 DEF LinkStart, Step, TypeOK
            <4> QED
                BY <2>1, <2>4, <4>1, <4>3, <4>4
        <3>5. CASE LinkReturn(p, h)
            <4>1. task[p][h] = "linking" /\ obj[h] = lvl[p] /\ UNCHANGED <<obj, lvl>>
                BY <2>4, <3>5 DEF LinkReturn, Step
            <4>2. so[h] = Partial
                BY <4>1 DEF FreshInv
            <4>3. PICK t \in {"linked", "err"} :
                     /\ task' = [task EXCEPT ![p][h] = t]
                     /\ t = "linked" => \/ so' = [so EXCEPT ![h] = obj[h]]
                                        \/ so' = [so EXCEPT ![h] = IF @ = Partial THEN NoFile
                                                                   ELSE @]
                BY <2>4, <3>5 DEF LinkReturn, Step, Outcomes
            <4>4. torn'[p] = torn[p] \ {h}
                BY <1>0, <3>5 DEF LinkReturn, TypeOK
            <4> QED
                BY <1>0, <4>1, <4>2, <4>3, <4>4 DEF TypeOK
        <3>6. CASE CheckLinked(p, h)
            BY <1>0, <2>4, <3>6 DEF CheckLinked, Step, storeVars, TypeOK
        <3> QED
            BY <1>2, <3>1, <3>2, <3>3, <3>4, <3>5, <3>6 DEF TaskStep
    <2>6. ASSUME NEW g \in Hash \ {h}
          PROVE  /\ g \notin torn'[p]
                 /\ task'[p][g] \in {"object", "linking", "linked"} => obj'[g] = lvl'[p]
                 /\ task'[p][g] = "linking" => so'[g] = Partial
                 /\ task'[p][g] = "linked" => so'[g] \in {lvl'[p], NoFile}
                 /\ task'[p][g] = "ok" => so'[g] = lvl'[p]
        BY <2>1, <2>3 DEF FreshInv
    <2>7. \A g \in Hash : loaded'[p][g] = Unread /\ pc'[p] = "compiling"
        BY <2>1 DEF FreshInv
    <2> QED
        BY <2>2, <2>5, <2>6, <2>7 DEF FreshInv
<1>3. ASSUME NEW p \in Process, NEW h \in Hash, Load(p, h)
      PROVE  FreshInv'
    <2>1. /\ pc[p] = "loading"
          /\ UNCHANGED <<obj, so, pc, lvl, task, torn>>
          /\ loaded' = [loaded EXCEPT ![p][h] = IF so[h] \in Level THEN so[h] ELSE NoFile]
        BY <1>3 DEF Load, storeVars, raceVars
    <2>2. /\ loaded'[p][h] = IF so[h] \in Level THEN so[h] ELSE NoFile
          /\ \A q \in Process, g \in Hash :
                q # p \/ g # h => loaded'[q][g] = loaded[q][g]
        BY <1>0, <2>1 DEF TypeOK
    <2>3. task[p][h] = "ok" => loaded'[p][h] = lvl[p]
        BY <1>0, <2>2 DEF FreshInv, TypeOK
    <2>4. loaded'[p][h] # Unread
        BY <2>2
    <2> QED
        BY <2>1, <2>2, <2>3, <2>4 DEF FreshInv, Wanted
<1>4. ASSUME NEW p \in Process, Run(p)
      PROVE  FreshInv'
    <2>1. /\ UNCHANGED <<obj, so, lvl, task, loaded, torn>> /\ pc[p] = "loading"
          /\ \A h \in Wanted(p) : loaded[p][h] # Unread
          /\ pc'[p] = "running" /\ \A q \in Process \ {p} : pc'[q] = pc[q]
        BY <1>0, <1>4 DEF Run, storeVars, raceVars, TypeOK
    <2>2. Process = {p}
        BY DEF Alone
    <2> QED
        BY <2>1, <2>2 DEF FreshInv, Wanted
<1>5. ASSUME NEW p \in Process,
             \/ \E wanted \in SUBSET Hash, l \in Level : Ask(p, wanted, l)
             \/ LoadAll(p) \/ List(p)
      PROVE  FreshInv'
    <2>1. /\ pc[p] \notin {"loading", "running"} /\ loaded' = loaded /\ pc'[p] # "running"
          /\ \A h \in Hash : task'[p][h] \notin {"object", "linking", "linked", "ok"}
        <3>1. ASSUME NEW wanted \in SUBSET Hash, NEW l \in Level, Ask(p, wanted, l)
              PROVE  /\ pc[p] = "idle" /\ loaded' = loaded /\ pc'[p] = "asked"
                     /\ \A h \in Hash : task'[p][h] \in {"asked", "unwanted"}
            BY <1>0, <3>1 DEF Ask, TypeOK
        <3>2. CASE LoadAll(p)
            <4>1. /\ pc[p] = "idle" /\ loaded' = loaded /\ pc'[p] \in {"loading", "failed"}
                  /\ \A h \in Hash : task'[p][h] \in {"found", "unwanted"}
                BY <3>2, LoadAllMoves
            <4> QED
                BY <4>1
        <3>3. CASE List(p)
            <4>1. /\ pc[p] = "asked" /\ loaded' = loaded /\ pc'[p] = "compiling"
                BY <1>0, <3>3 DEF List, TypeOK
            <4>2. PICK compiled \in Compiled :
                     task' = [task EXCEPT ![p] =
                                [h \in Hash |-> IF h \notin Wanted(p) THEN "unwanted"
                                                ELSE IF h \in compiled THEN "skip" ELSE "todo"]]
                BY <3>3 DEF List
            <4>3. \A h \in Hash : task'[p][h] = IF h \notin Wanted(p) THEN "unwanted"
                                                ELSE IF h \in compiled THEN "skip" ELSE "todo"
                BY <1>0, <4>2 DEF TypeOK
            <4> QED
                BY <4>1, <4>3
        <3> QED
            BY <1>5, <3>1, <3>2, <3>3
    <2>2. Process = {p}
        BY DEF Alone
    <2>3. torn' = torn
        BY <1>5 DEF Ask, LoadAll, List, raceVars
    <2> QED
        BY <2>1, <2>2, <2>3 DEF FreshInv
<1>6. ASSUME NEW p \in Process, Collect(p)
      PROVE  FreshInv'
    <2>1. /\ UNCHANGED <<obj, so, lvl, task, loaded, torn>> /\ pc[p] = "compiling"
          /\ pc'[p] # "running"
        BY <1>0, <1>6 DEF Collect, storeVars, raceVars, TypeOK
    <2>2. Process = {p}
        BY DEF Alone
    <2> QED
        BY <2>1, <2>2 DEF FreshInv
<1>7. ASSUME NEW p \in Process, Exit(p) \/ Crash(p)
      PROVE  FreshInv'
    <2>1. /\ pc'[p] = "idle" /\ torn'[p] = {}
          /\ \A h \in Hash : loaded'[p][h] = Unread /\ task'[p][h] = "unwanted"
        BY <1>0, <1>7 DEF Exit, Crash, Gone, TypeOK
    <2>2. Process = {p}
        BY DEF Alone
    <2> QED
        BY <2>1, <2>2 DEF FreshInv
<1> QED
    BY <1>1, <1>2, <1>3, <1>4, <1>5, <1>6, <1>7 DEF Next, Progress

\* What a process that has the directory to itself compiled and linked, it
\* executes, and at its own level, whatever earlier processes left there and
\* wherever they died, as long as the loader loads what is there.
THEOREM FreshIsExecuted ==
    ASSUME Alone, ~NoLink, "load" \notin Faults
    PROVE  Spec => []FreshIsLoaded
<1> USE StoreAssumption
<1>1. Init => FreshInv
    BY DEF Init, FreshInv, Wanted
<1>2. BaseInv /\ FreshInv /\ [Next]_vars => FreshInv'
    BY FreshNext
<1>3. BaseInv /\ FreshInv => FreshIsLoaded
    BY DEF BaseInv, TasksFitPc, FreshInv, FreshIsLoaded, Wanted
<1> QED
    BY <1>1, <1>2, <1>3, BaseAlways, PTL DEF Spec

\* A poisoned entry stays poisoned: no later run of any process repairs it,
\* unless the directory cannot be listed.
THEOREM PoisonIsForever ==
    ASSUME "listing" \notin Faults
    PROVE  Spec => StaysPoisoned
<1>1. ASSUME BaseInv, [Next]_vars, NEW h \in Hash, Poisoned(h)
      PROVE  Poisoned(h)'
    <2>0. /\ TypeOK
          /\ h \in dir /\ so[h] \notin Level
          /\ \A q \in Process : task[q][h] \notin Working
        BY <1>1 DEF BaseInv, Poisoned
    <2>1. CASE UNCHANGED vars
        BY <2>0, <2>1 DEF Poisoned, vars, storeVars, procVars, raceVars
    <2>2. ASSUME NEW p \in Process, NEW g \in Hash, TaskStep(p, g)
          PROVE  Poisoned(h)'
        <3>1. /\ dir \subseteq dir'
              /\ task[p][g] \in Working
              /\ \A q \in Process, k \in Hash : k # g => task'[q][k] = task[q][k]
              /\ \A k \in Hash : k # g => so'[k] = so[k]
            <4>1. /\ TasksFitPc
                  /\ dir \subseteq dir'
                  /\ \A k \in Hash \ {g} : so'[k] = so[k]
                BY <1>1, <2>2, TaskMoves DEF BaseInv
            <4>2. PICK from \in Working, to \in TaskValues \ {"asked"} : Step(p, g, from, to)
                BY <1>1, <2>2, TaskMoves
            <4>3. /\ task[p][g] = from
                  /\ \A q \in Process, k \in Hash :
                        q # p \/ k # g => task'[q][k] = task[q][k]
                BY <2>0, <4>1, <4>2, StepBase
            <4> QED
                BY <4>1, <4>3
        <3>2. g # h
            BY <2>0, <3>1
        <3> QED
            BY <2>0, <3>1, <3>2 DEF Poisoned
    <2>3. ASSUME NEW p \in Process, List(p)
          PROVE  Poisoned(h)'
        <3>1. task' = [task EXCEPT ![p] =
                        [k \in Hash |-> IF k \notin Wanted(p) THEN "unwanted"
                                        ELSE IF k \in dir THEN "skip" ELSE "todo"]]
            BY <2>3 DEF List, Compiled
        <3>2. task'[p][h] \in {"unwanted", "skip"}
            BY <2>0, <3>1 DEF TypeOK
        <3>3. \A q \in Process \ {p} : task'[q] = task[q]
            BY <2>0, <3>1 DEF TypeOK
        <3> QED
            BY <2>0, <2>3, <3>2, <3>3 DEF List, Poisoned, storeVars, Working, InStore, Filling
    <2>4. ASSUME NEW p \in Process,
                 \/ \E wanted \in SUBSET Hash, l \in Level : Ask(p, wanted, l)
                 \/ Collect(p) \/ Run(p) \/ Exit(p) \/ Crash(p)
                 \/ \E g \in Hash : Load(p, g)
          PROVE  Poisoned(h)'
        <3>1. UNCHANGED storeVars
            BY <2>4 DEF Ask, Collect, Run, Exit, Crash, Gone, Load
        <3>2. \A q \in Process :
                 task'[q][h] = task[q][h] \/ task'[q][h] \in {"unwanted", "asked"}
            <4>1. CASE \E wanted \in SUBSET Hash, l \in Level : Ask(p, wanted, l)
                BY <2>0, <4>1 DEF Ask, TypeOK
            <4>2. CASE Exit(p) \/ Crash(p)
                <5>1. task' = [task EXCEPT ![p] = [k \in Hash |-> "unwanted"]]
                    BY <4>2 DEF Exit, Crash, Gone
                <5> QED
                    BY <2>0, <5>1 DEF TypeOK
            <4> QED
                BY <2>4, <4>1, <4>2 DEF Collect, Run, Load
        <3> QED
            BY <2>0, <3>1, <3>2 DEF Poisoned, storeVars, Working, InStore, Filling
    <2>5. ASSUME NEW p \in Process, LoadAll(p)
          PROVE  Poisoned(h)'
        <3>1. /\ UNCHANGED storeVars
              /\ \A q \in Process :
                    task'[q][h] = task[q][h] \/ task'[q][h] \in {"unwanted", "found"}
            BY <1>1, <2>5, LoadAllMoves
        <3> QED
            BY <2>0, <3>1 DEF Poisoned, storeVars, Working, InStore, Filling
    <2> QED
        BY <1>1, <2>1, <2>2, <2>3, <2>4, <2>5 DEF Next, Progress
<1>2. BaseInv /\ [Next]_vars => [\A h \in Hash : Poisoned(h) => Poisoned(h)']_vars
    BY <1>1
<1> QED
    BY <1>2, BaseAlways, PTL DEF Spec, StaysPoisoned

-----------------------------------------------------------------------------
(* The refinement: AotStore implements WriteOnceCache when one process at a *)
(* time uses the directory and can list it, for any set of contracts and    *)
(* levels, and wherever that process fails or dies.                         *)

\* A shared object has a named entry, is in the way of no task, and is what
\* the loader read.
ObjectsNamed == \A h \in Hash : so[h] \in Level => h \in dir

UnpublishedAtWork ==
    \A p \in Process, h \in Hash :
        task[p][h] \in Working \ {"linked"} => so[h] \notin Level

ReadInv ==
    \A p \in Process, h \in Hash :
        /\ pc[p] \notin {"loading", "running"} => loaded[p][h] = Unread
        /\ loaded[p][h] \in Level => h \in Wanted(p) /\ loaded[p][h] = so[h]

CacheInv == ObjectsNamed /\ UnpublishedAtWork /\ ReadInv

\* The abstract state.
StoreBar  == [h \in Hash |-> IF so[h] \in Level THEN so[h] ELSE NoFile]
ClientBar == [p \in Process |-> IF pc[p] \in {"asked", "compiling", "loading"}
                                THEN "waiting" ELSE pc[p]]
WantedBar == [p \in Process |-> Wanted(p)]
GotBar    == [p \in Process |-> IF pc[p] = "running"
                                THEN [h \in Hash |-> IF loaded[p][h] = Unread
                                                     THEN NoFile ELSE loaded[p][h]]
                                ELSE [h \in Hash |-> NoFile]]

-----------------------------------------------------------------------------
\* What a step of a task does to the shared object of its contract: nothing
\* is published but by the linker, and nothing that was published is touched.
LEMMA TaskPublishes ==
    ASSUME BaseInv, NamedInv, CacheInv, NEW p \in Process, NEW h \in Hash, TaskStep(p, h)
    PROVE  /\ UNCHANGED <<pc, lvl, loaded>>
           /\ pc[p] = "compiling"
           /\ dir \subseteq dir'
           /\ \A g \in Hash \ {h} : so'[g] = so[g]
           /\ \A q \in Process, g \in Hash : q # p \/ g # h => task'[q][g] = task[q][g]
           /\ task[p][h] # "unwanted" /\ task'[p][h] # "unwanted"
           /\ \/ so'[h] = so[h]
              \/ so[h] \notin Level /\ so'[h] \in Level \cup {NoFile, Partial}
           /\ so'[h] \in Level => h \in dir'
           /\ task'[p][h] \in Working \ {"linked"} => so'[h] \notin Level
<1> USE StoreAssumption
<1>0. TypeOK /\ TasksFitPc
    BY DEF BaseInv
<1>1. /\ dir \subseteq dir'
      /\ \A g \in Hash \ {h} : so'[g] = so[g]
    BY TaskMoves
<1>2. PICK from \in Working, to \in TaskValues \ {"asked"} : Step(p, h, from, to)
    BY TaskMoves
<1>3. /\ task[p][h] = from /\ task'[p][h] = to
      /\ \A q \in Process, g \in Hash : q # p \/ g # h => task'[q][g] = task[q][g]
    BY <1>0, <1>2, StepBase
<1>4. UNCHANGED <<pc, lvl, loaded>> /\ pc[p] = "compiling"
    BY <1>2 DEF Step
<1>5. so[h] \in Level => h \in dir
    BY DEF CacheInv, ObjectsNamed
<1>6. from # "linked" => so[h] \notin Level
    BY <1>3 DEF CacheInv, UnpublishedAtWork
<1>7. CASE Translate(p, h) \/ MakeDir(p, h) \/ OpenObject(p, h) \/ WriteObject(p, h)
    <2>1. so' = so /\ from # "linked"
        BY <1>2, <1>7 DEF Translate, MakeDir, OpenObject, WriteObject, Step
    <2>2. PICK t \in {"translated", "made", "writing", "ok", "object", "err"} :
              task' = [task EXCEPT ![p][h] = t]
        BY <1>7 DEF Translate, MakeDir, OpenObject, WriteObject, Step
    <2>3. to = t
        BY <1>0, <1>3, <2>2 DEF TypeOK
    <2> QED
        BY <1>1, <1>3, <1>4, <1>5, <1>6, <2>1, <2>3 DEF Working, InStore, Filling
<1>8. CASE LinkStart(p, h)
    <2>1. so'[h] = Partial /\ from = "object"
        BY <1>0, <1>2, <1>8 DEF LinkStart, Step, TypeOK
    <2>2. to = "linking"
        BY <1>0, <1>3, <1>8 DEF LinkStart, Step, TypeOK
    <2> QED
        BY <1>1, <1>3, <1>4, <1>5, <1>6, <2>1, <2>2 DEF Working, InStore, Filling
<1>9. CASE LinkReturn(p, h)
    <2>1. from = "linking" /\ h \in dir
        BY <1>2, <1>3, <1>9 DEF LinkReturn, Step, NamedInv, InStore, Filling
    <2>2. to \in {"linked", "err"}
        BY <1>0, <1>3, <1>9 DEF LinkReturn, Step, TypeOK
    <2>3. so'[h] \in Level \cup {NoFile, Partial}
        <3>1. Outcomes(p, h, obj[h]) \cup {Partial} \subseteq Level \cup {NoFile, Partial}
            BY <1>0 DEF Outcomes, TypeOK
        <3> QED
            BY <1>0, <1>9, <3>1 DEF LinkReturn, TypeOK
    <2> QED
        BY <1>1, <1>3, <1>4, <1>6, <2>1, <2>2, <2>3 DEF Working, InStore, Filling
<1>10. CASE CheckLinked(p, h)
    <2>1. so' = so /\ from = "linked"
        BY <1>2, <1>10 DEF CheckLinked, Step, storeVars
    <2>2. PICK t \in {"ok", "object", "err"} :
              /\ task' = [task EXCEPT ![p][h] = t]
              /\ so[h] = NoFile \/ t = "ok"
        BY <1>10 DEF CheckLinked, Step
    <2>3. to = t
        BY <1>0, <1>3, <2>2 DEF TypeOK
    <2> QED
        BY <1>1, <1>3, <1>4, <1>5, <2>1, <2>2, <2>3 DEF Working, InStore, Filling
<1> QED
    BY <1>7, <1>8, <1>9, <1>10 DEF TaskStep

\* What a listing does: nothing that was published is compiled again.
LEMMA ListSkips ==
    ASSUME "listing" \notin Faults, BaseInv, NEW p \in Process, List(p)
    PROVE  /\ UNCHANGED <<storeVars, raceVars, lvl, tries, loaded>>
           /\ pc[p] = "asked" /\ pc'[p] = "compiling"
           /\ \A q \in Process \ {p} : pc'[q] = pc[q] /\ task'[q] = task[q]
           /\ \A h \in Hash : task'[p][h] = IF h \notin Wanted(p) THEN "unwanted"
                                            ELSE IF h \in dir THEN "skip" ELSE "todo"
<1>1. task' = [task EXCEPT ![p] =
                  [h \in Hash |-> IF h \notin Wanted(p) THEN "unwanted"
                                  ELSE IF h \in dir THEN "skip" ELSE "todo"]]
    BY DEF List, Compiled
<1> QED
    BY <1>1 DEF List, BaseInv, TypeOK

-----------------------------------------------------------------------------
\* Every step keeps what the refinement rests on.
LEMMA CacheNext ==
    ASSUME Alone, "listing" \notin Faults, BaseInv, NamedInv, CacheInv, [Next]_vars
    PROVE  CacheInv'
<1> USE StoreAssumption
<1>0. TypeOK /\ TasksFitPc
    BY DEF BaseInv
<1>1. CASE UNCHANGED vars
    BY <1>1 DEF CacheInv, ObjectsNamed, UnpublishedAtWork, ReadInv, Wanted,
        vars, storeVars, procVars, raceVars
<1>2. ASSUME NEW p \in Process, NEW h \in Hash, TaskStep(p, h)
      PROVE  CacheInv'
    <2>1. Process = {p}
        BY DEF Alone
    <2>2. ObjectsNamed'
        BY <1>2, TaskPublishes DEF CacheInv, ObjectsNamed
    <2>3. UnpublishedAtWork'
        <3>1. /\ \A g \in Hash \ {h} : so'[g] = so[g] /\ task'[p][g] = task[p][g]
              /\ task'[p][h] \in Working \ {"linked"} => so'[h] \notin Level
            BY <1>2, TaskPublishes
        <3> QED
            BY <2>1, <3>1 DEF CacheInv, UnpublishedAtWork
    <2>4. ReadInv'
        <3>1. UNCHANGED <<pc, loaded>> /\ pc[p] = "compiling"
            BY <1>2, TaskPublishes
        <3> QED
            BY <2>1, <3>1 DEF CacheInv, ReadInv
    <2> QED
        BY <2>2, <2>3, <2>4 DEF CacheInv
<1>3. ASSUME NEW p \in Process, NEW h \in Hash, Load(p, h)
      PROVE  CacheInv'
    <2>1. /\ pc[p] = "loading" /\ h \in Wanted(p)
          /\ UNCHANGED <<dir, so, pc, task>>
        BY <1>3 DEF Load, storeVars
    <2>2. PICK fn \in {NoFile} \cup {l \in Level : l = so[h]} :
              loaded' = [loaded EXCEPT ![p][h] = fn]
        BY <1>3 DEF Load
    <2>3. /\ loaded'[p][h] = fn
          /\ \A q \in Process, g \in Hash :
                q # p \/ g # h => loaded'[q][g] = loaded[q][g]
        BY <1>0, <2>2 DEF TypeOK
    <2> QED
        BY <2>1, <2>2, <2>3 DEF CacheInv, ObjectsNamed, UnpublishedAtWork, ReadInv, Wanted
<1>4. ASSUME NEW p \in Process, List(p)
      PROVE  CacheInv'
    <2>1. Process = {p}
        BY DEF Alone
    <2>2. /\ UNCHANGED <<dir, so, loaded>>
          /\ pc[p] = "asked" /\ pc'[p] = "compiling"
          /\ \A h \in Hash : task'[p][h] = IF h \notin Wanted(p) THEN "unwanted"
                                           ELSE IF h \in dir THEN "skip" ELSE "todo"
        BY <1>4, ListSkips DEF storeVars
    <2>3. \A h \in Hash : loaded[p][h] = Unread
        BY <2>2 DEF CacheInv, ReadInv
    <2> QED
        BY <2>1, <2>2, <2>3 DEF CacheInv, ObjectsNamed, UnpublishedAtWork, ReadInv,
            Working, InStore, Filling
<1>5. ASSUME NEW p \in Process, Collect(p) \/ Run(p)
      PROVE  CacheInv'
    <2>1. Process = {p}
        BY DEF Alone
    <2>2. /\ UNCHANGED <<dir, so, task, loaded>>
          /\ pc'[p] \notin {"loading", "running"} => pc[p] \notin {"loading", "running"}
        BY <1>0, <1>5 DEF Collect, Run, storeVars, TypeOK
    <2> QED
        BY <2>1, <2>2 DEF CacheInv, ObjectsNamed, UnpublishedAtWork, ReadInv, Wanted
<1>6. ASSUME NEW p \in Process,
             \/ \E wanted \in SUBSET Hash, l \in Level : Ask(p, wanted, l)
             \/ LoadAll(p)
      PROVE  CacheInv'
    <2>1. Process = {p}
        BY DEF Alone
    <2>2. UNCHANGED <<dir, so, loaded>> /\ pc[p] = "idle"
        BY <1>6 DEF Ask, LoadAll, storeVars
    <2>3. \A h \in Hash : loaded[p][h] = Unread
        BY <2>2 DEF CacheInv, ReadInv
    <2>4. \A h \in Hash : task'[p][h] \notin Working
        <3>1. CASE \E wanted \in SUBSET Hash, l \in Level : Ask(p, wanted, l)
            BY <1>0, <3>1 DEF Ask, TypeOK, Working, InStore, Filling
        <3>2. CASE LoadAll(p)
            <4>1. task' = [task EXCEPT ![p] =
                              [h \in Hash |-> IF h \in dir THEN "found" ELSE "unwanted"]]
                BY <3>2 DEF LoadAll
            <4> QED
                BY <1>0, <4>1 DEF TypeOK, Working, InStore, Filling
        <3> QED
            BY <1>6, <3>1, <3>2
    <2> QED
        BY <2>1, <2>2, <2>3, <2>4 DEF CacheInv, ObjectsNamed, UnpublishedAtWork, ReadInv
<1>7. ASSUME NEW p \in Process, Exit(p) \/ Crash(p)
      PROVE  CacheInv'
    <2>1. Process = {p}
        BY DEF Alone
    <2>2. UNCHANGED <<dir, so>>
        BY <1>7 DEF Exit, Crash, Gone, storeVars
    <2>3. \A h \in Hash : loaded'[p][h] = Unread /\ task'[p][h] = "unwanted"
        BY <1>0, <1>7 DEF Exit, Crash, Gone, TypeOK
    <2> QED
        BY <2>1, <2>2, <2>3 DEF CacheInv, ObjectsNamed, UnpublishedAtWork, ReadInv,
            Working, InStore, Filling
<1> QED
    BY <1>1, <1>2, <1>3, <1>4, <1>5, <1>6, <1>7 DEF Next, Progress

-----------------------------------------------------------------------------
\* The abstract state after a step that changes neither files nor requests,
\* and moves p from one place to another.
LEMMA MovesBar ==
    ASSUME BaseInv, NEW p \in Process, NEW to \in PcValues,
           pc' = [pc EXCEPT ![p] = to], so' = so
    PROVE  /\ StoreBar' = StoreBar
           /\ ClientBar' = [ClientBar EXCEPT ![p] =
                  IF to \in {"asked", "compiling", "loading"} THEN "waiting" ELSE to]
<1> QED
    BY DEF StoreBar, ClientBar, BaseInv, TypeOK

\* A step of a task is a publication, or changes nothing that can be seen.
LEMMA TaskRefines ==
    ASSUME BaseInv, NamedInv, CacheInv, NEW p \in Process, NEW h \in Hash, TaskStep(p, h)
    PROVE  Cache!Next \/ UNCHANGED Cache!cacheVars
<1>0. TypeOK
    BY DEF BaseInv
<1>1. /\ UNCHANGED <<pc, loaded>> /\ pc[p] = "compiling"
      /\ \A g \in Hash \ {h} : so'[g] = so[g]
      /\ \A q \in Process, g \in Hash : q # p \/ g # h => task'[q][g] = task[q][g]
      /\ task[p][h] # "unwanted" /\ task'[p][h] # "unwanted"
      /\ \/ so'[h] = so[h]
         \/ so[h] \notin Level /\ so'[h] \in Level \cup {NoFile, Partial}
    BY TaskPublishes
<1>2. ClientBar' = ClientBar /\ GotBar' = GotBar
    BY <1>1 DEF ClientBar, GotBar
<1>3. WantedBar' = WantedBar
    BY <1>1 DEF WantedBar, Wanted
<1>4. CASE StoreBar' = StoreBar
    BY <1>2, <1>3, <1>4 DEF Cache!cacheVars, StoreBar, ClientBar, WantedBar, GotBar
<1>5. CASE StoreBar' # StoreBar
    <2>1. so[h] \notin Level /\ \E l \in Level : so'[h] = l
        BY <1>1, <1>5 DEF StoreBar
    <2> PICK l \in Level : so'[h] = l
        BY <2>1
    <2>2. StoreBar[h] = NoFile /\ StoreBar' = [StoreBar EXCEPT ![h] = l]
        BY <1>1, <2>1 DEF StoreBar
    <2>3. ClientBar[p] = "waiting" /\ h \in WantedBar[p]
        BY <1>1 DEF ClientBar, WantedBar, Wanted
    <2>4. Cache!Publish(p, h, l)
        BY <1>2, <1>3, <2>2, <2>3 DEF Cache!Publish, StoreBar, ClientBar, WantedBar, GotBar
    <2> QED
        BY <2>4 DEF Cache!Next
<1> QED
    BY <1>4, <1>5

\* A request is one, whether the process will compile or only load.
LEMMA AskRefines ==
    ASSUME "listing" \notin Faults, BaseInv, NEW p \in Process,
           \/ \E wanted \in SUBSET Hash, l \in Level : Ask(p, wanted, l)
           \/ LoadAll(p)
    PROVE  Cache!Next
<1>0. TypeOK
    BY DEF BaseInv
<1>1. PICK hs \in SUBSET Hash, kind \in {"asked", "found"} :
         task' = [task EXCEPT ![p] = [h \in Hash |-> IF h \in hs THEN kind ELSE "unwanted"]]
    <2>1. CASE \E wanted \in SUBSET Hash, l \in Level : Ask(p, wanted, l)
        BY <2>1 DEF Ask
    <2>2. CASE LoadAll(p)
        BY <1>0, <2>2 DEF LoadAll, TypeOK
    <2> QED
        BY <2>1, <2>2
<1>2. /\ UNCHANGED <<storeVars, loaded>> /\ pc[p] = "idle"
      /\ \E to \in {"asked", "loading"} : pc' = [pc EXCEPT ![p] = to]
    BY DEF Ask, LoadAll
<1>3. PICK to \in {"asked", "loading"} : pc' = [pc EXCEPT ![p] = to]
    BY <1>2
<1>4. /\ StoreBar' = StoreBar
      /\ ClientBar' = [ClientBar EXCEPT ![p] = "waiting"]
    BY <1>2, <1>3, MovesBar DEF PcValues, storeVars
<1>5. ClientBar[p] = "idle"
    BY <1>2 DEF ClientBar
<1>6. WantedBar' = [WantedBar EXCEPT ![p] = hs]
    BY <1>0, <1>1 DEF WantedBar, Wanted, TypeOK
<1>7. GotBar' = GotBar
    BY <1>0, <1>2, <1>3 DEF GotBar, TypeOK
<1>8. Cache!Ask(p, hs)
    BY <1>4, <1>5, <1>6, <1>7 DEF Cache!Ask, StoreBar, ClientBar, WantedBar, GotBar
<1> QED
    BY <1>8 DEF Cache!Next

\* Listing, reading and collecting without an error cannot be seen;
\* collecting an error refuses.
LEMMA WorkRefines ==
    ASSUME "listing" \notin Faults, BaseInv, NEW p \in Process,
           List(p) \/ Collect(p) \/ \E h \in Hash : Load(p, h)
    PROVE  Cache!Next \/ UNCHANGED Cache!cacheVars
<1>0. TypeOK
    BY DEF BaseInv
<1>1. WantedBar' = WantedBar
    <2>1. CASE List(p)
        <3>1. /\ \A q \in Process \ {p} : task'[q] = task[q]
              /\ \A h \in Hash : task'[p][h] = "unwanted" <=> h \notin Wanted(p)
            BY <2>1, ListSkips
        <3>2. \A q \in Process, h \in Hash :
                 task'[q][h] = "unwanted" <=> task[q][h] = "unwanted"
            BY <3>1 DEF Wanted
        <3> QED
            BY <3>2 DEF WantedBar, Wanted
    <2>2. CASE task' = task
        BY <2>2 DEF WantedBar, Wanted
    <2> QED
        BY <2>1, <2>2 DEF Collect, Load
<1>2. CASE \E h \in Hash : Load(p, h)
    <2>1. /\ UNCHANGED <<storeVars, pc>> /\ pc[p] = "loading"
          /\ \A q \in Process \ {p} : loaded'[q] = loaded[q]
        BY <1>0, <1>2 DEF Load, TypeOK
    <2> QED
        BY <1>1, <2>1 DEF Cache!cacheVars, storeVars, StoreBar, ClientBar, WantedBar, GotBar
<1>3. CASE List(p) \/ Collect(p)
    <2>1. PICK to \in {"compiling", "loading", "failed"} :
              /\ pc' = [pc EXCEPT ![p] = to]
              /\ UNCHANGED <<storeVars, loaded>>
              /\ pc[p] \in {"asked", "compiling"}
        BY <1>3 DEF List, Collect
    <2>2. ClientBar[p] = "waiting"
        BY <2>1 DEF ClientBar
    <2>3. GotBar' = GotBar
        BY <1>0, <2>1 DEF GotBar, TypeOK
    <2>4. StoreBar' = StoreBar
        BY <2>1 DEF StoreBar, storeVars
    <2>5. CASE to = "failed"
        <3>1. ClientBar' = [ClientBar EXCEPT ![p] = "failed"]
            BY <2>1, <2>5, MovesBar DEF PcValues, storeVars
        <3>2. Cache!Refuse(p)
            BY <1>1, <2>2, <2>3, <2>4, <3>1
            DEF Cache!Refuse, StoreBar, ClientBar, WantedBar, GotBar
        <3> QED
            BY <3>2 DEF Cache!Next
    <2>6. CASE to # "failed"
        <3>1. ClientBar' = ClientBar
            BY <1>0, <2>1, <2>6 DEF ClientBar, TypeOK
        <3> QED
            BY <1>1, <2>3, <2>4, <3>1
            DEF Cache!cacheVars, StoreBar, ClientBar, WantedBar, GotBar
    <2> QED
        BY <2>5, <2>6
<1> QED
    BY <1>2, <1>3

\* Running answers with published functions.
LEMMA RunRefines ==
    ASSUME BaseInv, CacheInv, NEW p \in Process, Run(p)
    PROVE  Cache!Next
<1> USE StoreAssumption
<1>0. TypeOK
    BY DEF BaseInv
<1> PICK f \in [Hash -> Level \cup {NoFile}] :
        f = [h \in Hash |-> IF loaded[p][h] = Unread THEN NoFile ELSE loaded[p][h]]
    <2>1. [h \in Hash |-> IF loaded[p][h] = Unread THEN NoFile ELSE loaded[p][h]]
             \in [Hash -> Level \cup {NoFile}]
        BY <1>0 DEF TypeOK
    <2> QED
        BY <2>1
<1>1. /\ pc[p] = "loading" /\ pc' = [pc EXCEPT ![p] = "running"]
      /\ UNCHANGED <<storeVars, task, loaded>>
    BY DEF Run
<1>2. StoreBar' = StoreBar /\ ClientBar' = [ClientBar EXCEPT ![p] = "running"]
    BY <1>1, MovesBar DEF PcValues, storeVars
<1>3. ClientBar[p] = "waiting"
    BY <1>1 DEF ClientBar
<1>4. WantedBar' = WantedBar
    BY <1>1 DEF WantedBar, Wanted
<1>5. GotBar' = [GotBar EXCEPT ![p] = f]
    BY <1>0, <1>1 DEF GotBar, TypeOK
<1>6. \A h \in Hash : f[h] # NoFile => h \in WantedBar[p] /\ f[h] = StoreBar[h]
    BY <1>0 DEF CacheInv, ReadInv, TypeOK, WantedBar, StoreBar
<1>7. Cache!Answer(p, f)
    BY <1>2, <1>3, <1>4, <1>5, <1>6
    DEF Cache!Answer, StoreBar, ClientBar, WantedBar, GotBar
<1> QED
    BY <1>7 DEF Cache!Next

\* However a process ends, it leaves the store as it is.
LEMMA GoneRefines ==
    ASSUME BaseInv, NEW p \in Process, Exit(p) \/ Crash(p)
    PROVE  Cache!Next
<1>0. TypeOK
    BY DEF BaseInv
<1>1. /\ pc[p] # "idle" /\ pc' = [pc EXCEPT ![p] = "idle"]
      /\ task' = [task EXCEPT ![p] = [h \in Hash |-> "unwanted"]]
      /\ loaded' = [loaded EXCEPT ![p] = [h \in Hash |-> Unread]]
      /\ UNCHANGED storeVars
    BY DEF Exit, Crash, Gone
<1>2. StoreBar' = StoreBar /\ ClientBar' = [ClientBar EXCEPT ![p] = "idle"]
    BY <1>1, MovesBar DEF PcValues, storeVars
<1>3. ClientBar[p] # "idle"
    BY <1>1 DEF ClientBar
<1>4. WantedBar' = [WantedBar EXCEPT ![p] = {}]
    BY <1>0, <1>1 DEF WantedBar, Wanted, TypeOK
<1>5. GotBar' = [GotBar EXCEPT ![p] = [h \in Hash |-> NoFile]]
    BY <1>0, <1>1 DEF GotBar, TypeOK
<1>6. Cache!Leave(p)
    BY <1>2, <1>3, <1>4, <1>5
    DEF Cache!Leave, Cache!Nothing, StoreBar, ClientBar, WantedBar, GotBar
<1> QED
    BY <1>6 DEF Cache!Next

\* A process alone with a directory that can be listed keeps the promise of
\* a write-once cache, wherever its work fails or it dies, and whatever the
\* linker leaves: what was published stays as it is, and what is executed
\* for a contract that was asked for is what was published, or nothing.
THEOREM StoreIsCache ==
    ASSUME Alone, "listing" \notin Faults
    PROVE  Spec => ImplementsCache
<1> USE StoreAssumption
<1>1. Init => NamedInv /\ CacheInv
    BY DEF Init, NamedInv, CacheInv, ObjectsNamed, UnpublishedAtWork, ReadInv,
        InStore, Filling, Working
<1>2. Init => Cache!Init
    BY DEF Init, Cache!Init, Cache!Nothing, Wanted
<1>3. BaseInv /\ NamedInv /\ CacheInv /\ [Next]_vars => NamedInv' /\ CacheInv'
    BY NamedNext, CacheNext
<1>4. ASSUME BaseInv, NamedInv, CacheInv, [Next]_vars
      PROVE  [Cache!Next]_(Cache!cacheVars)
    <2>1. CASE UNCHANGED vars
        BY <2>1 DEF vars, storeVars, procVars, raceVars, Cache!cacheVars, Wanted
    <2>2. CASE Next
        BY <1>4, <2>2, TaskRefines, AskRefines, WorkRefines, RunRefines, GoneRefines
        DEF Next, Progress
    <2> QED
        BY <1>4, <2>1, <2>2
<1> QED
    BY <1>1, <1>2, <1>3, <1>4, BaseAlways, PTL DEF Spec, ImplementsCache, Cache!Spec
=============================================================================
