------------------------------ MODULE AotStore ------------------------------
(***************************************************************************)
(* The directory of ahead-of-time compiled contracts, and the processes    *)
(* that fill it and load from it.                                          *)
(*                                                                         *)
(* A process of the bencher asks for a set of contracts                    *)
(* (make_compiled_fns).  It lists the directory once, compiles in parallel *)
(* what the listing lacks (compile_contracts_aot, one task per contract),  *)
(* fails if any task failed, and otherwise loads the shared objects        *)
(* (load_selected); a contract whose object does not load is dropped with  *)
(* a log line and will be interpreted.  The directory outlives the         *)
(* process, and several processes may use it at once.                      *)
(*                                                                         *)
(* A contract is the model value of its bytecode hash, an object file is   *)
(* the optimization level it was compiled at.                              *)
(***************************************************************************)
EXTENDS Naturals, FiniteSets

CONSTANTS
    Hash,           \* bytecode hashes, the names of the entries
    Process,        \* processes that share the output directory
    Level,          \* optimization levels
    LinkAttempts,   \* attempts of the linking loop, 10 in the code
    MaxSilent,      \* attempts in which the linker may leave no file and no error
    NoLink,         \* CompilerOptions::no_link
    Faults,         \* what the environment may do to a process
    NoFile,         \* no such file
    Partial,        \* a file that was opened and not finished, or mixed by two writers
    Unread          \* the loader has not come to this contract yet

\* The faults the environment may inject, by the call that meets them.
FaultKinds == {"listing", "translate", "mkdir", "object", "link", "load", "crash"}

ASSUME StoreAssumption ==
    /\ LinkAttempts \in Nat \ {0}
    /\ MaxSilent \in Nat
    /\ NoLink \in BOOLEAN
    /\ Faults \subseteq FaultKinds
    /\ NoFile \notin Level
    /\ Partial \notin Level
    /\ Unread \notin Level
    /\ NoFile # Partial
    /\ Unread # NoFile

VARIABLES
    dir,        \* the entries (directories named by a hash) that exist
    obj,        \* obj[h]: <h>/<h>.o
    so,         \* so[h]: <h>/a.so
    pc,         \* where process p is
    lvl,        \* the optimization level p was started with
    task,       \* task[p][h]: the compilation of h in p
    tries,      \* tries[p][h]: linking attempts p has used on h
    loaded,     \* loaded[p][h]: the function p executes for h
    torn,       \* torn[p]: contracts whose object another process rewrites
                \* while p writes it or its linker reads it
    suspect     \* history, read by no action: the entries in which a task
                \* failed or died, or which two processes filled at once

storeVars == <<dir, obj, so>>
procVars  == <<pc, lvl, task, tries, loaded>>
raceVars  == <<torn, suspect>>
vars      == <<storeVars, procVars, raceVars>>

PcValues == {"idle", "asked", "compiling", "loading", "running", "failed"}

\* unwanted: p did not ask for h.  skip: the listing had h already.  found:
\* load_all saw the name of h.
TaskValues == {"unwanted", "asked", "skip", "found", "todo", "translated", "made",
               "writing", "object", "linking", "linked", "ok", "err"}
Filling  == {"writing", "object", "linking", "linked"}  \* tasks at the entry's files
InStore  == Filling \cup {"made"}                       \* tasks that made the entry
Working  == InStore \cup {"todo", "translated"}

Wanted(p) == {h \in Hash : task[p][h] # "unwanted"}

TypeOK ==
    /\ dir \subseteq Hash
    /\ obj \in [Hash -> Level \cup {NoFile, Partial}]
    /\ so \in [Hash -> Level \cup {NoFile, Partial}]
    /\ pc \in [Process -> PcValues]
    /\ lvl \in [Process -> Level]
    /\ task \in [Process -> [Hash -> TaskValues]]
    /\ tries \in [Process -> [Hash -> 0 .. LinkAttempts]]
    /\ loaded \in [Process -> [Hash -> Level \cup {NoFile, Unread}]]
    /\ torn \in [Process -> SUBSET Hash]
    /\ suspect \subseteq Hash

Init ==
    /\ dir = {}
    /\ obj = [h \in Hash |-> NoFile]
    /\ so = [h \in Hash |-> NoFile]
    /\ pc = [p \in Process |-> "idle"]
    /\ lvl \in [Process -> Level]
    /\ task = [p \in Process |-> [h \in Hash |-> "unwanted"]]
    /\ tries = [p \in Process |-> [h \in Hash |-> 0]]
    /\ loaded = [p \in Process |-> [h \in Hash |-> Unread]]
    /\ torn = [p \in Process |-> {}]
    /\ suspect = {}

-----------------------------------------------------------------------------
(* One process: ask, list, then compile, then load, then run.              *)

\* make_compiled_fns is called for some contracts, at some level.
Ask(p, wanted, l) ==
    /\ pc[p] = "idle"
    /\ pc' = [pc EXCEPT ![p] = "asked"]
    /\ lvl' = [lvl EXCEPT ![p] = l]
    /\ task' = [task EXCEPT ![p] =
                    [h \in Hash |-> IF h \in wanted THEN "asked" ELSE "unwanted"]]
    /\ UNCHANGED <<storeVars, raceVars, tries, loaded>>

\* load_all, the other entry of the loader: whatever has a name is loaded,
\* nothing is compiled.  Unlike load_compiled it gives up on a directory that
\* cannot be listed, or holds a name that is not a hash.
LoadAll(p) ==
    /\ pc[p] = "idle"
    /\ \/ /\ pc' = [pc EXCEPT ![p] = "loading"]
          /\ task' = [task EXCEPT ![p] =
                          [h \in Hash |-> IF h \in dir THEN "found" ELSE "unwanted"]]
       \/ /\ "listing" \in Faults
          /\ pc' = [pc EXCEPT ![p] = "failed"]
          /\ UNCHANGED task
    /\ UNCHANGED <<storeVars, raceVars, lvl, tries, loaded>>

\* Mutant of List: it keeps only the entries that hold a shared object.
ListObjects(p) ==
    /\ pc[p] = "asked"
    /\ task' = [task EXCEPT ![p] =
                   [h \in Hash |-> IF h \notin Wanted(p) THEN "unwanted"
                                   ELSE IF so[h] \in Level THEN "skip" ELSE "todo"]]
    /\ pc' = [pc EXCEPT ![p] = "compiling"]
    /\ UNCHANGED <<storeVars, raceVars, lvl, tries, loaded>>

\* Mutant of List: nothing is skipped, every run compiles and links again.
ListNothing(p) ==
    /\ pc[p] = "asked"
    /\ task' = [task EXCEPT ![p] =
                   [h \in Hash |-> IF h \in Wanted(p) THEN "todo" ELSE "unwanted"]]
    /\ pc' = [pc EXCEPT ![p] = "compiling"]
    /\ UNCHANGED <<storeVars, raceVars, lvl, tries, loaded>>

\* Mutant of List: the filter lacks its negation.
ListInverted(p) ==
    /\ pc[p] = "asked"
    /\ task' = [task EXCEPT ![p] =
                   [h \in Hash |-> IF h \notin Wanted(p) THEN "unwanted"
                                   ELSE IF h \in dir THEN "todo" ELSE "skip"]]
    /\ pc' = [pc EXCEPT ![p] = "compiling"]
    /\ UNCHANGED <<storeVars, raceVars, lvl, tries, loaded>>

\* load_compiled reads the names in the directory; the listing error of
\* unwrap_or_default is an empty listing.  The filter then drops every
\* contract that has a name there, whatever the entry holds.
Compiled == {dir} \cup IF "listing" \in Faults THEN {{}} ELSE {}

List(p) ==
    /\ pc[p] = "asked"
    /\ \E compiled \in Compiled :
          task' = [task EXCEPT ![p] =
                      [h \in Hash |-> IF h \notin Wanted(p) THEN "unwanted"
                                      ELSE IF h \in compiled THEN "skip" ELSE "todo"]]
    /\ pc' = [pc EXCEPT ![p] = "compiling"]
    /\ UNCHANGED <<storeVars, raceVars, lvl, tries, loaded>>

\* Another process has its task of h at one of these places.
AlsoAt(p, h, places) == \E q \in Process \ {p} : task[q][h] \in places

\* A step of the task of h in p.  The entry becomes suspect when the task
\* fails in it, or comes to write where another process is at work.
Step(p, h, from, to) ==
    /\ pc[p] = "compiling"
    /\ task[p][h] = from
    /\ task' = [task EXCEPT ![p][h] = to]
    /\ suspect' = suspect \cup {g \in {h} \cap dir' :
                      to = "err" \/ (to = "writing" /\ AlsoAt(p, h, Filling))}
    /\ UNCHANGED <<pc, lvl, loaded>>

\* create_compiler and translate; the library's dump goes to a directory
\* named like the entry, so the entry may exist from here on, whether the
\* translation succeeds or fails.
Translate(p, h) ==
    /\ dir' \in {dir, dir \cup {h}}
    /\ \/ Step(p, h, "todo", "translated")
       \/ "translate" \in Faults /\ Step(p, h, "todo", "err")
    /\ UNCHANGED <<obj, so, torn, tries>>

\* out_dir: the entry exists from here on.
MakeDir(p, h) ==
    /\ \/ dir' = dir \cup {h} /\ Step(p, h, "translated", "made")
       \/ /\ "mkdir" \in Faults /\ h \notin dir
          /\ UNCHANGED dir /\ Step(p, h, "translated", "err")
    /\ UNCHANGED <<obj, so, torn, tries>>

\* write_precompiled_obj opens the object in place: from here on its former
\* content is lost to a linker that reads it and mixed with what another
\* process is writing to it.
OpenObject(p, h) ==
    /\ UNCHANGED <<dir, so, tries>>
    /\ \/ /\ Step(p, h, "made", "writing")
          /\ obj' = [obj EXCEPT ![h] = Partial]
          /\ torn' = [q \in Process |->
                         IF \/ q # p /\ task[q][h] \in {"writing", "linking"}
                            \/ q = p /\ AlsoAt(p, h, {"writing"})
                         THEN torn[q] \cup {h} ELSE torn[q]]
       \/ /\ "object" \in Faults
          /\ Step(p, h, "made", "err")
          /\ UNCHANGED <<obj, torn>>

\* What comes of a file: what it should be, or, when it was torn, any of its
\* versions or a mixture.
Outcomes(p, h, whole) ==
    {whole} \cup IF h \in torn[p] THEN Level \cup {Partial} ELSE {}

\* ... and has written it, which ends the task when nothing is linked.
WriteObject(p, h) ==
    /\ UNCHANGED <<dir, so, tries>>
    /\ \/ /\ Step(p, h, "writing", IF NoLink THEN "ok" ELSE "object")
          /\ \E written \in Outcomes(p, h, lvl[p]) :
                obj' = [obj EXCEPT ![h] = written]
       \/ /\ "object" \in Faults
          /\ Step(p, h, "writing", "err")
          /\ UNCHANGED obj
    /\ torn' = [torn EXCEPT ![p] = @ \ {h}]

\* One turn of the loop in link: the linker opens its output, and its input,
\* which another process may be writing ...
LinkStart(p, h) ==
    /\ UNCHANGED <<dir, obj, tries>>
    /\ Step(p, h, "object", "linking")
    /\ so' = [so EXCEPT ![h] = Partial]
    /\ torn' = [torn EXCEPT ![p] =
                   IF obj[h] \in Level /\ ~AlsoAt(p, h, {"writing"})
                   THEN @ \ {h} ELSE @ \cup {h}]

\* Mutant of LinkReturn: the error of the linker is dropped and the loop goes
\* on to look for the file.
LinkErrorIgnored(p, h) ==
    /\ UNCHANGED <<dir, obj, tries>>
    /\ Step(p, h, "linking", "linked")
    /\ \/ \E written \in Outcomes(p, h, obj[h])
                            \cup IF AlsoAt(p, h, {"linking"}) THEN {Partial} ELSE {} :
             so' = [so EXCEPT ![h] = written]
       \/ /\ tries[p][h] < MaxSilent
          /\ so' = [so EXCEPT ![h] = IF @ = Partial THEN NoFile ELSE @]
       \/ /\ "link" \in Faults \/ h \in torn[p]
          /\ so' \in {so, [so EXCEPT ![h] = NoFile]}
    /\ torn' = [torn EXCEPT ![p] = @ \ {h}]

\* ... and returns: with the file written (unless another linker is still
\* writing to the same path, or the object was torn), without a file and
\* without an error, or with an error that ends the task.
LinkReturn(p, h) ==
    /\ UNCHANGED <<dir, obj, tries>>
    /\ \/ /\ Step(p, h, "linking", "linked")
          /\ \E written \in Outcomes(p, h, obj[h])
                               \cup IF AlsoAt(p, h, {"linking"}) THEN {Partial} ELSE {} :
                so' = [so EXCEPT ![h] = written]
       \/ /\ tries[p][h] < MaxSilent
          /\ Step(p, h, "linking", "linked")
          /\ so' = [so EXCEPT ![h] = IF @ = Partial THEN NoFile ELSE @]
       \/ /\ "link" \in Faults \/ h \in torn[p]
          /\ Step(p, h, "linking", "err")
          /\ so' \in {so, [so EXCEPT ![h] = NoFile]}
    /\ torn' = [torn EXCEPT ![p] = @ \ {h}]

\* Mutant of CheckLinked: it takes the linker's word for the file.
CheckNothing(p, h) ==
    /\ UNCHANGED <<storeVars, torn, tries>>
    /\ Step(p, h, "linked", "ok")

\* Mutant of CheckLinked: the turns are not counted.
CheckUncounted(p, h) ==
    /\ UNCHANGED <<storeVars, torn, tries>>
    /\ Step(p, h, "linked", IF so[h] # NoFile THEN "ok" ELSE "object")

\* Mutant of CheckLinked: one turn too many is counted.
CheckOnceMore(p, h) ==
    /\ UNCHANGED <<storeVars, torn>>
    /\ IF so[h] # NoFile
       THEN Step(p, h, "linked", "ok") /\ UNCHANGED tries
       ELSE /\ Step(p, h, "linked", IF tries[p][h] < LinkAttempts THEN "object" ELSE "err")
            /\ tries' = [tries EXCEPT ![p][h] = @ + 1]

\* so.exists() ends the loop; without it the turn is slept off and counted.
CheckLinked(p, h) ==
    /\ UNCHANGED <<storeVars, torn>>
    /\ IF so[h] # NoFile
       THEN Step(p, h, "linked", "ok") /\ UNCHANGED tries
       ELSE /\ Step(p, h, "linked",
                    IF tries[p][h] + 1 < LinkAttempts THEN "object" ELSE "err")
            /\ tries' = [tries EXCEPT ![p][h] = @ + 1]

\* Mutant of Collect: the tasks that failed are left out instead of failing
\* the process.
CollectTheRest(p) ==
    /\ pc[p] = "compiling"
    /\ \A h \in Hash : task[p][h] \notin Working
    /\ pc' = [pc EXCEPT ![p] = "loading"]
    /\ UNCHANGED <<storeVars, raceVars, lvl, task, tries, loaded>>

\* All tasks of the parallel iterator have ended; collect::<Result<_>>()?
\* gives up if one of them failed.
Collect(p) ==
    /\ pc[p] = "compiling"
    /\ \A h \in Hash : task[p][h] \notin Working
    /\ pc' = [pc EXCEPT ![p] =
                 IF \E h \in Hash : task[p][h] = "err" THEN "failed" ELSE "loading"]
    /\ UNCHANGED <<storeVars, raceVars, lvl, task, tries, loaded>>

\* EvmCompilerFnLoader::load for one contract; load_selected keeps the rest.
Load(p, h) ==
    /\ pc[p] = "loading"
    /\ h \in Wanted(p)
    /\ loaded[p][h] = Unread
    /\ \E fn \in {IF so[h] \in Level THEN so[h] ELSE NoFile}
                   \cup IF "load" \in Faults THEN {NoFile} ELSE {} :
          loaded' = [loaded EXCEPT ![p][h] = fn]
    /\ UNCHANGED <<storeVars, raceVars, pc, lvl, task, tries>>

\* load_selected returns and the execution context is built.
Run(p) ==
    /\ pc[p] = "loading"
    /\ \A h \in Wanted(p) : loaded[p][h] # Unread
    /\ pc' = [pc EXCEPT ![p] = "running"]
    /\ UNCHANGED <<storeVars, raceVars, lvl, task, tries, loaded>>

\* The process is gone; only the directory is left of it.  What it was still
\* filling becomes suspect.
Gone(p) ==
    /\ pc' = [pc EXCEPT ![p] = "idle"]
    /\ task' = [task EXCEPT ![p] = [h \in Hash |-> "unwanted"]]
    /\ tries' = [tries EXCEPT ![p] = [h \in Hash |-> 0]]
    /\ loaded' = [loaded EXCEPT ![p] = [h \in Hash |-> Unread]]
    /\ torn' = [torn EXCEPT ![p] = {}]
    /\ suspect' = suspect \cup {h \in dir : task[p][h] \in Working}
    /\ UNCHANGED <<storeVars, lvl>>

Exit(p)  == pc[p] \in {"running", "failed"} /\ Gone(p)
Crash(p) == "crash" \in Faults /\ pc[p] # "idle" /\ Gone(p)

-----------------------------------------------------------------------------
TaskStep(p, h) ==
    \/ Translate(p, h) \/ MakeDir(p, h) \/ OpenObject(p, h) \/ WriteObject(p, h)
    \/ LinkStart(p, h) \/ LinkReturn(p, h) \/ CheckLinked(p, h)

\* What a process does on its own, once it was asked.
Progress(p) ==
    \/ List(p) \/ Collect(p) \/ Run(p)
    \/ \E h \in Hash : TaskStep(p, h) \/ Load(p, h)

Next ==
    \E p \in Process :
        \/ \E wanted \in SUBSET Hash, l \in Level : Ask(p, wanted, l)
        \/ LoadAll(p)
        \/ Progress(p)
        \/ Exit(p)
        \/ Crash(p)

Spec == Init /\ [][Next]_vars

FairSpec == Spec /\ \A p \in Process : WF_vars(Progress(p))

-----------------------------------------------------------------------------
(* Properties.                                                             *)

\* An entry that no task will finish and that holds no shared object.
Poisoned(h) ==
    /\ h \in dir
    /\ so[h] \notin Level
    /\ \A p \in Process : task[p][h] \notin Working

\* An entry of the directory is left half made only if a task failed in it or
\* died in it, or two processes came to write its object and its shared
\* object at once.  The rest of what goes on between processes does no harm:
\* both translating and making the entry, one listing it half made, one
\* failing or loading while the other fills it, silent linkers that come
\* round in time.  An error of compile_aot that got lost on its way would
\* leave an entry half made without a reason.
PoisonExplained == \A h \in Hash : Poisoned(h) => h \in suspect

\* make_compiled_fns with the `selected` contracts: once the process
\* executes, each contract it asked for runs compiled.  The listing looks at
\* names only and the loader drops what does not load, so this needs every
\* name in the directory to have a shared object behind it.
SelectedAreCompiled ==
    \A p \in Process : pc[p] = "running" =>
        \A h \in Wanted(p) : task[p][h] # "found" => loaded[p][h] \in Level

\* When a process alone on the directory interprets a contract it asked for
\* (load_selected dropped it with a log line), an earlier process died or
\* failed in that entry: the loss is never new, and it is there to be seen.
InterpretedArePoisoned ==
    \A p \in Process : pc[p] = "running" =>
        \A h \in Wanted(p) : loaded[p][h] = NoFile => Poisoned(h)

\* A process executes only when each contract it set out to compile was
\* compiled and linked, whatever earlier runs left in the directory: a task
\* ends well only with the object it linked in place (link's loop), at its
\* process's own level, and one task that failed keeps the process from
\* loading anything (collect::<Result<_>>()? before load_selected).
FreshIsLoaded ==
    \A p \in Process : pc[p] = "running" =>
        \A h \in Hash : task[p][h] \notin {"unwanted", "skip", "found"} =>
            task[p][h] = "ok" /\ loaded[p][h] = lvl[p]

\* The contracts a process executes compiled, it executes at the level it
\* was started with (bench --comp-opt-level).
LoadedAtRequestedLevel ==
    \A p \in Process : pc[p] = "running" =>
        \A h \in Wanted(p) : loaded[p][h] \in Level => loaded[p][h] = lvl[p]

\* The directory does not heal: the filter of compile_contracts_aot takes a
\* poisoned entry for a compiled one in every later run.
StaysPoisoned == [][\A h \in Hash : Poisoned(h) => Poisoned(h)']_vars

\* Whoever asks is answered, by a run or by an error: the linking loop gives
\* up, and no process waits on another one's entry.
Answered ==
    \A p \in Process :
        pc[p] \in {"asked", "compiling", "loading"} ~> pc[p] \in {"running", "failed"}

\* What users of the directory rely on: a store whose entries are published
\* once and never change, and runs that execute published functions only.
Cache == INSTANCE WriteOnceCache WITH
    Absent <- NoFile,
    store  <- [h \in Hash |-> IF so[h] \in Level THEN so[h] ELSE NoFile],
    client <- [p \in Process |-> IF pc[p] \in {"asked", "compiling", "loading"}
                                 THEN "waiting" ELSE pc[p]],
    wanted <- [p \in Process |-> Wanted(p)],
    got    <- [p \in Process |-> IF pc[p] = "running"
                                 THEN [h \in Hash |-> IF loaded[p][h] = Unread
                                                      THEN NoFile ELSE loaded[p][h]]
                                 ELSE [h \in Hash |-> NoFile]]

ImplementsCache == Cache!Spec
=============================================================================
