----------------------------- MODULE JitContext -----------------------------
(***************************************************************************)
(* Compilation in memory (JIT) and the ownership of what it leaves there.  *)
(*                                                                         *)
(* compile_contracts_jit cuts the contracts into chunks and compiles the   *)
(* chunks in parallel (compile_jit_many).  A chunk leaks an LLVM context   *)
(* and, when it succeeds, a compiler that borrows from it; a PtrWrapper    *)
(* takes both and frees them when it is dropped.  The results are reduced  *)
(* in parallel; an error drops the other side.  The functions are raw      *)
(* pointers into the memory of their chunk's compiler: each entry of the   *)
(* table carries a reference to all wrappers (ReferenceDropObject), and    *)
(* the execution contexts (RevmcExtCtx) share the table.                   *)
(***************************************************************************)
EXTENDS Naturals, Sequences

CONSTANTS
    Contract,       \* bytecode hashes
    MaxArgs,        \* the longest list of contracts
    ChunkSize,      \* contracts per chunk, 10 in the code
    Handle,         \* values of RevmcExtCtx that share the functions
    Nothing         \* no function is being executed

ASSUME JitAssumption ==
    /\ MaxArgs \in Nat
    /\ ChunkSize \in Nat \ {0}
    /\ Handle # {}

Chunk == 1 .. MaxArgs

ASSUME NothingAssumption == Nothing \notin Chunk

VARIABLES
    args,       \* the contracts to compile; an address each, so codes may repeat
    pc,         \* where the caller of compile_contracts_jit is
    stage,      \* stage[c]: how far compile_jit_many is for chunk c
    context,    \* context[c]: the leaked LLVM context of c
    compiler,   \* compiler[c]: its EvmCompiler
    drop,       \* drop[c]: what the destructor of c's PtrWrapper frees next
    parts,      \* partial results of the reduction
    table,      \* the entries of EvmCompilerFns: a contract and its function's chunk
    arc,        \* the chunks in the JitCompileCtx that the entries share
    holder,     \* holder[x]: whether the execution context x exists
    callee      \* callee[x]: the chunk of the function x executes

chunkVars == <<stage, context, compiler>>
tableVars == <<table, arc>>
callVars  == <<holder, callee>>
vars == <<args, pc, chunkVars, drop, parts, tableVars, callVars>>

Memory == {"none", "live", "freed"}

\* What a Result<JitCompileOut> of consecutive chunks holds: the functions
\* (`entries`) and the wrappers (`ctx`), nothing of either in an error.
Out == [first : Nat, last : Nat, ok : BOOLEAN,
        entries : SUBSET (Contract \X Chunk), ctx : SUBSET Chunk]

\* The values of `context` and `compiler` leave Memory when something is
\* freed twice.
TypeOK ==
    /\ pc \in {"compiling", "running", "dropping", "failed"}
    /\ stage \in [Chunk -> {"todo", "context", "compiler", "translated", "ok", "err"}]
    /\ context \in [Chunk -> Memory]
    /\ compiler \in [Chunk -> Memory]
    /\ drop \in [Chunk -> {"no", "compiler", "context", "done"}]
    /\ parts \subseteq Out
    /\ table \subseteq Contract \X Chunk
    /\ arc \subseteq Chunk
    /\ holder \in [Handle -> BOOLEAN]
    /\ callee \in [Handle -> Chunk \cup {Nothing}]

Init ==
    /\ args \in UNION {[1 .. n -> Contract] : n \in 0 .. MaxArgs}
    /\ pc = "compiling"
    /\ stage = [c \in Chunk |-> "todo"]
    /\ context = [c \in Chunk |-> "none"]
    /\ compiler = [c \in Chunk |-> "none"]
    /\ drop = [c \in Chunk |-> "no"]
    /\ parts = {}
    /\ table = {}
    /\ arc = {}
    /\ holder = [x \in Handle |-> FALSE]
    /\ callee = [x \in Handle |-> Nothing]

\* par_chunks: the positions of chunk c, the last of them may be missing.
Positions(c) == {i \in DOMAIN args : (c - 1) * ChunkSize < i /\ i <= c * ChunkSize}
Chunks == {c \in Chunk : Positions(c) # {}}

Freed(m) == IF m = "live" THEN "freed" ELSE "freed twice"

-----------------------------------------------------------------------------
(* compile_jit_many, for one chunk.                                        *)

\* Box::leak of the context; from here on no owner frees it.
MakeContext(c) ==
    /\ stage[c] = "todo"
    /\ stage' = [stage EXCEPT ![c] = "context"]
    /\ context' = [context EXCEPT ![c] = "live"]
    /\ UNCHANGED <<args, pc, compiler, drop, parts, tableVars, callVars>>

CreateCompiler(c) ==
    /\ stage[c] = "context"
    /\ stage' = [stage EXCEPT ![c] = "compiler"]
    /\ compiler' = [compiler EXCEPT ![c] = "live"]
    /\ UNCHANGED <<args, pc, context, drop, parts, tableVars, callVars>>

\* All contracts of the chunk are translated before any is finalized.
TranslateAll(c) ==
    /\ stage[c] = "compiler"
    /\ stage' = [stage EXCEPT ![c] = "translated"]
    /\ UNCHANGED <<args, pc, context, compiler, drop, parts, tableVars, callVars>>

\* jit_function of all contracts; the wrapper takes compiler and context.
Finalize(c) ==
    /\ stage[c] = "translated"
    /\ stage' = [stage EXCEPT ![c] = "ok"]
    /\ parts' = parts \cup
          {[first |-> c, last |-> c, ok |-> TRUE,
            entries |-> {args[i] : i \in Positions(c)} \X {c}, ctx |-> {c}]}
    /\ UNCHANGED <<args, pc, context, compiler, drop, tableVars, callVars>>

\* Mutant of GiveUp: the compiler is leaked before it has succeeded.
GiveUpLeaks(c) ==
    /\ stage[c] \in {"context", "compiler", "translated"}
    /\ stage' = [stage EXCEPT ![c] = "err"]
    /\ parts' = parts \cup {[first |-> c, last |-> c, ok |-> FALSE, entries |-> {}, ctx |-> {}]}
    /\ UNCHANGED <<args, pc, context, compiler, drop, tableVars, callVars>>

\* create_compiler, translate or jit_function fails: the compiler is still a
\* local variable and is dropped, the context has been leaked already.
GiveUp(c) ==
    /\ stage[c] \in {"context", "compiler", "translated"}
    /\ stage' = [stage EXCEPT ![c] = "err"]
    /\ compiler' = [compiler EXCEPT ![c] = IF stage[c] = "context" THEN @ ELSE Freed(@)]
    /\ parts' = parts \cup {[first |-> c, last |-> c, ok |-> FALSE, entries |-> {}, ctx |-> {}]}
    /\ UNCHANGED <<args, pc, context, drop, tableVars, callVars>>

-----------------------------------------------------------------------------
(* The reduction of the chunks' results.                                   *)

\* Mutant of Merged: the wrappers of the other side are not taken over.
MergedEntries(p, q) ==
    [p EXCEPT !.last = q.last, !.entries = @ \cup q.entries]

\* JitCompileOut::merge
Merged(p, q) ==
    [p EXCEPT !.last = q.last, !.entries = @ \cup q.entries, !.ctx = @ \cup q.ctx]

\* Mutant of Reduced: an error on the right is dropped, not returned.
ReducedLeft(p, q) ==
    CASE ~p.ok         -> [out |-> [p EXCEPT !.last = q.last], dropped |-> q.ctx]
      [] p.ok /\ ~q.ok -> [out |-> [p EXCEPT !.last = q.last], dropped |-> {}]
      [] p.ok /\ q.ok  -> [out |-> Merged(p, q), dropped |-> (p.ctx \cup q.ctx) \ Merged(p, q).ctx]

\* acc? and res?: an error leaves with whatever the other side holds dropped.
Reduced(p, q) ==
    CASE ~p.ok         -> [out |-> [p EXCEPT !.last = q.last], dropped |-> q.ctx]
      [] p.ok /\ ~q.ok -> [out |-> [q EXCEPT !.first = p.first], dropped |-> p.ctx]
      [] p.ok /\ q.ok  -> [out |-> Merged(p, q), dropped |-> (p.ctx \cup q.ctx) \ Merged(p, q).ctx]

\* The wrappers of these chunks are dropped; PtrWrapper::drop takes its own
\* two steps below.
Dropping(chunks) == [c \in Chunk |-> IF c \in chunks THEN "compiler" ELSE drop[c]]

Reduce(p, q) ==
    /\ p.last + 1 = q.first
    /\ parts' = (parts \ {p, q}) \cup {Reduced(p, q).out}
    /\ drop' = Dropping(Reduced(p, q).dropped)
    /\ UNCHANGED <<args, pc, chunkVars, tableVars, callVars>>

\* What unwrap_or_else gives for an empty list.
NoChunks == [first |-> 1, last |-> 0, ok |-> TRUE, entries |-> {}, ctx |-> {}]

\* The whole list is reduced: EvmCompilerFns::from puts the functions in a
\* map, where a later function of the same contract replaces an earlier one.
Finish(out) ==
    /\ pc = "compiling"
    /\ out \in IF Chunks = {} THEN {NoChunks} ELSE parts
    /\ out.first = 1
    /\ \A c \in Chunks : c <= out.last
    /\ parts' = parts \ {out}
    /\ \/ /\ out.ok
          /\ pc' = "running"
          /\ table' = {f \in out.entries :
                          \A g \in out.entries : g[1] = f[1] => g[2] <= f[2]}
          /\ arc' = out.ctx
          /\ \E x \in Handle : holder' = [holder EXCEPT ![x] = TRUE]
       \/ /\ ~out.ok
          /\ pc' = "failed"
          /\ UNCHANGED <<tableVars, holder>>
    /\ UNCHANGED <<args, chunkVars, drop, callee>>

-----------------------------------------------------------------------------
(* Execution contexts share the functions, and the last one drops them.    *)

\* RevmcExtCtx::clone, for each simulation of the same configuration.
Clone(x, y) ==
    /\ holder[x]
    /\ ~holder[y]
    /\ holder' = [holder EXCEPT ![y] = TRUE]
    /\ UNCHANGED <<args, pc, chunkVars, drop, parts, tableVars, callee>>

\* get_function copies the pointer out of the entry, and it is called.
CallFunction(x, f) ==
    /\ holder[x]
    /\ callee[x] = Nothing
    /\ callee' = [callee EXCEPT ![x] = f[2]]
    /\ UNCHANGED <<args, pc, chunkVars, drop, parts, tableVars, holder>>

ReturnFunction(x) ==
    /\ callee[x] # Nothing
    /\ callee' = [callee EXCEPT ![x] = Nothing]
    /\ UNCHANGED <<args, pc, chunkVars, drop, parts, tableVars, holder>>

\* Mutant of DropHandle: the functions go with the context they were cloned to.
DropHandleAll(x) ==
    /\ holder[x]
    /\ callee[x] = Nothing
    /\ holder' = [holder EXCEPT ![x] = FALSE]
    /\ pc' = "dropping"
    /\ UNCHANGED <<args, chunkVars, drop, parts, tableVars, callee>>

\* The evm that owns x is dropped, never while it executes; the last one
\* drops the map.
DropHandle(x) ==
    /\ holder[x]
    /\ callee[x] = Nothing
    /\ holder' = [holder EXCEPT ![x] = FALSE]
    /\ pc' = IF \E y \in Handle \ {x} : holder[y] THEN pc ELSE "dropping"
    /\ UNCHANGED <<args, chunkVars, drop, parts, tableVars, callee>>

\* An entry goes with its Arc; the last Arc drops the wrappers.
DropEntry(f) ==
    /\ pc = "dropping"
    /\ table' = table \ {f}
    /\ IF table = {f}
       THEN drop' = Dropping(arc) /\ arc' = {}
       ELSE UNCHANGED <<drop, arc>>
    /\ UNCHANGED <<args, pc, chunkVars, parts, callVars>>

\* Mutant of DropWrapper: the field is freed before the value that uses it.
DropWrapperFields(c) ==
    \/ /\ drop[c] = "compiler"
       /\ drop' = [drop EXCEPT ![c] = "context"]
       /\ context' = [context EXCEPT ![c] = Freed(@)]
       /\ UNCHANGED <<args, pc, stage, compiler, parts, tableVars, callVars>>
    \/ /\ drop[c] = "context"
       /\ drop' = [drop EXCEPT ![c] = "done"]
       /\ compiler' = [compiler EXCEPT ![c] = Freed(@)]
       /\ UNCHANGED <<args, pc, stage, context, parts, tableVars, callVars>>

\* Mutant of DropWrapper: `dep` is dropped and not taken.
DropWrapperTwice(c) ==
    \/ /\ drop[c] = "compiler"
       /\ drop' = [drop EXCEPT ![c] = "context"]
       /\ compiler' = [compiler EXCEPT ![c] = Freed(@)]
       /\ UNCHANGED <<args, pc, stage, context, parts, tableVars, callVars>>
    \/ /\ drop[c] = "context"
       /\ drop' = [drop EXCEPT ![c] = "done"]
       /\ context' = [context EXCEPT ![c] = Freed(Freed(@))]
       /\ UNCHANGED <<args, pc, stage, compiler, parts, tableVars, callVars>>

\* PtrWrapper::drop: first the compiler, then `dep`, the wrapper of the context.
DropWrapper(c) ==
    \/ /\ drop[c] = "compiler"
       /\ drop' = [drop EXCEPT ![c] = "context"]
       /\ compiler' = [compiler EXCEPT ![c] = Freed(@)]
       /\ UNCHANGED <<args, pc, stage, context, parts, tableVars, callVars>>
    \/ /\ drop[c] = "context"
       /\ drop' = [drop EXCEPT ![c] = "done"]
       /\ context' = [context EXCEPT ![c] = Freed(@)]
       /\ UNCHANGED <<args, pc, stage, compiler, parts, tableVars, callVars>>

\* Nothing is left to do.
Quiet ==
    /\ pc \in {"failed", "dropping"}
    /\ table = {} /\ parts = {}
    /\ \A c \in Chunk : drop[c] \in {"no", "done"}

Ended == Quiet /\ UNCHANGED vars

CompileChunk(c) ==
    MakeContext(c) \/ CreateCompiler(c) \/ TranslateAll(c) \/ Finalize(c) \/ GiveUp(c)

Next ==
    \/ \E c \in Chunks : CompileChunk(c)
    \/ \E p, q \in parts : Reduce(p, q)
    \/ \E out \in parts \cup {NoChunks} : Finish(out)
    \/ \E x, y \in Handle : Clone(x, y)
    \/ \E x \in Handle : ReturnFunction(x) \/ DropHandle(x)
    \/ \E f \in table : DropEntry(f) \/ \E x \in Handle : CallFunction(x, f)
    \/ \E c \in Chunk : DropWrapper(c)
    \/ Ended

Spec == Init /\ [][Next]_vars

-----------------------------------------------------------------------------
(* Properties.                                                             *)

\* The chunks of all functions that the program can still call, or is
\* executing.
Reachable ==
    {f[2] : f \in table \cup UNION {p.entries : p \in parts}}
        \cup ({callee[x] : x \in Handle} \ {Nothing})

\* No function outlives the memory it lives in: while it can be called or is
\* executing, the compiler and the LLVM context of its chunk have not been
\* freed, however chunks fail, results are reduced and contexts are cloned
\* and dropped.
NoDangling == \A c \in Reachable : compiler[c] = "live" /\ context[c] = "live"

\* An LLVM context is freed only after the compiler that borrows from it
\* (the 'static of compile_jit_many hides this from Rust).
ReleasedInOrder ==
    [][\A c \in Chunk : context[c] = "live" /\ context'[c] # "live" => compiler[c] = "freed"]_vars

\* In the end all is freed except the contexts of the chunks that failed,
\* which nobody owns.
LeakExplained ==
    Quiet => \A c \in Chunk : /\ compiler[c] # "live"
                              /\ context[c] = "live" <=> stage[c] = "err"

\* A run has a function for every contract of the list and no other, and
\* only when every chunk succeeded.
AllOrNothing ==
    /\ pc = "running" => /\ {f[1] : f \in table} = {args[i] : i \in DOMAIN args}
                         /\ \A c \in Chunks : stage[c] = "ok"
    /\ pc = "failed" => \E c \in Chunks : stage[c] = "err"

\* Something was freed that the functions of c need, or would have needed.
Lost(c) == stage[c] = "ok" /\ ~(compiler[c] = "live" /\ context[c] = "live")

\* To the execution contexts the functions are a pool that all contracts of
\* the list are in or that never exists; nothing of it is freed before the
\* last context is dropped, and after a premature release it never exists.
Pool == INSTANCE FunctionPool WITH
    User      <- Handle,
    state     <- CASE pc = "running"  -> "usable"
                   [] pc = "dropping" -> "gone"
                   [] OTHER           -> pc,
    wanted    <- {args[i] : i \in DOMAIN args},
    functions <- IF pc = "running" THEN {f[1] : f \in table} ELSE {},
    users     <- {x \in Handle : holder[x]},
    calling   <- {x \in Handle : callee[x] # Nothing},
    released  <- \E c \in Chunk : Lost(c)

ImplementsPool == Pool!Spec
=============================================================================
