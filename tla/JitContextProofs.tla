-------------------------- MODULE JitContextProofs --------------------------
(***************************************************************************)
(* Theorems about JitContext, for any lists of contracts, chunk sizes and  *)
(* execution contexts.                                                     *)
(***************************************************************************)
EXTENDS JitContext, Integers, TLAPS

\* A chunk whose memory somebody owns and nobody is freeing.
Sound(c) ==
    /\ stage[c] = "ok" /\ drop[c] = "no"
    /\ compiler[c] = "live" /\ context[c] = "live"

\* The wrappers have one owner each: a partial result or the shared Arc.
OneOwner ==
    /\ \A p \in parts : p.first <= p.last
    /\ \A p \in parts : \A c \in p.ctx : Sound(c) /\ c \notin arc
    /\ \A p, q \in parts : p # q => p.ctx \cap q.ctx = {}
    /\ \A c \in arc : Sound(c)

\* Functions stay with the wrappers of their chunk.
FunctionsOwned ==
    /\ \A p \in parts : \A f \in p.entries : f[2] \in p.ctx
    /\ \A f \in table : f[2] \in arc
    /\ \A x \in Handle : callee[x] # Nothing => callee[x] \in arc

\* Execution contexts exist only between the compilation and the end.
HoldersFitPc ==
    /\ pc # "running" => \A x \in Handle : ~holder[x]
    /\ \A x \in Handle : callee[x] # Nothing => holder[x]
    /\ pc = "compiling" => table = {} /\ arc = {}

\* How far a chunk is decides what of it lives.
MemoryFits ==
    \A c \in Chunk :
        /\ stage[c] = "context" => context[c] = "live"
        /\ stage[c] \in {"compiler", "translated"} =>
              compiler[c] = "live" /\ context[c] = "live"
        /\ drop[c] = "compiler" => compiler[c] = "live" /\ context[c] = "live"
        /\ drop[c] = "context" => compiler[c] = "freed" /\ context[c] = "live"
        /\ drop[c] # "no" => stage[c] = "ok"

\* The list of contracts is a list of contracts.
ArgsOK == \A i \in DOMAIN args : args[i] \in Contract

JitInv == TypeOK /\ ArgsOK /\ OneOwner /\ FunctionsOwned /\ HoldersFitPc /\ MemoryFits

-----------------------------------------------------------------------------
\* Nothing is compiled or owned in the beginning.
LEMMA JitInit == Init => JitInv
    BY NothingAssumption DEF Init, JitInv, TypeOK, ArgsOK, OneOwner, FunctionsOwned,
        HoldersFitPc, MemoryFits, Memory, Out

\* The steps of one chunk that produce no result keep the invariant.
LEMMA ChunkSteps ==
    ASSUME JitInv, NEW c \in Chunk,
           MakeContext(c) \/ CreateCompiler(c) \/ TranslateAll(c)
    PROVE  JitInv'
<1> USE NothingAssumption DEF JitInv, TypeOK, Memory, ArgsOK
<1>1. CASE MakeContext(c)
    <2>1. TypeOK'
        BY <1>1 DEF MakeContext, tableVars, callVars
    <2>2. \A d \in Chunk : Sound(d) => Sound(d)'
        BY <1>1 DEF MakeContext, Sound
    <2>3. OneOwner' /\ FunctionsOwned' /\ HoldersFitPc'
        BY <1>1, <2>2 DEF MakeContext, OneOwner, FunctionsOwned, HoldersFitPc, tableVars, callVars, Out
    <2>4. MemoryFits'
        BY <1>1 DEF MakeContext, MemoryFits
    <2>5. ArgsOK'
        BY <1>1 DEF MakeContext
    <2> QED
        BY <2>1, <2>3, <2>4, <2>5
<1>2. CASE CreateCompiler(c)
    <2>1. TypeOK'
        BY <1>2 DEF CreateCompiler, tableVars, callVars
    <2>2. \A d \in Chunk : Sound(d) => Sound(d)'
        BY <1>2 DEF CreateCompiler, Sound
    <2>3. OneOwner' /\ FunctionsOwned' /\ HoldersFitPc'
        BY <1>2, <2>2 DEF CreateCompiler, OneOwner, FunctionsOwned, HoldersFitPc, tableVars, callVars, Out
    <2>4. MemoryFits'
        BY <1>2 DEF CreateCompiler, MemoryFits
    <2>5. ArgsOK'
        BY <1>2 DEF CreateCompiler
    <2> QED
        BY <2>1, <2>3, <2>4, <2>5
<1>3. CASE TranslateAll(c)
    <2>1. TypeOK'
        BY <1>3 DEF TranslateAll, tableVars, callVars
    <2>2. \A d \in Chunk : Sound(d) => Sound(d)'
        BY <1>3 DEF TranslateAll, Sound
    <2>3. OneOwner' /\ FunctionsOwned' /\ HoldersFitPc'
        BY <1>3, <2>2 DEF TranslateAll, OneOwner, FunctionsOwned, HoldersFitPc, tableVars, callVars, Out
    <2>4. MemoryFits'
        BY <1>3 DEF TranslateAll, MemoryFits
    <2>5. ArgsOK'
        BY <1>3 DEF TranslateAll
    <2> QED
        BY <2>1, <2>3, <2>4, <2>5
<1> QED
    BY <1>1, <1>2, <1>3

\* The end of a chunk adds a partial result: its one owner, or an error.
LEMMA ChunkEnds ==
    ASSUME JitInv, NEW c \in Chunk, Finalize(c) \/ GiveUp(c)
    PROVE  JitInv'
<1> USE JitAssumption DEF JitInv
<1>0. c \in Nat
    BY DEF Chunk
<1>1. CASE Finalize(c)
    <2> DEFINE new == [first |-> c, last |-> c, ok |-> TRUE,
                       entries |-> {args[i] : i \in Positions(c)} \X {c}, ctx |-> {c}]
    <2>1. /\ stage[c] = "translated"
          /\ stage' = [stage EXCEPT ![c] = "ok"]
          /\ parts' = parts \cup {new}
          /\ UNCHANGED <<args, pc, context, compiler, drop, tableVars, callVars>>
        BY <1>1 DEF Finalize
    <2>2. new \in Out
        <3>1. \A i \in Positions(c) : args[i] \in Contract
            BY DEF Positions, ArgsOK
        <3> QED
            BY <1>0, <3>1 DEF Out
    <2>3. \A d \in Chunk : Sound(d) => Sound(d)' /\ d # c
        BY <2>1 DEF Sound, TypeOK
    <2>4. Sound(c)'
        BY <2>1 DEF Sound, TypeOK, MemoryFits
    <2>5. TypeOK'
        BY <2>1, <2>2 DEF TypeOK, tableVars, callVars
    <2>6. OneOwner'
        <3>1. c \notin arc /\ \A p \in parts : c \notin p.ctx
            BY <2>3 DEF OneOwner, TypeOK
        <3>2. \A p \in parts : \A d \in p.ctx : Sound(d)' /\ d \notin arc
            BY <2>3 DEF OneOwner, TypeOK, Out
        <3>3. \A d \in arc : Sound(d)'
            BY <2>3 DEF OneOwner, TypeOK
        <3>4. new.ctx = {c} /\ new.first = c /\ new.last = c /\ arc' = arc
            BY <2>1 DEF tableVars
        <3>5. \A p \in parts' : p.first <= p.last
            BY <1>0, <2>1, <3>4 DEF OneOwner
        <3> HIDE DEF new
        <3> QED
            BY <2>1, <2>4, <3>1, <3>2, <3>3, <3>4, <3>5 DEF OneOwner
    <2>7. FunctionsOwned'
        BY <2>1 DEF FunctionsOwned, tableVars, callVars
    <2>8. HoldersFitPc'
        BY <2>1 DEF HoldersFitPc, tableVars, callVars
    <2>9. MemoryFits'
        BY <2>1 DEF MemoryFits, TypeOK
    <2>10. ArgsOK'
        BY <2>1 DEF ArgsOK
    <2> QED
        BY <2>5, <2>6, <2>7, <2>8, <2>9, <2>10
<1>2. CASE GiveUp(c)
    <2> DEFINE new == [first |-> c, last |-> c, ok |-> FALSE, entries |-> {}, ctx |-> {}]
    <2>1. /\ stage[c] \in {"context", "compiler", "translated"}
          /\ stage' = [stage EXCEPT ![c] = "err"]
          /\ compiler' = [compiler EXCEPT ![c] = IF stage[c] = "context" THEN @ ELSE Freed(@)]
          /\ parts' = parts \cup {new}
          /\ UNCHANGED <<args, pc, context, drop, tableVars, callVars>>
        BY <1>2 DEF GiveUp
    <2>2. new \in Out
        BY <1>0 DEF Out
    <2>3. \A d \in Chunk : Sound(d) => Sound(d)'
        BY <2>1 DEF Sound, TypeOK
    <2>4. compiler' \in [Chunk -> Memory]
        BY <2>1 DEF TypeOK, MemoryFits, Freed, Memory
    <2>5. TypeOK'
        BY <2>1, <2>2, <2>4 DEF TypeOK, tableVars, callVars
    <2>6. OneOwner'
        <3>1. new.ctx = {} /\ new.first = c /\ new.last = c /\ arc' = arc
            BY <2>1 DEF tableVars
        <3>2. \A p \in parts' : p.first <= p.last
            BY <1>0, <2>1, <3>1 DEF OneOwner
        <3>3. \A p \in parts : \A d \in p.ctx : Sound(d)' /\ d \notin arc
            BY <2>3 DEF OneOwner, TypeOK, Out
        <3>4. \A d \in arc : Sound(d)'
            BY <2>3 DEF OneOwner, TypeOK
        <3> HIDE DEF new
        <3> QED
            BY <2>1, <3>1, <3>2, <3>3, <3>4 DEF OneOwner
    <2>7. FunctionsOwned'
        BY <2>1 DEF FunctionsOwned, tableVars, callVars
    <2>8. HoldersFitPc'
        BY <2>1 DEF HoldersFitPc, tableVars, callVars
    <2>9. MemoryFits'
        BY <2>1 DEF MemoryFits, TypeOK
    <2>10. ArgsOK'
        BY <2>1 DEF ArgsOK
    <2> QED
        BY <2>5, <2>6, <2>7, <2>8, <2>9, <2>10
<1> QED
    BY <1>1, <1>2

\* What two partial results are reduced to, and what is dropped on the way.
LEMMA ReducedOwns ==
    ASSUME NEW p \in Out, NEW q \in Out
    PROVE  /\ Reduced(p, q).out \in Out
           /\ Reduced(p, q).out.first = p.first /\ Reduced(p, q).out.last = q.last
           /\ Reduced(p, q).out.ctx \subseteq p.ctx \cup q.ctx
           /\ Reduced(p, q).dropped \subseteq p.ctx \cup q.ctx
           /\ (p.ctx \cap q.ctx = {}) =>
                 Reduced(p, q).out.ctx \cap Reduced(p, q).dropped = {}
           /\ (\A f \in p.entries : f[2] \in p.ctx) /\ (\A f \in q.entries : f[2] \in q.ctx)
                 => \A f \in Reduced(p, q).out.entries : f[2] \in Reduced(p, q).out.ctx
<1>1. CASE ~p.ok
    <2>1. Reduced(p, q) = [out |-> [p EXCEPT !.last = q.last], dropped |-> q.ctx]
        BY <1>1 DEF Reduced
    <2> QED
        BY <2>1 DEF Out
<1>2. CASE p.ok /\ ~q.ok
    <2>1. Reduced(p, q) = [out |-> [q EXCEPT !.first = p.first], dropped |-> p.ctx]
        BY <1>2 DEF Reduced
    <2> QED
        BY <2>1 DEF Out
<1>3. CASE p.ok /\ q.ok
    <2>1. Reduced(p, q) = [out |-> Merged(p, q),
                           dropped |-> (p.ctx \cup q.ctx) \ Merged(p, q).ctx]
        BY <1>3 DEF Reduced
    <2>2. Merged(p, q) \in Out
        BY DEF Merged, Out
    <2>3. /\ Merged(p, q).first = p.first /\ Merged(p, q).last = q.last
          /\ Merged(p, q).ctx = p.ctx \cup q.ctx
          /\ Merged(p, q).entries = p.entries \cup q.entries
        BY DEF Merged, Out
    <2> QED
        BY <2>1, <2>2, <2>3
<1> QED
    BY <1>1, <1>2, <1>3

\* A reduction hands the wrappers on or drops them, never both.
LEMMA ReduceSteps ==
    ASSUME JitInv, NEW p \in parts, NEW q \in parts, Reduce(p, q)
    PROVE  JitInv'
<1> USE DEF JitInv
<1> DEFINE out == Reduced(p, q).out
           gone == Reduced(p, q).dropped
<1>0. /\ p \in Out /\ q \in Out
      /\ p.ctx \cap q.ctx = {}
    <2>1. p # q
        BY DEF Reduce, TypeOK, OneOwner, Out
    <2> QED
        BY <2>1 DEF TypeOK, OneOwner
<1>1. /\ out \in Out
      /\ out.first = p.first /\ out.last = q.last
      /\ out.ctx \subseteq p.ctx \cup q.ctx
      /\ gone \subseteq p.ctx \cup q.ctx
      /\ out.ctx \cap gone = {}
      /\ \A f \in out.entries : f[2] \in out.ctx
    BY <1>0, ReducedOwns DEF FunctionsOwned
<1>2. /\ parts' = (parts \ {p, q}) \cup {out}
      /\ drop' = [c \in Chunk |-> IF c \in gone THEN "compiler" ELSE drop[c]]
      /\ UNCHANGED <<args, pc, chunkVars, tableVars, callVars>>
    BY DEF Reduce, Dropping
<1> HIDE DEF out, gone
<1>3. \A c \in Chunk \ gone : Sound(c) => Sound(c)'
    BY <1>2 DEF Sound, chunkVars, TypeOK
<1>4. \A c \in gone : Sound(c) /\ c \notin arc
    BY <1>0, <1>1 DEF OneOwner
<1>5. TypeOK'
    BY <1>1, <1>2 DEF TypeOK, chunkVars, tableVars, callVars
<1>6. OneOwner'
    <2>1. \A r \in parts \ {p, q} : r.ctx \cap (p.ctx \cup q.ctx) = {} /\ r.ctx \subseteq Chunk
        BY DEF OneOwner, TypeOK, Out
    <2>2. /\ out.ctx \subseteq Chunk \ gone
          /\ arc \subseteq Chunk \ gone
          /\ \A r \in parts \ {p, q} : r.ctx \subseteq Chunk \ gone
        BY <1>1, <1>4, <2>1 DEF Out, TypeOK
    <2>3. \A c \in out.ctx : Sound(c) /\ c \notin arc
        BY <1>1 DEF OneOwner
    <2>4. \A r \in parts' : \A c \in r.ctx : Sound(c)' /\ c \notin arc'
        BY <1>2, <1>3, <2>2, <2>3 DEF OneOwner, tableVars
    <2>5. \A r, t \in parts' : r # t => r.ctx \cap t.ctx = {}
        <3>1. \A r \in parts \ {p, q} : r.ctx \cap out.ctx = {}
            BY <1>1, <2>1
        <3> QED
            BY <1>2, <3>1 DEF OneOwner
    <2>6. \A c \in arc' : Sound(c)'
        BY <1>2, <1>3, <2>2 DEF OneOwner, tableVars
    <2>7. \A r \in parts' : r.first <= r.last
        <3>1. p.first <= p.last /\ q.first <= q.last /\ p.last + 1 = q.first
            BY DEF OneOwner, Reduce
        <3>2. out.first <= out.last
            BY <1>0, <1>1, <3>1 DEF Out
        <3> QED
            BY <1>2, <3>2 DEF OneOwner
    <2> QED
        BY <2>4, <2>5, <2>6, <2>7 DEF OneOwner
<1>7. FunctionsOwned'
    BY <1>1, <1>2 DEF FunctionsOwned, tableVars, callVars
<1>8. HoldersFitPc'
    BY <1>2 DEF HoldersFitPc, tableVars, callVars
<1>9. MemoryFits'
    BY <1>2, <1>4 DEF MemoryFits, chunkVars, Sound, TypeOK
<1>10. ArgsOK'
    BY <1>2 DEF ArgsOK
<1> QED
    BY <1>5, <1>6, <1>7, <1>8, <1>9, <1>10

\* The whole result moves from the reduction into the table.
LEMMA FinishSteps ==
    ASSUME JitInv, NEW out \in parts \cup {NoChunks}, Finish(out)
    PROVE  JitInv'
<1> USE DEF JitInv
<1>1. /\ pc = "compiling" /\ table = {} /\ arc = {}
      /\ parts' = parts \ {out}
      /\ UNCHANGED <<args, chunkVars, drop, callee>>
    BY DEF Finish, HoldersFitPc
<1>2. /\ out \in Out
      /\ \A c \in out.ctx : Sound(c)
      /\ \A r \in parts \ {out} : r.ctx \cap out.ctx = {}
      /\ \A f \in out.entries : f[2] \in out.ctx
    <2>1. CASE out \in parts
        BY <2>1 DEF TypeOK, OneOwner, FunctionsOwned
    <2>2. CASE out = NoChunks
        BY <2>2 DEF NoChunks, Out
    <2> QED
        BY <2>1, <2>2
<1>3. \A c \in Chunk : Sound(c) => Sound(c)'
    BY <1>1 DEF Sound, chunkVars
<1>4. CASE out.ok
    <2>1. /\ pc' = "running"
          /\ table' \subseteq out.entries
          /\ arc' = out.ctx
        BY <1>4 DEF Finish
    <2>2. PICK x \in Handle : holder' = [holder EXCEPT ![x] = TRUE]
        BY <1>4 DEF Finish
    <2>3. TypeOK'
        BY <1>1, <1>2, <2>1, <2>2 DEF TypeOK, chunkVars, Out
    <2>4. OneOwner'
        <3>1. \A p \in parts' : \A c \in p.ctx : Sound(c)' /\ c \notin arc'
            BY <1>1, <1>2, <1>3, <2>1 DEF OneOwner, TypeOK, Out
        <3>2. \A c \in arc' : Sound(c)'
            BY <1>2, <1>3, <2>1 DEF Out
        <3> QED
            BY <1>1, <3>1, <3>2 DEF OneOwner
    <2>5. FunctionsOwned'
        BY <1>1, <1>2, <2>1 DEF FunctionsOwned
    <2>6. HoldersFitPc'
        BY <1>1, <2>1, <2>2 DEF HoldersFitPc, TypeOK
    <2>7. MemoryFits' /\ ArgsOK'
        BY <1>1 DEF MemoryFits, ArgsOK, chunkVars
    <2> QED
        BY <2>3, <2>4, <2>5, <2>6, <2>7
<1>5. CASE ~out.ok
    <2>1. pc' = "failed" /\ UNCHANGED <<tableVars, holder>>
        BY <1>5 DEF Finish
    <2>2. TypeOK'
        BY <1>1, <2>1 DEF TypeOK, chunkVars, tableVars
    <2>3. OneOwner'
        BY <1>1, <1>3, <2>1 DEF OneOwner, tableVars, TypeOK, Out
    <2>4. FunctionsOwned' /\ HoldersFitPc'
        BY <1>1, <2>1 DEF FunctionsOwned, HoldersFitPc, tableVars
    <2>5. MemoryFits' /\ ArgsOK'
        BY <1>1 DEF MemoryFits, ArgsOK, chunkVars
    <2> QED
        BY <2>2, <2>3, <2>4, <2>5
<1> QED
    BY <1>4, <1>5 DEF Finish

\* Execution contexts are cloned, call, return and are dropped.
LEMMA HandleSteps ==
    ASSUME JitInv, NEW x \in Handle,
           \/ \E y \in Handle : Clone(x, y)
           \/ \E f \in table : CallFunction(x, f)
           \/ ReturnFunction(x) \/ DropHandle(x)
    PROVE  JitInv'
<1> USE NothingAssumption DEF JitInv
<1>1. UNCHANGED <<args, chunkVars, drop, parts, tableVars>>
    BY DEF Clone, CallFunction, ReturnFunction, DropHandle
<1>2. ArgsOK' /\ MemoryFits'
    BY <1>1 DEF ArgsOK, MemoryFits, chunkVars
<1>3. OneOwner'
    <2>1. \A c : Sound(c) => Sound(c)'
        BY <1>1 DEF Sound, chunkVars
    <2> QED
        BY <1>1, <2>1 DEF OneOwner, tableVars
<1>4. TypeOK' /\ FunctionsOwned' /\ HoldersFitPc'
    <2>1. CASE \E y \in Handle : Clone(x, y)
        BY <1>1, <2>1 DEF Clone, TypeOK, FunctionsOwned, HoldersFitPc, chunkVars, tableVars
    <2>2. CASE \E f \in table : CallFunction(x, f)
        <3>1. PICK f \in table : CallFunction(x, f)
            BY <2>2
        <3>2. /\ holder[x] /\ UNCHANGED <<pc, holder>>
              /\ callee' = [callee EXCEPT ![x] = f[2]] /\ f[2] \in arc
            BY <3>1 DEF CallFunction, FunctionsOwned
        <3> QED
            BY <1>1, <3>2 DEF TypeOK, FunctionsOwned, HoldersFitPc, chunkVars, tableVars
    <2>3. CASE ReturnFunction(x)
        BY <1>1, <2>3 DEF ReturnFunction, TypeOK, FunctionsOwned, HoldersFitPc,
            chunkVars, tableVars
    <2>4. CASE DropHandle(x)
        <3>1. /\ holder[x] /\ callee[x] = Nothing /\ callee' = callee
              /\ holder' = [holder EXCEPT ![x] = FALSE]
              /\ pc' = IF \E y \in Handle \ {x} : holder[y] THEN pc ELSE "dropping"
            BY <2>4 DEF DropHandle
        <3>2. pc = "running"
            BY <3>1 DEF HoldersFitPc
        <3>3. TypeOK' /\ FunctionsOwned'
            BY <1>1, <3>1 DEF TypeOK, FunctionsOwned, chunkVars, tableVars
        <3>4. HoldersFitPc'
            BY <1>1, <3>1, <3>2 DEF TypeOK, HoldersFitPc, tableVars
        <3> QED
            BY <3>3, <3>4
    <2> QED
        BY <2>1, <2>2, <2>3, <2>4
<1> QED
    BY <1>2, <1>3, <1>4

\* The last entry of the table hands the wrappers to their destructors.
LEMMA DropEntrySteps ==
    ASSUME JitInv, NEW f \in table, DropEntry(f)
    PROVE  JitInv'
<1> USE NothingAssumption DEF JitInv
<1>1. /\ pc = "dropping" /\ table' = table \ {f}
      /\ UNCHANGED <<args, pc, chunkVars, parts, callVars>>
    BY DEF DropEntry
<1>2. \A x \in Handle : ~holder[x] /\ callee[x] = Nothing
    BY <1>1 DEF HoldersFitPc
<1>3. CASE table = {f}
    <2>1. /\ drop' = [c \in Chunk |-> IF c \in arc THEN "compiler" ELSE drop[c]]
          /\ arc' = {} /\ table' = {}
        BY <1>1, <1>3 DEF DropEntry, Dropping
    <2>2. TypeOK'
        BY <1>1, <2>1 DEF TypeOK, chunkVars, callVars
    <2>3. \A c \in Chunk \ arc : Sound(c) => Sound(c)'
        BY <1>1, <2>1 DEF Sound, chunkVars
    <2>4. OneOwner'
        BY <1>1, <2>1, <2>3 DEF OneOwner, TypeOK, Out
    <2>5. FunctionsOwned' /\ HoldersFitPc' /\ ArgsOK'
        BY <1>1, <1>2, <2>1 DEF FunctionsOwned, HoldersFitPc, ArgsOK, callVars
    <2>6. \A c \in arc : Sound(c)
        BY DEF OneOwner
    <2>7. MemoryFits'
        BY <1>1, <2>1, <2>6 DEF MemoryFits, Sound, chunkVars, TypeOK
    <2> QED
        BY <2>2, <2>4, <2>5, <2>7
<1>4. CASE table # {f}
    <2>1. UNCHANGED <<drop, arc>>
        BY <1>4 DEF DropEntry
    <2>2. TypeOK'
        BY <1>1, <2>1 DEF TypeOK, chunkVars, callVars
    <2>3. \A c : Sound(c) => Sound(c)'
        BY <1>1, <2>1 DEF Sound, chunkVars
    <2>4. OneOwner'
        BY <1>1, <2>1, <2>3 DEF OneOwner
    <2>5. FunctionsOwned' /\ HoldersFitPc' /\ ArgsOK' /\ MemoryFits'
        BY <1>1, <2>1 DEF FunctionsOwned, HoldersFitPc, ArgsOK, MemoryFits, callVars, chunkVars
    <2> QED
        BY <2>2, <2>4, <2>5
<1> QED
    BY <1>3, <1>4

\* The destructor of one wrapper, which nobody owns any more.
LEMMA DropWrapperSteps ==
    ASSUME JitInv, NEW c \in Chunk, DropWrapper(c)
    PROVE  JitInv'
<1> USE NothingAssumption DEF JitInv
<1>1. /\ UNCHANGED <<args, pc, stage, parts, tableVars, callVars>>
      /\ drop[c] \in {"compiler", "context"}
    BY DEF DropWrapper
<1>2. \A d \in Chunk : Sound(d) => Sound(d)'
    BY <1>1 DEF DropWrapper, Sound, TypeOK
<1>3. TypeOK' /\ MemoryFits'
    <2>1. CASE drop[c] = "compiler"
        <3>1. /\ drop' = [drop EXCEPT ![c] = "context"]
              /\ compiler' = [compiler EXCEPT ![c] = "freed"]
              /\ context' = context
            BY <2>1 DEF DropWrapper, MemoryFits, Freed, TypeOK
        <3> QED
            BY <1>1, <2>1, <3>1 DEF TypeOK, MemoryFits, Memory, tableVars, callVars
    <2>2. CASE drop[c] = "context"
        <3>1. /\ drop' = [drop EXCEPT ![c] = "done"]
              /\ context' = [context EXCEPT ![c] = "freed"]
              /\ compiler' = compiler
            BY <2>2 DEF DropWrapper, MemoryFits, Freed, TypeOK
        <3> QED
            BY <1>1, <2>2, <3>1 DEF TypeOK, MemoryFits, Memory, tableVars, callVars
    <2> QED
        BY <1>1, <2>1, <2>2
<1>4. OneOwner'
    BY <1>1, <1>2 DEF OneOwner, TypeOK, Out, tableVars
<1>5. FunctionsOwned' /\ HoldersFitPc' /\ ArgsOK'
    BY <1>1 DEF FunctionsOwned, HoldersFitPc, ArgsOK, tableVars, callVars
<1> QED
    BY <1>3, <1>4, <1>5

\* Every step keeps the invariant.
LEMMA JitNext == JitInv /\ [Next]_vars => JitInv'
<1> SUFFICES ASSUME JitInv, [Next]_vars
             PROVE  JitInv'
    OBVIOUS
<1>1. CASE UNCHANGED vars
    <2>1. \A c : Sound(c) => Sound(c)'
        BY <1>1 DEF Sound, vars, chunkVars
    <2> QED
        BY <1>1, <2>1 DEF JitInv, TypeOK, ArgsOK, OneOwner, FunctionsOwned, HoldersFitPc,
            MemoryFits, vars, chunkVars, tableVars, callVars
<1>2. CASE Next
    <2>1. ASSUME NEW c \in Chunks, CompileChunk(c)
          PROVE  JitInv'
        BY <2>1, ChunkSteps, ChunkEnds DEF CompileChunk, Chunks
    <2>2. CASE Ended
        BY <1>1, <2>2 DEF Ended
    <2> QED
        BY <1>2, <2>1, <2>2, ReduceSteps, FinishSteps, HandleSteps, DropEntrySteps,
            DropWrapperSteps DEF Next
<1> QED
    BY <1>1, <1>2

\* The invariant holds throughout every behaviour.
LEMMA JitAlways == Spec => []JitInv
    BY JitInit, JitNext, PTL DEF Spec

-----------------------------------------------------------------------------
\* No memory of a chunk is ever freed twice, and everything keeps its type.
THEOREM FreedOnce == Spec => []TypeOK
<1>1. JitInv => TypeOK
    BY DEF JitInv
<1> QED
    BY JitAlways, <1>1, PTL

\* For any list, chunk size and number of execution contexts: a function that
\* can still be called, or is executing, lives in memory nobody has freed.
THEOREM NeverDangling == Spec => []NoDangling
<1>1. JitInv => NoDangling
    <2> SUFFICES ASSUME JitInv, NEW c \in Reachable
                 PROVE  compiler[c] = "live" /\ context[c] = "live"
        BY DEF NoDangling
    <2>1. c \in arc \/ \E p \in parts : c \in p.ctx
        <3>1. FunctionsOwned
            BY DEF JitInv
        <3>2. CASE c \in {callee[x] : x \in Handle} \ {Nothing}
            BY <3>1, <3>2 DEF FunctionsOwned
        <3>3. CASE c \in {f[2] : f \in table \cup UNION {p.entries : p \in parts}}
            <4>1. PICK f \in table \cup UNION {p.entries : p \in parts} : c = f[2]
                BY <3>3
            <4>2. CASE f \in table
                BY <3>1, <4>1, <4>2 DEF FunctionsOwned
            <4>3. CASE \E p \in parts : f \in p.entries
                BY <3>1, <4>1, <4>3 DEF FunctionsOwned
            <4> QED
                BY <4>1, <4>2, <4>3
        <3> QED
            BY <3>2, <3>3, Zenon DEF Reachable
    <2> QED
        BY <2>1 DEF JitInv, OneOwner, Sound
<1> QED
    BY JitAlways, <1>1, PTL

\* No context is freed while the compiler that borrows from it lives.
THEOREM ContextsOutlive == Spec => ReleasedInOrder
<1>1. JitInv /\ [Next]_vars =>
        [\A c \in Chunk : context[c] = "live" /\ context'[c] # "live"
                            => compiler[c] = "freed"]_vars
    <2> SUFFICES ASSUME JitInv, Next, NEW c \in Chunk,
                        context[c] = "live", context'[c] # "live"
                 PROVE  compiler[c] = "freed"
        OBVIOUS
    <2>1. TypeOK /\ MemoryFits
        BY DEF JitInv
    <2>2. CASE \E d \in Chunk : DropWrapper(d)
        <3>1. PICK d \in Chunk : DropWrapper(d)
            BY <2>2
        <3>2. d = c /\ drop[c] = "context"
            BY <2>1, <3>1 DEF DropWrapper, TypeOK
        <3> QED
            BY <2>1, <3>2 DEF MemoryFits
    <2>3. CASE \E d \in Chunks : CompileChunk(d)
        BY <2>1, <2>3 DEF CompileChunk, MakeContext, CreateCompiler, TranslateAll, Finalize,
            GiveUp, TypeOK
    <2> QED
        BY <2>2, <2>3 DEF Next, Reduce, Finish, Clone, CallFunction, ReturnFunction,
            DropHandle, DropEntry, Ended, vars, chunkVars
<1> QED
    BY JitAlways, <1>1, PTL DEF Spec, ReleasedInOrder

-----------------------------------------------------------------------------
(* What becomes of each chunk.                                             *)

Span(p) == p.first .. p.last

\* Partial results are of chunks that ended, each chunk in one of them at
\* most, until the caller has the whole result.
SpanInv ==
    /\ \E n \in 0 .. MaxArgs : DOMAIN args = 1 .. n
    /\ \A p \in parts : Span(p) \subseteq Chunks
    /\ \A p, q \in parts : p # q => Span(p) \cap Span(q) = {}
    /\ \A p \in parts : \A c \in Span(p) : stage[c] \in {"ok", "err"}
    /\ \A c \in Chunk \ Chunks : stage[c] = "todo"
    /\ pc # "compiling" => parts = {} /\ \A c \in Chunks : stage[c] \in {"ok", "err"}

\* Some function of each contract is of the last chunk that has one.
HasLatest(entries) ==
    \A f \in entries : \E g \in entries :
        g[1] = f[1] /\ \A h \in entries : h[1] = f[1] => h[2] <= g[2]

\* A partial result without an error has all functions of its chunks; one
\* with an error has nothing.
OutOK(p) ==
    /\ p.ok => \A c \in Span(p) :
                  /\ stage[c] = "ok"
                  /\ \A i \in Positions(c) : \E f \in p.entries : f[1] = args[i]
    /\ ~p.ok => p.ctx = {} /\ \E c \in Span(p) : stage[c] = "err"
    /\ \A f \in p.entries : \E i \in DOMAIN args : f[1] = args[i]
    /\ HasLatest(p.entries)
    /\ p.ctx # {} => p.entries # {}

OutsOK == \A p \in parts : OutOK(p)

\* No wrapper is forgotten.
OwnedInv ==
    \A c \in Chunk : stage[c] = "ok" =>
        c \in arc \/ drop[c] # "no" \/ \E p \in parts : c \in p.ctx

FateInv ==
    \A c \in Chunk :
        /\ stage[c] = "todo" => context[c] = "none" /\ compiler[c] = "none"
        /\ stage[c] = "context" => compiler[c] = "none"
        /\ stage[c] = "err" => context[c] = "live" /\ compiler[c] # "live"
        /\ drop[c] = "done" => context[c] = "freed" /\ compiler[c] = "freed"

EndInv ==
    /\ pc \in {"running", "dropping"} => \A c \in Chunks : stage[c] = "ok"
    /\ pc = "running" => {f[1] : f \in table} = {args[i] : i \in DOMAIN args}
    /\ pc = "failed" => \E c \in Chunks : stage[c] = "err"
    /\ arc # {} => table # {}

ListInv == SpanInv /\ OutsOK /\ OwnedInv /\ FateInv /\ EndInv

\* Nothing has been compiled in the beginning.
LEMMA ListInit == Init => ListInv
<1> SUFFICES ASSUME Init
             PROVE  ListInv
    OBVIOUS
<1>1. PICK n \in 0 .. MaxArgs : args \in [1 .. n -> Contract]
    BY DEF Init
<1>2. DOMAIN args = 1 .. n
    BY <1>1
<1> QED
    BY <1>2 DEF Init, ListInv, SpanInv, OutsOK, OwnedInv, FateInv, EndInv, Chunks

\* The steps of a chunk up to its end.
LEMMA ListChunkSteps ==
    ASSUME JitInv, ListInv, NEW c \in Chunks,
           MakeContext(c) \/ CreateCompiler(c) \/ TranslateAll(c)
    PROVE  ListInv'
<1> USE DEF ListInv
<1>0. c \in Chunk /\ TypeOK
    BY DEF Chunks, JitInv
<1>1. /\ UNCHANGED <<args, pc, drop, parts, tableVars, callVars>>
      /\ stage[c] \in {"todo", "context", "compiler"}
      /\ stage'[c] \in {"context", "compiler", "translated"}
      /\ \A d \in Chunk \ {c} : stage'[d] = stage[d]
    BY <1>0 DEF MakeContext, CreateCompiler, TranslateAll, TypeOK
<1>2. Chunks' = Chunks /\ \A d : Positions(d)' = Positions(d)
    BY <1>1 DEF Chunks, Positions
<1>3. pc = "compiling" /\ \A p \in parts : c \notin Span(p)
    BY <1>0, <1>1 DEF SpanInv, TypeOK
<1>4. \A p \in parts : \A d \in Span(p) : d \in Chunk
    BY DEF SpanInv, Chunks
<1>5. SpanInv'
    BY <1>0, <1>1, <1>2, <1>3, <1>4 DEF SpanInv, Span
<1>6. OutsOK'
    BY <1>1, <1>2, <1>3, <1>4 DEF OutsOK, OutOK, Span
<1>7. OwnedInv'
    BY <1>1 DEF OwnedInv, tableVars
<1>8. FateInv'
    BY <1>0 DEF FateInv, TypeOK, MakeContext, CreateCompiler, TranslateAll
<1>9. EndInv'
    BY <1>1, <1>3 DEF EndInv, tableVars
<1> QED
    BY <1>5, <1>6, <1>7, <1>8, <1>9

\* The end of a chunk.
LEMMA ListChunkEnds ==
    ASSUME JitInv, ListInv, NEW c \in Chunks, Finalize(c) \/ GiveUp(c)
    PROVE  ListInv'
<1> USE DEF ListInv
<1>0. c \in Chunk /\ TypeOK /\ MemoryFits /\ c \in Nat
    BY JitAssumption DEF Chunks, JitInv, Chunk
<1>1. PICK new : /\ parts' = parts \cup {new}
                 /\ new.first = c /\ new.last = c
                 /\ \/ /\ stage'[c] = "ok" /\ new.ok /\ new.ctx = {c}
                       /\ new.entries = {args[i] : i \in Positions(c)} \X {c}
                    \/ stage'[c] = "err" /\ ~new.ok /\ new.ctx = {} /\ new.entries = {}
    <2>1. CASE Finalize(c)
        <3>1. PICK new : new = [first |-> c, last |-> c, ok |-> TRUE,
                                entries |-> {args[i] : i \in Positions(c)} \X {c},
                                ctx |-> {c}]
            OBVIOUS
        <3>2. /\ new.first = c /\ new.last = c /\ new.ok /\ new.ctx = {c}
              /\ new.entries = {args[i] : i \in Positions(c)} \X {c}
            BY <3>1
        <3>3. parts' = parts \cup {new} /\ stage' = [stage EXCEPT ![c] = "ok"]
            BY <2>1, <3>1 DEF Finalize
        <3>4. stage'[c] = "ok"
            BY <1>0, <3>3 DEF TypeOK
        <3> QED
            BY <3>2, <3>3, <3>4
    <2>2. CASE GiveUp(c)
        <3>1. PICK new : new = [first |-> c, last |-> c, ok |-> FALSE, entries |-> {},
                                ctx |-> {}]
            OBVIOUS
        <3>2. /\ new.first = c /\ new.last = c /\ ~new.ok /\ new.ctx = {}
              /\ new.entries = {}
            BY <3>1
        <3>3. parts' = parts \cup {new} /\ stage' = [stage EXCEPT ![c] = "err"]
            BY <2>2, <3>1 DEF GiveUp
        <3>4. stage'[c] = "err"
            BY <1>0, <3>3 DEF TypeOK
        <3> QED
            BY <3>2, <3>3, <3>4
    <2> QED
        BY <2>1, <2>2
<1>2. /\ UNCHANGED <<args, pc, context, drop, tableVars, callVars>>
      /\ stage[c] \in {"context", "compiler", "translated"}
      /\ stage'[c] \in {"ok", "err"}
      /\ \A d \in Chunk \ {c} : stage'[d] = stage[d]
    BY <1>0 DEF Finalize, GiveUp, TypeOK
<1>3. Chunks' = Chunks /\ \A d : Positions(d)' = Positions(d)
    BY <1>2 DEF Chunks, Positions
<1>4. pc = "compiling" /\ \A p \in parts : c \notin Span(p)
    BY <1>0, <1>2 DEF SpanInv, TypeOK
<1>5. \A p \in parts : \A d \in Span(p) : d \in Chunk
    BY DEF SpanInv, Chunks
<1>6. Span(new) = {c}
    BY <1>0, <1>1 DEF Span
<1>7. SpanInv'
    <2>1. \A p \in parts' : Span(p) \subseteq Chunks
        BY <1>1, <1>6 DEF SpanInv
    <2>2. \A p, q \in parts' : p # q => Span(p) \cap Span(q) = {}
        BY <1>1, <1>4, <1>6 DEF SpanInv
    <2>3. \A p \in parts' : \A d \in Span(p) : stage'[d] \in {"ok", "err"}
        BY <1>1, <1>2, <1>4, <1>5, <1>6 DEF SpanInv
    <2> QED
        BY <1>2, <1>3, <1>4, <2>1, <2>2, <2>3 DEF SpanInv, Span
<1>8. OutsOK'
    <2>1. ASSUME NEW p \in parts
          PROVE  OutOK(p)'
        BY <1>2, <1>3, <1>4, <1>5 DEF OutsOK, OutOK, Span
    <2>2. OutOK(new)'
        <3>1. Positions(c) # {} /\ Positions(c) \subseteq DOMAIN args
            BY DEF Chunks, Positions
        <3>2. CASE stage'[c] = "ok" /\ new.ok /\ new.ctx = {c}
                   /\ new.entries = {args[i] : i \in Positions(c)} \X {c}
            <4>1. \A i \in Positions(c) : <<args[i], c>> \in new.entries
                BY <3>2
            <4>2. \A f \in new.entries : f[2] = c /\ \E i \in Positions(c) : f[1] = args[i]
                BY <3>2
            <4>3. HasLatest(new.entries)
                BY <1>0, <4>2 DEF HasLatest
            <4>4. new.entries # {}
                BY <3>1, <4>1
            <4>5. \A i \in Positions(c) : \E f \in new.entries : f[1] = args[i]
                BY <4>1
            <4>6. \A f \in new.entries : \E i \in DOMAIN args : f[1] = args[i]
                BY <3>1, <4>2
            <4>7. UNCHANGED args /\ Span(new)' = {c} /\ Positions(c)' = Positions(c)
                BY <1>2, <1>3, <1>6 DEF Span
            <4> QED
                BY <3>2, <4>3, <4>4, <4>5, <4>6, <4>7 DEF OutOK
        <3>3. CASE stage'[c] = "err" /\ ~new.ok /\ new.ctx = {} /\ new.entries = {}
            BY <1>6, <3>3 DEF OutOK, HasLatest, Span
        <3> QED
            BY <1>1, <3>2, <3>3
    <2> QED
        BY <1>1, <2>1, <2>2 DEF OutsOK
<1>9. OwnedInv'
    BY <1>0, <1>1, <1>2 DEF OwnedInv, tableVars
<1>10. FateInv'
    <2>1. CASE Finalize(c)
        BY <1>0, <2>1 DEF FateInv, TypeOK, Finalize
    <2>2. CASE GiveUp(c)
        <3>1. context[c] = "live" /\ drop[c] = "no"
            BY <1>0, <1>2 DEF MemoryFits, TypeOK
        <3>2. compiler'[c] # "live" /\ \A d \in Chunk \ {c} : compiler'[d] = compiler[d]
            BY <1>0, <1>2, <2>2 DEF GiveUp, FateInv, MemoryFits, Freed, TypeOK
        <3> QED
            BY <1>0, <1>2, <2>2, <3>1, <3>2 DEF FateInv, TypeOK, GiveUp
    <2> QED
        BY <2>1, <2>2
<1>11. EndInv'
    BY <1>2, <1>4 DEF EndInv, tableVars
<1> QED
    BY <1>7, <1>8, <1>9, <1>10, <1>11

\* A later function replaces an earlier one, also across partial results.
LEMMA LatestOfBoth ==
    ASSUME NEW P, NEW Q, HasLatest(P), HasLatest(Q),
           \A f \in P \cup Q : f[2] \in Nat
    PROVE  HasLatest(P \cup Q)
<1> SUFFICES ASSUME NEW f \in P \cup Q
             PROVE  \E g \in P \cup Q :
                       g[1] = f[1] /\ \A h \in P \cup Q : h[1] = f[1] => h[2] <= g[2]
    BY DEF HasLatest
<1>1. (\E x \in P : x[1] = f[1]) =>
          \E g \in P : g[1] = f[1] /\ \A h \in P : h[1] = f[1] => h[2] <= g[2]
    BY DEF HasLatest
<1>2. (\E x \in Q : x[1] = f[1]) =>
          \E g \in Q : g[1] = f[1] /\ \A h \in Q : h[1] = f[1] => h[2] <= g[2]
    BY DEF HasLatest
<1>3. CASE (\E x \in P : x[1] = f[1]) /\ ~\E x \in Q : x[1] = f[1]
    BY <1>1, <1>3
<1>4. CASE (\E x \in Q : x[1] = f[1]) /\ ~\E x \in P : x[1] = f[1]
    BY <1>2, <1>4
<1>5. CASE (\E x \in P : x[1] = f[1]) /\ \E x \in Q : x[1] = f[1]
    <2>1. PICK g \in P : g[1] = f[1] /\ \A h \in P : h[1] = f[1] => h[2] <= g[2]
        BY <1>1, <1>5
    <2>2. PICK k \in Q : k[1] = f[1] /\ \A h \in Q : h[1] = f[1] => h[2] <= k[2]
        BY <1>2, <1>5
    <2>3. CASE k[2] <= g[2]
        BY <2>1, <2>2, <2>3
    <2>4. CASE g[2] <= k[2]
        BY <2>1, <2>2, <2>4
    <2> QED
        BY <2>1, <2>2, <2>3, <2>4
<1> QED
    BY <1>3, <1>4, <1>5

\* The reduction of two neighbours accounts for the chunks of both.
LEMMA ReducedOK ==
    ASSUME NEW p \in Out, NEW q \in Out, OutOK(p), OutOK(q),
           p.first <= p.last, q.first <= q.last, p.last + 1 = q.first
    PROVE  /\ Span(Reduced(p, q).out) = Span(p) \cup Span(q)
           /\ OutOK(Reduced(p, q).out)
           /\ p.ctx \cup q.ctx \subseteq Reduced(p, q).out.ctx \cup Reduced(p, q).dropped
<1>0. /\ p.first \in Nat /\ p.last \in Nat /\ q.first \in Nat /\ q.last \in Nat
      /\ p.ok \in BOOLEAN /\ q.ok \in BOOLEAN
    BY DEF Out
<1>1. PICK r : r = Reduced(p, q)
    OBVIOUS
<1>2. ASSUME r.out.first = p.first, r.out.last = q.last
      PROVE  Span(r.out) = Span(p) \cup Span(q)
    BY <1>0, <1>2 DEF Span
<1>3. CASE ~p.ok
    <2>1. r = [out |-> [p EXCEPT !.last = q.last], dropped |-> q.ctx]
        BY <1>1, <1>3 DEF Reduced
    <2>2. /\ r.out.first = p.first /\ r.out.last = q.last /\ r.out.ok = p.ok
          /\ r.out.entries = p.entries /\ r.out.ctx = p.ctx /\ r.dropped = q.ctx
        BY <2>1 DEF Out
    <2>3. Span(r.out) = Span(p) \cup Span(q)
        BY <1>2, <2>2
    <2>4. p.ctx = {} /\ \E c \in Span(p) : stage[c] = "err"
        BY <1>3 DEF OutOK
    <2>5. OutOK(r.out)
        BY <1>3, <2>2, <2>3, <2>4 DEF OutOK
    <2> QED
        BY <1>1, <2>2, <2>3, <2>4, <2>5
<1>4. CASE p.ok /\ ~q.ok
    <2>1. r = [out |-> [q EXCEPT !.first = p.first], dropped |-> p.ctx]
        BY <1>1, <1>4 DEF Reduced
    <2>2. /\ r.out.first = p.first /\ r.out.last = q.last /\ r.out.ok = q.ok
          /\ r.out.entries = q.entries /\ r.out.ctx = q.ctx /\ r.dropped = p.ctx
        BY <2>1 DEF Out
    <2>3. Span(r.out) = Span(p) \cup Span(q)
        BY <1>2, <2>2
    <2>4. q.ctx = {} /\ \E c \in Span(q) : stage[c] = "err"
        BY <1>4 DEF OutOK
    <2>5. OutOK(r.out)
        BY <1>4, <2>2, <2>3, <2>4 DEF OutOK
    <2> QED
        BY <1>1, <2>2, <2>3, <2>4, <2>5
<1>5. CASE p.ok /\ q.ok
    <2>1. r = [out |-> Merged(p, q), dropped |-> (p.ctx \cup q.ctx) \ Merged(p, q).ctx]
        BY <1>1, <1>5 DEF Reduced
    <2>2. /\ r.out.first = p.first /\ r.out.last = q.last /\ r.out.ok = p.ok
          /\ r.out.entries = p.entries \cup q.entries /\ r.out.ctx = p.ctx \cup q.ctx
        BY <2>1 DEF Merged, Out
    <2>3. Span(r.out) = Span(p) \cup Span(q)
        BY <1>2, <2>2
    <2>4. HasLatest(p.entries \cup q.entries)
        <3>1. \A f \in p.entries \cup q.entries : f[2] \in Nat
            BY JitAssumption DEF Out, Chunk
        <3>2. HasLatest(p.entries) /\ HasLatest(q.entries)
            BY DEF OutOK
        <3> QED
            BY <3>1, <3>2, LatestOfBoth
    <2>5. \A c \in Span(r.out) :
             /\ stage[c] = "ok"
             /\ \A i \in Positions(c) : \E f \in p.entries \cup q.entries : f[1] = args[i]
        <3>1. \A c \in Span(p) :
                 stage[c] = "ok" /\ \A i \in Positions(c) : \E f \in p.entries : f[1] = args[i]
            BY <1>5 DEF OutOK
        <3>2. \A c \in Span(q) :
                 stage[c] = "ok" /\ \A i \in Positions(c) : \E f \in q.entries : f[1] = args[i]
            BY <1>5 DEF OutOK
        <3> QED
            BY <2>3, <3>1, <3>2, Zenon
    <2>6. /\ \A f \in p.entries \cup q.entries : \E i \in DOMAIN args : f[1] = args[i]
          /\ p.ctx \cup q.ctx # {} => p.entries \cup q.entries # {}
        BY DEF OutOK
    <2>7. OutOK(r.out)
        BY <1>5, <2>2, <2>4, <2>5, <2>6 DEF OutOK
    <2> QED
        BY <1>1, <2>2, <2>3, <2>7
<1> QED
    BY <1>0, <1>3, <1>4, <1>5

\* A reduction.
LEMMA ListReduceSteps ==
    ASSUME JitInv, ListInv, NEW p \in parts, NEW q \in parts, Reduce(p, q)
    PROVE  ListInv'
<1> USE DEF ListInv
<1>0. /\ p \in Out /\ q \in Out /\ OutOK(p) /\ OutOK(q)
      /\ p.first <= p.last /\ q.first <= q.last /\ p.last + 1 = q.first
    BY DEF JitInv, TypeOK, OneOwner, OutsOK, Reduce
<1>1. PICK out, gone : out = Reduced(p, q).out /\ gone = Reduced(p, q).dropped
    OBVIOUS
<1>2. /\ Span(out) = Span(p) \cup Span(q) /\ OutOK(out)
      /\ p.ctx \cup q.ctx \subseteq out.ctx \cup gone
    BY <1>0, <1>1, ReducedOK
<1>3. /\ parts' = (parts \ {p, q}) \cup {out}
      /\ drop' = [c \in Chunk |-> IF c \in gone THEN "compiler" ELSE drop[c]]
      /\ UNCHANGED <<args, pc, chunkVars, tableVars, callVars>>
    BY <1>1 DEF Reduce, Dropping
<1>4. Chunks' = Chunks /\ \A d : Positions(d)' = Positions(d)
    BY <1>3 DEF Chunks, Positions
<1>5. gone \subseteq p.ctx \cup q.ctx
    BY <1>0, <1>1, ReducedOwns
<1>6. SpanInv'
    <2>1. \A r \in parts' : Span(r) \subseteq Chunks
        BY <1>2, <1>3 DEF SpanInv
    <2>2. \A r, t \in parts' : r # t => Span(r) \cap Span(t) = {}
        <3>1. \A r \in parts \ {p, q} : Span(r) \cap Span(out) = {}
            BY <1>2 DEF SpanInv
        <3> QED
            BY <1>3, <3>1 DEF SpanInv
    <2>3. \A r \in parts' : \A d \in Span(r) : stage[d] \in {"ok", "err"}
        BY <1>2, <1>3 DEF SpanInv
    <2>4. pc = "compiling"
        BY DEF SpanInv
    <2> QED
        BY <1>3, <1>4, <2>1, <2>2, <2>3, <2>4 DEF SpanInv, Span, chunkVars
<1>7. OutsOK'
    <2>1. ASSUME NEW r, OutOK(r)
          PROVE  OutOK(r)'
        BY <1>3, <1>4, <2>1 DEF OutOK, Span, chunkVars
    <2> QED
        BY <1>2, <1>3, <2>1 DEF OutsOK
<1>8. OwnedInv'
    <2> SUFFICES ASSUME NEW c \in Chunk, stage'[c] = "ok"
                 PROVE  c \in arc' \/ drop'[c] # "no" \/ \E r \in parts' : c \in r.ctx
        BY DEF OwnedInv
    <2>1. c \in arc \/ drop[c] # "no" \/ \E r \in parts : c \in r.ctx
        BY <1>3 DEF OwnedInv, chunkVars
    <2> QED
        BY <1>2, <1>3, <2>1 DEF tableVars
<1>9. FateInv'
    <2>1. \A c \in Chunk : drop'[c] = "done" => drop[c] = "done"
        BY <1>3
    <2> QED
        BY <1>3, <2>1 DEF FateInv, chunkVars
<1>10. EndInv'
    <2>1. pc = "compiling"
        BY DEF SpanInv
    <2> QED
        BY <1>3, <2>1 DEF EndInv, tableVars
<1> QED
    BY <1>6, <1>7, <1>8, <1>9, <1>10

\* Every position is in a chunk.
LEMMA PositionsCover ==
    ASSUME SpanInv, NEW i \in DOMAIN args
    PROVE  \E c \in Chunks : i \in Positions(c)
<1> USE JitAssumption
<1>1. i \in Nat /\ 1 <= i /\ i <= MaxArgs
    BY DEF SpanInv
<1> DEFINE n == (i - 1) \div ChunkSize
<1>2. n \in Nat /\ n * ChunkSize <= i - 1 /\ i - 1 < (n + 1) * ChunkSize
    BY <1>1
<1> HIDE DEF n
<1>3. n <= i - 1
    <2>1. n <= n * ChunkSize
        BY <1>2
    <2>2. n * ChunkSize \in Int
        BY <1>2
    <2> QED
        BY <1>1, <1>2, <2>1, <2>2
<1>4. PICK c \in Chunk : c = n + 1 /\ c - 1 = n
    BY <1>1, <1>2, <1>3 DEF Chunk
<1>5. n * ChunkSize < i /\ i <= (n + 1) * ChunkSize
    <2>1. n * ChunkSize \in Int /\ (n + 1) * ChunkSize \in Int
        BY <1>2
    <2> QED
        BY <1>1, <1>2, <2>1
<1>6. (c - 1) * ChunkSize < i /\ i <= c * ChunkSize
    BY <1>4, <1>5
<1>7. i \in Positions(c)
    BY <1>6, Zenon DEF Positions
<1> QED
    BY <1>4, <1>7 DEF Chunks

\* The result of the whole list accounts for all chunks and is the only one.
LEMMA WholeList ==
    ASSUME JitInv, ListInv, NEW out \in parts \cup {NoChunks}, Finish(out)
    PROVE  Span(out) = Chunks /\ OutOK(out) /\ parts' = {} /\ out \in Out
<1> USE DEF ListInv
<1>1. /\ out \in IF Chunks = {} THEN {NoChunks} ELSE parts
      /\ out.first = 1 /\ \A c \in Chunks : c <= out.last
      /\ parts' = parts \ {out}
    BY DEF Finish
<1>2. ASSUME NEW r \in parts
      PROVE  r.first \in Span(r) /\ Span(r) \subseteq Chunks
    <2>1. r.first \in Nat /\ r.last \in Nat /\ r.first <= r.last
        BY DEF JitInv, TypeOK, OneOwner, Out
    <2> QED
        BY <2>1 DEF Span, SpanInv
<1>3. CASE Chunks = {}
    <2>1. out = NoChunks
        BY <1>1, <1>3
    <2>2. out.first = 1 /\ out.last = 0 /\ out.ok /\ out.entries = {} /\ out.ctx = {}
        BY <2>1 DEF NoChunks
    <2>3. Span(out) = {}
        BY <2>2 DEF Span
    <2>4. OutOK(out)
        BY <2>2, <2>3 DEF OutOK, HasLatest
    <2>5. parts = {}
        BY <1>2, <1>3
    <2>6. out \in Out
        BY <2>1 DEF NoChunks, Out
    <2> QED
        BY <1>1, <1>3, <2>3, <2>4, <2>5, <2>6
<1>4. CASE Chunks # {}
    <2>1. out \in parts
        BY <1>1, <1>4
    <2>2. OutOK(out) /\ out \in Out
        BY <2>1 DEF OutsOK, JitInv, TypeOK
    <2>3. Span(out) = Chunks
        <3>1. \A c \in Chunks : c \in Nat /\ 1 <= c
            BY JitAssumption DEF Chunks, Chunk
        <3>2. out.last \in Nat
            BY <2>2 DEF Out
        <3>3. Chunks \subseteq Span(out)
            BY <1>1, <3>1, <3>2 DEF Span
        <3> QED
            BY <1>2, <2>1, <3>3
    <2>4. \A r \in parts \ {out} : FALSE
        BY <1>2, <2>1, <2>3 DEF SpanInv
    <2> QED
        BY <1>1, <2>2, <2>3, <2>4
<1> QED
    BY <1>3, <1>4

\* The end of the compilation.
LEMMA ListFinishSteps ==
    ASSUME JitInv, ListInv, NEW out \in parts \cup {NoChunks}, Finish(out)
    PROVE  ListInv'
<1> USE DEF ListInv
<1>1. /\ pc = "compiling" /\ table = {} /\ arc = {}
      /\ UNCHANGED <<args, chunkVars, drop, callee>>
    BY DEF Finish, JitInv, HoldersFitPc
<1>2. Span(out) = Chunks /\ OutOK(out) /\ parts' = {} /\ out \in Out
    BY WholeList
<1>3. Chunks' = Chunks /\ \A d : Positions(d)' = Positions(d)
    BY <1>1 DEF Chunks, Positions
<1>4. \A c \in Chunks : stage[c] \in {"ok", "err"}
    <2>1. CASE out \in parts
        BY <1>2, <2>1 DEF SpanInv
    <2>2. CASE out = NoChunks
        <3>1. Span(out) = {}
            BY <2>2 DEF NoChunks, Span
        <3> QED
            BY <1>2, <3>1
    <2> QED
        BY <2>1, <2>2
<1>5. SpanInv'
    BY <1>1, <1>2, <1>3, <1>4 DEF SpanInv, chunkVars
<1>6. OutsOK' /\ FateInv'
    BY <1>1, <1>2 DEF OutsOK, FateInv, chunkVars
<1>7. CASE out.ok
    <2>1. /\ pc' = "running" /\ arc' = out.ctx
          /\ table' = {f \in out.entries :
                          \A g \in out.entries : g[1] = f[1] => g[2] <= f[2]}
        BY <1>7 DEF Finish
    <2>2. \A f \in out.entries : \E g \in table' : g[1] = f[1]
        <3> SUFFICES ASSUME NEW f \in out.entries
                     PROVE  \E g \in table' : g[1] = f[1]
            OBVIOUS
        <3>1. PICK g \in out.entries :
                 g[1] = f[1] /\ \A h \in out.entries : h[1] = f[1] => h[2] <= g[2]
            BY <1>2 DEF OutOK, HasLatest
        <3>2. g \in table'
            BY <2>1, <3>1
        <3> QED
            BY <3>1, <3>2
    <2>3. {f[1] : f \in table'} = {args[i] : i \in DOMAIN args}
        <3>1. ASSUME NEW i \in DOMAIN args
              PROVE  \E f \in table' : f[1] = args[i]
            <4>1. PICK c \in Chunks : i \in Positions(c)
                BY PositionsCover
            <4>2. \E f \in out.entries : f[1] = args[i]
                BY <1>2, <1>7, <4>1 DEF OutOK
            <4> QED
                BY <2>2, <4>2
        <3>2. ASSUME NEW f \in table'
              PROVE  \E i \in DOMAIN args : f[1] = args[i]
            BY <1>2, <2>1 DEF OutOK
        <3>3. UNCHANGED args
            BY <1>1
        <3> QED
            BY ONLY <3>1, <3>2, <3>3
    <2>4. \A c \in Chunks : stage[c] = "ok"
        BY <1>2, <1>7 DEF OutOK
    <2>5. arc' # {} => table' # {}
        BY <1>2, <2>1, <2>2 DEF OutOK
    <2>6. EndInv'
        BY <1>1, <1>3, <2>1, <2>3, <2>4, <2>5 DEF EndInv, chunkVars
    <2>7. OwnedInv'
        <3> SUFFICES ASSUME NEW c \in Chunk, stage'[c] = "ok"
                     PROVE  c \in arc' \/ drop'[c] # "no"
            BY DEF OwnedInv
        <3>1. c \in arc \/ drop[c] # "no" \/ \E p \in parts : c \in p.ctx
            BY <1>1 DEF OwnedInv, chunkVars
        <3>2. \A p \in parts : p = out
            BY <1>2 DEF Finish
        <3> QED
            BY <1>1, <2>1, <3>1, <3>2
    <2> QED
        BY <1>5, <1>6, <2>6, <2>7
<1>8. CASE ~out.ok
    <2>1. pc' = "failed" /\ UNCHANGED tableVars
        BY <1>8 DEF Finish
    <2>2. EndInv'
        BY <1>1, <1>2, <1>3, <1>8, <2>1 DEF EndInv, OutOK, chunkVars, tableVars
    <2>3. OwnedInv'
        <3>1. \A p \in parts : p = out
            BY <1>2 DEF Finish
        <3> QED
            BY <1>1, <1>2, <1>8, <2>1, <3>1 DEF OwnedInv, OutOK, chunkVars, tableVars
    <2> QED
        BY <1>5, <1>6, <2>2, <2>3
<1> QED
    BY <1>7, <1>8 DEF Finish

\* Execution contexts come and go; the chunks stay as they are.
LEMMA ListHandleSteps ==
    ASSUME JitInv, ListInv, NEW x \in Handle,
           \/ \E y \in Handle : Clone(x, y)
           \/ \E f \in table : CallFunction(x, f)
           \/ ReturnFunction(x) \/ DropHandle(x)
    PROVE  ListInv'
<1>1. /\ UNCHANGED <<args, chunkVars, drop, parts, tableVars>>
      /\ pc' = pc \/ (pc = "running" /\ pc' = "dropping")
    <2>1. CASE DropHandle(x)
        <3>1. holder[x] /\ pc' \in {pc, "dropping"}
            BY <2>1 DEF DropHandle
        <3>2. pc = "running"
            BY <3>1 DEF JitInv, HoldersFitPc
        <3> QED
            BY <2>1, <3>1, <3>2 DEF DropHandle
    <2>2. CASE ~DropHandle(x)
        BY <2>2 DEF Clone, CallFunction, ReturnFunction
    <2> QED
        BY <2>1, <2>2
<1>2. Chunks' = Chunks /\ \A d : Positions(d)' = Positions(d)
    BY <1>1 DEF Chunks, Positions
<1>3. SpanInv'
    BY <1>1, <1>2 DEF ListInv, SpanInv, Span, chunkVars
<1>4. OutsOK'
    BY <1>1, <1>2 DEF ListInv, OutsOK, OutOK, Span, chunkVars
<1>5. OwnedInv' /\ FateInv'
    BY <1>1 DEF ListInv, OwnedInv, FateInv, chunkVars, tableVars
<1>6. EndInv'
    BY <1>1, <1>2 DEF ListInv, EndInv, chunkVars, tableVars
<1> QED
    BY <1>3, <1>4, <1>5, <1>6 DEF ListInv

\* The wrappers are handed to their destructors with the last entry.
LEMMA ListDropEntrySteps ==
    ASSUME JitInv, ListInv, NEW f \in table, DropEntry(f)
    PROVE  ListInv'
<1>1. /\ UNCHANGED <<args, pc, chunkVars, parts>>
      /\ pc = "dropping" /\ table' = table \ {f}
    BY DEF DropEntry
<1>2. Chunks' = Chunks /\ \A d : Positions(d)' = Positions(d)
    BY <1>1 DEF Chunks, Positions
<1>3. SpanInv'
    BY <1>1, <1>2 DEF ListInv, SpanInv, Span, chunkVars
<1>4. OutsOK'
    BY <1>1, <1>2 DEF ListInv, OutsOK, OutOK, Span, chunkVars
<1>5. OwnedInv' /\ FateInv' /\ EndInv'
    <2>1. CASE table = {f}
        <3>1. /\ arc' = {}
              /\ drop' = [c \in Chunk |-> IF c \in arc THEN "compiler" ELSE drop[c]]
            BY <2>1 DEF DropEntry, Dropping
        <3> QED
            BY <1>1, <1>2, <3>1 DEF ListInv, OwnedInv, FateInv, EndInv, chunkVars
    <2>2. CASE table # {f}
        <3>1. UNCHANGED <<drop, arc>> /\ table' # {}
            BY <1>1, <2>2 DEF DropEntry
        <3> QED
            BY <1>1, <1>2, <3>1 DEF ListInv, OwnedInv, FateInv, EndInv, chunkVars
    <2> QED
        BY <2>1, <2>2
<1> QED
    BY <1>3, <1>4, <1>5 DEF ListInv

\* A destructor frees the compiler, then the context.
LEMMA ListDropWrapperSteps ==
    ASSUME JitInv, ListInv, NEW c \in Chunk, DropWrapper(c)
    PROVE  ListInv'
<1>0. TypeOK /\ MemoryFits
    BY DEF JitInv
<1>1. UNCHANGED <<args, pc, stage, parts, tableVars>>
    BY DEF DropWrapper
<1>2. Chunks' = Chunks /\ \A d : Positions(d)' = Positions(d)
    BY <1>1 DEF Chunks, Positions
<1>3. SpanInv'
    BY <1>1, <1>2 DEF ListInv, SpanInv, Span
<1>4. OutsOK'
    BY <1>1, <1>2 DEF ListInv, OutsOK, OutOK, Span
<1>5. EndInv'
    BY <1>1, <1>2 DEF ListInv, EndInv, tableVars
<1>6. OwnedInv'
    BY <1>0, <1>1 DEF ListInv, OwnedInv, DropWrapper, TypeOK, tableVars
<1>7. FateInv'
    <2>1. CASE drop[c] = "compiler"
        <3>1. /\ drop' = [drop EXCEPT ![c] = "context"]
              /\ compiler' = [compiler EXCEPT ![c] = "freed"]
              /\ context' = context /\ stage[c] = "ok"
            BY <1>0, <2>1 DEF DropWrapper, MemoryFits, Freed, TypeOK
        <3> QED
            BY <1>0, <1>1, <3>1 DEF ListInv, FateInv, TypeOK
    <2>2. CASE drop[c] = "context"
        <3>1. /\ drop' = [drop EXCEPT ![c] = "done"]
              /\ context' = [context EXCEPT ![c] = "freed"]
              /\ compiler' = compiler /\ stage[c] = "ok" /\ compiler[c] = "freed"
            BY <1>0, <2>2 DEF DropWrapper, MemoryFits, Freed, TypeOK
        <3> QED
            BY <1>0, <1>1, <3>1 DEF ListInv, FateInv, TypeOK
    <2> QED
        BY <2>1, <2>2 DEF DropWrapper
<1> QED
    BY <1>3, <1>4, <1>5, <1>6, <1>7 DEF ListInv

\* Every step keeps both invariants.
LEMMA ListNext == JitInv /\ ListInv /\ [Next]_vars => ListInv'
<1> SUFFICES ASSUME JitInv, ListInv, [Next]_vars
             PROVE  ListInv'
    OBVIOUS
<1>1. CASE UNCHANGED vars
    <2>1. UNCHANGED <<args, pc, chunkVars, drop, parts, tableVars>>
        BY <1>1 DEF vars
    <2>2. Chunks' = Chunks /\ \A d : Positions(d)' = Positions(d)
        BY <2>1 DEF Chunks, Positions
    <2>3. SpanInv' /\ OutsOK'
        BY <2>1, <2>2 DEF ListInv, SpanInv, OutsOK, OutOK, Span, chunkVars
    <2>4. OwnedInv' /\ FateInv' /\ EndInv'
        BY <2>1, <2>2 DEF ListInv, OwnedInv, FateInv, EndInv, chunkVars, tableVars
    <2> QED
        BY <2>3, <2>4 DEF ListInv
<1>2. CASE Next
    <2>1. ASSUME NEW c \in Chunks, CompileChunk(c)
          PROVE  ListInv'
        BY <2>1, ListChunkSteps, ListChunkEnds DEF CompileChunk
    <2>2. CASE Ended
        BY <1>1, <2>2 DEF Ended
    <2> QED
        BY <1>2, <2>1, <2>2, ListReduceSteps, ListFinishSteps, ListHandleSteps,
            ListDropEntrySteps, ListDropWrapperSteps DEF Next
<1> QED
    BY <1>1, <1>2

\* Both invariants hold throughout every behaviour.
LEMMA ListAlways == Spec => [](JitInv /\ ListInv)
<1>1. Init => JitInv /\ ListInv
    BY JitInit, ListInit
<1>2. (JitInv /\ ListInv) /\ [Next]_vars => (JitInv /\ ListInv)'
    BY JitNext, ListNext
<1> QED
    BY <1>1, <1>2, PTL DEF Spec

\* For any list, chunk size and number of execution contexts: a run starts with
\* a function for every contract of the list and no other, after all chunks
\* succeeded; otherwise the compilation fails, and some chunk did.
THEOREM AllFunctionsOrNone == Spec => []AllOrNothing
<1>1. ListInv => AllOrNothing
    BY DEF ListInv, EndInv, AllOrNothing
<1> QED
    BY ListAlways, <1>1, PTL

\* In the end every compiler is freed and so is every LLVM context, but those
\* of the chunks that failed, whose owner never existed.
THEOREM LeaksAreOfFailures == Spec => []LeakExplained
<1>1. JitInv /\ ListInv => LeakExplained
    <2> SUFFICES ASSUME JitInv, ListInv, Quiet, NEW c \in Chunk
                 PROVE  compiler[c] # "live" /\ (context[c] = "live" <=> stage[c] = "err")
        BY DEF LeakExplained
    <2>1. parts = {} /\ arc = {} /\ pc # "compiling" /\ drop[c] \in {"no", "done"}
        BY DEF Quiet, ListInv, EndInv
    <2>2. stage[c] \in {"todo", "ok", "err"}
        BY <2>1 DEF ListInv, SpanInv
    <2>3. CASE stage[c] = "ok"
        <3>1. drop[c] = "done"
            BY <2>1, <2>3 DEF ListInv, OwnedInv
        <3> QED
            BY <2>3, <3>1 DEF ListInv, FateInv
    <2>4. CASE stage[c] \in {"todo", "err"}
        BY <2>4 DEF ListInv, FateInv
    <2> QED
        BY <2>2, <2>3, <2>4
<1> QED
    BY ListAlways, <1>1, PTL
-----------------------------------------------------------------------------
(* The functions are a pool.                                               *)

\* A wrapper that is dropped before the functions are shared belongs to a
\* compilation that will fail; while they are shared none is.
DroppedInv ==
    /\ pc = "compiling" /\ (\E c \in Chunk : drop[c] # "no") => \E p \in parts : ~p.ok
    /\ pc = "running" => \A c \in Chunk : drop[c] = "no"

PoolInv == JitInv /\ ListInv /\ DroppedInv

\* An error survives every reduction, and without one nothing is dropped.
LEMMA DroppedReduceSteps ==
    ASSUME PoolInv, NEW p \in parts, NEW q \in parts, Reduce(p, q)
    PROVE  DroppedInv'
<1>1. /\ pc = "compiling" /\ pc' = pc /\ p \in Out /\ q \in Out
      /\ parts' = (parts \ {p, q}) \cup {Reduced(p, q).out}
      /\ drop' = [c \in Chunk |-> IF c \in Reduced(p, q).dropped THEN "compiler" ELSE drop[c]]
    BY DEF Reduce, Dropping, PoolInv, JitInv, TypeOK, ListInv, SpanInv
<1>2. CASE p.ok /\ q.ok
    <2>1. Reduced(p, q).dropped = {}
        BY <1>1, <1>2 DEF Reduced, Merged, Out
    <2>2. \A c \in Chunk : drop'[c] = drop[c]
        BY <1>1, <2>1
    <2>3. \A r \in parts : ~r.ok => r \in parts'
        BY <1>1, <1>2
    <2> QED
        BY <1>1, <2>2, <2>3 DEF DroppedInv, PoolInv
<1>3. CASE ~(p.ok /\ q.ok)
    <2>1. ~Reduced(p, q).out.ok
        BY <1>1, <1>3 DEF Reduced, Out
    <2> QED
        BY <1>1, <2>1 DEF DroppedInv
<1> QED
    BY <1>2, <1>3

\* Every step keeps this.
LEMMA DroppedNext == PoolInv /\ [Next]_vars => DroppedInv'
<1> SUFFICES ASSUME PoolInv, [Next]_vars
             PROVE  DroppedInv'
    OBVIOUS
<1> USE DEF PoolInv
<1>1. CASE UNCHANGED vars
    BY <1>1 DEF vars, DroppedInv
<1>2. ASSUME NEW c \in Chunks, CompileChunk(c)
      PROVE  DroppedInv'
    <2>1. pc' = pc /\ drop' = drop /\ parts \subseteq parts'
        BY <1>2 DEF CompileChunk, MakeContext, CreateCompiler, TranslateAll, Finalize, GiveUp
    <2> QED
        BY <2>1 DEF DroppedInv
<1>3. ASSUME NEW out \in parts \cup {NoChunks}, Finish(out)
      PROVE  DroppedInv'
    <2>1. \A p \in parts : p = out
        BY <1>3, WholeList DEF Finish
    <2>2. pc = "compiling" /\ pc' \in {"running", "failed"} /\ drop' = drop
          /\ (pc' = "running" => out.ok)
        BY <1>3 DEF Finish
    <2> QED
        BY <2>1, <2>2 DEF DroppedInv
<1>4. ASSUME NEW x \in Handle,
             \/ \E y \in Handle : Clone(x, y)
             \/ \E f \in table : CallFunction(x, f)
             \/ ReturnFunction(x) \/ DropHandle(x)
      PROVE  DroppedInv'
    <2>1. /\ parts' = parts /\ drop' = drop
          /\ pc' = pc \/ pc' = "dropping"
        BY <1>4 DEF Clone, CallFunction, ReturnFunction, DropHandle
    <2> QED
        BY <2>1 DEF DroppedInv
<1>5. ASSUME NEW f \in table, DropEntry(f)
      PROVE  DroppedInv'
    BY <1>5 DEF DropEntry, DroppedInv
<1>6. ASSUME NEW c \in Chunk, DropWrapper(c)
      PROVE  DroppedInv'
    BY <1>6 DEF DropWrapper, DroppedInv, JitInv, TypeOK
<1>7. CASE Ended
    BY <1>1, <1>7 DEF Ended
<1> QED
    BY <1>1, <1>2, <1>3, <1>4, <1>5, <1>6, <1>7, DroppedReduceSteps DEF Next

LEMMA PoolAlways == Spec => []PoolInv
<1>1. Init => PoolInv
    BY JitInit, ListInit DEF Init, PoolInv, DroppedInv
<1>2. PoolInv /\ [Next]_vars => PoolInv'
    BY JitNext, ListNext, DroppedNext DEF PoolInv
<1> QED
    BY <1>1, <1>2, PTL DEF Spec

\* Nothing that a function needs is lost as long as it can be used.
LEMMA NothingLost ==
    ASSUME PoolInv, pc = "running", NEW c \in Chunk
    PROVE  ~Lost(c)
<1>1. stage[c] = "ok" => c \in arc
    BY DEF PoolInv, ListInv, SpanInv, OwnedInv, DroppedInv
<1> QED
    BY <1>1 DEF PoolInv, JitInv, OneOwner, Sound, Lost

LEMMA PoolInit == ASSUME Init PROVE Pool!Init
<1>1. \A i \in DOMAIN args : args[i] \in Contract
    BY DEF Init
<1> QED
    BY <1>1 DEF Init, Pool!Init, Lost

\* What is neither about contexts nor about the table is not seen in the pool.
LEMMA PoolUnseen ==
    ASSUME UNCHANGED <<args, pc, table, holder, callee>>,
           (\E c \in Chunk : Lost(c)') <=> \E c \in Chunk : Lost(c)
    PROVE  UNCHANGED Pool!poolVars
BY DEF Pool!poolVars, Lost

\* The end of the compilation.
LEMMA PoolFinishSteps ==
    ASSUME PoolInv, PoolInv', NEW out \in parts \cup {NoChunks}, Finish(out)
    PROVE  Pool!Next
<1>1. /\ pc = "compiling" /\ UNCHANGED <<args, chunkVars, drop, callee>>
      /\ table = {} /\ \A x \in Handle : ~holder[x] /\ callee[x] = Nothing
    BY DEF Finish, PoolInv, JitInv, HoldersFitPc
<1>2. \A c \in Chunk : Lost(c)' <=> Lost(c)
    BY <1>1 DEF Lost, chunkVars
<1>3. CASE pc' = "running"
    <2>1. PICK x \in Handle : holder' = [holder EXCEPT ![x] = TRUE]
        BY <1>3 DEF Finish
    <2>2. {f[1] : f \in table'} = {args'[i] : i \in DOMAIN args'}
        BY <1>3 DEF PoolInv, ListInv, EndInv
    <2>3. \A c \in Chunk : ~Lost(c)'
        <3>1. \A c \in Chunk : stage'[c] = "ok" => c \in arc'
            BY <1>3 DEF PoolInv, ListInv, SpanInv, OwnedInv, DroppedInv
        <3> QED
            BY <3>1 DEF PoolInv, JitInv, OneOwner, Sound, Lost
    <2>4. {y \in Handle : holder'[y]} = {x}
        BY <1>1, <2>1 DEF PoolInv, JitInv, TypeOK
    <2>5. Pool!Compiled(x)
        BY <1>1, <1>2, <1>3, <2>2, <2>3, <2>4 DEF Pool!Compiled
    <2> QED
        BY <2>5 DEF Pool!Next
<1>4. CASE pc' = "failed" /\ UNCHANGED <<tableVars, holder>>
    <2>1. Pool!Failed
        BY <1>1, <1>2, <1>4 DEF Pool!Failed, tableVars
    <2> QED
        BY <2>1 DEF Pool!Next
<1> QED
    BY <1>3, <1>4 DEF Finish

\* Execution contexts use the pool one step at a time, and the last of them
\* is the last to leave.
LEMMA PoolHandleSteps ==
    ASSUME PoolInv, NEW x \in Handle,
           \/ \E y \in Handle : Clone(x, y)
           \/ \E f \in table : CallFunction(x, f)
           \/ ReturnFunction(x) \/ DropHandle(x)
    PROVE  Pool!Next
<1> USE NothingAssumption DEF PoolInv, JitInv, TypeOK
<1>1. UNCHANGED <<args, chunkVars, drop, parts, tableVars>>
    BY DEF Clone, CallFunction, ReturnFunction, DropHandle
<1>2. (\E c \in Chunk : Lost(c)') <=> \E c \in Chunk : Lost(c)
    BY <1>1 DEF Lost, chunkVars
<1>3. holder[x] => pc = "running"
    BY DEF HoldersFitPc
<1>4. ASSUME NEW y \in Handle, Clone(x, y)
      PROVE  Pool!Next
    <2>1. /\ pc' = pc /\ callee' = callee
          /\ {z \in Handle : holder'[z]} = {z \in Handle : holder[z]} \cup {y}
          /\ {z \in Handle : holder[z]} # {}
        BY <1>4 DEF Clone
    <2>2. Pool!Share(y)
        BY <1>1, <1>2, <2>1 DEF Pool!Share, tableVars
    <2> QED
        BY <2>2 DEF Pool!Next
<1>5. ASSUME NEW f \in table, CallFunction(x, f)
      PROVE  Pool!Next
    <2>1. f[2] # Nothing /\ holder[x] /\ callee[x] = Nothing /\ pc' = pc /\ holder' = holder
        BY <1>5 DEF CallFunction
    <2>2. {z \in Handle : callee'[z] # Nothing} = {z \in Handle : callee[z] # Nothing} \cup {x}
        BY <1>5, <2>1 DEF CallFunction
    <2>3. f[1] \in {g[1] : g \in table}
        OBVIOUS
    <2>4. Pool!Call(x)
        BY <1>1, <1>2, <1>3, <2>1, <2>2, <2>3 DEF Pool!Call, tableVars
    <2> QED
        BY <2>4 DEF Pool!Next
<1>6. CASE ReturnFunction(x)
    <2>1. /\ pc' = pc /\ holder' = holder /\ callee[x] # Nothing
          /\ {z \in Handle : callee'[z] # Nothing} = {z \in Handle : callee[z] # Nothing} \ {x}
        BY <1>6 DEF ReturnFunction
    <2>2. Pool!Return(x)
        BY <1>1, <1>2, <2>1 DEF Pool!Return, tableVars
    <2> QED
        BY <2>2 DEF Pool!Next
<1>7. CASE DropHandle(x)
    <2>1. /\ holder[x] /\ callee[x] = Nothing /\ callee' = callee /\ pc = "running"
          /\ pc' = IF \E y \in Handle \ {x} : holder[y] THEN pc ELSE "dropping"
          /\ {z \in Handle : holder'[z]} = {z \in Handle : holder[z]} \ {x}
        BY <1>3, <1>7 DEF DropHandle
    <2>2. CASE \E y \in Handle \ {x} : holder[y]
        <3>1. {z \in Handle : holder'[z]} # {} /\ pc' = pc
            BY <2>1, <2>2
        <3>2. Pool!Leave(x)
            BY <1>1, <1>2, <2>1, <3>1 DEF Pool!Leave, tableVars
        <3> QED
            BY <3>2 DEF Pool!Next
    <2>3. CASE ~\E y \in Handle \ {x} : holder[y]
        <3>1. {z \in Handle : holder'[z]} = {} /\ pc' = "dropping"
            BY <2>1, <2>3
        <3>2. Pool!Leave(x)
            BY <1>1, <1>2, <2>1, <3>1 DEF Pool!Leave, tableVars
        <3> QED
            BY <3>2 DEF Pool!Next
    <2> QED
        BY <2>2, <2>3
<1> QED
    BY <1>4, <1>5, <1>6, <1>7

\* The compilation of a chunk, and the reduction, are not seen.
LEMMA PoolChunkSteps ==
    ASSUME PoolInv, NEW c \in Chunks, CompileChunk(c)
    PROVE  UNCHANGED Pool!poolVars
<1> USE DEF PoolInv, JitInv, TypeOK
<1>0. c \in Chunk
    BY DEF Chunks
<1>1. UNCHANGED <<args, pc, table, holder, callee>>
    BY DEF CompileChunk, MakeContext, CreateCompiler, TranslateAll, Finalize, GiveUp,
        tableVars, callVars
<1>2. \A d \in Chunk \ {c} : Lost(d)' <=> Lost(d)
    BY DEF Lost, CompileChunk, MakeContext, CreateCompiler, TranslateAll, Finalize, GiveUp
<1>3. ~Lost(c) /\ ~Lost(c)'
    BY <1>0 DEF Lost, CompileChunk, MakeContext, CreateCompiler, TranslateAll, Finalize,
        GiveUp, MemoryFits
<1> QED
    BY <1>0, <1>1, <1>2, <1>3, PoolUnseen

\* A destructor releases memory only when the pool is not, or not yet, usable.
LEMMA PoolDropSteps ==
    ASSUME PoolInv, NEW c \in Chunk, DropWrapper(c)
    PROVE  Pool!Next
<1> USE DEF PoolInv, JitInv, TypeOK
<1>1. /\ UNCHANGED <<args, pc, table, holder, callee>> /\ stage' = stage
      /\ drop[c] # "no" /\ stage[c] = "ok"
    BY DEF DropWrapper, tableVars, callVars, MemoryFits
<1>2. pc # "running"
    BY <1>1 DEF DroppedInv
<1>3. Lost(c)'
    BY <1>1 DEF DropWrapper, Lost, Freed, MemoryFits
<1>4. \E d \in Chunk : Lost(d)'
    BY <1>3
<1>5. Pool!Release
    BY <1>1, <1>2, <1>4 DEF Pool!Release
<1> QED
    BY <1>5 DEF Pool!Next

\* Each step is a step of the pool, or none.
LEMMA PoolNext ==
    ASSUME PoolInv, PoolInv', [Next]_vars
    PROVE  [Pool!Next]_(Pool!poolVars)
<1>1. CASE UNCHANGED vars
    <2>1. UNCHANGED <<args, pc, table, holder, callee>> /\ \A c \in Chunk : Lost(c)' <=> Lost(c)
        BY <1>1 DEF vars, chunkVars, tableVars, callVars, Lost
    <2> QED
        BY <2>1, PoolUnseen
<1>2. ASSUME NEW p \in parts, NEW q \in parts, Reduce(p, q)
      PROVE  UNCHANGED Pool!poolVars
    <2>1. UNCHANGED <<args, pc, table, holder, callee>> /\ \A c \in Chunk : Lost(c)' <=> Lost(c)
        BY <1>2 DEF Reduce, chunkVars, tableVars, callVars, Lost
    <2> QED
        BY <2>1, PoolUnseen
<1>3. ASSUME NEW f \in table, DropEntry(f)
      PROVE  UNCHANGED Pool!poolVars
    <2>1. /\ pc = "dropping" /\ UNCHANGED <<args, pc, holder, callee>>
          /\ \A c \in Chunk : Lost(c)' <=> Lost(c)
        BY <1>3 DEF DropEntry, chunkVars, callVars, Lost
    <2>2. (\E c \in Chunk : Lost(c)') <=> \E c \in Chunk : Lost(c)
        BY <2>1
    <2> QED
        BY <2>1, <2>2 DEF Pool!poolVars
<1>4. CASE Ended
    BY <1>1, <1>4 DEF Ended
<1>5. CASE Next
    BY <1>2, <1>3, <1>4, <1>5, PoolChunkSteps, PoolFinishSteps, PoolHandleSteps, PoolDropSteps
        DEF Next
<1> QED
    BY <1>1, <1>5

\* For any lists, chunk sizes and execution contexts: to the contexts the
\* functions are a pool that has all contracts of the list or never exists,
\* and of which nothing is freed until the last context has been dropped.
THEOREM FunctionsArePool == Spec => ImplementsPool
    BY PoolInit, PoolNext, PoolAlways, PTL DEF Spec, ImplementsPool, Pool!Spec
=============================================================================
