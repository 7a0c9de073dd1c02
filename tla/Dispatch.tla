------------------------------ MODULE Dispatch ------------------------------
(***************************************************************************)
(* Which engine executes a contract, and what the touch counters say of it.*)
(*                                                                         *)
(* A block is executed twice.  The first execution is native, with         *)
(* BytecodeTouchInspector attached, and yields the addresses that were     *)
(* called (find_touched_bytecode); their code, as it is in the latest      *)
(* state, is compiled.  The second one repeats the block with the handler  *)
(* of revmc_register_handler: every time revm executes a frame, for the    *)
(* first time or when a call it made returns, the handler looks the code   *)
(* hash of the frame up among the compiled functions, counts a touch of    *)
(* the address and runs the function or the interpreter.                   *)
(* check_tx_sim_validity finally judges the counters.                      *)
(*                                                                         *)
(* The EVM around the handler (call stack, creation of contracts, revert   *)
(* of code changes) is revm's.  A bytecode is identified with its hash.    *)
(***************************************************************************)
EXTENDS Naturals, Sequences, FiniteSetsExt

CONSTANTS
    Address,
    Code,           \* bytecodes, which are also their hashes
    NoCode,         \* an account without code, and the hash of a create frame
    MaxEvents,      \* bound: calls, creations and returns in the block
    MaxDepth        \* bound: depth of the call stack

ASSUME DispatchAssumption ==
    /\ IsFiniteSet(Address)
    /\ NoCode \notin Code \cup Address
    /\ MaxEvents \in Nat /\ MaxDepth \in Nat

VARIABLES
    phase,      \* "observe", "select", "replay" or "done"
    block,      \* the events of the block, as the first execution met them
    pos,        \* how many of them the second execution has repeated
    before,     \* the code of the accounts before the block
    code,       \* the code of the accounts now
    stack,      \* the call stack of revm
    due,        \* the top frame is about to be executed
    touched,    \* BytecodeTouchInspector::touches
    latest,     \* the code of the accounts in the latest state
    native_exe, \* the second execution is a native one (SimRunType::Native)
    fns,        \* EvmCompilerFns, the compiled bytecodes
    touches,    \* Touches of the external context
    ran         \* what really executed: <<address, hash, engine>>

vars == <<phase, block, pos, before, code, stack, due, touched, latest, native_exe, fns,
          touches, ran>>
selection == <<before, touched, latest, native_exe, fns>>

Codes == [Address -> Code \cup {NoCode}]
Counter == [overall : Nat, non_native : Nat]
Engines == {"native", "compiled"}

Calls    == [op : {"call"}, at : Address, target : Address]
Creates  == [op : {"create"}, at : Address]
Returns  == [op : {"return"}, ok : BOOLEAN, deployed : Code \cup {NoCode}]
Events   == Calls \cup Creates \cup Returns

\* bytecode_address is None in a create frame.
Frame == [bytecode_address : Address \cup {NoCode}, target_address : Address,
          hash : Code \cup {NoCode}, saved : Codes, engines : SUBSET Engines]

TypeOK ==
    /\ phase \in {"observe", "select", "replay", "done"}
    /\ block \in Seq(Events) /\ Len(block) <= MaxEvents
    /\ pos \in 0 .. Len(block)
    /\ {before, code, latest} \subseteq Codes
    /\ stack \in Seq(Frame) /\ Len(stack) <= MaxDepth
    /\ due \in BOOLEAN /\ native_exe \in BOOLEAN
    /\ touched \subseteq Address
    /\ fns \subseteq Code
    /\ touches \in [Address -> Counter]
    /\ ran \subseteq (Address \X (Code \cup {NoCode}) \X Engines)

Init ==
    /\ phase = "observe"
    /\ block = <<>> /\ pos = 0
    /\ before \in Codes /\ code = before /\ latest = before
    /\ stack = <<>> /\ due = FALSE /\ native_exe = FALSE
    /\ touched = {} /\ fns = {} /\ ran = {}
    /\ touches = [a \in Address |-> [overall |-> 0, non_native |-> 0]]

-----------------------------------------------------------------------------
(* The EVM: what an event does to the call stack and to the accounts.      *)

Top == stack[Len(stack)]

CallFrame(e) ==
    [bytecode_address |-> e.at, target_address |-> e.target, hash |-> code[e.at],
     saved |-> code, engines |-> {}]

CreateFrame(e) ==
    [bytecode_address |-> NoCode, target_address |-> e.at, hash |-> NoCode,
     saved |-> code, engines |-> {}]

\* A transaction starts with a call or a creation; a frame may call, create
\* at an address without code, or return, a creation with the code it
\* deploys.  Only a frame that returns well keeps its code changes.
Possible(e) ==
    CASE e.op = "call"   -> Len(stack) < MaxDepth
      [] e.op = "create" -> Len(stack) < MaxDepth /\ code[e.at] = NoCode
      [] e.op = "return" -> /\ stack # <<>>
                            /\ e.deployed # NoCode => e.ok /\ Top.bytecode_address = NoCode

Happens(e) ==
    \/ /\ e.op = "call"
       /\ stack' = IF code[e.at] = NoCode THEN stack ELSE Append(stack, CallFrame(e))
       /\ UNCHANGED code
    \/ /\ e.op = "create"
       /\ stack' = Append(stack, CreateFrame(e))
       /\ UNCHANGED code
    \/ /\ e.op = "return"
       /\ stack' = SubSeq(stack, 1, Len(stack) - 1)
       /\ code' = IF ~e.ok THEN Top.saved
                  ELSE IF Top.bytecode_address = NoCode
                       THEN [code EXCEPT ![Top.target_address] = e.deployed]
                       ELSE code

-----------------------------------------------------------------------------
(* First execution: native, with the inspector.                            *)

\* Mutant of Inspect: it records on whose behalf a contract is called.
InspectTarget(e) ==
    touched' = IF e.op = "call" THEN touched \cup {e.target} ELSE touched

\* BytecodeTouchInspector::call sees every call, also of accounts without
\* code; creations are not overridden.
Inspect(e) == touched' = IF e.op = "call" THEN touched \cup {e.at} ELSE touched

Observe(e) ==
    /\ phase = "observe"
    /\ Len(block) < MaxEvents
    /\ Possible(e)
    /\ Happens(e)
    /\ Inspect(e)
    /\ block' = Append(block, e)
    /\ UNCHANGED <<phase, pos, before, due, latest, native_exe, fns, touches, ran>>

\* The block is over; the chain goes on from it up to the latest state, where
\* accounts may have got, lost or changed their code.
EndObserve ==
    /\ phase = "observe" /\ stack = <<>> /\ block # <<>>
    /\ phase' = "select"
    /\ latest' \in Codes
    /\ UNCHANGED <<block, pos, before, code, stack, due, touched, native_exe, fns, touches, ran>>

\* Mutant of Select: accounts without code are not left out.
SelectAll ==
    /\ phase = "select"
    /\ phase' = "replay"
    /\ native_exe' \in BOOLEAN
    /\ fns' = IF native_exe' THEN {} ELSE {latest[a] : a \in touched}
    /\ code' = before
    /\ UNCHANGED <<block, pos, before, stack, due, touched, latest, touches, ran>>

\* contracts_to_bytecode: the latest code of the touched accounts that have
\* one.  Everything selected is compiled for a compiled execution, nothing for
\* a native one; the second execution starts over.
Select ==
    /\ phase = "select"
    /\ phase' = "replay"
    /\ native_exe' \in BOOLEAN
    /\ fns' = IF native_exe' THEN {} ELSE {latest[a] : a \in touched} \ {NoCode}
    /\ code' = before
    /\ UNCHANGED <<block, pos, before, stack, due, touched, latest, touches, ran>>

-----------------------------------------------------------------------------
(* Second execution: the handler of revmc_register_handler.                *)

\* revm goes on to the next event; it then executes the frame on top, a new
\* one or one whose call has returned.
Replay ==
    /\ phase = "replay" /\ ~due /\ pos < Len(block)
    /\ Happens(block[pos + 1])
    /\ pos' = pos + 1
    /\ due' = (stack' # <<>>)
    /\ UNCHANGED <<phase, block, touches, ran>> /\ UNCHANGED selection

\* Mutant of Touched: the first touch of an address is not counted as compiled.
TouchedLate(counter, was_compiled) ==
    [overall    |-> counter.overall + 1,
     non_native |-> counter.non_native
                      + IF was_compiled /\ counter.overall > 0 THEN 1 ELSE 0]

\* TouchCounter::increment, on the entry of the address.
Touched(counter, non_native) ==
    [overall    |-> counter.overall + 1,
     non_native |-> counter.non_native + IF non_native THEN 1 ELSE 0]

\* contract.hash of the frame.
LookupHash(frame) == frame.hash

\* Where the code of a frame lives: the callee's account, or the account a
\* creation fills.
CodeAddress(frame) ==
    CASE frame.bytecode_address = NoCode -> frame.target_address
      [] OTHER                           -> frame.bytecode_address

\* Mutant of TouchedAddress: the account the code is executed for.
TouchedTarget(frame) == frame.target_address

\* The address the handler counts, bytecode_address.unwrap_or(target_address).
TouchedAddress(frame) ==
    IF frame.bytecode_address # NoCode THEN frame.bytecode_address
                                       ELSE frame.target_address

\* Mutant of ExecuteFrame: a bytecode is compiled once it was interpreted.
ExecuteFrameLazily ==
    /\ phase = "replay" /\ due
    /\ LET compiled == LookupHash(Top) \in fns
           engine   == IF compiled THEN "compiled" ELSE "native"
       IN  /\ touches' = [touches EXCEPT ![TouchedAddress(Top)] = Touched(@, compiled)]
           /\ stack' = [stack EXCEPT ![Len(stack)].engines = @ \cup {engine}]
           /\ ran' = ran \cup {<<CodeAddress(Top), Top.hash, engine>>}
    /\ fns' = fns \cup ({LookupHash(Top)} \ {NoCode})
    /\ due' = FALSE
    /\ UNCHANGED <<phase, block, pos, before, code, touched, latest, native_exe>>

ExecuteFrame ==
    /\ phase = "replay" /\ due
    /\ LET compiled == LookupHash(Top) \in fns
           engine   == IF compiled THEN "compiled" ELSE "native"
       IN  /\ touches' = [touches EXCEPT ![TouchedAddress(Top)] = Touched(@, compiled)]
           /\ stack' = [stack EXCEPT ![Len(stack)].engines = @ \cup {engine}]
           /\ ran' = ran \cup {<<CodeAddress(Top), Top.hash, engine>>}
    /\ due' = FALSE
    /\ UNCHANGED <<phase, block, pos, code>> /\ UNCHANGED selection

EndReplay ==
    /\ phase = "replay" /\ ~due /\ pos = Len(block)
    /\ phase' = "done"
    /\ UNCHANGED <<block, pos, code, stack, due, touches, ran>> /\ UNCHANGED selection

Next ==
    \/ \E e \in Events : Observe(e)
    \/ EndObserve \/ Select \/ Replay \/ ExecuteFrame \/ EndReplay

Spec == Init /\ [][Next]_vars

-----------------------------------------------------------------------------
(* check_tx_sim_validity, the part that judges the counters.               *)

overall    == MapThenSumSet(LAMBDA a : touches[a].overall, Address)
non_native == MapThenSumSet(LAMBDA a : touches[a].non_native, Address)

CheckTouches(native) ==
    CASE native /\ non_native # 0        -> IF non_native < overall THEN "warn" ELSE "err"
      [] ~native /\ non_native # overall -> IF non_native > 0 THEN "warn" ELSE "err"
      [] OTHER                               -> "ok"

-----------------------------------------------------------------------------
(* Properties.                                                             *)

\* A frame is never begun by one engine and resumed by the other: compiled
\* code resumes from a state of its own that the interpreter does not keep,
\* and the handler decides anew every time a call of the frame returns.
OneEngine == \A i \in DOMAIN stack : Cardinality(stack[i].engines) <= 1

NativeRuns   == {r \in ran : r[3] = "native"}
CompiledRuns == {r \in ran : r[3] = "compiled"}

\* The only contracts the second execution interprets are creations and
\* contracts whose code is not the one the latest state has for their
\* address: the inspector of the first execution missed none, by whatever
\* kind of call it was reached.
NativeExplained ==
    phase = "done" /\ ~native_exe =>
        \A r \in NativeRuns : r[2] = NoCode \/ r[2] # latest[r[1]]

\* The counters tell what ran: the check stays silent exactly when all that
\* ran was of the expected kind, and refuses a compiled execution exactly
\* when nothing of it was compiled.
VerdictHonest ==
    phase = "done" =>
        /\ CheckTouches(TRUE) = "ok" <=> CompiledRuns = {}
        /\ CheckTouches(FALSE) = "ok" <=> NativeRuns = {}
        /\ CheckTouches(FALSE) = "err" <=> CompiledRuns = {} /\ NativeRuns # {}
        /\ native_exe => CheckTouches(native_exe) = "ok"

\* The counter of an address that only ever executed one code is not mixed,
\* although the code may have been reached by calls on behalf of others.
TouchPurity ==
    phase = "done" =>
        \A a \in Address :
            (\A r, s \in ran : r[1] = a /\ s[1] = a => r[2] = s[2])
                => touches[a].non_native \in {0, touches[a].overall}

\* README: `selected` compiles all contracts that are called during the
\* execution, so none of them is interpreted.
CalledAreCompiled ==
    phase = "done" /\ ~native_exe => \A r \in NativeRuns : r[2] = NoCode
=============================================================================
