--------------------------- MODULE DispatchProofs ---------------------------
(***************************************************************************)
(* Proofs about Dispatch, for any addresses and bytecodes, blocks of any   *)
(* length and call stacks of any depth.                                    *)
(*                                                                         *)
(* The second execution meets the events of the first one: the proofs      *)
(* carry a trace of the call stacks and codes that the first execution     *)
(* went through, and the second one goes through the same.  That the       *)
(* touched addresses cover what is executed, and that a frame keeps its    *)
(* engine, follows from what the frames on the stack are.                  *)
(***************************************************************************)
EXTENDS Dispatch, SumTheorems, TLAPS

\* What an event makes of a call stack s and codes c; see Happens.
StackAfter(s, c, e) ==
    CASE e.op = "call"   -> IF c[e.at] = NoCode THEN s
                            ELSE Append(s, [bytecode_address |-> e.at, target_address |-> e.target,
                                            hash |-> c[e.at], saved |-> c, engines |-> {}])
      [] e.op = "create" -> Append(s, [bytecode_address |-> NoCode, target_address |-> e.at,
                                       hash |-> NoCode, saved |-> c, engines |-> {}])
      [] e.op = "return" -> SubSeq(s, 1, Len(s) - 1)

CodeAfter(s, c, e) ==
    IF e.op # "return" THEN c
    ELSE IF ~e.ok THEN s[Len(s)].saved
    ELSE IF s[Len(s)].bytecode_address = NoCode
         THEN [c EXCEPT ![s[Len(s)].target_address] = e.deployed]
         ELSE c

\* Two call stacks that differ in the engines only.
Alike(s, t) ==
    /\ Len(s) = Len(t)
    /\ \A i \in 1 .. Len(s) :
          /\ s[i].bytecode_address = t[i].bytecode_address
          /\ s[i].target_address = t[i].target_address
          /\ s[i].hash = t[i].hash /\ s[i].saved = t[i].saved

\* The first execution went through the call stacks S[k] and codes C[k].
Trace(S, C) ==
    /\ S \in [0 .. Len(block) -> Seq(Frame)] /\ C \in [0 .. Len(block) -> Codes]
    /\ S[0] = <<>> /\ C[0] = before
    /\ \A k \in 1 .. Len(block) :
          /\ S[k] = StackAfter(S[k - 1], C[k - 1], block[k])
          /\ C[k] = CodeAfter(S[k - 1], C[k - 1], block[k])
          /\ block[k].op = "return" => S[k - 1] # <<>>
          /\ Len(S[k]) <= MaxDepth

\* Where the execution under way is on that trace.
OnTrace(S, C) ==
    /\ phase = "observe" => stack = S[Len(block)] /\ code = C[Len(block)]
    /\ phase = "select" => stack = <<>>
    /\ phase \in {"replay", "done"} => Alike(stack, S[pos]) /\ code = C[pos]

TraceInv == \E S, C : Trace(S, C) /\ OnTrace(S, C)

\* What has not happened before the second execution, and what is compiled
\* for it.
PhaseInv ==
    /\ phase \in {"observe", "select"} =>
          /\ pos = 0 /\ ran = {} /\ fns = {} /\ ~due
          /\ \A a \in Address : touches[a].non_native = 0 /\ touches[a].overall = 0
          /\ \A i \in DOMAIN stack : stack[i].engines = {}
    /\ phase \in {"replay", "done"} =>
          fns = IF native_exe THEN {} ELSE {latest[a] : a \in touched} \ {NoCode}
    /\ due => stack # <<>>

\* The engine that executes what has hash h.
EngineOf(h) == IF h \in fns THEN "compiled" ELSE "native"

\* Frames are creations, or calls of touched addresses, and have met one
\* engine.
FrameInv ==
    \A i \in DOMAIN stack :
        /\ stack[i].bytecode_address = NoCode => stack[i].hash = NoCode
        /\ stack[i].bytecode_address # NoCode => stack[i].bytecode_address \in touched
        /\ stack[i].engines \subseteq {EngineOf(stack[i].hash)}

CalledInv == \A k \in DOMAIN block : block[k].op = "call" => block[k].at \in touched

RanInv ==
    \A r \in ran : r[3] = EngineOf(r[2]) /\ (r[2] # NoCode => r[1] \in touched)

\* The counters of an address are one-sided exactly when its executions are.
CounterInv ==
    \A a \in Address :
        /\ touches[a].non_native <= touches[a].overall
        /\ (\A r \in ran : r[1] = a => r[3] = "native") <=> touches[a].non_native = 0
        /\ (\A r \in ran : r[1] = a => r[3] = "compiled")
              <=> touches[a].non_native = touches[a].overall

DispatchInv ==
    /\ TypeOK /\ TraceInv /\ PhaseInv
    /\ FrameInv /\ CalledInv /\ RanInv /\ CounterInv

-----------------------------------------------------------------------------
(* Events.                                                                 *)

LEMMA EventOps == \A e \in Events : e.op \in {"call", "create", "return"}
BY DEF Events, Calls, Creates, Returns

\* StackAfter and CodeAfter are what Happens does.
LEMMA HappensAfter ==
    ASSUME NEW e \in Events, Happens(e)
    PROVE  stack' = StackAfter(stack, code, e) /\ code' = CodeAfter(stack, code, e)
BY EventOps DEF Happens, StackAfter, CodeAfter, CallFrame, CreateFrame, Top

LEMMA AfterType ==
    ASSUME NEW e \in Events, NEW s \in Seq(Frame), NEW c \in Codes,
           e.op = "return" => s # <<>>
    PROVE  StackAfter(s, c, e) \in Seq(Frame) /\ CodeAfter(s, c, e) \in Codes
<1>1. CASE e.op = "call"
  <2>1. e.at \in Address /\ e.target \in Address /\ c[e.at] \in Code \cup {NoCode}
    BY <1>1 DEF Events, Calls, Creates, Returns, Codes
  <2>2. [bytecode_address |-> e.at, target_address |-> e.target,
         hash |-> c[e.at], saved |-> c, engines |-> {}] \in Frame
    BY <2>1 DEF Frame
  <2> QED  BY <1>1, <2>2 DEF StackAfter, CodeAfter
<1>2. CASE e.op = "create"
  <2>1. e.at \in Address
    BY <1>2 DEF Events, Calls, Creates, Returns
  <2> QED  BY <1>2, <2>1 DEF StackAfter, CodeAfter, Frame
<1>3. CASE e.op = "return"
  <2>1. e.deployed \in Code \cup {NoCode}
    BY <1>3 DEF Events, Calls, Creates, Returns
  <2>2. s[Len(s)] \in Frame  BY <1>3
  <2>3. s[Len(s)].saved \in Codes /\ s[Len(s)].target_address \in Address
    BY <2>2 DEF Frame
  <2>4. CodeAfter(s, c, e) \in Codes
    BY <1>3, <2>1, <2>3 DEF CodeAfter, Codes
  <2>5. StackAfter(s, c, e) \in Seq(Frame)
    BY <1>3 DEF StackAfter
  <2> QED  BY <2>4, <2>5
<1> QED  BY <1>1, <1>2, <1>3, EventOps

\* The handler's notes make no difference to the EVM.
LEMMA AfterAlike ==
    ASSUME NEW e \in Events, NEW s \in Seq(Frame), NEW t \in Seq(Frame), NEW c \in Codes,
           Alike(s, t), e.op = "return" => s # <<>>
    PROVE  /\ Alike(StackAfter(s, c, e), StackAfter(t, c, e))
           /\ CodeAfter(s, c, e) = CodeAfter(t, c, e)
<1>0. Len(s) \in Nat /\ Len(t) = Len(s)  BY DEF Alike
<1>1. CASE e.op = "call"
  BY <1>0, <1>1 DEF StackAfter, CodeAfter, Alike
<1>2. CASE e.op = "create"
  BY <1>0, <1>2 DEF StackAfter, CodeAfter, Alike
<1>3. CASE e.op = "return"
  <2>1. Len(s) \in 1 .. Len(s)  BY <1>0, <1>3
  <2>2. CodeAfter(s, c, e) = CodeAfter(t, c, e)
    BY <1>0, <2>1 DEF CodeAfter, Alike
  <2>3. Alike(SubSeq(s, 1, Len(s) - 1), SubSeq(t, 1, Len(s) - 1))
    BY <1>0, <2>1 DEF Alike
  <2> QED  BY <1>0, <1>3, <2>2, <2>3 DEF StackAfter
<1> QED  BY <1>1, <1>2, <1>3, EventOps

\* Each frame on the stack after an event was there before, or is the one
\* the event has put there.
LEMMA AfterFrames ==
    ASSUME NEW e \in Events, Happens(e), stack \in Seq(Frame), code \in Codes,
           e.op = "return" => stack # <<>>,
           NEW i \in DOMAIN stack'
    PROVE  \/ i \in DOMAIN stack /\ stack'[i] = stack[i]
           \/ e.op = "call" /\ stack'[i] = CallFrame(e)
           \/ e.op = "create" /\ stack'[i] = CreateFrame(e)
<1>0. Len(stack) \in Nat  OBVIOUS
<1>1. CASE e.op = "call"
  BY <1>0, <1>1 DEF Happens
<1>2. CASE e.op = "create"
  BY <1>0, <1>2 DEF Happens
<1>3. CASE e.op = "return"
  BY <1>0, <1>3 DEF Happens
<1> QED  BY <1>1, <1>2, <1>3, EventOps

-----------------------------------------------------------------------------
(* The invariant holds at first, and every action keeps it.                *)

LEMMA DispatchInit == ASSUME Init PROVE DispatchInv
<1> USE DispatchAssumption DEF Init
<1>a. before \in Codes /\ code \in Codes /\ latest \in Codes  OBVIOUS
<1>b. touches \in [Address -> Counter]  BY DEF Counter
<1>c. block \in Seq(Events) /\ Len(block) <= MaxEvents /\ pos \in 0 .. Len(block)
  OBVIOUS
<1>d. stack \in Seq(Frame) /\ Len(stack) <= MaxDepth  OBVIOUS
<1>e. due \in BOOLEAN /\ native_exe \in BOOLEAN /\ touched \subseteq Address /\ fns \subseteq Code
      /\ ran \subseteq (Address \X (Code \cup {NoCode}) \X Engines)
      /\ phase \in {"observe", "select", "replay", "done"}
  OBVIOUS
<1>1. TypeOK  BY <1>a, <1>b, <1>c, <1>d, <1>e DEF TypeOK
<1>2. TraceInv
  <2> DEFINE S == [k \in 0 .. 0 |-> <<>>]
             C == [k \in 0 .. 0 |-> before]
  <2>1. Len(block) = 0  OBVIOUS
  <2>2. S \in [0 .. 0 -> Seq(Frame)] /\ C \in [0 .. 0 -> Codes]  OBVIOUS
  <2>3. Trace(S, C)  BY <2>1, <2>2 DEF Trace
  <2>4. OnTrace(S, C)  BY <2>1 DEF OnTrace
  <2> QED  BY <2>3, <2>4 DEF TraceInv
<1>3. PhaseInv /\ FrameInv /\ CalledInv /\ RanInv /\ CounterInv
  BY DEF PhaseInv, FrameInv, CalledInv, RanInv, CounterInv
<1> QED  BY <1>1, <1>2, <1>3 DEF DispatchInv

LEMMA ObserveInv ==
    ASSUME DispatchInv, NEW e \in Events, Observe(e)
    PROVE  DispatchInv'
<1> USE DispatchAssumption DEF DispatchInv
<1>0. /\ stack \in Seq(Frame) /\ code \in Codes /\ block \in Seq(Events)
      /\ Happens(e) /\ Possible(e) /\ (e.op = "return" => stack # <<>>)
      /\ phase = "observe" /\ phase' = "observe" /\ block' = Append(block, e)
  BY EventOps DEF TypeOK, Observe, Possible
<1>1. stack' = StackAfter(stack, code, e) /\ code' = CodeAfter(stack, code, e)
  BY <1>0, HappensAfter
<1>2. stack' \in Seq(Frame) /\ code' \in Codes
  BY <1>0, <1>1, AfterType
<1>3. Len(stack') <= MaxDepth /\ Len(stack') \in Nat
  <2>1. Len(stack) \in Nat /\ Len(stack) <= MaxDepth /\ MaxDepth \in Nat
    BY <1>0 DEF TypeOK
  <2>2. CASE e.op = "call"
    BY <1>0, <2>1, <2>2 DEF Possible, Happens
  <2>3. CASE e.op = "create"
    BY <1>0, <2>1, <2>3 DEF Possible, Happens
  <2>4. CASE e.op = "return"
    BY <1>0, <2>1, <2>4 DEF Possible, Happens
  <2> QED  BY <2>2, <2>3, <2>4, EventOps
<1>4. touched' \subseteq Address /\ touched \subseteq touched'
      /\ (e.op = "call" => e.at \in touched')
  BY DEF Observe, Inspect, TypeOK, Events, Calls, Creates, Returns
<1>5. TypeOK'
  BY <1>0, <1>2, <1>3, <1>4 DEF TypeOK, Observe
<1>6. TraceInv'
  <2>1. PICK S, C : Trace(S, C) /\ OnTrace(S, C)  BY DEF TraceInv
  <2> DEFINE n == Len(block)
  <2>0. PICK T, D :
           /\ T = [k \in 0 .. n + 1 |-> IF k = n + 1 THEN stack' ELSE S[k]]
           /\ D = [k \in 0 .. n + 1 |-> IF k = n + 1 THEN code' ELSE C[k]]
    OBVIOUS
  <2>2. n \in Nat /\ Len(block') = n + 1 /\ block'[n + 1] = e
        /\ \A k \in 1 .. n : block'[k] = block[k]
    BY <1>0
  <2>3. stack = S[n] /\ code = C[n]  BY <1>0, <2>1 DEF OnTrace
  <2>4. T \in [0 .. n + 1 -> Seq(Frame)] /\ D \in [0 .. n + 1 -> Codes]
    BY <1>2, <2>0, <2>1, <2>2 DEF Trace
  <2>5. T[0] = <<>> /\ D[0] = before'
    BY <2>0, <2>1, <2>2 DEF Trace, Observe
  <2>6. ASSUME NEW k \in 1 .. n + 1
        PROVE  /\ T[k] = StackAfter(T[k - 1], D[k - 1], block'[k])
               /\ D[k] = CodeAfter(T[k - 1], D[k - 1], block'[k])
               /\ block'[k].op = "return" => T[k - 1] # <<>>
               /\ Len(T[k]) <= MaxDepth
    <3>1. CASE k = n + 1
      <4>1. T[k] = stack' /\ D[k] = code' /\ T[k - 1] = stack /\ D[k - 1] = code /\ block'[k] = e
        BY <2>0, <2>2, <2>3, <3>1
      <4> QED  BY <1>0, <1>1, <1>3, <4>1
    <3>2. CASE k # n + 1
      <4>1. k \in 1 .. n  BY <2>2, <3>2
      <4>2. T[k] = S[k] /\ D[k] = C[k] /\ T[k - 1] = S[k - 1] /\ D[k - 1] = C[k - 1]
            /\ block'[k] = block[k]
        BY <2>0, <2>2, <4>1
      <4> QED  BY <2>1, <4>1, <4>2 DEF Trace
    <3> QED  BY <3>1, <3>2
  <2>7. Trace(T, D)'  BY <2>2, <2>4, <2>5, <2>6 DEF Trace
  <2>8. OnTrace(T, D)'  BY <1>0, <2>0, <2>2 DEF OnTrace
  <2> QED  BY <2>7, <2>8 DEF TraceInv
<1>7. PhaseInv' /\ FrameInv'
  <2>1. \A i \in DOMAIN stack' :
           \/ i \in DOMAIN stack /\ stack'[i] = stack[i]
           \/ e.op = "call" /\ stack'[i] = CallFrame(e)
           \/ e.op = "create" /\ stack'[i] = CreateFrame(e)
    BY <1>0, AfterFrames
  <2>2. PhaseInv'  BY <1>0, <2>1 DEF PhaseInv, Observe, CallFrame, CreateFrame
  <2>3. ASSUME NEW i \in DOMAIN stack'
        PROVE  /\ stack'[i].bytecode_address = NoCode => stack'[i].hash = NoCode
               /\ stack'[i].bytecode_address # NoCode => stack'[i].bytecode_address \in touched'
               /\ stack'[i].engines = {}
    <3>1. CASE i \in DOMAIN stack /\ stack'[i] = stack[i]
      BY <1>0, <1>4, <3>1 DEF FrameInv, PhaseInv
    <3>2. CASE e.op = "call" /\ stack'[i] = CallFrame(e)
      BY <1>4, <3>2 DEF CallFrame, Events, Calls, Creates, Returns
    <3>3. CASE e.op = "create" /\ stack'[i] = CreateFrame(e)
      BY <3>3 DEF CreateFrame
    <3> QED  BY <2>1, <3>1, <3>2, <3>3
  <2> QED  BY <2>2, <2>3 DEF FrameInv
<1>8. CalledInv'
  BY <1>0, <1>4 DEF CalledInv
<1>9. RanInv' /\ CounterInv'
  BY <1>4 DEF RanInv, CounterInv, Observe, EngineOf
<1> QED  BY <1>5, <1>6, <1>7, <1>8, <1>9

LEMMA EndObserveInv == ASSUME DispatchInv, EndObserve PROVE DispatchInv'
<1> USE DEF DispatchInv, EndObserve
<1>1. TypeOK'  BY DEF TypeOK
<1>2. TraceInv'
  <2>1. PICK S, C : Trace(S, C) /\ OnTrace(S, C)  BY DEF TraceInv
  <2>2. Trace(S, C)' /\ OnTrace(S, C)'  BY <2>1 DEF Trace, OnTrace
  <2> QED  BY <2>2 DEF TraceInv
<1>3. PhaseInv' /\ FrameInv' /\ CalledInv' /\ RanInv' /\ CounterInv'
  BY DEF PhaseInv, FrameInv, CalledInv, RanInv, CounterInv, EngineOf
<1> QED  BY <1>1, <1>2, <1>3

LEMMA SelectInv == ASSUME DispatchInv, Select PROVE DispatchInv'
<1> USE DEF DispatchInv, Select
<1>0. stack = <<>> /\ pos = 0 /\ ran = {} /\ ~due
  BY DEF TraceInv, OnTrace, PhaseInv
<1>1. TypeOK'
  <2>1. \A a \in Address : latest[a] \in Code \cup {NoCode}  BY DEF TypeOK, Codes
  <2>2. fns' \subseteq Code  BY <2>1 DEF TypeOK
  <2>3. code' \in Codes  BY DEF TypeOK
  <2> QED  BY <2>2, <2>3 DEF TypeOK
<1>2. TraceInv'
  <2>1. PICK S, C : Trace(S, C) /\ OnTrace(S, C)  BY DEF TraceInv
  <2>2. Trace(S, C)'  BY <2>1 DEF Trace
  <2>3. Alike(<<>>, <<>>)  BY DEF Alike
  <2>4. OnTrace(S, C)'  BY <1>0, <2>1, <2>3 DEF Trace, OnTrace
  <2> QED  BY <2>2, <2>4 DEF TraceInv
<1>3. PhaseInv' /\ FrameInv' /\ CalledInv' /\ RanInv' /\ CounterInv'
  BY <1>0 DEF PhaseInv, FrameInv, CalledInv, RanInv, CounterInv
<1> QED  BY <1>1, <1>2, <1>3

LEMMA ReplayInv == ASSUME DispatchInv, Replay PROVE DispatchInv'
<1> USE DispatchAssumption DEF DispatchInv
<1>0. PICK S, C : Trace(S, C) /\ OnTrace(S, C)  BY DEF TraceInv
<1> DEFINE e == block[pos + 1]
<1>1. /\ phase = "replay" /\ phase' = "replay" /\ block' = block /\ pos' = pos + 1 /\ Happens(e)
      /\ pos \in Nat /\ pos + 1 \in 1 .. Len(block) /\ pos \in 0 .. Len(block)
      /\ pos + 1 \in DOMAIN block /\ e \in Events
      /\ stack \in Seq(Frame) /\ code \in Codes
  BY DEF TypeOK, Replay
<1>2. /\ Alike(stack, S[pos]) /\ code = C[pos] /\ S[pos] \in Seq(Frame)
      /\ S[pos + 1] = StackAfter(S[pos], C[pos], e) /\ C[pos + 1] = CodeAfter(S[pos], C[pos], e)
      /\ (e.op = "return" => S[pos] # <<>>) /\ Len(S[pos + 1]) <= MaxDepth
  <2>1. (pos + 1) - 1 = pos  BY <1>1
  <2> QED  BY <1>0, <1>1, <2>1 DEF Trace, OnTrace
<1>3. e.op = "return" => stack # <<>>
  BY <1>1, <1>2 DEF Alike
<1> HIDE DEF e
<1>4. stack' = StackAfter(stack, code, e) /\ code' = CodeAfter(stack, code, e)
  BY <1>1, HappensAfter
<1>5. stack' \in Seq(Frame) /\ code' \in Codes
  BY <1>1, <1>3, <1>4, AfterType
<1>6. Alike(stack', S[pos + 1]) /\ code' = C[pos + 1]
  BY <1>1, <1>2, <1>3, <1>4, AfterAlike
<1>7. TypeOK'
  <2>1. Len(stack') <= MaxDepth  BY <1>2, <1>6 DEF Alike
  <2>2. UNCHANGED <<before, touched, latest, native_exe, fns, touches, ran>> /\ due' \in BOOLEAN
    BY DEF Replay, selection
  <2> QED  BY <1>1, <1>5, <2>1, <2>2 DEF TypeOK
<1>8. TraceInv'
  <2>1. Trace(S, C)'  BY <1>0, <1>1 DEF Trace, Replay, selection
  <2>2. OnTrace(S, C)'  BY <1>1, <1>6 DEF OnTrace
  <2> QED  BY <2>1, <2>2 DEF TraceInv
<1>9. UNCHANGED <<touched, latest, native_exe, fns, touches, ran>>
  BY DEF Replay, selection
<1>10. FrameInv'
  <2>1. \A i \in DOMAIN stack' :
           \/ i \in DOMAIN stack /\ stack'[i] = stack[i]
           \/ e.op = "call" /\ stack'[i] = CallFrame(e)
           \/ e.op = "create" /\ stack'[i] = CreateFrame(e)
    BY <1>1, <1>3, AfterFrames
  <2>2. e.op = "call" => e.at \in touched /\ e.at \in Address
    BY <1>1 DEF CalledInv, e, Events, Calls, Creates, Returns
  <2>3. ASSUME NEW i \in DOMAIN stack'
        PROVE  /\ stack'[i].bytecode_address = NoCode => stack'[i].hash = NoCode
               /\ stack'[i].bytecode_address # NoCode => stack'[i].bytecode_address \in touched'
               /\ stack'[i].engines \subseteq {EngineOf(stack'[i].hash)}
    <3>1. CASE i \in DOMAIN stack /\ stack'[i] = stack[i]
      BY <1>9, <3>1 DEF FrameInv
    <3>2. CASE e.op = "call" /\ stack'[i] = CallFrame(e)
      BY <1>9, <2>2, <3>2 DEF CallFrame
    <3>3. CASE e.op = "create" /\ stack'[i] = CreateFrame(e)
      BY <3>3 DEF CreateFrame
    <3> QED  BY <2>1, <3>1, <3>2, <3>3
  <2> QED  BY <1>9, <2>3 DEF FrameInv, EngineOf
<1>11. PhaseInv' /\ CalledInv' /\ RanInv'
  BY <1>1, <1>9 DEF PhaseInv, CalledInv, RanInv, EngineOf, Replay
<1>12. CounterInv'
  <2>1. UNCHANGED <<touches, ran>>  BY DEF Replay
  <2> QED  BY <1>1, <2>1 DEF CounterInv
<1> QED  BY <1>7, <1>8, <1>10, <1>11, <1>12

\* What the handler does to the frame on top.
LEMMA Executed ==
    ASSUME DispatchInv, ExecuteFrame
    PROVE  /\ Top \in Frame /\ Len(stack) \in DOMAIN stack /\ stack \in Seq(Frame)
           /\ TouchedAddress(Top) \in Address /\ CodeAddress(Top) = TouchedAddress(Top)
           /\ Top.hash # NoCode => CodeAddress(Top) \in touched
           /\ stack' = [stack EXCEPT ![Len(stack)].engines = @ \cup {EngineOf(Top.hash)}]
           /\ ran' = ran \cup {<<CodeAddress(Top), Top.hash, EngineOf(Top.hash)>>}
           /\ touches' = [touches EXCEPT ![TouchedAddress(Top)] = Touched(@, Top.hash \in fns)]
           /\ UNCHANGED <<phase, block, pos, code, before, touched, latest, native_exe, fns>>
           /\ phase = "replay" /\ due' = FALSE
<1> USE DispatchAssumption DEF DispatchInv
<1>1. stack # <<>> /\ stack \in Seq(Frame)
  BY DEF ExecuteFrame, PhaseInv, TypeOK
<1>2. Top \in Frame /\ Len(stack) \in DOMAIN stack
  BY <1>1 DEF Top
<1>3. Top.bytecode_address \in Address \cup {NoCode} /\ Top.target_address \in Address
  BY <1>2 DEF Frame
<1>4. TouchedAddress(Top) \in Address /\ CodeAddress(Top) = TouchedAddress(Top)
  BY <1>3 DEF TouchedAddress, CodeAddress
<1>5. Top.hash # NoCode => CodeAddress(Top) \in touched
  BY <1>2 DEF FrameInv, CodeAddress, Top
<1> QED  BY <1>1, <1>2, <1>4, <1>5 DEF ExecuteFrame, EngineOf, LookupHash, selection

LEMMA ExecuteFrameInv == ASSUME DispatchInv, ExecuteFrame PROVE DispatchInv'
<1> USE DispatchAssumption
<1> DEFINE a0 == TouchedAddress(Top)
           h0 == Top.hash
           f0 == [Top EXCEPT !.engines = @ \cup {EngineOf(h0)}]
<1>1. /\ Top \in Frame /\ Len(stack) \in DOMAIN stack /\ stack \in Seq(Frame) /\ a0 \in Address
      /\ h0 # NoCode => a0 \in touched
      /\ stack' = [stack EXCEPT ![Len(stack)] = f0]
      /\ ran' = ran \cup {<<a0, h0, EngineOf(h0)>>}
      /\ touches' = [touches EXCEPT ![a0] = Touched(@, h0 \in fns)]
      /\ UNCHANGED <<phase, block, pos, code, before, touched, latest, native_exe, fns>>
      /\ phase = "replay" /\ due' = FALSE
  BY Executed DEF Top
<1>2. EngineOf(h0) \in Engines  BY DEF EngineOf, Engines
<1>3. h0 \in Code \cup {NoCode} /\ f0 \in Frame
  BY <1>1, <1>2 DEF Frame
<1>4. /\ f0.bytecode_address = Top.bytecode_address /\ f0.target_address = Top.target_address
      /\ f0.hash = Top.hash /\ f0.saved = Top.saved
      /\ f0.engines = Top.engines \cup {EngineOf(h0)}
  BY <1>1 DEF Frame
<1> HIDE DEF a0, h0, f0
<1>5. /\ Len(stack') = Len(stack) /\ DOMAIN stack' = DOMAIN stack
      /\ stack' \in Seq(Frame)
      /\ \A i \in DOMAIN stack : i # Len(stack) => stack'[i] = stack[i]
      /\ stack'[Len(stack)] = f0 /\ stack[Len(stack)] = Top
  BY <1>1, <1>3 DEF Top
<1>6. TypeOK'
  <2>1. touches' \in [Address -> Counter]
    <3>1. touches[a0] \in Counter  BY <1>1 DEF DispatchInv, TypeOK
    <3>2. Touched(touches[a0], h0 \in fns) \in Counter  BY <3>1 DEF Touched, Counter
    <3> QED  BY <1>1, <3>2 DEF DispatchInv, TypeOK
  <2>2. ran' \subseteq (Address \X (Code \cup {NoCode}) \X Engines)
    BY <1>1, <1>2, <1>3 DEF DispatchInv, TypeOK
  <2> QED  BY <1>1, <1>5, <2>1, <2>2 DEF DispatchInv, TypeOK
<1>7. TraceInv'
  <2>1. PICK S, C : Trace(S, C) /\ OnTrace(S, C)  BY DEF DispatchInv, TraceInv
  <2>2. Trace(S, C)'  BY <1>1, <2>1 DEF Trace
  <2>3. Alike(stack', S[pos])
    <3>1. Alike(stack, S[pos])  BY <1>1, <2>1 DEF OnTrace
    <3>2. DOMAIN stack = 1 .. Len(stack)  BY <1>1
    <3>3. ASSUME NEW i \in 1 .. Len(stack)
          PROVE  /\ stack'[i].bytecode_address = stack[i].bytecode_address
                 /\ stack'[i].target_address = stack[i].target_address
                 /\ stack'[i].hash = stack[i].hash /\ stack'[i].saved = stack[i].saved
      BY <1>4, <1>5, <3>2
    <3> QED  BY <1>5, <3>1, <3>3 DEF Alike
  <2>4. OnTrace(S, C)'  BY <1>1, <2>1, <2>3 DEF OnTrace
  <2> QED  BY <2>2, <2>4 DEF TraceInv
<1>8. PhaseInv' /\ CalledInv'
  BY <1>1, <1>5 DEF DispatchInv, PhaseInv, CalledInv
<1>9. FrameInv'
  <2>1. ASSUME NEW i \in DOMAIN stack
        PROVE  /\ stack'[i].bytecode_address = NoCode => stack'[i].hash = NoCode
               /\ stack'[i].bytecode_address # NoCode => stack'[i].bytecode_address \in touched
               /\ stack'[i].engines \subseteq {EngineOf(stack'[i].hash)}
    <3>1. CASE i # Len(stack)  BY <1>5, <3>1 DEF DispatchInv, FrameInv
    <3>2. CASE i = Len(stack)
      BY <1>4, <1>5, <3>2 DEF DispatchInv, FrameInv, h0
    <3> QED  BY <3>1, <3>2
  <2> QED  BY <1>1, <1>5, <2>1 DEF FrameInv, EngineOf
<1>10. RanInv'
  BY <1>1 DEF DispatchInv, RanInv, EngineOf
<1>11. CounterInv'
  <2>1. SUFFICES ASSUME NEW a \in Address
                 PROVE  /\ touches'[a].non_native <= touches'[a].overall
                        /\ (\A r \in ran' : r[1] = a => r[3] = "native")
                              <=> touches'[a].non_native = 0
                        /\ (\A r \in ran' : r[1] = a => r[3] = "compiled")
                              <=> touches'[a].non_native = touches'[a].overall
    BY DEF CounterInv
  <2>2. /\ touches[a].non_native <= touches[a].overall
        /\ (\A r \in ran : r[1] = a => r[3] = "native") <=> touches[a].non_native = 0
        /\ (\A r \in ran : r[1] = a => r[3] = "compiled")
              <=> touches[a].non_native = touches[a].overall
    BY DEF DispatchInv, CounterInv
  <2>3. touches[a] \in Counter /\ touches \in [Address -> Counter]  BY DEF DispatchInv, TypeOK
  <2>4. CASE a # a0
    BY <1>1, <2>2, <2>3, <2>4
  <2>5. CASE a = a0
    <3>1. touches'[a] = Touched(touches[a], h0 \in fns)  BY <1>1, <2>3, <2>5
    <3>2. <<a0, h0, EngineOf(h0)>> \in ran' /\ ran \subseteq ran'  BY <1>1
    <3>3. CASE h0 \in fns
      <4>1. ~\A r \in ran' : r[1] = a => r[3] = "native"
        BY <2>5, <3>2, <3>3 DEF EngineOf
      <4>2. touches'[a].non_native = touches[a].non_native + 1
            /\ touches'[a].overall = touches[a].overall + 1
        BY <2>3, <3>1, <3>3 DEF Touched, Counter
      <4>3. (\A r \in ran' : r[1] = a => r[3] = "compiled")
              <=> \A r \in ran : r[1] = a => r[3] = "compiled"
        BY <1>1, <3>3 DEF EngineOf
      <4>4. touches[a].non_native \in Nat /\ touches[a].overall \in Nat
        BY <2>3 DEF Counter
      <4>5. /\ touches'[a].non_native <= touches'[a].overall /\ touches'[a].non_native # 0
            /\ touches'[a].non_native = touches'[a].overall
                  <=> touches[a].non_native = touches[a].overall
        BY <2>2, <4>2, <4>4
      <4> QED  BY <2>2, <4>1, <4>3, <4>5
    <3>4. CASE h0 \notin fns
      <4>1. ~\A r \in ran' : r[1] = a => r[3] = "compiled"
        BY <2>5, <3>2, <3>4 DEF EngineOf
      <4>2. touches'[a].non_native = touches[a].non_native
            /\ touches'[a].overall = touches[a].overall + 1
        BY <2>3, <3>1, <3>4 DEF Touched, Counter
      <4>3. (\A r \in ran' : r[1] = a => r[3] = "native")
              <=> \A r \in ran : r[1] = a => r[3] = "native"
        BY <1>1, <3>4 DEF EngineOf
      <4>4. touches[a].non_native \in Nat /\ touches[a].overall \in Nat
        BY <2>3 DEF Counter
      <4>5. /\ touches'[a].non_native <= touches'[a].overall
            /\ touches'[a].non_native # touches'[a].overall
            /\ touches'[a].non_native = 0 <=> touches[a].non_native = 0
        BY <2>2, <4>2, <4>4
      <4> QED  BY <2>2, <4>1, <4>3, <4>5
    <3> QED  BY <3>3, <3>4
  <2> QED  BY <2>4, <2>5
<1> QED  BY <1>6, <1>7, <1>8, <1>9, <1>10, <1>11 DEF DispatchInv

LEMMA EndReplayInv == ASSUME DispatchInv, EndReplay PROVE DispatchInv'
<1> USE DEF DispatchInv, EndReplay, selection
<1>1. TypeOK'  BY DEF TypeOK
<1>2. TraceInv'
  <2>1. PICK S, C : Trace(S, C) /\ OnTrace(S, C)  BY DEF TraceInv
  <2>2. Trace(S, C)' /\ OnTrace(S, C)'  BY <2>1 DEF Trace, OnTrace
  <2> QED  BY <2>2 DEF TraceInv
<1>3. PhaseInv' /\ FrameInv' /\ CalledInv' /\ RanInv' /\ CounterInv'
  BY DEF PhaseInv, FrameInv, CalledInv, RanInv, CounterInv, EngineOf
<1> QED  BY <1>1, <1>2, <1>3

-----------------------------------------------------------------------------
(* The theorems.                                                           *)

LEMMA DispatchNext == ASSUME DispatchInv, [Next]_vars PROVE DispatchInv'
<1>1. ASSUME NEW e \in Events, Observe(e)  PROVE DispatchInv'
  BY <1>1, ObserveInv
<1>2. CASE EndObserve \/ Select
  BY <1>2, EndObserveInv, SelectInv
<1>3. CASE Replay \/ ExecuteFrame \/ EndReplay
  BY <1>3, ReplayInv, ExecuteFrameInv, EndReplayInv
<1>4. CASE UNCHANGED vars
  <2> USE <1>4 DEF DispatchInv, vars
  <2>1. TypeOK'  BY DEF TypeOK
  <2>2. TraceInv'
    <3>1. PICK S, C : Trace(S, C) /\ OnTrace(S, C)  BY DEF TraceInv
    <3>2. Trace(S, C)' /\ OnTrace(S, C)'  BY <3>1 DEF Trace, OnTrace
    <3> QED  BY <3>2 DEF TraceInv
  <2>3. PhaseInv' /\ FrameInv' /\ CalledInv' /\ RanInv' /\ CounterInv'
    BY DEF PhaseInv, FrameInv, CalledInv, RanInv, CounterInv, EngineOf
  <2> QED  BY <2>1, <2>2, <2>3
<1> QED  BY <1>1, <1>2, <1>3, <1>4 DEF Next

LEMMA DispatchAlways == Spec => []DispatchInv
BY DispatchInit, DispatchNext, PTL DEF Spec

\* The two executions keep their type: the second one meets each event on a
\* call stack that the event fits, as the first one did.
THEOREM DispatchTypes == Spec => []TypeOK
<1>1. DispatchInv => TypeOK  BY DEF DispatchInv
<1> QED  BY <1>1, DispatchAlways, PTL

\* No frame is begun by one engine and resumed by the other, however calls
\* nest and return: the handler decides by the hash of the frame, which it
\* keeps, and by functions that do not change during an execution.
THEOREM OneEnginePerFrame == Spec => []OneEngine
<1>1. ASSUME DispatchInv  PROVE OneEngine
  <2>1. ASSUME NEW i \in DOMAIN stack  PROVE Cardinality(stack[i].engines) <= 1
    <3>1. stack[i].engines \in SUBSET {EngineOf(stack[i].hash)}
      BY <1>1 DEF DispatchInv, FrameInv
    <3>2. /\ IsFiniteSet({EngineOf(stack[i].hash)})
          /\ Cardinality({EngineOf(stack[i].hash)}) = 1
      BY FS_Singleton
    <3> QED  BY <3>1, <3>2, FS_Subset
  <2> QED  BY <2>1 DEF OneEngine
<1> QED  BY <1>1, DispatchAlways, PTL

\* A compiled execution interprets only creations, and contracts whose code
\* is not the one the latest state has at their address: the inspector of
\* the first execution misses no address that the second one executes.
THEOREM NativeIsExplained == Spec => []NativeExplained
<1>1. ASSUME DispatchInv, phase = "done", ~native_exe, NEW r \in NativeRuns, r[2] # NoCode
      PROVE  r[2] # latest[r[1]]
  <2>1. r[2] \notin fns /\ r[1] \in touched
    BY <1>1 DEF DispatchInv, RanInv, EngineOf, NativeRuns
  <2>2. fns = {latest[a] : a \in touched} \ {NoCode}
    BY <1>1 DEF DispatchInv, PhaseInv
  <2> QED  BY <1>1, <2>1, <2>2
<1>2. DispatchInv => NativeExplained  BY <1>1 DEF NativeExplained
<1> QED  BY <1>2, DispatchAlways, PTL

\* The counter of an address that executed one code only is never mixed.
THEOREM CountersPure == Spec => []TouchPurity
<1>1. ASSUME DispatchInv, NEW a \in Address,
             \A r, s \in ran : r[1] = a /\ s[1] = a => r[2] = s[2]
      PROVE  touches[a].non_native \in {0, touches[a].overall}
  <2>1. \A r \in ran : r[3] \in {"native", "compiled"} /\ r[3] = EngineOf(r[2])
    BY <1>1 DEF DispatchInv, RanInv, EngineOf
  <2>2. \/ \A r \in ran : r[1] = a => r[3] = "native"
        \/ \A r \in ran : r[1] = a => r[3] = "compiled"
    BY <1>1, <2>1
  <2> QED  BY <1>1, <2>2 DEF DispatchInv, CounterInv
<1>2. DispatchInv => TouchPurity  BY <1>1 DEF TouchPurity
<1> QED  BY <1>2, DispatchAlways, PTL

-----------------------------------------------------------------------------
(* The verdict.                                                            *)

\* The totals are sums over the addresses.
LEMMA Totals ==
    ASSUME TypeOK
    PROVE  \E all, some :
             /\ SumOf(all, [a \in Address |-> touches[a].overall], Address)
             /\ SumOf(some, [a \in Address |-> touches[a].non_native], Address)
             /\ overall = all[Address] /\ non_native = some[Address]
<1> USE DispatchAssumption
<1> DEFINE f == [a \in Address |-> touches[a].overall]
           g == [a \in Address |-> touches[a].non_native]
<1>1. f \in [Address -> Int] /\ g \in [Address -> Int]
  BY DEF TypeOK, Counter
<1>2. PICK all : Unfolds(all, f, Address) /\ SumOf(all, f, Address)
  BY <1>1, SumExists
<1>3. PICK some : Unfolds(some, g, Address) /\ SumOf(some, g, Address)
  BY <1>1, SumExists
<1>4. \A a \in Address : f[a] = touches[a].overall /\ g[a] = touches[a].non_native
  OBVIOUS
<1> HIDE DEF f, g
<1>5. \E sum : Unfolds(sum, f, Address) /\ overall = sum[Address]
  <2>1. \A sum : Unfolds(sum, f, Address) <=>
          sum = [s \in SUBSET Address |->
                   IF s = {} THEN 0
                   ELSE touches[CHOOSE x \in s : TRUE].overall + sum[s \ {CHOOSE x \in s : TRUE}]]
    <3>1. \A s \in SUBSET Address : s # {} => f[First(s)] = touches[First(s)].overall
      BY <1>4, FirstIsIn
    <3> QED  BY <3>1 DEF Unfolds, First
  <2>2. \E sum :
          sum = [s \in SUBSET Address |->
                   IF s = {} THEN 0
                   ELSE touches[CHOOSE x \in s : TRUE].overall
                          + sum[s \ {CHOOSE x \in s : TRUE}]]
    <3>1. all = [s \in SUBSET Address |->
                   IF s = {} THEN 0
                   ELSE touches[CHOOSE x \in s : TRUE].overall
                          + all[s \ {CHOOSE x \in s : TRUE}]]
      BY <1>2, <2>1
    <3> WITNESS all
    <3> QED  BY <3>1
  <2>3. \E iter :
          /\ iter = [s \in SUBSET Address |->
                       IF s = {} THEN 0
                       ELSE touches[CHOOSE x \in s : TRUE].overall
                              + iter[s \ {CHOOSE x \in s : TRUE}]]
          /\ overall = iter[Address]
    BY ONLY <2>2 DEF overall, MapThenSumSet, MapThenFoldSet
  <2> QED  BY <2>1, <2>3
<1>6. \E sum : Unfolds(sum, g, Address) /\ non_native = sum[Address]
  <2>1. \A sum : Unfolds(sum, g, Address) <=>
          sum = [s \in SUBSET Address |->
                   IF s = {} THEN 0
                   ELSE touches[CHOOSE x \in s : TRUE].non_native
                          + sum[s \ {CHOOSE x \in s : TRUE}]]
    <3>1. \A s \in SUBSET Address : s # {} => g[First(s)] = touches[First(s)].non_native
      BY <1>4, FirstIsIn
    <3> QED  BY <3>1 DEF Unfolds, First
  <2>2. \E sum :
          sum = [s \in SUBSET Address |->
                   IF s = {} THEN 0
                   ELSE touches[CHOOSE x \in s : TRUE].non_native
                          + sum[s \ {CHOOSE x \in s : TRUE}]]
    <3>1. some = [s \in SUBSET Address |->
                   IF s = {} THEN 0
                   ELSE touches[CHOOSE x \in s : TRUE].non_native
                          + some[s \ {CHOOSE x \in s : TRUE}]]
      BY <1>3, <2>1
    <3> WITNESS some
    <3> QED  BY <3>1
  <2>3. \E iter :
          /\ iter = [s \in SUBSET Address |->
                       IF s = {} THEN 0
                       ELSE touches[CHOOSE x \in s : TRUE].non_native
                              + iter[s \ {CHOOSE x \in s : TRUE}]]
          /\ non_native = iter[Address]
    BY ONLY <2>2 DEF non_native, MapThenSumSet, MapThenFoldSet
  <2> QED  BY <2>1, <2>3
<1> QED  BY <1>1, <1>5, <1>6, UnfoldsSum DEF f, g

\* The totals agree when the counters of each address do, and one is zero when
\* all are.
LEMMA TotalsCompare ==
    ASSUME TypeOK, CounterInv
    PROVE  /\ overall \in Nat /\ non_native \in Nat /\ non_native <= overall
           /\ non_native = 0 <=> \A a \in Address : touches[a].non_native = 0
           /\ non_native = overall <=>
                 \A a \in Address : touches[a].non_native = touches[a].overall
<1> USE DispatchAssumption
<1> DEFINE f == [a \in Address |-> touches[a].overall]
           g == [a \in Address |-> touches[a].non_native]
<1>1. PICK all, some : /\ SumOf(all, f, Address) /\ SumOf(some, g, Address)
                       /\ overall = all[Address] /\ non_native = some[Address]
  BY Totals
<1>2. /\ f \in [Address -> Nat] /\ g \in [Address -> Nat]
      /\ f \in [Address -> Int] /\ g \in [Address -> Int]
      /\ \A a \in Address : f[a] = touches[a].overall /\ g[a] = touches[a].non_native
      /\ \A a \in Address : g[a] <= f[a]
  BY DEF TypeOK, CounterInv, Counter
<1> HIDE DEF f, g
<1>3. Address \in SUBSET Address
  OBVIOUS
<1>4. overall \in Nat /\ non_native \in Nat
      /\ (non_native = 0 <=> \A a \in Address : g[a] = 0)
  BY <1>1, <1>2, <1>3, SumNatural
<1>5. non_native <= overall /\ (non_native = overall <=> \A a \in Address : g[a] = f[a])
  BY <1>1, <1>2, <1>3, SumMonotonic
<1> QED  BY <1>2, <1>4, <1>5

\* However the events of a block are distributed over addresses, the two
\* totals of check_tx_sim_validity tell a purely native, a purely compiled and
\* a mixed execution apart.
THEOREM VerdictIsHonest == Spec => []VerdictHonest
<1> USE DispatchAssumption
<1>1. ASSUME DispatchInv, phase = "done"
      PROVE  /\ CheckTouches(TRUE) = "ok" <=> CompiledRuns = {}
             /\ CheckTouches(FALSE) = "ok" <=> NativeRuns = {}
             /\ CheckTouches(FALSE) = "err" <=> CompiledRuns = {} /\ NativeRuns # {}
             /\ native_exe => CheckTouches(native_exe) = "ok"
  <2>1. \A r \in ran : r[1] \in Address /\ r[3] \in {"native", "compiled"}
    BY <1>1 DEF DispatchInv, TypeOK, Engines
  <2>2. CompiledRuns = {} <=> non_native = 0
    <3>1. CompiledRuns = {} <=> \A a \in Address : touches[a].non_native = 0
      BY <1>1, <2>1 DEF CompiledRuns, DispatchInv, CounterInv
    <3> QED  BY <1>1, <3>1, TotalsCompare DEF DispatchInv
  <2>3. NativeRuns = {} <=> non_native = overall
    <3>1. NativeRuns = {} <=>
            \A a \in Address : touches[a].non_native = touches[a].overall
      BY <1>1, <2>1 DEF NativeRuns, DispatchInv, CounterInv
    <3> QED  BY <1>1, <3>1, TotalsCompare DEF DispatchInv
  <2>4. overall \in Nat /\ non_native \in Nat /\ non_native <= overall
    BY <1>1, TotalsCompare DEF DispatchInv
  <2>5. native_exe => CompiledRuns = {}
    BY <1>1 DEF DispatchInv, PhaseInv, RanInv, EngineOf, CompiledRuns
  <2>6. CheckTouches(TRUE) = "ok" <=> non_native = 0
    BY <2>4 DEF CheckTouches
  <2>7. CheckTouches(FALSE) = "ok" <=> non_native = overall
    BY <2>4 DEF CheckTouches
  <2>8. CheckTouches(FALSE) = "err" <=> non_native # overall /\ non_native = 0
    BY <2>4 DEF CheckTouches
  <2>9. native_exe => CheckTouches(native_exe) = "ok"
    <3>1. CASE native_exe = TRUE
      BY <2>2, <2>5, <2>6, <3>1
    <3>2. CASE native_exe = FALSE
      BY <3>2
    <3> QED  BY <1>1, <3>1, <3>2 DEF DispatchInv, TypeOK
  <2> QED  BY <2>2, <2>3, <2>6, <2>7, <2>8, <2>9
<1>2. DispatchInv => VerdictHonest
  BY <1>1 DEF VerdictHonest
<1> QED  BY <1>2, DispatchAlways, PTL
=============================================================================
