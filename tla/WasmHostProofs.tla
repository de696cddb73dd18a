--------------------------- MODULE WasmHostProofs ----------------------------
(***************************************************************************)
(* What holds of WasmHost for any number of threads, addresses, payloads   *)
(* and files.                                                              *)
(*                                                                         *)
(* The argument: the registry pins exactly the buffers of the caller that  *)
(* holds the monitor (Owned), so nobody else allocates over them and the   *)
(* collector does not touch them; what the caller wrote is there when the  *)
(* engine reads it, and the engine's answer when the caller reads it.      *)
(***************************************************************************)
EXTENDS WasmHost, TLAPS

USE DEF boundary, pushing, outside

\* A caller's input buffer lives from malloc to the outer finally, its result
\* buffer from parseUA to the inner one.
HoldsInput(t) == pc[t] \in {"write", "config", "rules", "parse", "read", "freeRes", "freeIn"}
HoldsResult(t) == pc[t] \in {"read", "freeRes"}

\* A call under way is of the kind of export it has reached.
CallsMatch ==
    \A t \in Callers :
        /\ pc[t] \in {"malloc", "write"} => op[t].kind \in {"config", "rules", "parse"}
        /\ pc[t] \in {"config", "rules", "parse"} => op[t].kind = pc[t]
        /\ pc[t] \in {"read", "freeRes"} => op[t].kind = "parse"
        /\ pc[t] = "push" => op[t].kind = "rules"

\* The registry is the set of the holder's buffers.
Owned ==
    /\ monitor = Nobody => registry = {}
    /\ \A t \in Callers :
          /\ HoldsInput(t) => inPtr[t] \in Addrs
          /\ HoldsResult(t) => resPtr[t] \in Addrs /\ resPtr[t] # inPtr[t]
          /\ monitor = t => registry = {a \in Addrs :
                                \/ HoldsInput(t) /\ a = inPtr[t]
                                \/ HoldsResult(t) /\ a = resPtr[t]}

\* What the buffers contain.
Intact ==
    \A t \in Callers :
        /\ pc[t] \in {"config", "rules", "parse"} => mem[inPtr[t]] = op[t]
        /\ pc[t] = "read" => /\ mem[resPtr[t]].kind = "result"
                             /\ mem[resPtr[t]].of = op[t]

IInv == TypeOK /\ CallsMatch /\ Owned /\ Intact /\ AnswerIsOwn

-----------------------------------------------------------------------------
\* Of the callers only the monitor's holder is inside.
LEMMA HolderInside ==
    ASSUME TypeOK, NEW t \in Callers, pc[t] \in Inside
    PROVE  /\ monitor = t
           /\ \A s \in Callers : s # t => pc[s] \notin Inside
BY DEF TypeOK

\* Calls are values an address may contain, and so are results of inputs.
LEMMA CallTypes ==
    /\ Calls \subseteq Inputs /\ Inputs \subseteq Contents
    /\ Idle \in Calls /\ Zeroed \in Inputs /\ Garbage \in Inputs
    /\ \A p \in Payloads : Parse(p) \in Calls
    /\ \A b \in BOOLEAN : Config(b) \in Calls
    /\ \A v \in Nat : Rules(v) \in Calls
    /\ \A i \in Inputs, v \in Nat : Result(i, v) \in Contents
BY DEF Calls, Inputs, Contents, Idle, Zeroed, Garbage, Parse, Config, Rules, Result

\* The parser a call uses is a parser.
LEMMA EngineType ==
    ASSUME TypeOK
    PROVE  Engine \in [config : {Default} \union Contents, rules : Nat]
BY DEF TypeOK, Engine, Fresh

\* A caller that enters finds an empty registry.
LEMMA EnterKeeps ==
    ASSUME IInv, NEW t \in Callers, NEW call \in Calls, pc[t] \notin Inside,
           call.kind \in {"config", "rules", "parse"}, Enter(t, call),
           served' \in Nat, inits' \in Nat
    PROVE  IInv'
<1> USE DEF IInv, Enter, MonitorFree
<1>1. TypeOK'
  BY CallersAssumption DEF TypeOK, Inside, Callers
<1>2. CallsMatch'
  BY DEF TypeOK, CallsMatch
<1>3. Owned'
  BY DEF TypeOK, Owned, HoldsInput, HoldsResult, Inside
<1>4. Intact' /\ AnswerIsOwn'
  BY DEF TypeOK, Intact, AnswerIsOwn
<1> QED BY <1>1, <1>2, <1>3, <1>4

\* Every step of a call keeps the invariant.
LEMMA StepKeeps ==
    ASSUME IInv, NEW t \in Callers, Step(t)
    PROVE  IInv'
<1> USE DEF IInv
<1>0. TypeOK
  OBVIOUS
<1>1. CASE Malloc(t)
  <2>1. pc[t] \in Inside
    BY <1>1 DEF Malloc, Inside
  <2>2. monitor = t /\ \A s \in Callers : s # t => pc[s] \notin Inside
    BY <2>1, HolderInside
  <2>3. registry = {}
    BY <1>1, <2>2 DEF Malloc, Owned, HoldsInput, HoldsResult
  <2>4. TypeOK'
    BY <1>1, <2>1, CallTypes DEF Malloc, Pin, TypeOK, Inside
  <2>5. CallsMatch'
    BY <1>1, <2>1 DEF Malloc, TypeOK, CallsMatch
  <2>6. Owned'
    BY <1>1, <2>2, <2>3, CallersAssumption
       DEF Malloc, Pin, TypeOK, Owned, HoldsInput, HoldsResult, Inside, Callers
  <2>7. Intact' /\ AnswerIsOwn'
    BY <1>1, <2>2 DEF Malloc, TypeOK, Intact, AnswerIsOwn, Inside
  <2> QED BY <2>4, <2>5, <2>6, <2>7
<1>2. CASE WriteInput(t)
  <2>1. pc[t] \in Inside
    BY <1>2 DEF WriteInput, Inside
  <2>2. monitor = t /\ \A s \in Callers : s # t => pc[s] \notin Inside
    BY <2>1, HolderInside
  <2>3. op[t].kind \in {"config", "rules", "parse"} /\ op[t] \in Contents
    BY <1>2, CallTypes DEF WriteInput, CallsMatch, TypeOK
  <2>4. TypeOK'
    BY <1>2, <2>1, <2>3 DEF WriteInput, TypeOK, Inside
  <2>5. CallsMatch'
    BY <1>2, <2>3 DEF WriteInput, TypeOK, CallsMatch
  <2>6. Owned'
    BY <1>2, <2>2, <2>3, CallersAssumption
       DEF WriteInput, TypeOK, Owned, HoldsInput, HoldsResult, Inside, Callers
  <2>7. inPtr[t] \in Addrs
    BY <1>2 DEF WriteInput, Owned, HoldsInput
  <2>8. Intact' /\ AnswerIsOwn'
    BY <1>2, <2>2, <2>3, <2>7 DEF WriteInput, TypeOK, Intact, AnswerIsOwn, Inside
  <2> QED BY <2>4, <2>5, <2>6, <2>8
<1>3. CASE InitUA(t) \/ UpdateCorrections(t)
  <2>1. pc[t] \in Inside /\ inPtr[t] \in Addrs /\ mem[inPtr[t]] = op[t]
    BY <1>3 DEF InitUA, UpdateCorrections, Inside, Owned, HoldsInput, Intact
  <2>2. monitor = t /\ \A s \in Callers : s # t => pc[s] \notin Inside
    BY <2>1, HolderInside
  <2>3. /\ parser' \in [config : {Default} \union Contents, rules : Nat]
        /\ parser'.config.kind \in {"default", "config"}
    <3>1. CASE InitUA(t)
      <4>1. op[t].kind = "config" /\ op[t] \in Contents
        BY <3>1, CallTypes DEF InitUA, CallsMatch, TypeOK
      <4> QED BY <3>1, <4>1, <2>1 DEF InitUA, Fresh
    <3>2. CASE UpdateCorrections(t)
      <4>1. Engine \in [config : {Default} \union Contents, rules : Nat]
        BY EngineType
      <4>2. Engine.config.kind \in {"default", "config"}
        BY DEF Engine, Fresh, Default, AnswerIsOwn
      <4>3. \A v \in Nat : [Engine EXCEPT !.rules = v]
                            \in [config : {Default} \union Contents, rules : Nat]
        BY <4>1
      <4>4. \A v \in Nat : [Engine EXCEPT !.rules = v].config = Engine.config
        BY <4>1
      <4>5. parser' = Engine \/ \E v \in Nat : parser' = [Engine EXCEPT !.rules = v]
        BY <3>2, BoundsAssumption DEF UpdateCorrections
      <4> QED BY <4>1, <4>2, <4>3, <4>4, <4>5
    <3> QED BY <1>3, <3>1, <3>2
  <2>4. TypeOK'
    BY <1>3, <2>1, <2>3 DEF InitUA, UpdateCorrections, TypeOK, Inside
  <2>5. CallsMatch'
    BY <1>3 DEF InitUA, UpdateCorrections, TypeOK, CallsMatch
  <2>6. Owned'
    BY <1>3, <2>1, <2>2, CallersAssumption
       DEF InitUA, UpdateCorrections, TypeOK, Owned, HoldsInput, HoldsResult, Inside, Callers
  <2>7. Intact' /\ AnswerIsOwn'
    BY <1>3, <2>3 DEF InitUA, UpdateCorrections, TypeOK, Intact, AnswerIsOwn
  <2> QED BY <2>4, <2>5, <2>6, <2>7
<1>4. CASE ParseUA(t)
  <2>1. pc[t] \in Inside /\ inPtr[t] \in Addrs /\ mem[inPtr[t]] = op[t]
    BY <1>4 DEF ParseUA, Inside, Owned, HoldsInput, Intact
  <2>2. monitor = t /\ \A s \in Callers : s # t => pc[s] \notin Inside
    BY <2>1, HolderInside
  <2>3. Engine \in [config : {Default} \union Contents, rules : Nat]
    BY EngineType
  <2>4. Engine.config.kind \in {"default", "config"}
    BY DEF Engine, Fresh, Default, AnswerIsOwn
  <2>5. PICK a \in Addrs \ registry :
          /\ registry' = registry \union {a}
          /\ mem' = [mem EXCEPT ![a] = Result(op[t], Engine.rules)]
          /\ resPtr' = [resPtr EXCEPT ![t] = a]
    BY <1>4, <2>1 DEF ParseUA, Pin
  <2>6. Result(op[t], Engine.rules) \in Contents
    BY <2>3, CallTypes DEF TypeOK
  <2>7. registry = {inPtr[t]}
    BY <1>4, <2>1, <2>2 DEF ParseUA, Owned, HoldsInput, HoldsResult
  <2>8. TypeOK'
    BY <1>4, <2>1, <2>3, <2>5, <2>6 DEF ParseUA, TypeOK, Inside
  <2>9. CallsMatch'
    BY <1>4 DEF ParseUA, TypeOK, CallsMatch
  <2>10. Owned'
    BY <1>4, <2>1, <2>2, <2>5, <2>7, CallersAssumption
       DEF ParseUA, TypeOK, Owned, HoldsInput, HoldsResult, Inside, Callers
  <2>11. Intact'
    BY <1>4, <2>2, <2>5 DEF ParseUA, TypeOK, Intact, Inside, Result
  <2>12. AnswerIsOwn'
    BY <1>4, <2>4 DEF ParseUA, TypeOK, AnswerIsOwn
  <2> QED BY <2>8, <2>9, <2>10, <2>11, <2>12
<1>5. CASE ReadResult(t)
  <2>1. pc[t] \in Inside /\ resPtr[t] \in Addrs
    BY <1>5 DEF ReadResult, Inside, Owned, HoldsResult
  <2>2. monitor = t /\ \A s \in Callers : s # t => pc[s] \notin Inside
    BY <2>1, HolderInside
  <2>3. TypeOK'
    BY <1>5, <2>1 DEF ReadResult, TypeOK, Inside
  <2>4. CallsMatch'
    BY <1>5 DEF ReadResult, TypeOK, CallsMatch
  <2>5. Owned'
    BY <1>5, <2>2, CallersAssumption
       DEF ReadResult, TypeOK, Owned, HoldsInput, HoldsResult, Inside, Callers
  <2>6. Intact' /\ AnswerIsOwn'
    BY <1>5 DEF ReadResult, TypeOK, Intact, AnswerIsOwn
  <2> QED BY <2>3, <2>4, <2>5, <2>6
<1>6. CASE FreeResult(t)
  <2>1. pc[t] \in Inside
    BY <1>6 DEF FreeResult, Inside
  <2>2. monitor = t /\ \A s \in Callers : s # t => pc[s] \notin Inside
    BY <2>1, HolderInside
  <2>3. TypeOK'
    BY <1>6, <2>1 DEF FreeResult, TypeOK, Inside
  <2>4. CallsMatch'
    BY <1>6 DEF FreeResult, TypeOK, CallsMatch
  <2>5. Owned'
    BY <1>6, <2>2, CallersAssumption
       DEF FreeResult, TypeOK, Owned, HoldsInput, HoldsResult, Inside, Callers
  <2>6. Intact' /\ AnswerIsOwn'
    BY <1>6 DEF FreeResult, TypeOK, Intact, AnswerIsOwn
  <2> QED BY <2>3, <2>4, <2>5, <2>6
<1>7. CASE FreeInput(t)
  <2>1. pc[t] \in Inside
    BY <1>7 DEF FreeInput, Inside
  <2>2. monitor = t /\ \A s \in Callers : s # t => pc[s] \notin Inside
    BY <2>1, HolderInside
  <2>3. TypeOK'
    BY <1>7, <2>2, CallTypes, CallersAssumption DEF FreeInput, TypeOK, Inside, Outside, Callers
  <2>4. CallsMatch'
    BY <1>7 DEF FreeInput, TypeOK, CallsMatch
  <2>5. Owned'
    BY <1>7, <2>2, CallersAssumption
       DEF FreeInput, TypeOK, Owned, HoldsInput, HoldsResult, Inside, Callers
  <2>6. Intact' /\ AnswerIsOwn'
    BY <1>7, <2>2 DEF FreeInput, TypeOK, Intact, AnswerIsOwn, Inside
  <2> QED BY <2>3, <2>4, <2>5, <2>6
<1>8. CASE ClaimPusher(t) \/ StartPusher(t)
  <2>1. pc[t] \notin Inside
    BY <1>8 DEF ClaimPusher, StartPusher, Inside
  <2>2. UNCHANGED <<boundary, parser, monitor, inPtr, resPtr, got, outside>>
    BY <1>8 DEF ClaimPusher, StartPusher
  <2>3. /\ pc' \in [Callers -> Inside \union Outside]
        /\ \A s \in Callers : pc'[s] # pc[s] =>
              pc[s] \notin Inside /\ pc'[s] \in Outside \ {"push"}
    BY <1>8 DEF ClaimPusher, StartPusher, TypeOK, Inside, Outside
  <2>4. /\ op' \in [Callers -> Calls]
        /\ \A s \in Callers \ {t} : op'[s] = op[s]
    BY <1>8, CallTypes DEF ClaimPusher, StartPusher, TypeOK
  <2>5. pc'[t] # "push"
    BY <1>8, CallersAssumption DEF ClaimPusher, StartPusher, TypeOK, Callers
  <2>6. \A s \in Callers : pc'[s] \in Inside <=> pc[s] \in Inside
    BY <2>3 DEF Inside, Outside
  <2>7. started' \in BOOLEAN /\ pushers' \in Nat
    <3>1. pushers' \in {pushers, pushers + 1}
      BY <1>8 DEF ClaimPusher, StartPusher
    <3>2. started' = TRUE \/ started' = started
      BY <1>8 DEF ClaimPusher, StartPusher
    <3>3. pushers' \in Nat
      BY <3>1 DEF TypeOK
    <3>4. started' \in BOOLEAN
      BY <3>2 DEF TypeOK
    <3> QED BY <3>3, <3>4
  <2>8. TypeOK'
    BY <2>2, <2>3, <2>4, <2>6, <2>7 DEF TypeOK
  <2>9. \A s \in Callers : pc'[s] \in Inside \union {"push"} =>
            pc'[s] = pc[s] /\ op'[s] = op[s]
    BY <2>1, <2>3, <2>4, <2>5 DEF Inside, Outside
  <2>10. CallsMatch'
    BY <2>9 DEF CallsMatch, Inside
  <2>11. \A s \in Callers : HoldsInput(s)' = HoldsInput(s) /\ HoldsResult(s)' = HoldsResult(s)
    BY <2>3, <2>6, <2>9 DEF HoldsInput, HoldsResult, Inside
  <2>12. Owned'
    BY <2>2, <2>11 DEF Owned
  <2>13. Intact' /\ AnswerIsOwn'
    BY <2>2, <2>9 DEF Intact, AnswerIsOwn, Inside
  <2> QED BY <2>8, <2>10, <2>12, <2>13
<1> QED BY <1>1, <1>2, <1>3, <1>4, <1>5, <1>6, <1>7, <1>8 DEF Step

\* So do the corrections thread outside a call, the collector and the publisher.
LEMMA OthersKeep ==
    ASSUME IInv, Fetched \/ FetchFails \/ Push \/ Wake \/ Collect \/ Publish
    PROVE  IInv'
<1> USE DEF IInv
<1>0. Pusher \in Callers /\ TypeOK
  BY DEF Callers
<1>1. CASE Fetched \/ FetchFails \/ Wake
  <2>1. /\ UNCHANGED <<boundary, parser, monitor, inPtr, resPtr, got, pushing, outside>>
        /\ pc[Pusher] \in {"fetch", "sleep"}
    BY <1>1 DEF Fetched, FetchFails, Wake, Pause
  <2>2. \/ pc' = [pc EXCEPT ![Pusher] = "push"] /\ op' = [op EXCEPT ![Pusher] = Rules(served)]
        \/ pc' = [pc EXCEPT ![Pusher] = "sleep"] /\ op' = op
        \/ pc' = [pc EXCEPT ![Pusher] = "fetch"] /\ op' = op
    BY <1>1 DEF Fetched, FetchFails, Wake, Pause
  <2>3. Rules(served) \in Calls /\ Rules(served).kind = "rules"
    BY <1>0, CallTypes DEF TypeOK, Rules
  <2>4. TypeOK'
    BY <1>0, <2>1, <2>2, <2>3 DEF TypeOK, Inside, Outside
  <2>5. CallsMatch'
    BY <1>0, <2>2, <2>3 DEF TypeOK, CallsMatch
  <2>6. Owned'
    BY <1>0, <2>1, <2>2 DEF TypeOK, Owned, HoldsInput, HoldsResult
  <2>7. Intact' /\ AnswerIsOwn'
    BY <1>0, <2>1, <2>2 DEF TypeOK, Intact, AnswerIsOwn
  <2> QED BY <2>4, <2>5, <2>6, <2>7
<1>2. CASE Push
  <2>1. pc[Pusher] = "push" /\ Enter(Pusher, op[Pusher]) /\ served' \in Nat /\ inits' \in Nat
    BY <1>2 DEF Push, TypeOK
  <2>2. op[Pusher] \in Calls /\ op[Pusher].kind = "rules" /\ pc[Pusher] \notin Inside
    BY <1>0, <2>1 DEF TypeOK, CallsMatch, Inside
  <2> QED BY <1>0, <2>1, <2>2, EnterKeeps
<1>3. CASE Collect
  <2>1. /\ UNCHANGED <<registry, parser, monitor, pc, op, inPtr, resPtr, got, pushing, outside>>
        /\ \E a \in Addrs \ registry : mem' = [mem EXCEPT ![a] = Garbage]
    BY <1>3 DEF Collect
  <2>2. TypeOK' /\ CallsMatch' /\ Owned' /\ AnswerIsOwn'
    BY <2>1, CallTypes
       DEF TypeOK, CallsMatch, Owned, HoldsInput, HoldsResult, AnswerIsOwn
  <2>3. \A t \in Callers :
            /\ HoldsInput(t) => inPtr[t] \in registry
            /\ HoldsResult(t) => resPtr[t] \in registry
    <3> SUFFICES ASSUME NEW t \in Callers, HoldsInput(t) \/ HoldsResult(t)
                 PROVE  /\ HoldsInput(t) => inPtr[t] \in registry
                        /\ HoldsResult(t) => resPtr[t] \in registry
      OBVIOUS
    <3>1. monitor = t
      BY <1>0, HolderInside DEF HoldsInput, HoldsResult, Inside
    <3> QED BY <3>1 DEF Owned
  <2>4. Intact'
    BY <2>1, <2>3 DEF TypeOK, Intact, HoldsInput, HoldsResult
  <2> QED BY <2>2, <2>4
<1>4. CASE Publish
  BY <1>4 DEF Publish, TypeOK, CallsMatch, Owned, HoldsInput, HoldsResult, Intact, AnswerIsOwn
<1> QED BY <1>1, <1>2, <1>3, <1>4

\* An application thread that begins a call is outside, with a call to make.
LEMMA BeginKeeps ==
    ASSUME IInv, NEW t \in Threads, BeginParse(t) \/ BeginInit(t)
    PROVE  IInv'
<1>1. t \in Callers
  BY DEF Callers
<1>2. pc[t] \notin Inside /\ served' \in Nat /\ inits' \in Nat
  BY DEF BeginParse, BeginInit, IInv, TypeOK, Inside
<1>3. \A p \in Payloads : Parse(p) \in Calls /\ Parse(p).kind = "parse"
  BY CallTypes DEF Parse
<1>4. \A b \in BOOLEAN : Config(b) \in Calls /\ Config(b).kind = "config"
  BY CallTypes DEF Config
<1>5. PICK call \in Calls : call.kind \in {"config", "rules", "parse"} /\ Enter(t, call)
  BY <1>3, <1>4 DEF BeginParse, BeginInit
<1> QED BY <1>1, <1>2, <1>5, EnterKeeps

\* An init with an empty config holds the monitor, but no buffer.
LEMMA BeginEmptyKeeps ==
    ASSUME IInv, NEW t \in Threads, BeginInitEmpty(t)
    PROVE  IInv'
<1> USE DEF IInv
<1>1. t \in Callers /\ TypeOK
  BY DEF Callers
<1>2. Config(TRUE) \in Calls /\ Fresh(Default) \in [config : {Default} \union Contents, rules : Nat]
  BY CallTypes DEF Fresh
<1>3. TypeOK'
  <2>1. pc' \in [Callers -> Inside \union Outside] /\ \A s \in Callers : pc'[s] \in Inside <=> pc[s] \in Inside
    BY <1>1 DEF BeginInitEmpty, TypeOK, Inside, Outside
  <2>2. op' \in [Callers -> Calls]
    BY <1>1, <1>2 DEF BeginInitEmpty, TypeOK
  <2>3. inits' \in Nat
    BY <1>1 DEF BeginInitEmpty, TypeOK
  <2>4. UNCHANGED <<boundary, monitor, inPtr, resPtr, got, pushing, served>> /\ parser' = Fresh(Default)
    BY DEF BeginInitEmpty
  <2> QED BY <1>1, <1>2, <2>1, <2>2, <2>3, <2>4 DEF TypeOK
<1>4. CallsMatch'
  BY <1>1 DEF BeginInitEmpty, TypeOK, CallsMatch
<1>5. Owned'
  BY <1>1 DEF BeginInitEmpty, TypeOK, Owned, HoldsInput, HoldsResult
<1>6. Intact'
  BY <1>1 DEF BeginInitEmpty, TypeOK, Intact
<1>7. AnswerIsOwn'
  BY <1>1 DEF BeginInitEmpty, TypeOK, AnswerIsOwn, Fresh, Default
<1> QED BY <1>3, <1>4, <1>5, <1>6, <1>7

\* IInv is inductive.
LEMMA Inductive == Spec => []IInv
<1>1. Init => IInv
  <2> SUFFICES ASSUME Init PROVE IInv
    OBVIOUS
  <2>1. \A t \in Callers : pc[t] \in {"idle", "off"}
    BY DEF Init
  <2>2. Idle \in Contents /\ Garbage \in Contents
    BY CallTypes
  <2>3. TypeOK
    BY <2>1, <2>2, CallTypes, CallersAssumption
       DEF Init, TypeOK, Inside, Outside, Callers, NoParser
  <2>4. CallsMatch /\ Owned /\ Intact
    BY <2>1, CallersAssumption
       DEF Init, CallsMatch, Owned, HoldsInput, HoldsResult, Intact, Callers
  <2>5. AnswerIsOwn
    BY <2>1 DEF Init, AnswerIsOwn
  <2> QED BY <2>3, <2>4, <2>5 DEF IInv
<1>2. IInv /\ [Next]_vars => IInv'
  <2> SUFFICES ASSUME IInv, [Next]_vars PROVE IInv'
    OBVIOUS
  <2>1. CASE Next
    BY <2>1, StepKeeps, OthersKeep, BeginKeeps, BeginEmptyKeeps DEF Next
  <2>2. CASE UNCHANGED vars
    BY <2>2 DEF vars, IInv, TypeOK, CallsMatch, Owned, HoldsInput, HoldsResult, Intact, AnswerIsOwn
  <2> QED BY <2>1, <2>2
<1> QED BY <1>1, <1>2, PTL DEF Spec

-----------------------------------------------------------------------------
\* The exports are used by one caller at a time, and every variable keeps its
\* type (main.go:13-15, the synchronized methods of WasmBackend).
THEOREM HostTypeCorrect == Spec => []TypeOK
<1>1. IInv => TypeOK
  BY DEF IInv
<1> QED BY <1>1, Inductive, PTL

\* A caller reads the result of what it wrote, however many threads there are
\* and whatever is collected and allocated again in between (main.go:5-14).
THEOREM AnswersAreOwn == Spec => []AnswerIsOwn
<1>1. IInv => AnswerIsOwn
  BY DEF IInv
<1> QED BY <1>1, Inductive, PTL

\* Outside calls no buffer is pinned: WasmBackend's finally blocks free them all.
THEOREM NoLeak == Spec => []NothingLeaked
<1>1. IInv => NothingLeaked
  BY DEF IInv, Owned, NothingLeaked
<1> QED BY <1>1, Inductive, PTL

-----------------------------------------------------------------------------
\* Who passes the flag is alone, and starts the first thread.
PInv ==
    /\ pc \in [Callers -> Inside \union Outside] /\ pushers \in Nat
    /\ pushers <= 1
    /\ ~started => pushers = 0 /\ \A t \in Callers : pc[t] # "start"
    /\ \A t \in Callers : pc[t] = "start" =>
          pushers = 0 /\ \A s \in Callers : pc[s] = "start" => s = t

\* However many init calls there are, and whatever they overlap with, one
\* corrections thread starts (UaParser.java, startCorrectionsPush).
THEOREM OnePusher == Spec => []AtMostOnePusher
<1>1. Init => PInv
  BY DEF Init, PInv, Inside, Outside
<1>2. TypeOK /\ TypeOK' /\ PInv /\ [Next]_vars => PInv'
  <2> SUFFICES ASSUME TypeOK, TypeOK', PInv, [Next]_vars PROVE PInv'
    OBVIOUS
  <2>0. \A t \in Threads : t \in Callers
    BY DEF Callers
  <2>1. ASSUME NEW t \in Callers, ClaimPusher(t) PROVE PInv'
    BY <2>1 DEF ClaimPusher, PInv, TypeOK
  <2>2. ASSUME NEW t \in Callers, StartPusher(t) PROVE PInv'
    BY <2>2 DEF StartPusher, PInv, TypeOK
  <2>3. ASSUME UNCHANGED pushing, NEW t \in Callers, NEW place,
               pc' = [pc EXCEPT ![t] = place], place # "start"
        PROVE  PInv'
    BY <2>3 DEF PInv, TypeOK
  <2>4. ASSUME UNCHANGED pushing, UNCHANGED pc PROVE PInv'
    BY <2>4 DEF PInv, TypeOK
  <2>5. ASSUME NEW t \in Callers, Step(t) PROVE PInv'
    <3>1. CASE ClaimPusher(t) \/ StartPusher(t)
      BY <3>1, <2>1, <2>2
    <3>2. CASE WriteInput(t)
      <4>1. UNCHANGED pushing /\ pc' = [pc EXCEPT ![t] = op[t].kind] /\ op[t].kind # "start"
        BY <3>2 DEF WriteInput, TypeOK, Calls, Idle
      <4> QED BY <4>1, <2>3
    <3>3. CASE FreeInput(t)
      <4>1. /\ UNCHANGED pushing
            /\ \E place \in {"claim", "sleep", "idle"} : pc' = [pc EXCEPT ![t] = place]
        BY <3>3 DEF FreeInput
      <4> QED BY <4>1, <2>3
    <3>4. CASE \/ Malloc(t) \/ InitUA(t) \/ UpdateCorrections(t) \/ ParseUA(t)
               \/ ReadResult(t) \/ FreeResult(t)
      <4>1. /\ UNCHANGED pushing
            /\ \E place \in {"write", "freeIn", "read", "freeRes"} : pc' = [pc EXCEPT ![t] = place]
        BY <3>4 DEF Malloc, InitUA, UpdateCorrections, ParseUA, ReadResult, FreeResult
      <4> QED BY <4>1, <2>3
    <3> QED BY <2>5, <3>1, <3>2, <3>3, <3>4 DEF Step
  <2>6. ASSUME NEW t \in Threads, BeginParse(t) \/ BeginInit(t) \/ BeginInitEmpty(t) PROVE PInv'
    <3>1. UNCHANGED pushing /\ \E place \in {"malloc", "claim"} : pc' = [pc EXCEPT ![t] = place]
      BY <2>6 DEF BeginParse, BeginInit, BeginInitEmpty, Enter
    <3> QED BY <3>1, <2>0, <2>3
  <2>7. ASSUME Fetched \/ FetchFails \/ Push \/ Wake PROVE PInv'
    <3>1. /\ UNCHANGED pushing
          /\ \E place \in {"push", "sleep", "malloc", "fetch"} : pc' = [pc EXCEPT ![Pusher] = place]
      BY <2>7 DEF Fetched, FetchFails, Push, Enter, Wake, Pause
    <3>2. Pusher \in Callers
      BY DEF Callers
    <3> QED BY <3>1, <3>2, <2>3
  <2>8. ASSUME Collect \/ Publish \/ UNCHANGED vars PROVE PInv'
    <3>1. UNCHANGED pushing /\ UNCHANGED pc
      BY <2>8 DEF Collect, Publish, vars
    <3> QED BY <3>1, <2>4
  <2> QED BY <2>5, <2>6, <2>7, <2>8 DEF Next
<1>3. PInv => AtMostOnePusher
  BY DEF PInv, AtMostOnePusher
<1> QED BY <1>1, <1>2, <1>3, HostTypeCorrect, PTL DEF Spec

=============================================================================
