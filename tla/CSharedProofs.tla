---------------------------- MODULE CSharedProofs -----------------------------
(***************************************************************************)
(* What holds of CShared for any number of threads, addresses and          *)
(* arguments.                                                              *)
(*                                                                         *)
(* The argument has two halves that meet in "assured".  OnceInv: only the  *)
(* holder of initMu is between the check and the flag, so the engine is    *)
(* there exactly when initialized says so or its maker is about to.        *)
(* HeapInv: a string belongs to the call that returned it.                 *)
(***************************************************************************)
EXTENDS CShared, TLAPS

USE DEF once

InInit(t) == pc[t] \in {"check", "flag"}
HasString(t) == pc[t] \in {"host", "copied"}

OnceInv ==
    /\ \A t \in Threads : InInit(t) <=> initMu = t
    /\ initialized => parser # NoParser
    /\ \A t \in Threads : pc[t] = "flag" => parser # NoParser /\ ~initialized
    /\ parser # NoParser => initialized \/ \E t \in Threads : pc[t] = "flag"
    /\ assured # {} => parser # NoParser
    /\ \A t \in Threads : pc[t] = "run" => t \in assured

HeapInv ==
    /\ EachStringFreed
    /\ \A t \in Threads : HasString(t) => heap[ptr[t]] # Free /\ heap[ptr[t]].of = op[t]
    /\ ReadsOwnAnswer
    /\ InitializedStays

IInv == TypeOK /\ OnceInv /\ HeapInv

-----------------------------------------------------------------------------
\* What the calls and texts are made of.
LEMMA TypesOfValues ==
    /\ Idle \in Calls /\ InitCalls \subseteq Calls
    /\ ParseCalls \subseteq Calls /\ PushCalls \subseteq Calls
    /\ \A call \in Calls, says \in {"failed", "uninitialized", "result"} :
          /\ Text(call, says) \in Texts
          /\ Text(call, says).of = call /\ Text(call, says).says = says
          /\ Text(call, says) # Free
BY DEF Idle, InitCalls, ParseCalls, PushCalls, Calls, Text, Texts, Free

\* A string goes into a buffer nobody has.
LEMMA StringKeeps ==
    ASSUME TypeOK, HeapInv, NEW t \in Threads, ~HasString(t),
           NEW says \in {"failed", "uninitialized", "result"}, ReturnString(t, says),
           says = "uninitialized" => t \notin assured, UNCHANGED assured
    PROVE  HeapInv' /\ heap' \in [Addrs -> Texts \union {Free}]
                    /\ ptr' \in [Threads -> Addrs \union {NoPtr}]
<1>1. PICK a \in Addrs :
          /\ heap[a] = Free
          /\ heap' = [heap EXCEPT ![a] = Text(op[t], says)]
          /\ ptr' = [ptr EXCEPT ![t] = a]
  BY DEF ReturnString
<1>2. pc' = [pc EXCEPT ![t] = "host"] /\ op' = op /\ got' = got
  BY DEF ReturnString, Goto
<1>3. op[t] \in Calls
  BY DEF TypeOK
<1>4. /\ Text(op[t], says) \in Texts /\ Text(op[t], says) # Free
      /\ Text(op[t], says).of = op[t] /\ Text(op[t], says).says = says
  BY <1>3, TypesOfValues
<1>5. \A u \in Threads : ptr[u] # a
  <2>1. \A u \in Threads : HasString(u) => heap[ptr[u]] # Free
    BY DEF HeapInv
  <2>2. \A u \in Threads : ~HasString(u) => ptr[u] = NoPtr
    BY DEF HeapInv, EachStringFreed, HasString
  <2> QED BY <2>1, <2>2, <1>1, AbsentAssumption
<1>6. /\ heap' \in [Addrs -> Texts \union {Free}]
      /\ ptr' \in [Threads -> Addrs \union {NoPtr}]
  BY <1>1, <1>4 DEF TypeOK
<1>7. EachStringFreed'
  <2>0. ptr[t] = NoPtr /\ EachStringFreed
    BY DEF HeapInv, EachStringFreed, HasString
  <2>1. ASSUME NEW b \in Addrs, heap'[b] # Free PROVE \E u \in Threads : ptr'[u] = b
    <3>1. CASE b = a
      BY <3>1, <1>1 DEF TypeOK
    <3>2. CASE b # a
      <4>1. PICK u \in Threads : ptr[u] = b
        BY <2>1, <3>2, <1>1, <2>0 DEF EachStringFreed, TypeOK
      <4>2. u # t
        BY <4>1, <2>0, AbsentAssumption
      <4> QED BY <4>1, <4>2, <1>1 DEF TypeOK
    <3> QED BY <3>1, <3>2
  <2>2. ASSUME NEW u \in Threads, NEW v \in Threads, ptr'[u] = ptr'[v], ptr'[u] # NoPtr
        PROVE  u = v
    BY <2>2, <1>1, <1>5, <2>0 DEF EachStringFreed, TypeOK
  <2>3. ASSUME NEW u \in Threads PROVE ptr'[u] # NoPtr <=> pc'[u] \in {"host", "copied"}
    BY <1>1, <1>2, <2>0, AbsentAssumption DEF EachStringFreed, TypeOK
  <2> QED BY <2>1, <2>2, <2>3 DEF EachStringFreed
<1>8. \A u \in Threads : u # t /\ HasString(u) => ptr[u] \in Addrs /\ ptr[u] # a
  BY <1>5 DEF HeapInv, EachStringFreed, HasString, TypeOK
<1>9. (\A u \in Threads : HasString(u) => heap[ptr[u]] # Free /\ heap[ptr[u]].of = op[u])'
  BY <1>1, <1>2, <1>4, <1>8 DEF HeapInv, HasString, TypeOK
<1>10. ReadsOwnAnswer'
  BY <1>2 DEF HeapInv, ReadsOwnAnswer, TypeOK
<1>11. InitializedStays'
  BY <1>1, <1>2, <1>4, <1>8 DEF HeapInv, InitializedStays, HasString, TypeOK
<1> QED BY <1>6, <1>7, <1>9, <1>10, <1>11 DEF HeapInv

\* A step of a thread that has no string and gets none.
LEMMA QuietKeeps ==
    ASSUME TypeOK, HeapInv, NEW t \in Threads, ~HasString(t),
           NEW l, l \notin {"host", "copied"}, Goto(t, l),
           NEW call, op' = [op EXCEPT ![t] = call],
           UNCHANGED <<heap, ptr, got>>,
           assured' \subseteq assured \union {t}
    PROVE  HeapInv'
<1>1. pc' = [pc EXCEPT ![t] = l]
  BY DEF Goto
<1>2. EachStringFreed'
  BY <1>1 DEF HeapInv, EachStringFreed, HasString, TypeOK
<1>3. (\A u \in Threads : HasString(u) => heap[ptr[u]] # Free /\ heap[ptr[u]].of = op[u])'
  BY <1>1 DEF HeapInv, HasString, TypeOK
<1>4. ReadsOwnAnswer'
  BY <1>1 DEF HeapInv, ReadsOwnAnswer, TypeOK
<1>5. InitializedStays'
  BY <1>1 DEF HeapInv, InitializedStays, TypeOK
<1> QED BY <1>2, <1>3, <1>4, <1>5 DEF HeapInv

\* ReturnNil, and a step inside a call, are such steps.
LEMMA NilKeeps ==
    ASSUME TypeOK, HeapInv, NEW t \in Threads, ~HasString(t), ReturnNil(t),
           assured' \subseteq assured \union {t}
    PROVE  HeapInv'
BY QuietKeeps DEF ReturnNil

LEMMA GotoKeeps ==
    ASSUME TypeOK, HeapInv, NEW t \in Threads, ~HasString(t),
           NEW l, l \notin {"host", "copied"}, Goto(t, l),
           UNCHANGED <<heap, op, ptr, got>>,
           assured' \subseteq assured \union {t}
    PROVE  HeapInv'
<1>1. op' = [op EXCEPT ![t] = op[t]]
  BY DEF TypeOK
<1> QED BY <1>1, QuietKeeps

-----------------------------------------------------------------------------
\* Starting a call, and taking the mutex.
LEMMA BeginKeeps ==
    ASSUME IInv, NEW t \in Threads, BeginInit(t) \/ BeginCall(t) \/ Lock(t)
    PROVE  IInv'
<1> USE DEF IInv
<1>1. CASE BeginInit(t) \/ BeginCall(t)
  <2>1. PICK call \in Calls, l \in {"lock", "read"} :
            op' = [op EXCEPT ![t] = call] /\ Goto(t, l)
    BY <1>1, TypesOfValues DEF BeginInit, BeginCall
  <2>2. pc[t] = "idle" /\ UNCHANGED <<initMu, once, heap, ptr, got>>
    BY <1>1 DEF BeginInit, BeginCall
  <2>3. TypeOK'
    BY NobodyAssumption, <2>1, <2>2 DEF TypeOK, Goto
  <2>4. OnceInv'
    BY <2>1, <2>2 DEF TypeOK, OnceInv, InInit, Goto
  <2>5. HeapInv'
    BY <2>1, <2>2, QuietKeeps DEF HasString
  <2> QED BY <2>3, <2>4, <2>5
<1>2. CASE Lock(t)
  <2>1. TypeOK'
    BY NobodyAssumption, <1>2 DEF Lock, TypeOK, Goto
  <2>2. OnceInv'
    BY <1>2, NobodyAssumption DEF Lock, TypeOK, OnceInv, InInit, Goto
  <2>3. HeapInv'
    BY <1>2, GotoKeeps DEF Lock, HasString
  <2> QED BY <2>1, <2>2, <2>3
<1> QED BY <1>1, <1>2

\* The steps under the mutex.
LEMMA InitKeeps ==
    ASSUME IInv, NEW t \in Threads,
           InitAgain(t) \/ RejectConfig(t) \/ Publish(t) \/ Flag(t)
    PROVE  IInv'
<1> USE DEF IInv
<1>0. ~HasString(t) /\ InInit(t)
  BY DEF InitAgain, RejectConfig, Publish, Flag, HasString, InInit
<1>a. initMu = t /\ \A u \in Threads : u # t => ~InInit(u)
  BY <1>0 DEF OnceInv
<1>1. CASE InitAgain(t)
  <2>1. TypeOK'
    BY NobodyAssumption, <1>1, TypesOfValues DEF InitAgain, ReturnNil, TypeOK, Goto
  <2>2. OnceInv'
    BY <1>1, <1>a, NobodyAssumption DEF InitAgain, ReturnNil, TypeOK, OnceInv, InInit, Goto
  <2>3. HeapInv'
    BY <1>0, <1>1, NilKeeps DEF InitAgain
  <2> QED BY <2>1, <2>2, <2>3
<1>2. CASE RejectConfig(t)
  <2>1. HeapInv' /\ heap' \in [Addrs -> Texts \union {Free}]
                 /\ ptr' \in [Threads -> Addrs \union {NoPtr}]
    BY <1>0, <1>2, StringKeeps DEF RejectConfig
  <2>2. TypeOK'
    BY NobodyAssumption, <1>2, <2>1 DEF RejectConfig, ReturnString, TypeOK, Goto
  <2>3. OnceInv'
    BY <1>2, <1>a, NobodyAssumption DEF RejectConfig, ReturnString, TypeOK, OnceInv, InInit, Goto
  <2> QED BY <2>1, <2>2, <2>3
<1>3. CASE Publish(t)
  <2>1. Engine(op[t].config, Embedded) # NoParser
    BY DEF Engine, NoParser
  <2>2. Engine(op[t].config, Embedded) \in [config : GoodConfigs, rules : GoodFiles \union {Embedded}]
    BY <1>3 DEF Publish, Engine
  <2>3. TypeOK'
    BY NobodyAssumption, <1>3, <2>2 DEF Publish, TypeOK, Goto
  <2>4. OnceInv'
    BY <1>3, <1>a, <2>1 DEF Publish, TypeOK, OnceInv, InInit, Goto
  <2>5. HeapInv'
    BY <1>0, <1>3, GotoKeeps DEF Publish
  <2> QED BY <2>3, <2>4, <2>5
<1>4. CASE Flag(t)
  <2>1. TypeOK'
    BY NobodyAssumption, <1>4, TypesOfValues DEF Flag, ReturnNil, TypeOK, Goto
  <2>2. OnceInv'
    BY <1>4, <1>a, NobodyAssumption DEF Flag, ReturnNil, TypeOK, OnceInv, InInit, Goto
  <2>3. HeapInv'
    BY <1>0, <1>4, NilKeeps DEF Flag
  <2> QED BY <2>1, <2>2, <2>3
<1> QED BY <1>1, <1>2, <1>3, <1>4

\* Parse and UpdateCorrections.  Who reads the old nil was not told otherwise.
LEMMA CallKeeps ==
    ASSUME IInv, NEW t \in Threads, ReadParser(t) \/ Run(t) \/ Apply(t)
    PROVE  IInv'
<1> USE DEF IInv
<1>0. ~HasString(t) /\ ~InInit(t)
  BY DEF ReadParser, Run, Apply, HasString, InInit
<1>1. CASE ReadParser(t)
  <2>1. PICK seen \in MaySeeEngine(t) :
            IF seen
            THEN /\ assured' = assured \union {t}
                 /\ Goto(t, "run")
                 /\ UNCHANGED <<heap, op, ptr, got>>
            ELSE /\ ReturnString(t, "uninitialized")
                 /\ UNCHANGED assured
    BY <1>1 DEF ReadParser
  <2>2. UNCHANGED <<initMu, initialized, parser>> /\ pc[t] = "read"
    BY <1>1 DEF ReadParser
  <2>3. CASE seen
    <3>1. parser # NoParser
      BY <2>3 DEF MaySeeEngine
    <3>2. TypeOK'
      BY NobodyAssumption, <2>1, <2>2, <2>3 DEF TypeOK, Goto
    <3>3. OnceInv'
      BY <2>1, <2>2, <2>3, <3>1 DEF TypeOK, OnceInv, InInit, Goto
    <3>4. HeapInv'
      BY <1>0, <2>1, <2>3, GotoKeeps
    <3> QED BY <3>2, <3>3, <3>4
  <2>4. CASE ~seen
    <3>1. t \notin assured
      BY <2>4 DEF MaySeeEngine, OnceInv
    <3>2. HeapInv' /\ heap' \in [Addrs -> Texts \union {Free}]
                   /\ ptr' \in [Threads -> Addrs \union {NoPtr}]
      BY <1>0, <2>1, <2>4, <3>1, StringKeeps
    <3>3. TypeOK'
      BY NobodyAssumption, <2>1, <2>2, <2>4, <3>2 DEF ReturnString, TypeOK, Goto
    <3>4. OnceInv'
      BY <2>1, <2>2, <2>4 DEF ReturnString, TypeOK, OnceInv, InInit, Goto
    <3> QED BY <3>2, <3>3, <3>4
  <2> QED BY <2>3, <2>4
<1>2. ASSUME NEW says \in {"failed", "uninitialized", "result"}, says # "uninitialized",
             pc[t] = "run", ReturnString(t, says), UNCHANGED <<initMu, once>>
      PROVE  IInv'
  <2>1. HeapInv' /\ heap' \in [Addrs -> Texts \union {Free}]
                 /\ ptr' \in [Threads -> Addrs \union {NoPtr}]
    BY <1>0, <1>2, StringKeeps
  <2>2. TypeOK'
    BY NobodyAssumption, <1>2, <2>1 DEF ReturnString, TypeOK, Goto
  <2>3. OnceInv'
    BY <1>2 DEF ReturnString, TypeOK, OnceInv, InInit, Goto
  <2> QED BY <2>1, <2>2, <2>3
<1>3. CASE Run(t)
  BY <1>2, <1>3 DEF Run
<1>4. CASE Apply(t)
  <2>1. CASE op[t].file \in GoodFiles
    <3>1. /\ parser' = Engine(parser.config, op[t].file) /\ ReturnNil(t)
          /\ UNCHANGED <<initMu, initialized, assured>> /\ pc[t] = "run"
      BY <1>4, <2>1 DEF Apply
    <3>2. parser # NoParser
      BY <3>1 DEF OnceInv
    <3>3. /\ parser' # NoParser
          /\ parser' \in [config : GoodConfigs, rules : GoodFiles \union {Embedded}]
      BY <2>1, <3>1, <3>2 DEF TypeOK, Engine, NoParser
    <3>4. TypeOK'
      BY NobodyAssumption, <3>1, <3>3, TypesOfValues DEF ReturnNil, TypeOK, Goto
    <3>5. OnceInv'
      BY <3>1, <3>2, <3>3 DEF ReturnNil, TypeOK, OnceInv, InInit, Goto
    <3>6. HeapInv'
      BY <1>0, <3>1, NilKeeps
    <3> QED BY <3>4, <3>5, <3>6
  <2>2. CASE op[t].file \notin GoodFiles
    BY <1>2, <1>4, <2>2 DEF Apply
  <2> QED BY <2>1, <2>2
<1> QED BY <1>1, <1>3, <1>4

\* The host's two steps: nobody else has the buffer.
LEMMA HostKeeps ==
    ASSUME IInv, NEW t \in Threads, Copy(t) \/ FreeString(t)
    PROVE  IInv'
<1> USE DEF IInv
<1>1. HasString(t) /\ ~InInit(t) /\ ptr[t] \in Addrs /\ heap[ptr[t]] # Free
  BY DEF Copy, FreeString, HasString, InInit, HeapInv, EachStringFreed, TypeOK
<1>2. CASE Copy(t)
  <2>1. heap[ptr[t]] \in Texts
    BY <1>1 DEF TypeOK
  <2>2. TypeOK'
    BY NobodyAssumption, <1>2, <2>1 DEF Copy, TypeOK, Goto
  <2>3. OnceInv'
    BY <1>2 DEF Copy, TypeOK, OnceInv, InInit, Goto
  <2>4. EachStringFreed'
    BY <1>2 DEF Copy, HeapInv, EachStringFreed, TypeOK, Goto
  <2>5. (\A u \in Threads : HasString(u) => heap[ptr[u]] # Free /\ heap[ptr[u]].of = op[u])'
    BY <1>1, <1>2 DEF Copy, HeapInv, HasString, TypeOK, Goto
  <2>6. ReadsOwnAnswer' /\ InitializedStays'
    BY <1>1, <1>2 DEF Copy, HeapInv, HasString, ReadsOwnAnswer, InitializedStays, TypeOK, Goto
  <2> QED BY <2>2, <2>3, <2>4, <2>5, <2>6 DEF HeapInv
<1>3. CASE FreeString(t)
  <2>1. TypeOK'
    <3>1. /\ op' \in [Threads -> Calls] /\ heap' \in [Addrs -> Texts \union {Free}]
          /\ ptr' \in [Threads -> Addrs \union {NoPtr}] /\ got' \in [Threads -> Texts \union {NoText}]
      BY <1>3, TypesOfValues DEF FreeString, TypeOK
    <3>2. \A u \in Threads : pc'[u] \in {"check", "flag"} <=> initMu' = u
      BY <1>3 DEF FreeString, TypeOK, Goto
    <3> QED BY <1>3, <3>1, <3>2 DEF FreeString, TypeOK, Goto
  <2>2. OnceInv'
    BY <1>3 DEF FreeString, TypeOK, OnceInv, InInit, Goto
  <2>3. \A u \in Threads : u # t => ptr[u] # ptr[t]
    BY <1>1, AbsentAssumption DEF HeapInv, EachStringFreed
  <2>4. EachStringFreed'
    BY <1>1, <1>3, <2>3 DEF FreeString, HeapInv, EachStringFreed, TypeOK, Goto
  <2>5. (\A u \in Threads : HasString(u) => heap[ptr[u]] # Free /\ heap[ptr[u]].of = op[u])'
    BY <1>1, <1>3, <2>3 DEF FreeString, HeapInv, EachStringFreed, HasString, TypeOK, Goto
  <2>6. ReadsOwnAnswer' /\ InitializedStays'
    BY <1>1, <1>3, <2>3
       DEF FreeString, HeapInv, EachStringFreed, HasString, ReadsOwnAnswer, InitializedStays, TypeOK, Goto
  <2> QED BY <2>1, <2>2, <2>4, <2>5, <2>6 DEF HeapInv
<1> QED BY <1>2, <1>3

\* A panic changes nothing else.
LEMMA CrashKeeps ==
    ASSUME IInv, NEW t \in Threads, SeeHalfMade(t)
    PROVE  IInv'
BY DEF SeeHalfMade, IInv, TypeOK, OnceInv, InInit, HeapInv, HasString, EachStringFreed,
       ReadsOwnAnswer, InitializedStays

LEMMA InvariantInit == Init => IInv
<1> SUFFICES ASSUME Init PROVE IInv
  OBVIOUS
<1>1. TypeOK
  <2>1. \A t \in Threads : pc[t] = "idle"
    BY DEF Init
  <2>2. initialized \in BOOLEAN
    BY DEF Init
  <2> QED BY <2>1, <2>2, TypesOfValues, NobodyAssumption DEF Init, TypeOK
<1>2. OnceInv
  BY NobodyAssumption DEF Init, OnceInv, InInit
<1>3. HeapInv
  BY DEF Init, HeapInv, HasString, EachStringFreed, ReadsOwnAnswer, InitializedStays
<1> QED BY <1>1, <1>2, <1>3 DEF IInv

LEMMA InvariantStep == IInv /\ [Next]_vars => IInv'
<1> SUFFICES ASSUME IInv, [Next]_vars PROVE IInv'
  OBVIOUS
<1>1. CASE UNCHANGED vars
  BY <1>1 DEF vars, IInv, TypeOK, OnceInv, InInit, HeapInv, HasString, EachStringFreed,
              ReadsOwnAnswer, InitializedStays
<1>2. CASE Next
  BY <1>2, BeginKeeps, InitKeeps, CallKeeps, HostKeeps, CrashKeeps DEF Next, InCall
<1> QED BY <1>1, <1>2

LEMMA Inductive == Spec => []IInv
BY InvariantInit, InvariantStep, PTL DEF Spec

-----------------------------------------------------------------------------
\* The library and its hosts keep their types.
THEOREM LibraryTypeCorrect == Spec => []TypeOK
<1>1. IInv => TypeOK
  BY DEF IInv
<1> QED BY <1>1, Inductive, PTL

\* Who was told of the engine, by its own Init or by a parse, is never answered
\* "Parser not initialized" (cmd/cshared/main.go, the unlocked reads of Parse and
\* UpdateCorrections).
THEOREM NeverUninitializedAgain == Spec => []InitializedStays
<1>1. IInv => InitializedStays
  BY DEF IInv, HeapInv
<1> QED BY <1>1, Inductive, PTL

\* A host thread copies the answer to its own call.
THEOREM AnswersReadAreOwn == Spec => []ReadsOwnAnswer
<1>1. IInv => ReadsOwnAnswer
  BY DEF IInv, HeapInv
<1> QED BY <1>1, Inductive, PTL

\* No string is leaked, shared or freed twice (FreeString).
THEOREM StringsOwnedOnce == Spec => []EachStringFreed
<1>1. IInv => EachStringFreed
  BY DEF IInv, HeapInv
<1> QED BY <1>1, Inductive, PTL

-----------------------------------------------------------------------------
USE DEF Singleton!Init, Singleton!Next, Singleton!Put, Singleton!Assure

\* The library implements Once: Publish is the one Put, and whoever is assured
\* finds the value there ("the FIRST call wins", main.go:19-23).
THEOREM LibraryIsOnce == Spec => FirstInitWins
<1> DEFINE cell == IF parser = NoParser THEN NoParser ELSE parser.config
<1>1. Init => Singleton!Init
  BY DEF Init
<1>2. IInv /\ [Next]_vars => [Singleton!Next]_<<cell, assured>>
  <2> SUFFICES ASSUME IInv, [Next]_vars PROVE [Singleton!Next]_<<cell, assured>>
    OBVIOUS
  <2>1. ASSUME NEW t \in Threads, UNCHANGED parser, parser # NoParser,
               assured' = assured \union {t}
        PROVE  Singleton!Next
    <3>1. cell # NoParser
      BY <2>1, AbsentAssumption, ArgumentsAssumption DEF IInv, TypeOK
    <3> QED BY <2>1, <3>1
  <2>2. ASSUME NEW t \in Threads, InitAgain(t) PROVE Singleton!Next
    BY <2>1, <2>2 DEF InitAgain, IInv, OnceInv
  <2>3. ASSUME NEW t \in Threads, Flag(t) PROVE Singleton!Next
    BY <2>1, <2>3 DEF Flag, IInv, OnceInv
  <2>4. ASSUME NEW t \in Threads, Publish(t) PROVE Singleton!Next
    <3>1. pc[t] = "check" /\ InInit(t) /\ ~initialized
      BY <2>4 DEF Publish, InInit
    <3>2. \A u \in Threads : pc[u] # "flag"
      BY <3>1 DEF IInv, OnceInv, InInit
    <3>3. parser = NoParser
      BY <3>1, <3>2 DEF IInv, OnceInv
    <3>4. parser' = Engine(op[t].config, Embedded) /\ op[t].config \in GoodConfigs /\ UNCHANGED assured
      BY <2>4 DEF Publish
    <3>5. parser'.config = op[t].config /\ parser' # NoParser
      BY <3>4 DEF Engine, NoParser
    <3> QED BY <3>3, <3>4, <3>5
  <2>5. ASSUME NEW t \in Threads, ReadParser(t) PROVE [Singleton!Next]_<<cell, assured>>
    <3>1. UNCHANGED parser
      BY <2>5 DEF ReadParser
    <3>2. \/ assured' = assured /\ UNCHANGED parser
          \/ parser # NoParser /\ assured' = assured \union {t}
      BY <2>5 DEF ReadParser, MaySeeEngine
    <3> QED BY <3>1, <3>2, <2>1
  <2>6. ASSUME NEW t \in Threads, Apply(t) PROVE UNCHANGED <<cell, assured>>
    <3>1. parser # NoParser
      BY <2>6 DEF Apply, IInv, OnceInv
    <3>2. parser' = parser \/ parser' = Engine(parser.config, op[t].file)
      BY <2>6 DEF Apply
    <3>3. Engine(parser.config, op[t].file).config = parser.config
          /\ Engine(parser.config, op[t].file) # NoParser
      BY DEF Engine, NoParser
    <3>4. UNCHANGED assured
      BY <2>6 DEF Apply
    <3> QED BY <3>1, <3>2, <3>3, <3>4
  <2>7. ASSUME NEW t \in Threads,
               \/ BeginInit(t) \/ BeginCall(t) \/ Lock(t) \/ RejectConfig(t)
               \/ Run(t) \/ Copy(t) \/ FreeString(t) \/ SeeHalfMade(t)
        PROVE  UNCHANGED <<cell, assured>>
    BY <2>7 DEF BeginInit, BeginCall, Lock, RejectConfig, Run, Copy, FreeString, SeeHalfMade
  <2>8. CASE UNCHANGED vars
    BY <2>8 DEF vars
  <2> QED BY <2>2, <2>3, <2>4, <2>5, <2>6, <2>7, <2>8 DEF Next, InCall
<1> HIDE DEF cell
<1> QED BY <1>1, <1>2, Inductive, PTL DEF Spec, FirstInitWins, Singleton!Spec, cell

=============================================================================
