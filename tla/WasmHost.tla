------------------------------ MODULE WasmHost -------------------------------
(***************************************************************************)
(* The WASI reactor (cmd/wasm) and a host that shares one instance of it   *)
(* among threads: WasmBackend of the Java client, and the thread UaParser  *)
(* starts to push corrections into an engine that has no network.          *)
(*                                                                         *)
(* Every buffer that crosses the boundary is an address the host got from  *)
(* malloc or parseUA and gives back with free.  Go keeps a buffer only as  *)
(* long as the registry map holds it; what a free address contains may be  *)
(* collected and reused at any time.                                       *)
(***************************************************************************)
EXTENDS Naturals

CONSTANTS
    Threads,    \* application threads
    Pusher,     \* the "ua-parser-corrections" thread
    Nobody,     \* holds no monitor
    Addrs,      \* addresses of the linear memory
    Payloads,   \* what applications parse
    GoodFiles,  \* published correction files the engine accepts
    MaxFiles,   \* bound: correction files published
    MaxInits    \* bound: calls of UaParser.init

ASSUME CallersAssumption == Pusher \notin Threads /\ Nobody \notin Threads \union {Pusher}
ASSUME BoundsAssumption == GoodFiles \subseteq Nat /\ MaxFiles \in Nat /\ MaxInits \in Nat

Callers == Threads \union {Pusher}

VARIABLES
    registry,  \* addresses the registry map pins
    mem,       \* what an address contains
    parser,    \* the engine's parser: NoParser, or its config and its rules
    monitor,   \* the caller inside a synchronized method of WasmBackend
    pc, op,    \* where a caller stands, in which call
    inPtr,     \* its input buffer
    resPtr,    \* its result buffer
    got,       \* the result it read
    started,   \* correctionsPushStarted
    pushers,   \* corrections threads started
    served,    \* the correction file the URL serves
    inits      \* calls of init

boundary == <<registry, mem>>
pushing == <<started, pushers>>
outside == <<served, inits>>
vars == <<boundary, parser, monitor, pc, op, inPtr, resPtr, got, pushing, outside>>

NoParser == [none |-> TRUE]
NoPtr == [none |-> TRUE]

Idle == [kind |-> "idle"]
Parse(p) == [kind |-> "parse", payload |-> p]
Config(push) == [kind |-> "config", push |-> push]
Rules(v) == [kind |-> "rules", v |-> v]
Calls == {Idle} \union [kind : {"parse"}, payload : Payloads]
            \union [kind : {"config"}, push : BOOLEAN] \union [kind : {"rules"}, v : Nat]

\* What an address contains: nothing, the input of a call, or a result.
Garbage == [kind |-> "garbage"]
Zeroed == [kind |-> "zeroed"]
Result(input, rules) == [kind |-> "result", of |-> input, rules |-> rules]
Inputs == {Garbage, Zeroed} \union Calls
Contents == Inputs \union [kind : {"result"}, of : Inputs, rules : Nat]

Default == [kind |-> "default"]
Fresh(config) == [config |-> config, rules |-> 0]
\* initUA(0, 0) of a call that finds no parser
Engine == IF parser = NoParser THEN Fresh(Default) ELSE parser

Init ==
    /\ registry = {}
    /\ mem = [a \in Addrs |-> Garbage]
    /\ parser = NoParser
    /\ monitor = Nobody
    /\ pc = [t \in Callers |-> IF t = Pusher THEN "off" ELSE "idle"]
    /\ op = [t \in Callers |-> Idle]
    /\ inPtr = [t \in Callers |-> NoPtr]
    /\ resPtr = [t \in Callers |-> NoPtr]
    /\ got = [t \in Callers |-> Idle]
    /\ started = FALSE
    /\ pushers = 0
    /\ served = 0
    /\ inits = 0

-----------------------------------------------------------------------------
(***************************************************************************)
(* A synchronized method of WasmBackend: init, parse, pushCorrections      *)
(***************************************************************************)
MonitorFree == monitor = Nobody

Enter(t, call) ==
    /\ MonitorFree
    /\ monitor' = t
    /\ op' = [op EXCEPT ![t] = call]
    /\ pc' = [pc EXCEPT ![t] = "malloc"]
    /\ UNCHANGED <<boundary, parser, inPtr, resPtr, got, pushing>>

PinNot(a) == registry  \* mutant: the buffer is not kept in the registry
Pin(a) == registry \union {a}

\* malloc of the input
Malloc(t) ==
    /\ pc[t] = "malloc"
    /\ \E a \in Addrs \ registry :
          /\ registry' = Pin(a)
          /\ mem' = [mem EXCEPT ![a] = Zeroed]
          /\ inPtr' = [inPtr EXCEPT ![t] = a]
    /\ pc' = [pc EXCEPT ![t] = "write"]
    /\ UNCHANGED <<parser, monitor, op, resPtr, got, pushing, outside>>

\* memory.write, and the export to call
WriteInput(t) ==
    /\ pc[t] = "write"
    /\ mem' = [mem EXCEPT ![inPtr[t]] = op[t]]
    /\ pc' = [pc EXCEPT ![t] = op[t].kind]
    /\ UNCHANGED <<registry, parser, monitor, op, inPtr, resPtr, got, pushing, outside>>

\* initUA: a new parser, with the embedded rules, replaces the one there was.
InitUA(t) ==
    /\ pc[t] = "config"
    /\ parser' = Fresh(mem[inPtr[t]])
    /\ pc' = [pc EXCEPT ![t] = "freeIn"]
    /\ UNCHANGED <<boundary, monitor, op, inPtr, resPtr, got, pushing, outside>>

\* updateCorrections: an accepted file is copied and compiled, any other
\* leaves the last good rules.
UpdateCorrections(t) ==
    /\ pc[t] = "rules"
    /\ LET file == mem[inPtr[t]]
       IN  parser' = IF file.kind = "rules" /\ file.v \in GoodFiles
                     THEN [Engine EXCEPT !.rules = file.v] ELSE Engine
    /\ pc' = [pc EXCEPT ![t] = "freeIn"]
    /\ UNCHANGED <<boundary, monitor, op, inPtr, resPtr, got, pushing, outside>>

\* parseUA: the result goes into a buffer of its own malloc.
ParseUA(t) ==
    /\ pc[t] = "parse"
    /\ parser' = Engine
    /\ \E a \in Addrs \ registry :
          /\ registry' = Pin(a)
          /\ mem' = [mem EXCEPT ![a] = Result(mem[inPtr[t]], Engine.rules)]
          /\ resPtr' = [resPtr EXCEPT ![t] = a]
    /\ pc' = [pc EXCEPT ![t] = "read"]
    /\ UNCHANGED <<monitor, op, inPtr, got, pushing, outside>>

ReadResult(t) ==
    /\ pc[t] = "read"
    /\ got' = [got EXCEPT ![t] = mem[resPtr[t]]]
    /\ pc' = [pc EXCEPT ![t] = "freeRes"]
    /\ UNCHANGED <<boundary, parser, monitor, op, inPtr, resPtr, pushing, outside>>

FreeResultForgotten(t) ==  \* mutant: the result is not given back
    /\ pc[t] = "freeRes"
    /\ resPtr' = [resPtr EXCEPT ![t] = NoPtr]
    /\ pc' = [pc EXCEPT ![t] = "freeIn"]
    /\ UNCHANGED <<boundary, parser, monitor, op, inPtr, got, pushing, outside>>

\* free(resPtr), in the inner finally
FreeResult(t) ==
    /\ pc[t] = "freeRes"
    /\ registry' = registry \ {resPtr[t]}
    /\ resPtr' = [resPtr EXCEPT ![t] = NoPtr]
    /\ pc' = [pc EXCEPT ![t] = "freeIn"]
    /\ UNCHANGED <<mem, parser, monitor, op, inPtr, got, pushing, outside>>

\* free(ptr), in the outer finally, and the end of the synchronized method;
\* init goes on to startCorrectionsPush.
FreeInput(t) ==
    /\ pc[t] = "freeIn"
    /\ registry' = registry \ {inPtr[t]}
    /\ inPtr' = [inPtr EXCEPT ![t] = NoPtr]
    /\ monitor' = Nobody
    /\ got' = [got EXCEPT ![t] = Idle]
    /\ op' = [op EXCEPT ![t] = IF @.kind = "config" THEN @ ELSE Idle]
    /\ pc' = [pc EXCEPT ![t] = IF op[t].kind = "config" THEN "claim"
                               ELSE IF t = Pusher THEN "sleep" ELSE "idle"]
    /\ UNCHANGED <<mem, parser, resPtr, pushing, outside>>

-----------------------------------------------------------------------------
(***************************************************************************)
(* Applications: UaParser.parse and UaParser.init                          *)
(***************************************************************************)
BeginParse(t) ==
    /\ pc[t] = "idle"
    /\ \E p \in Payloads : Enter(t, Parse(p))
    /\ UNCHANGED outside

BeginInit(t) ==
    /\ pc[t] = "idle"
    /\ inits < MaxInits
    /\ inits' = inits + 1
    /\ \E push \in BOOLEAN : Enter(t, Config(push))
    /\ UNCHANGED served

\* init(""): malloc(0) gives no buffer, initUA(0, 0) takes the defaults and free(0)
\* drops nothing.  A parse("") ends without a result and changes nothing.
BeginInitEmpty(t) ==
    /\ pc[t] = "idle"
    /\ inits < MaxInits
    /\ MonitorFree
    /\ inits' = inits + 1
    /\ parser' = Fresh(Default)
    /\ op' = [op EXCEPT ![t] = Config(TRUE)]
    /\ pc' = [pc EXCEPT ![t] = "claim"]
    /\ UNCHANGED <<boundary, monitor, inPtr, resPtr, got, pushing, served>>

ClaimPusherUnchecked(t) ==  \* mutant: the flag is set, but not looked at
    /\ pc[t] = "claim"
    /\ started' = TRUE
    /\ pc' = [pc EXCEPT ![t] = "start"]
    /\ UNCHANGED <<boundary, parser, monitor, op, inPtr, resPtr, got, pushers, outside>>

\* startCorrectionsPush, outside the monitor: compareAndSet(false, true)
ClaimPusher(t) ==
    /\ pc[t] = "claim"
    /\ started' = TRUE
    /\ pc' = [pc EXCEPT ![t] = IF started THEN "idle" ELSE "start"]
    /\ op' = [op EXCEPT ![t] = IF started THEN Idle ELSE @]
    /\ UNCHANGED <<boundary, parser, monitor, inPtr, resPtr, got, pushers, outside>>

\* The config of this init decides whether a thread starts; the flag stays set.
StartPusher(t) ==
    /\ pc[t] = "start"
    /\ pushers' = IF op[t].push THEN pushers + 1 ELSE pushers
    /\ pc' = [pc EXCEPT ![t] = "idle",
                        ![Pusher] = IF op[t].push /\ @ = "off" THEN "fetch" ELSE @]
    /\ op' = [op EXCEPT ![t] = Idle]
    /\ UNCHANGED <<boundary, parser, monitor, inPtr, resPtr, got, started, outside>>

-----------------------------------------------------------------------------
(***************************************************************************)
(* The corrections thread                                                  *)
(***************************************************************************)
Pause == UNCHANGED <<boundary, parser, monitor, op, inPtr, resPtr, got, pushing, outside>>

\* The download is complete; pushCorrections waits for the monitor.
Fetched ==
    /\ pc[Pusher] = "fetch"
    /\ served > 0
    /\ pc' = [pc EXCEPT ![Pusher] = "push"]
    /\ op' = [op EXCEPT ![Pusher] = Rules(served)]
    /\ UNCHANGED <<boundary, parser, monitor, inPtr, resPtr, got, pushing, outside>>

FetchFailsForGood ==  \* mutant: the exception is caught outside the loop
    /\ pc[Pusher] = "fetch"
    /\ pc' = [pc EXCEPT ![Pusher] = "off"]
    /\ Pause

\* Any exception, a status other than 200, or more than 1 MB
FetchFails ==
    /\ pc[Pusher] = "fetch"
    /\ pc' = [pc EXCEPT ![Pusher] = "sleep"]
    /\ Pause

Push == pc[Pusher] = "push" /\ Enter(Pusher, op[Pusher]) /\ UNCHANGED outside

\* Twenty-four hours later
Wake ==
    /\ pc[Pusher] = "sleep"
    /\ pc' = [pc EXCEPT ![Pusher] = "fetch"]
    /\ Pause

-----------------------------------------------------------------------------
\* Go's collector reclaims what nothing refers to.
Collect ==
    \E a \in Addrs \ registry :
        /\ mem[a] # Garbage
        /\ mem' = [mem EXCEPT ![a] = Garbage]
        /\ UNCHANGED <<registry, parser, monitor, pc, op, inPtr, resPtr, got, pushing, outside>>

Publish ==
    /\ served < MaxFiles
    /\ served' = served + 1
    /\ UNCHANGED <<boundary, parser, monitor, pc, op, inPtr, resPtr, got, pushing, inits>>

Step(t) ==
    \/ Malloc(t) \/ WriteInput(t)
    \/ InitUA(t) \/ UpdateCorrections(t) \/ ParseUA(t)
    \/ ReadResult(t) \/ FreeResult(t) \/ FreeInput(t)
    \/ ClaimPusher(t) \/ StartPusher(t)

Next ==
    \/ \E t \in Callers : Step(t)
    \/ \E t \in Threads : BeginParse(t) \/ BeginInit(t) \/ BeginInitEmpty(t)
    \/ Fetched \/ FetchFails \/ Push \/ Wake
    \/ Collect \/ Publish

Spec == Init /\ [][Next]_vars

\* Threads run; the corrections thread gets the monitor now and then, though
\* others ask for it, and one of its daily downloads succeeds now and then.
Fairness ==
    /\ \A t \in Callers : WF_vars(Step(t))
    /\ WF_vars(Wake)
    /\ SF_vars(Fetched) /\ SF_vars(Push)

FairSpec == Spec /\ Fairness

-----------------------------------------------------------------------------
(***************************************************************************)
(* Properties                                                              *)
(***************************************************************************)
Inside == {"malloc", "write", "config", "rules", "parse", "read", "freeRes", "freeIn"}
Outside == {"idle", "claim", "start", "off", "fetch", "push", "sleep"}

\* The type invariant, with what main.go:13-15 asks of a host: one caller at a
\* time uses the exports.
TypeOK ==
    /\ registry \subseteq Addrs
    /\ mem \in [Addrs -> Contents]
    /\ parser = NoParser \/ parser \in [config : {Default} \union Contents, rules : Nat]
    /\ monitor \in Callers \union {Nobody}
    /\ pc \in [Callers -> Inside \union Outside]
    /\ op \in [Callers -> Calls]
    /\ \A t \in Callers : pc[t] \in Inside <=> monitor = t
    /\ inPtr \in [Callers -> Addrs \union {NoPtr}]
    /\ resPtr \in [Callers -> Addrs \union {NoPtr}]
    /\ got \in [Callers -> Contents]
    /\ started \in BOOLEAN
    /\ pushers \in Nat /\ served \in Nat /\ inits \in Nat

\* A caller reads the result of its own input, and the engine is configured by
\* a config some init wrote: whatever is collected and reused, and whoever
\* calls, a buffer lives until it is freed (main.go:5-14).
AnswerIsOwn ==
    /\ \A t \in Callers : pc[t] = "freeRes" =>
          got[t].kind = "result" /\ got[t].of = op[t]
    /\ parser # NoParser => parser.config.kind \in {"default", "config"}

\* Between calls the registry is empty: every buffer was given back.
NothingLeaked == monitor = Nobody => registry = {}

\* "A repeated init() must not spawn a second daily pusher thread", two that
\* run at the same time included (UaParser.java, startCorrectionsPush).
AtMostOnePusher == pushers <= 1

\* With the thread running, the newest good file reaches the engine in the end:
\* after failed downloads, and after another init has thrown the rules away.
NewestRulesReach ==
    <>[](\/ pushers = 0
         \/ served \notin GoodFiles
         \/ parser # NoParser /\ parser.rules = served)

=============================================================================
