------------------------------ MODULE NodeClient ------------------------------
(***************************************************************************)
(* A UaParser object of the Node.js client outside a browser.              *)
(*                                                                         *)
(* init() tries the native library and falls back to the WASI build.  The  *)
(* fallback awaits the compiler, so other calls of init() and parse() run  *)
(* before it ends; a call checks isInitialized once, when it begins.  The  *)
(* WASI build has no sockets: the client downloads correction files for it *)
(* and pushes each, when it arrives, into the exports that are current.    *)
(*                                                                         *)
(* One action is what JavaScript runs without yielding.  Each call of      *)
(* init() makes at most one WASI instance, named here after the call.      *)
(*                                                                         *)
(* Left out: the parse (Pipeline), the memory of the instance (WasmHost),  *)
(* the library (CShared), other objects: they share nothing but the        *)
(* library, which is as good for them as for this one.                     *)
(***************************************************************************)
EXTENDS Naturals, JsConfig

CONSTANTS
    NodeCalls,    \* of init()
    NoCall,
    NodeConfigs,
    PlainSources, \* http: URLs, which https.get throws on
    Latest,       \* the last version a source will serve
    BadFiles,     \* pairs of a source and a version the engine rejects
    Slots         \* bound: as many downloads are under way at once

ASSUME NoCallAssumption == NoCall \notin NodeCalls
ASSUME NodeConfigsAssumption == NodeConfigs \subseteq Config
ASSUME PlainSourcesAssumption == PlainSources \subseteq Sources
ASSUME LatestAssumption == Latest \in [Sources -> Nat \ {0}]

VARIABLES
    koffiLoads,     \* koffi, the library and its symbols are there
    wasmFileExists,
    isInitialized, isWasm,
    parseFunc,      \* the call that bound the native functions last
    wasmExports,    \* the call whose instance is current
    stage,          \* of a call
    arg,            \* its config
    after,          \* history: calls that had resolved when it began
    rules,          \* of a call's instance: NoInstance, Embedded or a file
    timers,         \* calls that set a daily timer
    download,       \* of a slot: a source, and the version answered; or Hung
    served          \* the version a source serves now

objectVars == <<isInitialized, isWasm, parseFunc, wasmExports>>
callVars == <<stage, arg, after>>
netVars == <<timers, download, served>>
nodeVars == <<koffiLoads, wasmFileExists, objectVars, callVars, rules, netVars>>

NoInstance == [none |-> TRUE]
NoConfig == [none |-> TRUE]
NoDownload == [none |-> TRUE]
Hung == [hung |-> TRUE]                     \* under way, and nothing will end it
Asked(s) == [source |-> s, version |-> 0]   \* not answered yet
File(s, v) == [source |-> s, version |-> v]
Downloads == [source : Sources, version : Nat]
GoodFiles == {f \in Downloads : f.version # 0 /\ <<f.source, f.version>> \notin BadFiles}

Stages == {"unused", "compiling", "resolving", "done", "failed"}
Resolved == {c \in NodeCalls : stage[c] = "done"}

NodeInit ==
    /\ koffiLoads \in BOOLEAN
    /\ wasmFileExists \in BOOLEAN
    /\ isInitialized = FALSE
    /\ isWasm = FALSE
    /\ parseFunc = NoCall
    /\ wasmExports = NoCall
    /\ stage = [c \in NodeCalls |-> "unused"]
    /\ arg = [c \in NodeCalls |-> NoConfig]
    /\ after = [c \in NodeCalls |-> {}]
    /\ rules = [c \in NodeCalls |-> NoInstance]
    /\ timers = {}
    /\ download = [d \in Slots |-> NoDownload]
    /\ served = [s \in Sources |-> 1]

-----------------------------------------------------------------------------
(***************************************************************************)
(* init()                                                                  *)
(***************************************************************************)
\* _initNode: the library is bound before its Init reads the config.
NativeWorks(config) == koffiLoads /\ config.readable

BindNative(c) == parseFunc' = IF koffiLoads THEN c ELSE parseFunc

Begin(c, config) ==
    /\ stage[c] = "unused"
    /\ arg' = [arg EXCEPT ![c] = config]
    /\ after' = [after EXCEPT ![c] = Resolved]

\* An object that is initialized ignores the config.
InitAgain(c) ==
    /\ isInitialized
    /\ \E config \in NodeConfigs : Begin(c, config)
    /\ stage' = [stage EXCEPT ![c] = "done"]
    /\ UNCHANGED <<koffiLoads, wasmFileExists, objectVars, rules, netVars>>

InitNative(c) ==
    /\ ~isInitialized
    /\ \E config \in NodeConfigs : NativeWorks(config) /\ Begin(c, config)
    /\ BindNative(c)
    /\ isInitialized' = TRUE
    /\ stage' = [stage EXCEPT ![c] = "done"]
    /\ UNCHANGED <<koffiLoads, wasmFileExists, isWasm, wasmExports, rules, netVars>>

InitNeither(c) ==
    /\ ~isInitialized
    /\ ~wasmFileExists
    /\ \E config \in NodeConfigs : ~NativeWorks(config) /\ Begin(c, config)
    /\ BindNative(c)
    /\ stage' = [stage EXCEPT ![c] = "failed"]
    /\ UNCHANGED <<koffiLoads, wasmFileExists, isInitialized, isWasm, wasmExports, rules, netVars>>

FallBackUnchecked(c) ==  \* mutant: an initialized object is initialized again
    /\ wasmFileExists
    /\ \E config \in NodeConfigs : ~NativeWorks(config) /\ Begin(c, config)
    /\ BindNative(c)
    /\ isWasm' = TRUE
    /\ stage' = [stage EXCEPT ![c] = "compiling"]
    /\ UNCHANGED <<koffiLoads, wasmFileExists, isInitialized, wasmExports, rules, netVars>>
FallBackUnawaited(c) ==  \* mutant: the await of _initWasmNode is missing
    /\ ~isInitialized
    /\ wasmFileExists
    /\ \E config \in NodeConfigs : ~NativeWorks(config) /\ Begin(c, config)
    /\ BindNative(c)
    /\ isWasm' = TRUE
    /\ isInitialized' = TRUE
    /\ stage' = [stage EXCEPT ![c] = "compiling"]
    /\ UNCHANGED <<koffiLoads, wasmFileExists, wasmExports, rules, netVars>>
FallBack(c) ==
    /\ ~isInitialized
    /\ wasmFileExists
    /\ \E config \in NodeConfigs : ~NativeWorks(config) /\ Begin(c, config)
    /\ BindNative(c)
    /\ isWasm' = TRUE
    /\ stage' = [stage EXCEPT ![c] = "compiling"]
    /\ UNCHANGED <<koffiLoads, wasmFileExists, isInitialized, wasmExports, rules, netVars>>

\* WebAssembly.compile, instantiate or _initialize throws: isWasm stays set.
InstantiateFails(c) ==
    /\ stage[c] = "compiling"
    /\ stage' = [stage EXCEPT ![c] = "failed"]
    /\ UNCHANGED <<koffiLoads, wasmFileExists, objectVars, arg, after, rules, netVars>>

Idle == {d \in Slots : download[d] = NoDownload}

\* A download starts whatever is under way.  Beyond the bound it is one of those
\* that fail.
StartDownload(s) ==
    download' = IF Idle = {} THEN download
                ELSE [download EXCEPT ![CHOOSE d \in Idle : TRUE] = Asked(s)]

\* The new instance becomes current; the first download throws on an http: URL,
\* before the timer is set.
Instantiated(c) ==
    LET source == arg[c].source IN
    /\ stage[c] = "compiling"
    /\ wasmExports' = c
    /\ rules' = [rules EXCEPT ![c] = Embedded]
    /\ \/ /\ source = NoSource
          /\ stage' = [stage EXCEPT ![c] = "resolving"]
          /\ UNCHANGED <<timers, download>>
       \/ /\ source \in PlainSources
          /\ stage' = [stage EXCEPT ![c] = "failed"]
          /\ UNCHANGED <<timers, download>>
       \/ /\ source \in Sources \ PlainSources
          /\ stage' = [stage EXCEPT ![c] = "resolving"]
          /\ timers' = timers \union {c}
          /\ StartDownload(source)
    /\ UNCHANGED <<koffiLoads, wasmFileExists, isInitialized, isWasm, parseFunc, arg, after, served>>

Resolve(c) ==
    /\ stage[c] = "resolving"
    /\ isInitialized' = TRUE
    /\ stage' = [stage EXCEPT ![c] = "done"]
    /\ UNCHANGED <<koffiLoads, wasmFileExists, isWasm, parseFunc, wasmExports, arg, after, rules, netVars>>

-----------------------------------------------------------------------------
(***************************************************************************)
(* Correction files                                                        *)
(***************************************************************************)
TickWaits(c) ==  \* mutant: no download before the last one is over
    /\ c \in timers
    /\ Idle = Slots
    /\ StartDownload(arg[c].source)
    /\ UNCHANGED <<koffiLoads, wasmFileExists, objectVars, callVars, rules, timers, served>>
Tick(c) ==
    /\ c \in timers
    /\ StartDownload(arg[c].source)
    /\ UNCHANGED <<koffiLoads, wasmFileExists, objectVars, callVars, rules, timers, served>>

\* The environment: a source serves its next version.
Release(s) ==
    /\ served[s] < Latest[s]
    /\ served' = [served EXCEPT ![s] = @ + 1]
    /\ UNCHANGED <<koffiLoads, wasmFileExists, objectVars, callVars, rules, timers, download>>

UnderWay(d) == download[d] \notin {NoDownload, Hung}

Answer(d) ==
    /\ UnderWay(d)
    /\ download[d].version = 0
    /\ download' = [download EXCEPT ![d].version = served[download[d].source]]
    /\ UNCHANGED <<koffiLoads, wasmFileExists, objectVars, callVars, rules, timers, served>>

\* The server falls silent, before the answer or within the body: the timeout of
\* the request only raises an event nobody listens to.  The bound: one slot is
\* left for a download that does not hang.
Hang(d) ==
    /\ UnderWay(d)
    /\ \E e \in Slots \ {d} : download[e] # Hung
    /\ download' = [download EXCEPT ![d] = Hung]
    /\ UNCHANGED <<koffiLoads, wasmFileExists, objectVars, callVars, rules, timers, served>>

\* Another status, a body over 1 MB, a broken connection
DownloadFails(d) ==
    /\ download[d] # NoDownload
    /\ download' = [download EXCEPT ![d] = NoDownload]
    /\ UNCHANGED <<koffiLoads, wasmFileExists, objectVars, callVars, rules, timers, served>>

\* The whole body is here: updateCorrections of the exports that are current now,
\* which are not always those of the call that asked.
Arrive(d) ==
    /\ UnderWay(d)
    /\ download[d].version # 0
    /\ download' = [download EXCEPT ![d] = NoDownload]
    /\ rules' = IF download[d] \in GoodFiles
                THEN [rules EXCEPT ![wasmExports] = download[d]]
                ELSE rules
    /\ UNCHANGED <<koffiLoads, wasmFileExists, objectVars, callVars, timers, served>>

OfCall(c) ==
    \/ InitAgain(c) \/ InitNative(c) \/ InitNeither(c) \/ FallBack(c)
    \/ InstantiateFails(c) \/ Instantiated(c) \/ Resolve(c) \/ Tick(c)

OfDownload(d) == Answer(d) \/ Hang(d) \/ DownloadFails(d) \/ Arrive(d)

NodeNext ==
    \/ \E c \in NodeCalls : OfCall(c)
    \/ \E s \in Sources : Release(s)
    \/ \E d \in Slots : OfDownload(d)

NodeSpec == NodeInit /\ [][NodeNext]_nodeVars

\* What answers a parse(): an instance, or the native functions
Server == IF isWasm THEN wasmExports ELSE parseFunc


-----------------------------------------------------------------------------
(***************************************************************************)
(* Properties                                                              *)
(***************************************************************************)
\* The type invariant.  No instance serves a file its engine rejects.
NodeTypeOK ==
    /\ koffiLoads \in BOOLEAN /\ wasmFileExists \in BOOLEAN
    /\ isInitialized \in BOOLEAN /\ isWasm \in BOOLEAN
    /\ parseFunc \in NodeCalls \union {NoCall}
    /\ wasmExports \in NodeCalls \union {NoCall}
    /\ stage \in [NodeCalls -> Stages]
    /\ arg \in [NodeCalls -> NodeConfigs \union {NoConfig}]
    /\ after \in [NodeCalls -> SUBSET NodeCalls]
    /\ rules \in [NodeCalls -> GoodFiles \union {Embedded, NoInstance}]
    /\ timers \subseteq NodeCalls
    /\ download \in [Slots -> Downloads \union {NoDownload, Hung}]
    /\ served \in [Sources -> Nat]

\* An object says it is initialized only after a call of init() resolved, and a
\* parse() is then served by what such a call set up.  The exception is an object
\* on which another call fell back to WASM and failed or is not over: isWasm
\* stays set (index.js:60), so that call's instance serves, or none.
ServedByResolved ==
    isInitialized =>
        /\ Resolved # {}
        /\ \/ Server \in Resolved
           \/ isWasm /\ \E c \in NodeCalls : stage[c] \in Stages \ {"unused", "done"}

\* No instance is thrown away for a second one, with its rules and its cache,
\* by a call that began after another had resolved: only calls that overlap, all
\* past the check of isInitialized, replace each other's instance.
OneInstanceUnlessOverlap ==
    \A c, d \in NodeCalls : rules[c] # NoInstance /\ rules[d] # NoInstance => c \notin after[d]

Pushing == {c \in NodeCalls : rules[c] # NoInstance /\ arg[c].source \in Sources \ PlainSources}

\* An instance serves the file of a URL that its own config names, or that of a
\* call which overlapped with its call and pushes into what is current.
RulesFromOwnSource ==
    \A c \in NodeCalls : rules[c] \in GoodFiles =>
        \E d \in Pushing : arg[d].source = rules[c].source /\ (d # c => d \notin after[c])

\* A file that was asked for earlier may arrive later and replace a newer one, and
\* any download may fail, or hang and never end; the daily timer repairs that.  When the pushing calls
\* name one URL, the current instance ends up with the newest file of it and
\* keeps it, if it accepts that file.
NewestInTheEnd ==
    <>[]\A s \in Sources :
        /\ {arg[c].source : c \in Pushing} = {s}
        /\ File(s, served[s]) \in GoodFiles
        => rules[wasmExports] = File(s, served[s])

=============================================================================
