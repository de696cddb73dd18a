-------------------------------- MODULE Browser -------------------------------
(***************************************************************************)
(* The JavaScript client in a page, with the js/wasm build (cmd/wasmjs).   *)
(*                                                                         *)
(* A UaParser object's init() awaits the download of the module, starts a  *)
(* Go runtime and calls its initUA.  Each runtime replaces the global      *)
(* functions of the one before, whose goroutines and promises live on.  A  *)
(* page that does without UaParser starts runtimes and calls the functions *)
(* itself.                                                                 *)
(*                                                                         *)
(* A runtime is single-threaded: an initUA, a parseUA or a callback runs   *)
(* without another in between.  What is not over when initUA returns is    *)
(* the download of the correction file and the promise of the              *)
(* high-entropy hints.                                                     *)
(*                                                                         *)
(* Left out: the parse (Pipeline), core.New failing on its embedded data.  *)
(***************************************************************************)
EXTENDS Naturals, JsConfig

CONSTANTS
    Objects,       \* UaParser objects of the page
    PageCalls,     \* of init()
    PageConfigs,
    DefaultConfig, \* what an unreadable config stands for
    MaxRuntimes,   \* bound
    MaxEngines     \* bound

ASSUME PageConfigsAssumption == PageConfigs \subseteq Config
ASSUME DefaultConfigAssumption == DefaultConfig \in Config
ASSUME MaxAssumption == MaxRuntimes \in Nat /\ MaxEngines \in Nat

VARIABLES
    manual,         \* the page calls the global functions itself
    userAgentData,  \* "absent", or what getHighEntropyValues will say
    ready,          \* objects that are initialized
    load,           \* of a call of init(): where it stands, its object and config
    opened,         \* runtimes so far; the last one owns the global functions
    made,           \* engines so far, of all runtimes
    parser,         \* of a runtime: its engine, 0 for nil
    engineConfig,   \* as initParser understood it
    engineHome,     \* its runtime
    engineRules,    \* Embedded, Pushed or the source of a file
    collectedSignals, \* of a runtime: "none", "basic" or "gpu"
    collectedHeaders, \* runtimes that have them
    fetching,       \* engines whose download is not over
    promised        \* engines whose initUA asked for the hints

pageEnv == <<manual, userAgentData>>
objects == <<ready, load>>
engines == <<made, parser, engineConfig, engineHome>>
evidence == <<collectedSignals, collectedHeaders, promised>>
pageVars == <<pageEnv, objects, opened, engines, engineRules, evidence, fetching>>

Runtimes == 1..MaxRuntimes
Engines == 1..MaxEngines
NoLoad == [none |-> TRUE]
NoConfigYet == [none |-> TRUE]
Pushed == [pushed |-> TRUE]
ASSUME PushedAssumption == Pushed \notin Sources
Loads == [stage : {"loading", "resolving", "done", "failed"}, object : Objects, config : PageConfigs]

\* The whole config is replaced by the defaults, its opt-outs included.
Effective(config) == IF config.readable THEN config ELSE DefaultConfig

PageInit ==
    /\ manual \in BOOLEAN
    /\ userAgentData \in {"absent", "denied", "granted"}
    /\ ready = {}
    /\ load = [c \in PageCalls |-> NoLoad]
    /\ opened = 0
    /\ made = 0
    /\ parser = [r \in Runtimes |-> 0]
    /\ engineConfig = [e \in Engines |-> NoConfigYet]
    /\ engineHome = [e \in Engines |-> 0]
    /\ engineRules = [e \in Engines |-> Embedded]
    /\ collectedSignals = [r \in Runtimes |-> "none"]
    /\ collectedHeaders = {}
    /\ fetching = {}
    /\ promised = {}

-----------------------------------------------------------------------------
(***************************************************************************)
(* A runtime                                                               *)
(***************************************************************************)
CollectAnyway(r, e, collect) ==  \* mutant: disable_signal_collection is not read
    /\ collectedSignals' = [collectedSignals EXCEPT ![r] = IF collect = "gpu" THEN "gpu" ELSE "basic"]
    /\ promised' = promised \union (IF userAgentData = "absent" THEN {} ELSE {e})
    /\ UNCHANGED collectedHeaders
\* The signals are read at once, the hints are asked for.
Collect(r, e, collect) ==
    /\ \/ /\ collect = "none"
          /\ UNCHANGED <<collectedSignals, promised>>
       \/ /\ collect # "none"
          /\ collectedSignals' = [collectedSignals EXCEPT ![r] = collect]
          /\ promised' = promised \union (IF userAgentData = "absent" THEN {} ELSE {e})
    /\ UNCHANGED collectedHeaders

\* The runtime's next engine, its download, and the evidence
InitParser(r, config) ==
    LET conf == Effective(config) IN
    /\ made < MaxEngines
    /\ made' = made + 1
    /\ parser' = [parser EXCEPT ![r] = made + 1]
    /\ engineConfig' = [engineConfig EXCEPT ![made + 1] = conf]
    /\ engineHome' = [engineHome EXCEPT ![made + 1] = r]
    /\ fetching' = fetching \union (IF conf.source = NoSource THEN {} ELSE {made + 1})
    /\ Collect(r, made + 1, conf.collect)

FetchEndsGlobal(e) ==  \* mutant: the file goes to the parser of that moment
    /\ e \in fetching
    /\ fetching' = fetching \ {e}
    /\ engineRules' \in {engineRules,
          [engineRules EXCEPT ![parser[engineHome[e]]] = engineConfig[e].source]}
    /\ UNCHANGED <<pageEnv, objects, opened, engines, evidence>>
\* The file is accepted by the parser that started the download; or it is
\* rejected, or could not be had.
FetchEnds(e) ==
    /\ e \in fetching
    /\ fetching' = fetching \ {e}
    /\ engineRules' \in {engineRules, [engineRules EXCEPT ![e] = engineConfig[e].source]}
    /\ UNCHANGED <<pageEnv, objects, opened, engines, evidence>>

\* The promise settles; a rejection has no handler.
HintsSettle(e) ==
    /\ e \in promised
    /\ promised' = promised \ {e}
    /\ collectedHeaders' = IF userAgentData = "granted"
                           THEN collectedHeaders \union {engineHome[e]}
                           ELSE collectedHeaders
    /\ UNCHANGED <<pageEnv, objects, opened, engines, engineRules, collectedSignals, fetching>>

\* The evidence of a parse: what the page passes wins over what was collected.
MergeCollected(r, headers, signals) ==
    [headers |-> IF headers = "none" /\ r \in collectedHeaders THEN "collected" ELSE headers,
     signals |-> IF signals = "none" THEN collectedSignals[r] ELSE signals]
BareParse(r) == MergeCollected(r, "none", "none")

\* updateCorrectionsUA, with a file that is accepted
Push ==
    /\ opened # 0
    /\ parser[opened] # 0
    /\ engineRules' = [engineRules EXCEPT ![parser[opened]] = Pushed]
    /\ UNCHANGED <<pageEnv, objects, opened, engines, evidence, fetching>>

\* parseUA of a runtime nobody has initialized
ParseLazily ==
    /\ opened # 0
    /\ manual \/ ready # {}
    /\ parser[opened] = 0
    /\ InitParser(opened, DefaultConfig)
    /\ UNCHANGED <<pageEnv, objects, opened, engineRules>>

-----------------------------------------------------------------------------
(***************************************************************************)
(* A page that uses UaParser                                               *)
(***************************************************************************)
StartInit(c) ==
    /\ ~manual
    /\ load[c] = NoLoad
    /\ \E o \in Objects, config \in PageConfigs :
          load' = [load EXCEPT ![c] =
             [stage |-> IF o \in ready THEN "done" ELSE "loading", object |-> o, config |-> config]]
    /\ UNCHANGED <<pageEnv, ready, opened, engines, engineRules, evidence, fetching>>

LoadFails(c) ==
    /\ load[c] # NoLoad
    /\ load[c].stage = "loading"
    /\ load' = [load EXCEPT ![c].stage = "failed"]
    /\ UNCHANGED <<pageEnv, ready, opened, engines, engineRules, evidence, fetching>>

\* go.run and initUA, without an await between them
LoadedUnconfigured(c) ==  \* mutant: go.run only, the first parse initializes
    /\ load[c] # NoLoad
    /\ load[c].stage = "loading"
    /\ opened < MaxRuntimes
    /\ opened' = opened + 1
    /\ load' = [load EXCEPT ![c].stage = "resolving"]
    /\ UNCHANGED <<pageEnv, ready, engines, engineRules, evidence, fetching>>
Loaded(c) ==
    /\ load[c] # NoLoad
    /\ load[c].stage = "loading"
    /\ opened < MaxRuntimes
    /\ opened' = opened + 1
    /\ InitParser(opened + 1, load[c].config)
    /\ load' = [load EXCEPT ![c].stage = "resolving"]
    /\ UNCHANGED <<pageEnv, ready, engineRules>>

LoadResolves(c) ==
    /\ load[c] # NoLoad
    /\ load[c].stage = "resolving"
    /\ load' = [load EXCEPT ![c].stage = "done"]
    /\ ready' = ready \union {load[c].object}
    /\ UNCHANGED <<pageEnv, opened, engines, engineRules, evidence, fetching>>

-----------------------------------------------------------------------------
(***************************************************************************)
(* A page that does without                                                *)
(***************************************************************************)
RunGo ==
    /\ manual
    /\ opened < MaxRuntimes
    /\ opened' = opened + 1
    /\ UNCHANGED <<pageEnv, objects, engines, engineRules, evidence, fetching>>

InitUA ==
    /\ manual
    /\ opened # 0
    /\ \E config \in PageConfigs : InitParser(opened, config)
    /\ UNCHANGED <<pageEnv, objects, opened, engineRules>>

PageNext ==
    \/ \E c \in PageCalls : StartInit(c) \/ LoadFails(c) \/ Loaded(c) \/ LoadResolves(c)
    \/ RunGo \/ InitUA
    \/ Push \/ ParseLazily
    \/ \E e \in Engines : FetchEnds(e) \/ HintsSettle(e)

PageSpec == PageInit /\ [][PageNext]_pageVars

-----------------------------------------------------------------------------
(***************************************************************************)
(* Properties                                                              *)
(***************************************************************************)
\* The type invariant, with where an engine belongs.
PageTypeOK ==
    /\ manual \in BOOLEAN
    /\ userAgentData \in {"absent", "denied", "granted"}
    /\ ready \subseteq Objects
    /\ load \in [PageCalls -> Loads \union {NoLoad}]
    /\ opened \in 0..MaxRuntimes /\ made \in 0..MaxEngines
    /\ parser \in [Runtimes -> 0..made]
    /\ engineConfig \in [Engines -> Config \union {NoConfigYet}]
    /\ engineHome \in [Engines -> 0..opened]
    /\ engineRules \in [Engines -> Sources \union {Embedded, Pushed}]
    /\ collectedSignals \in [Runtimes -> {"none", "basic", "gpu"}]
    /\ collectedHeaders \subseteq Runtimes
    /\ fetching \subseteq 1..made /\ promised \subseteq 1..made
    /\ \A r \in Runtimes : parser[r] # 0 => engineHome[parser[r]] = r

\* A page that uses UaParser never meets a runtime without an engine, which a
\* parse would initialize with the defaults: whatever object's call opened the
\* runtime that owns the global functions, it serves under that call's config.
ServedAsConfigured ==
    ~manual => \A r \in 1..opened :
        /\ parser[r] # 0
        /\ \E c \in PageCalls :
              /\ load[c] # NoLoad
              /\ load[c].stage \in {"resolving", "done"}
              /\ engineConfig[parser[r]] = Effective(load[c].config)

\* What a parse without headers and signals is told of the browser, a config that
\* its runtime was initialized with let the runtime collect: the GPU only when one
\* asked for it, and no hints that another object's runtime was promised.
CollectedAsAllowed ==
    \A r \in 1..opened :
        LET used == {engineConfig[e].collect : e \in {e \in 1..made : engineHome[e] = r}} IN
        /\ BareParse(r).signals # "none" => BareParse(r).signals \in used
        /\ BareParse(r).headers = "collected" => used \ {"none"} # {}

\* The download that an init started never gives another engine its file,
\* though the parser of the runtime may be another when it ends: an engine that
\* serves a downloaded file has it from the URL of its own config.
FileFromOwnSource ==
    \A e \in 1..made : engineRules[e] \in Sources => engineRules[e] = engineConfig[e].source

\* A pushed file is replaced by a download at most if that engine's own download
\* was still under way, never after it.
PushStands ==
    [][\A e \in Engines : engineRules[e] = Pushed /\ engineRules'[e] # Pushed => e \in fetching]_pageVars

=============================================================================
