---------------------------- MODULE JsClientProofs ----------------------------
(***************************************************************************)
(* What holds of the JavaScript client for any number of init() calls,     *)
(* objects, sources and downloads, on both sides.                          *)
(*                                                                         *)
(* The argument for Node.js: no call gets past the check of isInitialized  *)
(* once a call has resolved, so `after' is empty for each call that makes  *)
(* an instance; and only a call whose instance is there downloads.         *)
(* The argument for the page: an engine's config and runtime are settled   *)
(* when it is made, and what is still under way names the engine.          *)
(***************************************************************************)
EXTENDS JsClient, TLAPS

\* Each side's machine makes all steps that change its variables.
THEOREM BothSides == Spec => NodeSpec /\ PageSpec
<1>1. Init => NodeInit /\ PageInit
  BY DEF Init
<1>2. [Next]_vars => [NodeNext]_nodeVars /\ [PageNext]_pageVars
  BY DEF Next, vars
<1> QED BY <1>1, <1>2, PTL DEF Spec, NodeSpec, PageSpec

-----------------------------------------------------------------------------
(***************************************************************************)
(* Node.js                                                                 *)
(***************************************************************************)
USE DEF objectVars, callVars, netVars

\* Sentinels, embedded rules and files are told apart.
LEMMA RulesDistinct ==
    /\ Embedded # NoInstance
    /\ Embedded \notin GoodFiles
    /\ NoInstance \notin GoodFiles
    /\ NoConfig \notin NodeConfigs
    /\ NoDownload \notin Downloads /\ Hung \notin Downloads /\ Hung # NoDownload
<1>1. DOMAIN Embedded = {"embedded"} /\ DOMAIN NoInstance = {"none"}
  BY DEF Embedded, NoInstance
<1>2. \A f \in Downloads : DOMAIN f = {"source", "version"}
  BY DEF Downloads
<1>3. \A f \in Config : DOMAIN f = {"readable", "source", "collect"}
  BY DEF Config
<1>4. DOMAIN NoConfig = {"none"} /\ DOMAIN NoDownload = {"none"} /\ DOMAIN Hung = {"hung"}
  BY DEF NoConfig, NoDownload, Hung
<1>5. /\ "none" # "embedded" /\ "none" # "source" /\ "embedded" # "source" /\ "source" # "version"
      /\ "hung" # "none" /\ "hung" # "source"
  OBVIOUS
<1>6. /\ {"none"} # {"embedded"} /\ "source" \notin {"none"} /\ "source" \notin {"embedded"}
      /\ {"none"} # {"hung"} /\ "source" \notin {"hung"}
  BY <1>5
<1>7. Embedded # NoInstance
  BY <1>1, <1>6
<1>8. Embedded \notin Downloads /\ NoInstance \notin Downloads /\ NoDownload \notin Downloads
  BY <1>1, <1>2, <1>4, <1>6
<1>9. NoConfig \notin Config
  BY <1>3, <1>4, <1>6
<1>10. Hung \notin Downloads /\ Hung # NoDownload
  BY <1>2, <1>4, <1>6
<1> QED BY <1>7, <1>8, <1>9, <1>10, NodeConfigsAssumption DEF GoodFiles

\* A call that has begun keeps its config, and whoever has a timer has an
\* instance and a source to download from.
Configured ==
    /\ \A c \in NodeCalls : stage[c] # "unused" => arg[c] \in NodeConfigs
    /\ \A c \in NodeCalls : rules[c] # NoInstance => stage[c] \in {"resolving", "done", "failed"}
    /\ \A c \in timers : rules[c] # NoInstance /\ arg[c].source \in Sources \ PlainSources
    /\ wasmExports # NoCall => rules[wasmExports] # NoInstance

\* A new download's source is one of Sources, and the slots keep their type.
LEMMA DownloadTyped ==
    ASSUME NodeTypeOK, NEW s \in Sources, StartDownload(s)
    PROVE  download' \in [Slots -> Downloads \union {NoDownload, Hung}]
<1>1. Asked(s) \in Downloads
  BY DEF Asked, Downloads
<1> QED BY <1>1 DEF NodeTypeOK, StartDownload

\* Node.js: types and configs are kept, and no rejected file is ever in force.
LEMMA NodeTypesHold == NodeSpec => [](NodeTypeOK /\ Configured)
<1> USE DEF Stages
<1>1. NodeInit => NodeTypeOK /\ Configured
  <2> SUFFICES ASSUME NodeInit PROVE NodeTypeOK /\ Configured
    OBVIOUS
  <2>1. stage \in [NodeCalls -> Stages] /\ arg \in [NodeCalls -> NodeConfigs \union {NoConfig}]
    BY DEF NodeInit
  <2>2. after \in [NodeCalls -> SUBSET NodeCalls]
    BY DEF NodeInit
  <2>3. rules \in [NodeCalls -> GoodFiles \union {Embedded, NoInstance}]
    BY DEF NodeInit
  <2>4. download \in [Slots -> Downloads \union {NoDownload, Hung}] /\ served \in [Sources -> Nat]
    BY DEF NodeInit
  <2>5. NodeTypeOK
    BY <2>1, <2>2, <2>3, <2>4 DEF NodeInit, NodeTypeOK
  <2>6. Configured
    BY DEF NodeInit, Configured
  <2> QED BY <2>5, <2>6
<1>2. NodeTypeOK /\ Configured /\ [NodeNext]_nodeVars => NodeTypeOK' /\ Configured'
  <2> SUFFICES ASSUME NodeTypeOK, Configured, [NodeNext]_nodeVars
               PROVE  NodeTypeOK' /\ Configured'
    OBVIOUS
  <2> USE RulesDistinct
  <2>1. ASSUME NEW c \in NodeCalls, NEW config \in NodeConfigs, Begin(c, config)
        PROVE  /\ arg' \in [NodeCalls -> NodeConfigs \union {NoConfig}]
               /\ after' \in [NodeCalls -> SUBSET NodeCalls]
               /\ stage[c] = "unused" /\ arg'[c] \in NodeConfigs
               /\ \A d \in NodeCalls \ {c} : arg'[d] = arg[d]
    BY <2>1 DEF Begin, NodeTypeOK, Resolved
  <2>2. ASSUME NEW c \in NodeCalls, InitAgain(c) PROVE NodeTypeOK' /\ Configured'
    <3>1. PICK config \in NodeConfigs : Begin(c, config)
      BY <2>2 DEF InitAgain
    <3>2. NodeTypeOK'
      BY <2>1, <2>2, <3>1 DEF InitAgain, NodeTypeOK
    <3>3. Configured'
      BY <2>1, <2>2, <3>1 DEF InitAgain, NodeTypeOK, Configured
    <3> QED BY <3>2, <3>3
  <2>3. ASSUME NEW c \in NodeCalls, InitNative(c) PROVE NodeTypeOK' /\ Configured'
    <3>1. PICK config \in NodeConfigs : Begin(c, config)
      BY <2>3 DEF InitNative
    <3>2. NodeTypeOK'
      BY <2>1, <2>3, <3>1 DEF InitNative, BindNative, NodeTypeOK
    <3>3. Configured'
      BY <2>1, <2>3, <3>1 DEF InitNative, NodeTypeOK, Configured
    <3> QED BY <3>2, <3>3
  <2>4. ASSUME NEW c \in NodeCalls, InitNeither(c) PROVE NodeTypeOK' /\ Configured'
    <3>1. PICK config \in NodeConfigs : Begin(c, config)
      BY <2>4 DEF InitNeither
    <3>2. NodeTypeOK'
      BY <2>1, <2>4, <3>1 DEF InitNeither, BindNative, NodeTypeOK
    <3>3. Configured'
      BY <2>1, <2>4, <3>1 DEF InitNeither, NodeTypeOK, Configured
    <3> QED BY <3>2, <3>3
  <2>5. ASSUME NEW c \in NodeCalls, FallBack(c) PROVE NodeTypeOK' /\ Configured'
    <3>1. PICK config \in NodeConfigs : Begin(c, config)
      BY <2>5 DEF FallBack
    <3>2. NodeTypeOK'
      BY <2>1, <2>5, <3>1 DEF FallBack, BindNative, NodeTypeOK
    <3>3. Configured'
      BY <2>1, <2>5, <3>1 DEF FallBack, NodeTypeOK, Configured
    <3> QED BY <3>2, <3>3
  <2>6. ASSUME NEW c \in NodeCalls, InstantiateFails(c) PROVE NodeTypeOK' /\ Configured'
    <3>1. NodeTypeOK'
      BY <2>6 DEF InstantiateFails, NodeTypeOK
    <3>2. Configured'
      BY <2>6 DEF InstantiateFails, NodeTypeOK, Configured
    <3> QED BY <3>1, <3>2
  <2>7. ASSUME NEW c \in NodeCalls, Instantiated(c) PROVE NodeTypeOK' /\ Configured'
    <3>1. stage' \in [NodeCalls -> Stages] /\ stage'[c] \in {"resolving", "failed"}
      BY <2>7 DEF Instantiated, NodeTypeOK
    <3>2. rules' \in [NodeCalls -> GoodFiles \union {Embedded, NoInstance}] /\ timers' \subseteq NodeCalls
      BY <2>7 DEF Instantiated, NodeTypeOK
    <3>3. download' \in [Slots -> Downloads \union {NoDownload, Hung}]
      BY <2>7, DownloadTyped DEF Instantiated, NodeTypeOK
    <3>4. NodeTypeOK'
      BY <2>7, <3>1, <3>2, <3>3 DEF Instantiated, NodeTypeOK
    <3>5. Configured'
      BY <2>7, <3>1 DEF Instantiated, NodeTypeOK, Configured
    <3> QED BY <3>4, <3>5
  <2>8. ASSUME NEW c \in NodeCalls, Resolve(c) PROVE NodeTypeOK' /\ Configured'
    <3>1. NodeTypeOK'
      BY <2>8 DEF Resolve, NodeTypeOK
    <3>2. Configured'
      BY <2>8 DEF Resolve, NodeTypeOK, Configured
    <3> QED BY <3>1, <3>2
  <2>9. ASSUME NEW c \in NodeCalls, Tick(c) PROVE NodeTypeOK' /\ Configured'
    <3>1. download' \in [Slots -> Downloads \union {NoDownload, Hung}]
      BY <2>9, DownloadTyped DEF Tick, Configured
    <3> QED BY <2>9, <3>1 DEF Tick, NodeTypeOK, Configured
  <2>10. ASSUME NEW s \in Sources, Release(s) PROVE NodeTypeOK' /\ Configured'
    BY <2>10 DEF Release, NodeTypeOK, Configured
  <2>11. ASSUME NEW d \in Slots, Answer(d) PROVE NodeTypeOK' /\ Configured'
    <3>1. served[download[d].source] \in Nat /\ download[d] \in Downloads
      BY <2>11 DEF Answer, UnderWay, NodeTypeOK, Downloads
    <3>2. [download[d] EXCEPT !.version = served[download[d].source]] \in Downloads
      BY <3>1 DEF Downloads
    <3>3. download' \in [Slots -> Downloads \union {NoDownload, Hung}]
      BY <2>11, <3>2 DEF Answer, NodeTypeOK
    <3> QED BY <2>11, <3>3 DEF Answer, NodeTypeOK, Configured
  <2>12. ASSUME NEW d \in Slots, DownloadFails(d) \/ Hang(d) PROVE NodeTypeOK' /\ Configured'
    BY <2>12 DEF DownloadFails, Hang, NodeTypeOK, Configured
  <2>13. ASSUME NEW d \in Slots, Arrive(d) PROVE NodeTypeOK' /\ Configured'
    <3>1. rules' \in [NodeCalls -> GoodFiles \union {Embedded, NoInstance}]
      BY <2>13 DEF Arrive, NodeTypeOK
    <3>2. NodeTypeOK'
      BY <2>13, <3>1 DEF Arrive, NodeTypeOK
    <3>3. \A c \in NodeCalls : rules'[c] # NoInstance <=> rules[c] # NoInstance
      BY <2>13, NoCallAssumption DEF Arrive, NodeTypeOK, Configured
    <3>4. Configured'
      BY <2>13, <3>3, NoCallAssumption DEF Arrive, NodeTypeOK, Configured
    <3> QED BY <3>2, <3>4
  <2>14. CASE UNCHANGED nodeVars
    BY <2>14 DEF nodeVars, NodeTypeOK, Configured
  <2> QED BY <2>2, <2>3, <2>4, <2>5, <2>6, <2>7, <2>8, <2>9, <2>10, <2>11, <2>12, <2>13, <2>14
          DEF NodeNext, OfCall, OfDownload
<1> QED BY <1>1, <1>2, PTL DEF NodeSpec

\* No call that makes an instance began after another had resolved.
Sequential ==
    /\ Resolved # {} => isInitialized
    /\ \A c \in NodeCalls : stage[c] = "compiling" \/ rules[c] # NoInstance => after[c] = {}

LEMMA SequentialHolds == NodeSpec => []Sequential
<1>1. NodeInit => Sequential
  BY DEF NodeInit, Sequential, Resolved
<1>2. NodeTypeOK /\ Configured /\ Sequential /\ [NodeNext]_nodeVars => Sequential'
  <2> SUFFICES ASSUME NodeTypeOK, Configured, Sequential, [NodeNext]_nodeVars
               PROVE  Sequential'
    OBVIOUS
  <2> USE DEF Sequential, Resolved, NodeTypeOK
  <2>1. ASSUME NEW c \in NodeCalls, InitAgain(c) PROVE Sequential'
    BY <2>1 DEF InitAgain, Begin, Configured
  <2>2. ASSUME NEW c \in NodeCalls, InitNative(c) PROVE Sequential'
    BY <2>2 DEF InitNative, Begin, Configured
  <2>3. ASSUME NEW c \in NodeCalls, InitNeither(c) PROVE Sequential'
    BY <2>3 DEF InitNeither, Begin, Configured
  <2>4. ASSUME NEW c \in NodeCalls, FallBack(c) PROVE Sequential'
    BY <2>4 DEF FallBack, Begin, Configured
  <2>5. ASSUME NEW c \in NodeCalls, InstantiateFails(c) PROVE Sequential'
    BY <2>5 DEF InstantiateFails
  <2>6. ASSUME NEW c \in NodeCalls, Instantiated(c) PROVE Sequential'
    BY <2>6 DEF Instantiated
  <2>7. ASSUME NEW c \in NodeCalls, Resolve(c) PROVE Sequential'
    BY <2>7 DEF Resolve
  <2>8. ASSUME NEW c \in NodeCalls, Tick(c) PROVE Sequential'
    BY <2>8 DEF Tick
  <2>9. ASSUME NEW s \in Sources, Release(s) PROVE Sequential'
    BY <2>9 DEF Release
  <2>10. ASSUME NEW d \in Slots, OfDownload(d) PROVE Sequential'
    <3>1. CASE Arrive(d)
      <4>1. \A c \in NodeCalls : rules'[c] # NoInstance <=> rules[c] # NoInstance
        BY <3>1, NoCallAssumption, RulesDistinct DEF Arrive, Configured
      <4> QED BY <3>1, <4>1 DEF Arrive
    <3> QED BY <2>10, <3>1 DEF OfDownload, Answer, Hang, DownloadFails
  <2>11. CASE UNCHANGED nodeVars
    BY <2>11 DEF nodeVars
  <2> QED BY <2>1, <2>2, <2>3, <2>4, <2>5, <2>6, <2>7, <2>8, <2>9, <2>10, <2>11
          DEF NodeNext, OfCall
<1> QED BY <1>1, <1>2, NodeTypesHold, PTL DEF NodeSpec

\* What serves a parse(), and who can have set it up.
Serving ==
    /\ isInitialized => Resolved # {}
    /\ isInitialized /\ ~isWasm => parseFunc \in Resolved
    /\ isWasm /\ wasmExports = NoCall => \E c \in NodeCalls : stage[c] \in {"compiling", "failed"}
    /\ \A c \in NodeCalls : stage[c] \in {"compiling", "resolving"} => isWasm

LEMMA ServingHolds == NodeSpec => []Serving
<1>1. NodeInit => Serving
  BY DEF NodeInit, Serving
<1>2. NodeTypeOK /\ Serving /\ [NodeNext]_nodeVars => Serving'
  <2> SUFFICES ASSUME NodeTypeOK, Serving, [NodeNext]_nodeVars
               PROVE  Serving'
    OBVIOUS
  <2> USE DEF Serving, Resolved, NodeTypeOK, Stages
  <2>1. ASSUME NEW c \in NodeCalls, InitAgain(c) PROVE Serving'
    BY <2>1 DEF InitAgain, Begin
  <2>2. ASSUME NEW c \in NodeCalls, InitNative(c) PROVE Serving'
    BY <2>2 DEF InitNative, Begin, BindNative, NativeWorks
  <2>3. ASSUME NEW c \in NodeCalls, InitNeither(c) PROVE Serving'
    BY <2>3 DEF InitNeither, Begin
  <2>4. ASSUME NEW c \in NodeCalls, FallBack(c) PROVE Serving'
    BY <2>4 DEF FallBack, Begin
  <2>5. ASSUME NEW c \in NodeCalls, InstantiateFails(c) PROVE Serving'
    BY <2>5 DEF InstantiateFails
  <2>6. ASSUME NEW c \in NodeCalls, Instantiated(c) PROVE Serving'
    BY <2>6, NoCallAssumption DEF Instantiated
  <2>7. ASSUME NEW c \in NodeCalls, Resolve(c) PROVE Serving'
    BY <2>7 DEF Resolve
  <2>8. ASSUME NEW c \in NodeCalls, Tick(c) PROVE Serving'
    BY <2>8 DEF Tick
  <2>9. ASSUME NEW s \in Sources, Release(s) PROVE Serving'
    BY <2>9 DEF Release
  <2>10. ASSUME NEW d \in Slots, OfDownload(d) PROVE Serving'
    BY <2>10 DEF OfDownload, Answer, Hang, DownloadFails, Arrive
  <2>11. CASE UNCHANGED nodeVars
    BY <2>11 DEF nodeVars
  <2> QED BY <2>1, <2>2, <2>3, <2>4, <2>5, <2>6, <2>7, <2>8, <2>9, <2>10, <2>11
          DEF NodeNext, OfCall
<1> QED BY <1>1, <1>2, NodeTypesHold, PTL DEF NodeSpec

\* Whatever is downloaded or in force comes from the source of a call with a timer.
Sourced ==
    /\ \A d \in Slots : UnderWay(d) =>
          \E c \in timers : arg[c].source = download[d].source
    /\ \A c \in NodeCalls : rules[c] \in GoodFiles =>
          \E d \in timers : arg[d].source = rules[c].source

\* A slot holds what was just asked for, or what it held.
LEMMA DownloadAsked ==
    ASSUME NodeTypeOK, NEW s, StartDownload(s), NEW d \in Slots
    PROVE  download'[d] = download[d] \/ download'[d].source = s
BY DEF NodeTypeOK, StartDownload, Asked

LEMMA SourcedHolds == NodeSpec => []Sourced
<1>1. NodeInit => Sourced
  BY RulesDistinct DEF NodeInit, Sourced, UnderWay
<1>2. NodeTypeOK /\ Configured /\ Sourced /\ [NodeNext]_nodeVars => Sourced'
  <2> SUFFICES ASSUME NodeTypeOK, Configured, Sourced, [NodeNext]_nodeVars
               PROVE  Sourced'
    OBVIOUS
  <2> USE DEF Sourced, UnderWay
  <2>1. ASSUME NEW c \in NodeCalls, NEW config \in NodeConfigs, Begin(c, config),
               UNCHANGED <<rules, timers, download>>
        PROVE  Sourced'
    <3>1. c \notin timers
      BY <2>1 DEF Begin, Configured
    <3>2. \A d \in timers : arg'[d] = arg[d]
      BY <2>1, <3>1 DEF Begin, NodeTypeOK
    <3> QED BY <2>1, <3>2
  <2>2. ASSUME NEW c \in NodeCalls, InitAgain(c) PROVE Sourced'
    BY <2>1, <2>2 DEF InitAgain
  <2>3. ASSUME NEW c \in NodeCalls, InitNative(c) PROVE Sourced'
    BY <2>1, <2>3 DEF InitNative
  <2>4. ASSUME NEW c \in NodeCalls, InitNeither(c) PROVE Sourced'
    BY <2>1, <2>4 DEF InitNeither
  <2>5. ASSUME NEW c \in NodeCalls, FallBack(c) PROVE Sourced'
    BY <2>1, <2>5 DEF FallBack
  <2>6. ASSUME NEW c \in NodeCalls, InstantiateFails(c) PROVE Sourced'
    BY <2>6 DEF InstantiateFails
  <2>7. ASSUME NEW c \in NodeCalls, Instantiated(c) PROVE Sourced'
    <3>1. \A d \in NodeCalls : rules'[d] \in GoodFiles => rules'[d] = rules[d]
      BY <2>7, RulesDistinct DEF Instantiated, NodeTypeOK
    <3>2. \A d \in Slots :
             \/ download'[d] = download[d]
             \/ c \in timers' /\ download'[d].source = arg[c].source
      BY <2>7, DownloadAsked DEF Instantiated
    <3>3. timers \subseteq timers' /\ arg' = arg
      BY <2>7 DEF Instantiated
    <3> QED BY <3>1, <3>2, <3>3
  <2>8. ASSUME NEW c \in NodeCalls, Resolve(c) PROVE Sourced'
    BY <2>8 DEF Resolve
  <2>9. ASSUME NEW c \in NodeCalls, Tick(c) PROVE Sourced'
    <3>1. \A d \in Slots : download'[d] = download[d] \/ download'[d].source = arg[c].source
      BY <2>9, DownloadAsked DEF Tick
    <3> QED BY <2>9, <3>1 DEF Tick
  <2>10. ASSUME NEW s \in Sources, Release(s) PROVE Sourced'
    BY <2>10 DEF Release
  <2>11. ASSUME NEW d \in Slots, Answer(d) PROVE Sourced'
    <3>1. \A x \in Slots : UnderWay(x)' =>
             UnderWay(x) /\ download'[x].source = download[x].source
      <4>1. download[d] \in Downloads
        BY <2>11 DEF Answer, UnderWay, NodeTypeOK
      <4>2. download'[d] = [download[d] EXCEPT !.version = served[download[d].source]]
        BY <2>11 DEF Answer, NodeTypeOK
      <4>3. download'[d].source = download[d].source
        BY <4>1, <4>2 DEF Downloads
      <4>4. \A x \in Slots \ {d} : download'[x] = download[x]
        BY <2>11 DEF Answer, NodeTypeOK
      <4> QED BY <2>11, <4>3, <4>4 DEF Answer, UnderWay
    <3> QED BY <2>11, <3>1 DEF Answer
  <2>12. ASSUME NEW d \in Slots, DownloadFails(d) \/ Hang(d) PROVE Sourced'
    BY <2>12 DEF DownloadFails, Hang, UnderWay, NodeTypeOK
  <2>13. ASSUME NEW d \in Slots, Arrive(d) PROVE Sourced'
    <3>1. \A c \in NodeCalls : rules'[c] = rules[c] \/ rules'[c] = download[d]
      BY <2>13 DEF Arrive, NodeTypeOK
    <3>2. \A x \in Slots : UnderWay(x)' => download'[x] = download[x] /\ UnderWay(x)
      BY <2>13 DEF Arrive, UnderWay, NodeTypeOK
    <3> QED BY <2>13, <3>1, <3>2 DEF Arrive
  <2>14. CASE UNCHANGED nodeVars
    BY <2>14 DEF nodeVars
  <2> QED BY <2>2, <2>3, <2>4, <2>5, <2>6, <2>7, <2>8, <2>9, <2>10, <2>11, <2>12, <2>13, <2>14
          DEF NodeNext, OfCall, OfDownload
<1> QED BY <1>1, <1>2, NodeTypesHold, PTL DEF NodeSpec

\* No call of init() leaves a state of the wrong type, and no instance ever has a
\* file in force that its engine rejects, or that was not answered.
THEOREM NodeTypeCorrect == Spec => []NodeTypeOK
BY BothSides, NodeTypesHold, PTL

\* An initialized object is served by what a resolved call of init() set up, or
\* stands in the wake of another call's fall back to WASM.
THEOREM ServedAfterInit == Spec => []ServedByResolved
<1>1. NodeTypeOK /\ Configured /\ Serving => ServedByResolved
  BY DEF NodeTypeOK, Configured, Serving, ServedByResolved, Server, Resolved, Stages
<1> QED BY <1>1, BothSides, NodeTypesHold, ServingHolds, PTL

\* Only overlapping calls of init() can each make an instance.
THEOREM InstancesOverlap == Spec => []OneInstanceUnlessOverlap
<1>1. Sequential => OneInstanceUnlessOverlap
  BY DEF Sequential, OneInstanceUnlessOverlap
<1> QED BY <1>1, BothSides, SequentialHolds, PTL

\* A downloaded file in force comes from the URL of the instance's own call, or of
\* one that overlapped with it.
LEMMA RulesOfOwnCalls == Spec => []RulesFromOwnSource
<1>1. NodeTypeOK /\ Configured /\ Sequential /\ Sourced => RulesFromOwnSource
  <2> SUFFICES ASSUME NodeTypeOK, Configured, Sequential, Sourced,
                      NEW c \in NodeCalls, rules[c] \in GoodFiles
               PROVE  \E d \in Pushing : arg[d].source = rules[c].source /\ (d # c => d \notin after[c])
    BY DEF RulesFromOwnSource
  <2>1. after[c] = {}
    BY RulesDistinct DEF Sequential
  <2>2. PICK d \in timers : arg[d].source = rules[c].source
    BY DEF Sourced
  <2>3. d \in Pushing
    BY DEF NodeTypeOK, Configured, Pushing
  <2> QED BY <2>1, <2>2, <2>3
<1> QED BY <1>1, BothSides, NodeTypesHold, SequentialHolds, SourcedHolds, PTL

-----------------------------------------------------------------------------
(***************************************************************************)
(* The page                                                                *)
(***************************************************************************)
USE DEF pageEnv, objects, engines, evidence, Runtimes, Engines

\* A file, the embedded rules and a pushed file are told apart; a config is not
\* the sentinel of an engine without one.
LEMMA PageDistinct ==
    /\ Embedded # Pushed /\ NoConfigYet \notin Config
    /\ Embedded \notin Sources /\ Pushed \notin Sources
    /\ \A load_ \in Loads : load_ # NoLoad
<1>1. DOMAIN Embedded = {"embedded"} /\ DOMAIN Pushed = {"pushed"}
  BY DEF Embedded, Pushed
<1>2. DOMAIN NoConfigYet = {"none"} /\ DOMAIN NoLoad = {"none"}
  BY DEF NoConfigYet, NoLoad
<1>3. \A config \in Config : DOMAIN config = {"readable", "source", "collect"}
  BY DEF Config
<1>4. \A load_ \in Loads : DOMAIN load_ = {"stage", "object", "config"}
  BY DEF Loads
<1>5. {"embedded"} # {"pushed"} /\ "source" \notin {"none"} /\ "stage" \notin {"none"}
  OBVIOUS
<1> QED BY <1>1, <1>2, <1>3, <1>4, <1>5, EmbeddedAssumption, PushedAssumption

\* Each engine that is made has a config and a runtime; what is not made yet has
\* left no trace.
Settled ==
    /\ \A e \in 1..made : engineConfig[e] \in Config /\ engineHome[e] \in 1..opened
    /\ \A e \in fetching : engineConfig[e].source # NoSource

\* What InitParser leaves behind, for an engine that is new and for the others.
LEMMA InitParserMakes ==
    ASSUME PageTypeOK, NEW r \in Runtimes, NEW config \in Config, InitParser(r, config)
    PROVE  /\ made + 1 \in Engines /\ made' = made + 1
           /\ Effective(config) \in Config
           /\ parser' = [parser EXCEPT ![r] = made + 1]
           /\ engineConfig'[made + 1] = Effective(config)
           /\ engineHome'[made + 1] = r
           /\ \A e \in 1..made : engineConfig'[e] = engineConfig[e] /\ engineHome'[e] = engineHome[e]
           /\ DOMAIN engineConfig' = Engines /\ DOMAIN engineHome' = Engines
<1>1. made \in Nat /\ made + 1 \in Engines /\ made' = made + 1
  BY MaxAssumption DEF PageTypeOK, InitParser
<1>2. Effective(config) \in Config
  BY DefaultConfigAssumption DEF Effective
<1> QED BY <1>1, <1>2 DEF PageTypeOK, InitParser

\* The types survive an initialization, in a runtime that is open by then.
LEMMA InitParserTyped ==
    ASSUME PageTypeOK, Settled, NEW r \in Runtimes, NEW config \in Config, InitParser(r, config),
           UNCHANGED <<manual, userAgentData, ready, engineRules>>,
           opened' \in {opened, opened + 1}, opened' \in Runtimes, r \in 1..opened',
           load' \in [PageCalls -> Loads \union {NoLoad}]
    PROVE  PageTypeOK' /\ Settled'
<1> DEFINE e0 == made + 1
           conf == Effective(config)
<1>1. /\ e0 \in Engines /\ made' = e0 /\ conf \in Config
      /\ parser' = [parser EXCEPT ![r] = e0]
      /\ engineConfig'[e0] = conf /\ engineHome'[e0] = r
      /\ \A e \in 1..made : engineConfig'[e] = engineConfig[e] /\ engineHome'[e] = engineHome[e]
  BY InitParserMakes
<1>2. made \in Nat /\ opened \in Nat
  BY MaxAssumption DEF PageTypeOK
<1>3. engineConfig' \in [Engines -> Config \union {NoConfigYet}]
  BY <1>1 DEF PageTypeOK, InitParser
<1>4. engineHome' \in [Engines -> 0..opened']
  BY <1>2, MaxAssumption DEF PageTypeOK, InitParser
<1>5. parser' \in [Runtimes -> 0..made']
  BY <1>1, <1>2 DEF PageTypeOK
<1>6. fetching' \subseteq 1..made' /\ promised' \subseteq 1..made'
  <2>1. fetching' \subseteq fetching \union {e0} /\ promised' \subseteq promised \union {e0}
    BY DEF InitParser, Collect
  <2>2. 1..made \union {e0} \subseteq 1..made'
    BY <1>1, <1>2
  <2>3. fetching \subseteq 1..made /\ promised \subseteq 1..made
    BY DEF PageTypeOK
  <2> QED BY <2>1, <2>2, <2>3
<1>7. config.collect \in {"none", "basic", "gpu"} /\ conf.collect \in {"none", "basic", "gpu"}
  BY <1>1 DEF Config
<1>8. collectedSignals' \in [Runtimes -> {"none", "basic", "gpu"}] /\ collectedHeaders' \subseteq Runtimes
  BY <1>7 DEF PageTypeOK, InitParser, Collect
<1>9. \A q \in Runtimes : parser'[q] # 0 => engineHome'[parser'[q]] = q
  <2> SUFFICES ASSUME NEW q \in Runtimes, parser'[q] # 0 PROVE engineHome'[parser'[q]] = q
    OBVIOUS
  <2>1. CASE q = r
    BY <2>1, <1>1 DEF PageTypeOK
  <2>2. CASE q # r
    <3>1. parser'[q] = parser[q] /\ parser[q] \in 1..made
      BY <2>2, <1>1, <1>2 DEF PageTypeOK
    <3> QED BY <3>1, <1>1 DEF PageTypeOK
  <2> QED BY <2>1, <2>2
<1>10. made' \in 0..MaxEngines /\ opened' \in 0..MaxRuntimes
  BY <1>1, <1>2, MaxAssumption
<1>11. PageTypeOK'
  BY <1>3, <1>4, <1>5, <1>6, <1>8, <1>9, <1>10 DEF PageTypeOK
<1>12. \A e \in 1..made' : engineConfig'[e] \in Config /\ engineHome'[e] \in 1..opened'
  <2>1. 1..made' = 1..made \union {e0}
    BY <1>1, <1>2
  <2>2. 1..opened \subseteq 1..opened'
    BY <1>2
  <2> QED BY <2>1, <2>2, <1>1 DEF Settled
<1>13. \A e \in fetching' : engineConfig'[e].source # NoSource
  <2>1. fetching' \subseteq fetching \union (IF conf.source = NoSource THEN {} ELSE {e0})
    BY DEF InitParser
  <2>2. \A e \in fetching : engineConfig'[e] = engineConfig[e]
    BY <1>1 DEF PageTypeOK
  <2> QED BY <2>1, <2>2, <1>1 DEF Settled
<1> QED BY <1>11, <1>12, <1>13 DEF Settled

LEMMA PageTypesHold == PageSpec => [](PageTypeOK /\ Settled)
<1>1. PageInit => PageTypeOK /\ Settled
  <2> SUFFICES ASSUME PageInit PROVE PageTypeOK /\ Settled
    OBVIOUS
  <2>1. parser \in [Runtimes -> 0..made] /\ engineHome \in [Engines -> 0..opened]
    BY DEF PageInit
  <2>2. engineConfig \in [Engines -> Config \union {NoConfigYet}]
    BY DEF PageInit
  <2>3. engineRules \in [Engines -> Sources \union {Embedded, Pushed}]
    BY DEF PageInit
  <2>4. load \in [PageCalls -> Loads \union {NoLoad}]
    BY DEF PageInit
  <2>5. collectedSignals \in [Runtimes -> {"none", "basic", "gpu"}]
    BY DEF PageInit
  <2>6. opened \in 0..MaxRuntimes /\ made \in 0..MaxEngines
    BY MaxAssumption DEF PageInit
  <2>7. PageTypeOK
    BY <2>1, <2>2, <2>3, <2>4, <2>5, <2>6 DEF PageInit, PageTypeOK
  <2>8. Settled
    BY DEF PageInit, Settled
  <2> QED BY <2>7, <2>8
<1>2. PageTypeOK /\ Settled /\ [PageNext]_pageVars => PageTypeOK' /\ Settled'
  <2> SUFFICES ASSUME PageTypeOK, Settled, [PageNext]_pageVars
               PROVE  PageTypeOK' /\ Settled'
    OBVIOUS
  <2>1. ASSUME NEW c \in PageCalls, StartInit(c) PROVE PageTypeOK' /\ Settled'
    <3>1. load' \in [PageCalls -> Loads \union {NoLoad}]
      <4>1. PICK o \in Objects, config \in PageConfigs :
               load' = [load EXCEPT ![c] =
                  [stage |-> IF o \in ready THEN "done" ELSE "loading", object |-> o, config |-> config]]
        BY <2>1 DEF StartInit
      <4>2. [stage |-> IF o \in ready THEN "done" ELSE "loading", object |-> o, config |-> config] \in Loads
        BY DEF Loads
      <4> QED BY <4>1, <4>2 DEF PageTypeOK
    <3> QED BY <2>1, <3>1 DEF StartInit, PageTypeOK, Settled
  <2>2. ASSUME NEW c \in PageCalls, load[c] # NoLoad,
               NEW stage_ \in {"loading", "resolving", "done", "failed"},
               load' = [load EXCEPT ![c].stage = stage_]
        PROVE  load' \in [PageCalls -> Loads \union {NoLoad}]
    <3>1. load[c] \in Loads
      BY <2>2 DEF PageTypeOK
    <3>2. [load[c] EXCEPT !.stage = stage_] \in Loads
      BY <3>1 DEF Loads
    <3> QED BY <2>2, <3>2 DEF PageTypeOK
  <2>3. ASSUME NEW c \in PageCalls, LoadFails(c) PROVE PageTypeOK' /\ Settled'
    <3>1. load' \in [PageCalls -> Loads \union {NoLoad}]
      BY <2>2, <2>3 DEF LoadFails
    <3> QED BY <2>3, <3>1 DEF LoadFails, PageTypeOK, Settled
  <2>4. ASSUME NEW c \in PageCalls, Loaded(c) PROVE PageTypeOK' /\ Settled'
    <3>1. load' \in [PageCalls -> Loads \union {NoLoad}]
      BY <2>2, <2>4 DEF Loaded
    <3>2. load[c].config \in Config
      BY <2>4, PageConfigsAssumption DEF Loaded, PageTypeOK, Loads
    <3>3. opened + 1 \in Runtimes /\ opened' = opened + 1
      BY <2>4, MaxAssumption DEF Loaded, PageTypeOK
    <3>4. opened + 1 \in 1..opened'
      BY <3>3
    <3> QED BY <2>4, <3>1, <3>2, <3>3, <3>4, InitParserTyped DEF Loaded
  <2>5. ASSUME NEW c \in PageCalls, LoadResolves(c) PROVE PageTypeOK' /\ Settled'
    <3>1. load' \in [PageCalls -> Loads \union {NoLoad}]
      BY <2>2, <2>5 DEF LoadResolves
    <3>2. load[c].object \in Objects
      BY <2>5 DEF LoadResolves, PageTypeOK, Loads
    <3> QED BY <2>5, <3>1, <3>2 DEF LoadResolves, PageTypeOK, Settled
  <2>6. CASE RunGo
    <3>1. opened' \in 0..MaxRuntimes /\ 0..opened \subseteq 0..opened' /\ 1..opened \subseteq 1..opened'
      BY <2>6, MaxAssumption DEF RunGo, PageTypeOK
    <3> QED BY <2>6, <3>1 DEF RunGo, PageTypeOK, Settled
  <2>7. CASE InitUA
    <3>1. PICK config \in PageConfigs : InitParser(opened, config)
      BY <2>7 DEF InitUA
    <3>2. opened \in Runtimes /\ opened \in 1..opened
      BY <2>7, MaxAssumption DEF InitUA, PageTypeOK
    <3>3. load \in [PageCalls -> Loads \union {NoLoad}]
      BY DEF PageTypeOK
    <3> QED BY <2>7, <3>1, <3>2, <3>3, InitParserTyped, PageConfigsAssumption DEF InitUA
  <2>8. CASE Push
    BY <2>8 DEF Push, PageTypeOK, Settled
  <2>9. CASE ParseLazily
    <3>2. opened \in Runtimes /\ opened \in 1..opened
      BY <2>9, MaxAssumption DEF ParseLazily, PageTypeOK
    <3>3. load \in [PageCalls -> Loads \union {NoLoad}]
      BY DEF PageTypeOK
    <3> QED BY <2>9, <3>2, <3>3, InitParserTyped, DefaultConfigAssumption DEF ParseLazily
  <2>10. ASSUME NEW e \in Engines, FetchEnds(e) PROVE PageTypeOK' /\ Settled'
    <3>1. engineConfig[e].source \in Sources
      BY <2>10 DEF FetchEnds, PageTypeOK, Settled, Config
    <3>2. engineRules' \in [Engines -> Sources \union {Embedded, Pushed}]
      BY <2>10, <3>1 DEF FetchEnds, PageTypeOK
    <3> QED BY <2>10, <3>2 DEF FetchEnds, PageTypeOK, Settled
  <2>11. ASSUME NEW e \in Engines, HintsSettle(e) PROVE PageTypeOK' /\ Settled'
    <3>1. engineHome[e] \in Runtimes
      BY <2>11, MaxAssumption DEF HintsSettle, PageTypeOK, Settled
    <3> QED BY <2>11, <3>1 DEF HintsSettle, PageTypeOK, Settled
  <2>12. CASE UNCHANGED pageVars
    BY <2>12 DEF pageVars, PageTypeOK, Settled
  <2> QED BY <2>1, <2>3, <2>4, <2>5, <2>6, <2>7, <2>8, <2>9, <2>10, <2>11, <2>12 DEF PageNext
<1> QED BY <1>1, <1>2, PTL DEF PageSpec

\* Every runtime of a page that uses UaParser serves under a call's config; a
\* call whose runtime is open never loses its config.
LEMMA ServedAsConfiguredHolds == PageSpec => []ServedAsConfigured
<1>1. PageInit => ServedAsConfigured
  BY DEF PageInit, ServedAsConfigured
<1>2. PageTypeOK /\ Settled /\ ServedAsConfigured /\ [PageNext]_pageVars => ServedAsConfigured'
  <2> SUFFICES ASSUME PageTypeOK, Settled, ServedAsConfigured, [PageNext]_pageVars, ~manual',
                      NEW r \in 1..opened'
               PROVE  /\ parser'[r] # 0
                      /\ \E c \in PageCalls :
                            /\ load'[c] # NoLoad
                            /\ load'[c].stage \in {"resolving", "done"}
                            /\ engineConfig'[parser'[r]] = Effective(load'[c].config)
    BY DEF ServedAsConfigured
  <2> DEFINE Opens(c) == load[c] # NoLoad /\ load[c].stage \in {"resolving", "done"}
             Goal == /\ parser'[r] # 0
                     /\ \E c \in PageCalls :
                           /\ load'[c] # NoLoad
                           /\ load'[c].stage \in {"resolving", "done"}
                           /\ engineConfig'[parser'[r]] = Effective(load'[c].config)
  <2>1. ~manual /\ opened \in Nat /\ opened <= MaxRuntimes
    BY MaxAssumption DEF PageNext, StartInit, LoadFails, Loaded, LoadResolves, RunGo, InitUA, Push,
       ParseLazily, FetchEnds, HintsSettle, pageVars, PageTypeOK
  <2>2. ASSUME r \in 1..opened, parser'[r] = parser[r],
               engineConfig'[parser[r]] = engineConfig[parser[r]],
               \A c \in PageCalls : Opens(c) =>
                  load'[c] # NoLoad /\ load'[c].stage \in {"resolving", "done"} /\ load'[c].config = load[c].config
        PROVE  Goal
    BY <2>1, <2>2 DEF ServedAsConfigured
  <2>3. ASSUME NEW c \in PageCalls, load[c] \in Loads, NEW stage_ \in {"resolving", "done", "failed"},
               load' = [load EXCEPT ![c].stage = stage_]
        PROVE  /\ load'[c] # NoLoad /\ load'[c].config = load[c].config /\ load'[c].stage = stage_
               /\ \A d \in PageCalls \ {c} : load'[d] = load[d]
    <3>1. load'[c] = [load[c] EXCEPT !.stage = stage_] /\ \A d \in PageCalls \ {c} : load'[d] = load[d]
      BY <2>3 DEF PageTypeOK
    <3>2. [load[c] EXCEPT !.stage = stage_] \in Loads
      BY <2>3 DEF Loads
    <3> QED BY <2>3, <3>1, <3>2, PageDistinct DEF Loads
  <2>4. ASSUME NEW c \in PageCalls, StartInit(c) PROVE Goal
    BY <2>2, <2>4 DEF StartInit, PageTypeOK
  <2>5. ASSUME NEW c \in PageCalls, LoadFails(c) PROVE Goal
    <3>1. load[c] \in Loads /\ load[c].stage = "loading"
      BY <2>5 DEF LoadFails, PageTypeOK
    <3> QED BY <2>2, <2>3, <2>5, <3>1 DEF LoadFails
  <2>6. ASSUME NEW c \in PageCalls, LoadResolves(c) PROVE Goal
    <3>1. load[c] \in Loads /\ load[c].stage = "resolving"
      BY <2>6 DEF LoadResolves, PageTypeOK
    <3> QED BY <2>2, <2>3, <2>6, <3>1 DEF LoadResolves
  <2>7. ASSUME NEW c \in PageCalls, Loaded(c) PROVE Goal
    <3>1. load[c] \in Loads /\ load[c].stage = "loading" /\ opened' = opened + 1 /\ opened + 1 \in Runtimes
      BY <2>1, <2>7, MaxAssumption DEF Loaded, PageTypeOK
    <3>2. load[c].config \in Config
      BY <3>1, PageConfigsAssumption DEF Loads
    <3>3. /\ load'[c] # NoLoad /\ load'[c].config = load[c].config /\ load'[c].stage = "resolving"
          /\ \A d \in PageCalls \ {c} : load'[d] = load[d]
      BY <2>3, <2>7, <3>1 DEF Loaded
    <3>4. /\ parser' = [parser EXCEPT ![opened + 1] = made + 1]
          /\ engineConfig'[made + 1] = Effective(load[c].config)
          /\ \A e \in 1..made : engineConfig'[e] = engineConfig[e]
          /\ made \in Nat /\ made + 1 # 0
      BY <2>7, <3>1, <3>2, InitParserMakes, MaxAssumption DEF Loaded, PageTypeOK
    <3>5. CASE r = opened + 1
      <4>1. parser'[r] = made + 1
        BY <3>1, <3>4, <3>5 DEF PageTypeOK
      <4> QED BY <3>3, <3>4, <4>1
    <3>6. CASE r # opened + 1
      <4>1. r \in 1..opened
        BY <2>1, <3>1, <3>6
      <4>2. parser'[r] = parser[r] /\ parser[r] \in 1..made
        BY <2>1, <3>4, <3>6, <4>1, MaxAssumption DEF PageTypeOK, ServedAsConfigured
      <4> QED BY <2>2, <3>1, <3>3, <3>4, <4>1, <4>2
    <3> QED BY <3>5, <3>6
  <2>8. CASE RunGo \/ InitUA
    BY <2>1, <2>8 DEF RunGo, InitUA
  <2>9. CASE Push
    BY <2>2, <2>9 DEF Push
  <2>10. CASE ParseLazily
    <3>1. opened \in 1..opened /\ parser[opened] = 0
      BY <2>1, <2>10 DEF ParseLazily
    <3> QED BY <2>1, <3>1 DEF ServedAsConfigured
  <2>11. ASSUME NEW e \in Engines, FetchEnds(e) \/ HintsSettle(e) PROVE Goal
    BY <2>2, <2>11 DEF FetchEnds, HintsSettle
  <2>12. CASE UNCHANGED pageVars
    BY <2>2, <2>12 DEF pageVars
  <2> QED BY <2>4, <2>5, <2>6, <2>7, <2>8, <2>9, <2>10, <2>11, <2>12 DEF PageNext
<1> QED BY <1>1, <1>2, PageTypesHold, PTL DEF PageSpec

\* What is not made yet serves no file, and no file is another engine's.
OwnFiles == \A e \in Engines : engineRules[e] \in Sources =>
               e \in 1..made /\ engineRules[e] = engineConfig[e].source

LEMMA OwnFilesHold == PageSpec => []OwnFiles
<1>1. PageInit => OwnFiles
  BY PageDistinct DEF PageInit, OwnFiles
<1>2. PageTypeOK /\ Settled /\ OwnFiles /\ [PageNext]_pageVars => OwnFiles'
  <2> SUFFICES ASSUME PageTypeOK, Settled, OwnFiles, [PageNext]_pageVars PROVE OwnFiles'
    OBVIOUS
  <2>1. ASSUME NEW r \in Runtimes, NEW config \in Config, InitParser(r, config), UNCHANGED engineRules
        PROVE  OwnFiles'
    <3>1. made' = made + 1 /\ \A e \in 1..made : engineConfig'[e] = engineConfig[e]
      BY <2>1, InitParserMakes
    <3>2. 1..made \subseteq 1..made'
      BY <3>1, MaxAssumption DEF PageTypeOK
    <3> QED BY <2>1, <3>1, <3>2 DEF OwnFiles
  <2>2. ASSUME NEW c \in PageCalls, Loaded(c) PROVE OwnFiles'
    <3>1. load[c].config \in Config
      BY <2>2, PageConfigsAssumption DEF Loaded, PageTypeOK, Loads
    <3>2. opened + 1 \in Runtimes
      BY <2>2, MaxAssumption DEF Loaded, PageTypeOK
    <3> QED BY <2>1, <2>2, <3>1, <3>2 DEF Loaded
  <2>3. CASE InitUA \/ ParseLazily
    <3>1. opened \in Runtimes
      BY <2>3, MaxAssumption DEF InitUA, ParseLazily, PageTypeOK
    <3> QED BY <2>1, <2>3, <3>1, PageConfigsAssumption, DefaultConfigAssumption DEF InitUA, ParseLazily
  <2>4. CASE Push
    BY <2>4, PageDistinct DEF Push, PageTypeOK, OwnFiles
  <2>5. ASSUME NEW e \in Engines, FetchEnds(e) PROVE OwnFiles'
    BY <2>5 DEF FetchEnds, PageTypeOK, OwnFiles
  <2>6. ASSUME NEW e \in Engines, HintsSettle(e) PROVE OwnFiles'
    BY <2>6 DEF HintsSettle, OwnFiles
  <2>7. ASSUME NEW c \in PageCalls, StartInit(c) \/ LoadFails(c) \/ LoadResolves(c) PROVE OwnFiles'
    BY <2>7 DEF StartInit, LoadFails, LoadResolves, OwnFiles
  <2>8. CASE RunGo \/ UNCHANGED pageVars
    BY <2>8 DEF RunGo, pageVars, OwnFiles
  <2> QED BY <2>2, <2>3, <2>4, <2>5, <2>6, <2>7, <2>8 DEF PageNext
<1> QED BY <1>1, <1>2, PageTypesHold, PTL DEF PageSpec

\* What a runtime knows of the browser, or is promised, one of its engines asked for.
AskedFor ==
    /\ \A r \in Runtimes : collectedSignals[r] # "none" =>
          \E e \in 1..made : engineHome[e] = r /\ engineConfig[e].collect = collectedSignals[r]
    /\ \A r \in collectedHeaders :
          \E e \in 1..made : engineHome[e] = r /\ engineConfig[e].collect # "none"
    /\ \A e \in promised : engineConfig[e].collect # "none"

LEMMA AskedForHolds == PageSpec => []AskedFor
<1>1. PageInit => AskedFor
  BY DEF PageInit, AskedFor
<1>2. PageTypeOK /\ Settled /\ AskedFor /\ [PageNext]_pageVars => AskedFor'
  <2> SUFFICES ASSUME PageTypeOK, Settled, AskedFor, [PageNext]_pageVars PROVE AskedFor'
    OBVIOUS
  <2>1. ASSUME NEW r \in Runtimes, NEW config \in Config, InitParser(r, config) PROVE AskedFor'
    <3> DEFINE conf == Effective(config)
    <3>1. /\ made' = made + 1 /\ engineHome'[made + 1] = r /\ engineConfig'[made + 1] = conf
          /\ \A e \in 1..made : engineConfig'[e] = engineConfig[e] /\ engineHome'[e] = engineHome[e]
      BY <2>1, InitParserMakes
    <3>2. 1..made' = 1..made \union {made + 1}
      BY <3>1, MaxAssumption DEF PageTypeOK
    <3>3. \A q \in Runtimes :
             \/ collectedSignals'[q] = collectedSignals[q]
             \/ q = r /\ collectedSignals'[q] = conf.collect
      BY <2>1 DEF InitParser, Collect, PageTypeOK
    <3>4. promised' = promised \/ (conf.collect # "none" /\ promised' \subseteq promised \union {made + 1})
      BY <2>1 DEF InitParser, Collect
    <3>5. collectedHeaders' = collectedHeaders /\ promised \subseteq 1..made
      BY <2>1 DEF InitParser, Collect, PageTypeOK
    <3> HIDE DEF conf
    <3>6. \A q \in Runtimes : collectedSignals'[q] # "none" =>
            \E e \in 1..made' : engineHome'[e] = q /\ engineConfig'[e].collect = collectedSignals'[q]
      BY <3>1, <3>2, <3>3 DEF AskedFor
    <3>7. \A q \in collectedHeaders' :
            \E e \in 1..made' : engineHome'[e] = q /\ engineConfig'[e].collect # "none"
      BY <3>1, <3>2, <3>5 DEF AskedFor
    <3>8. \A e \in promised' : engineConfig'[e].collect # "none"
      BY <3>1, <3>4, <3>5 DEF AskedFor
    <3> QED BY <3>6, <3>7, <3>8 DEF AskedFor
  <2>2. ASSUME NEW c \in PageCalls, Loaded(c) PROVE AskedFor'
    <3>1. load[c].config \in Config
      BY <2>2, PageConfigsAssumption DEF Loaded, PageTypeOK, Loads
    <3>2. opened + 1 \in Runtimes
      BY <2>2, MaxAssumption DEF Loaded, PageTypeOK
    <3> QED BY <2>1, <2>2, <3>1, <3>2 DEF Loaded
  <2>3. CASE InitUA \/ ParseLazily
    <3>1. opened \in Runtimes
      BY <2>3, MaxAssumption DEF InitUA, ParseLazily, PageTypeOK
    <3> QED BY <2>1, <2>3, <3>1, PageConfigsAssumption, DefaultConfigAssumption DEF InitUA, ParseLazily
  <2>4. ASSUME NEW e \in Engines, HintsSettle(e) PROVE AskedFor'
    BY <2>4 DEF HintsSettle, PageTypeOK, AskedFor
  <2>5. ASSUME NEW e \in Engines, FetchEnds(e) PROVE AskedFor'
    BY <2>5 DEF FetchEnds, AskedFor
  <2>6. ASSUME NEW c \in PageCalls, StartInit(c) \/ LoadFails(c) \/ LoadResolves(c) PROVE AskedFor'
    BY <2>6 DEF StartInit, LoadFails, LoadResolves, AskedFor
  <2>7. CASE RunGo \/ Push \/ UNCHANGED pageVars
    BY <2>7 DEF RunGo, Push, pageVars, AskedFor
  <2> QED BY <2>2, <2>3, <2>4, <2>5, <2>6, <2>7 DEF PageNext
<1> QED BY <1>1, <1>2, PageTypesHold, PTL DEF PageSpec

\* The page: types hold, and a runtime's parser is one of its own engines.
THEOREM PageTypeCorrect == Spec => []PageTypeOK
BY BothSides, PageTypesHold, PTL

\* Under UaParser every open runtime serves under the config of a call of init():
\* the lazy initialization with the defaults cannot happen.
THEOREM ServesConfigGiven == Spec => []ServedAsConfigured
BY BothSides, ServedAsConfiguredHolds, PTL

\* A parse is told no more of the browser than a config of its runtime allowed.
THEOREM CollectsWhatIsAllowed == Spec => []CollectedAsAllowed
<1>1. PageTypeOK /\ AskedFor => CollectedAsAllowed
  <2> SUFFICES ASSUME PageTypeOK, AskedFor, NEW r \in 1..opened
               PROVE  LET used == {engineConfig[e].collect : e \in {e \in 1..made : engineHome[e] = r}} IN
                      /\ BareParse(r).signals # "none" => BareParse(r).signals \in used
                      /\ BareParse(r).headers = "collected" => used \ {"none"} # {}
    BY DEF CollectedAsAllowed
  <2> DEFINE used == {engineConfig[e].collect : e \in {e \in 1..made : engineHome[e] = r}}
  <2>1. r \in Runtimes
    BY MaxAssumption DEF PageTypeOK
  <2>2. BareParse(r).signals = collectedSignals[r] /\ (BareParse(r).headers = "collected" => r \in collectedHeaders)
    BY DEF BareParse, MergeCollected
  <2>3. collectedSignals[r] # "none" => collectedSignals[r] \in used
    BY <2>1 DEF AskedFor
  <2>4. r \in collectedHeaders => used \ {"none"} # {}
    <3>1. SUFFICES ASSUME r \in collectedHeaders PROVE \E x \in used : x # "none"
      OBVIOUS
    <3>2. PICK e \in 1..made : engineHome[e] = r /\ engineConfig[e].collect # "none"
      BY <3>1 DEF AskedFor
    <3> QED BY <3>2
  <2> QED BY <2>2, <2>3, <2>4
<1> QED BY <1>1, BothSides, PageTypesHold, AskedForHolds, PTL

\* An engine's downloaded file has the URL of its own config.
LEMMA FilesOfOwnEngine == Spec => []FileFromOwnSource
<1>1. PageTypeOK /\ OwnFiles => FileFromOwnSource
  BY MaxAssumption DEF PageTypeOK, OwnFiles, FileFromOwnSource
<1> QED BY <1>1, BothSides, PageTypesHold, OwnFilesHold, PTL

\* On both sides a downloaded file is in force only where its URL was configured:
\* in Node.js by the instance's own call or one that overlapped with it, in the
\* page by the engine's own config.
THEOREM RulesAreOwn == Spec => []OwnRules
BY RulesOfOwnCalls, FilesOfOwnEngine, PTL DEF OwnRules

\* Only the engine's own download, if it is not over, replaces a pushed file.
THEOREM PushedFileStands == Spec => PushStands
<1> DEFINE Stands == \A e \in Engines : engineRules[e] = Pushed /\ engineRules'[e] # Pushed => e \in fetching
<1>1. PageTypeOK /\ [PageNext]_pageVars => [Stands]_pageVars
  <2> SUFFICES ASSUME PageTypeOK, PageNext PROVE Stands
    OBVIOUS
  <2>1. CASE Push
    BY <2>1 DEF Push, PageTypeOK
  <2>2. ASSUME NEW e \in Engines, FetchEnds(e) PROVE Stands
    BY <2>2 DEF FetchEnds, PageTypeOK
  <2>3. CASE UNCHANGED engineRules
    BY <2>3
  <2> QED BY <2>1, <2>2, <2>3 DEF PageNext, StartInit, LoadFails, Loaded, LoadResolves, RunGo, InitUA,
          ParseLazily, HintsSettle
<1> QED BY <1>1, BothSides, PageTypesHold, PTL DEF PageSpec, PushStands

=============================================================================
