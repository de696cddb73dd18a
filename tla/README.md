# TLA+ models of ua-parser

ua-parser is one Go engine (`src/pkg/core`) behind many doors: a Go library, a
REST server, a C shared library for Python, Java and Node.js, a WASI reactor
and a browser build. The engine parses a user agent through a fixed pipeline
and caches the result; two of its resources, the uap-core regexes and the
correction rules, are replaced at run time while parses go on. The models here
are about what is hard to test in that: the swap under load, the updater's
failures, what the stages of the pipeline do to each other's work, files that
are wrong in part, shutdown, buffers that cross a boundary between two memory
managers, and clients whose `init` overlaps with itself.

Run a model with `tlc -config X.cfg M` and a proof with `tlapm M.tla`, in this
directory. `PROJECT.json` lists the runs, the mutants that show each property
can fail, the source lines of each definition, the hazards and the theorems.

## 1. Inventory

### The engine: parse calls, cache and swap (`parser.go`, `corrections.go`, `updater_default.go`)

State: `p.uap` (the regex database, under the read-write lock `p.mu`),
`p.corrections` (an atomic pointer to compiled rules), `p.gen` (an atomic
generation counter), `p.cache` (an LRU, nil when its size is 0).
Operations: `ParseFull` (cache get, generation, rules, database, generation
check, cache add), `ApplyCorrectionsYAML` (compile, self-test, store, bump,
purge; called by hosts and by the updater) and the swap at the end of
`updateRegexes` (lock, assign, unlock, bump, purge).
Hard: every parse races every swap and no lock covers the cache and the
resources together; the order of store, bump and purge is all there is. The
self-tests of a correction file read a database that changes meanwhile.
Correct when: what is cached agrees with what is active once a swap is over;
an answer is not older than the regex swaps that were complete when its call
began, nor from a correction set that a later, completed apply had replaced by
then; calls and swaps end.

### The background updater (`updater_default.go`)

State: the goroutine's place in its loop, two ETags, the backoff, `p.ctx`.
Operations: the startup fetch of corrections; on each tick the regexes, then
the corrections; each fetch fails, answers 304 or brings a file that is
installed or rejected; a panic is recovered, with a backoff that doubles;
`Close` or the parent context ends it.
Hard: failures at every point, a panic between an install and the record of its
ETag among them, 304s that rest on what an earlier tick did,
pushes of the host between two fetches, `Close` during a download.
Correct when: a 304 never leaves an older file in place; a resource only
moves to later published good versions; the newest good one arrives in the
end; `Close` stops it wherever it stands.

### The detection pipeline (`computeResultFull`)

State: one result under construction, per call.
Operations: `inferInfo`, `applyClientHints`, `applySignals`,
`applyCorrections` with `resolveDeviceVendor`, then the derived fields.
Hard: nothing runs concurrently, but five stages write the same fields and
read what earlier ones left, in combinations of inputs that the tests cannot
enumerate; the cache key must name every input that matters.
Correct when: parts of a result agree with each other (version and major, the
bot flags and the bot object), a stronger source is not overwritten by a
weaker one, an honest client is not called spoofed, and equal keys give equal
results.

### Correction files (`corrections.go`)

State: the candidate set while a file is read, the ids seen, the bytes of test
input, the active set.
Operations: `compileCorrections` and `compileRule`, `referencesMissingGroup`,
`runCorrectionTests`, the install.
Hard: a file can be wrong in its last rule or only as a whole; caps are
cumulative; the scan of a value and `regexp.Expand` read it by different rules.
Correct when: a file is installed exactly if all of it is valid, and the active
rules pass their tests all together.

### REST server (`cmd/server`)

State: the mux, the listener, the requests in flight, the shutdown goroutine,
`done`. Operations: the two handlers, path settings, start, signal, drain (ten
seconds), `parser.Close`, exit. Hard: `ListenAndServe` returns before the drain
is over; requests that never end; settings that make two endpoints meet, or make
a pattern that `ServeMux` panics on.
Correct when: a signal cuts no request before the drain gave up, the process
ends, it starts with every setting whose patterns are well formed, the
documented paths answer.

### WASI reactor and Java client (`cmd/wasm`, `WasmBackend`, `UaParser`)

State: the registry that pins buffers, linear memory, the engine, the monitor
of `WasmBackend`, `correctionsPushStarted`. Operations: `malloc`, `free`,
`initUA`, `parseUA`, `updateCorrections`; `init`, `parse`, `pushCorrections`;
the daily corrections thread. Hard: a pointer outlives the Go call that made
it, a collector runs at any time, threads and the pusher share one instance,
`init` can be repeated and overlap. Correct when: a caller reads the answer to
its own input, every buffer is given back, one pusher runs, new rules arrive.

### C shared library (`cmd/cshared`) and its hosts

State: `initMu`, `initialized`, the global `parser`, the strings on the C heap.
Operations: `Init` under the mutex, `Parse` and `UpdateCorrections` without
it, `FreeString`; the host calls, copies the string and gives it back (the
Python client, `JnaBackend` and the native mode of the Node.js client all do).
Hard: `Parse` reads what `Init` writes with no synchronisation, the pointer
perhaps before what it points to; of several
configs the first good one wins; a failed `Init` must neither count nor keep
the mutex; every string is freed once, by the host, after it is copied.
Correct when: the engine is a write-once cell, whoever was told of it is never
told "Parser not initialized", a host reads the answer to its own call, every
call returns.

### Node.js client (`lib/index.js`)

State of an object: `isInitialized`, `isWasm`, the bound native functions, the
current WASI exports, a daily timer per call. Operations: `init` (the native
library, else the WASI build, which awaits the compiler), `parse`, the download
of correction files, which the client does itself because the WASI build has no
sockets. Hard: two `init` calls pass the check before either awaits; `isWasm`
stays set when the fallback fails; a download pushes into whatever exports are
current when it ends, and an earlier one may end later; a response that hangs
holds on for ever, since `timeout: 30000` has no listener.
Correct when: a parse is served by a call that resolved, no instance is thrown
away by a call that began later, rules come from the URL that was configured,
the newest file is in force in the end.

### Browser build (`cmd/wasmjs`) and the same class in a page

State: a Go runtime with its `parser`, the signals and headers it collected;
the page's objects; downloads and promises under way. Operations: `initUA`
(also lazily, with defaults, from the first `parseUA`), `parseUA`,
`updateCorrectionsUA`, the one-shot download, the promise of the high-entropy
hints. Hard: each runtime replaces the global functions of the one before,
whose goroutines and promises live on; `init` again replaces the parser while
the download of the first is under way; opt-outs apply per config, evidence is
kept per runtime.
Correct when: a page is served under a config that it gave, a file only comes
into force in the engine that asked for it, only evidence that was allowed is
collected.

### Left out for good

The Go client (type aliases), `tools/compare` (batch scripts), `NativeLoader`
and the look-ups of library files (file names), uap-core and its regex engine
(third party: an input of the pipeline), `updater_wasm.go` (an empty function).

### Who calls whom

    host threads --ParseFull-----------> cache, gen, corrections, uap
    host threads --ApplyCorrectionsYAML> compile, self-test -> swap --\
    updater -------updateCorrections---------------^                   > purge
    updater -------updateRegexes-------------------------------> swap --/
    server handlers, wasm exports -----> ParseFull; main, host -> Close
    Java UaParser -> WasmBackend (monitor) -> wasm exports
    Python, JnaBackend, Node.js (native) -> Init, Parse, FreeString of cshared
    Node.js (fallback) -> wasm exports; its downloads -> updateCorrections
    a page, or UaParser in a page -> global functions of the last Go runtime
    corrections thread -> WasmBackend.pushCorrections -> updateCorrections

## 2. Modules

| module | models | kind |
|---|---|---|
| `HotSwap` | ParseFull and its cache against both swaps, one step per shared access | core |
| `LastGood` | what a runtime-updated resource promises | abstract specification |
| `Updater` | the updater goroutine, the publisher, a host, Close | implements `LastGood` twice |
| `Corrections` | what a rule does to a result, the vendor look-up, the category | operators of `Pipeline` and `Rules` |
| `Pipeline` | one call through the stages, then a second one that differs in its signals or headers | core |
| `Rules` | one correction file after another through compile and self-test | core |
| `GroupRefs` | `referencesMissingGroup` against `regexp.Expand` | algorithm against a reference |
| `Server` | the REST process with its clients | process |
| `WasmHost` | the WASI reactor with the Java client's threads | composition of two sides |
| `Once` | a value that is given once and for all | abstract specification |
| `CShared` | the C library under the threads of a host | implements `Once` |
| `JsConfig` | what both sides of the JavaScript client take from a config | constants |
| `NodeClient` | an object of the Node.js client, its calls and downloads | process |
| `Browser` | Go runtimes in a page, with or without the class | process |
| `JsClient` | the class of `lib/index.js`: `NodeClient` or `Browser`, as `isBrowser` says | composition |
| `MC*` | constants of the runs | model checking |
| `*Proofs` | theorems of `HotSwap`, `Updater`, `Pipeline`, `Rules`, `WasmHost`, `CShared`, `JsClient`, `Server` | proofs |

The order of reading is that of the table. `HotSwap` takes apart what `Updater`,
`CShared` and the clients make one step of: how an accepted file replaces
another under running parses. `Pipeline` is what all of them call a parse.

### How state and actions correspond to the code

**HotSwap.** A regex database or rule set is its version number, a result the
pair of versions it was computed from. `Hit`/`Miss` are `cache.Get`, `LoadGen`
and `LoadCorrections` the two atomic loads, `ReadUap`/`RUnlock` the read lock,
`CheckGen` and `AddToCache` the two halves of `parser.go:280-281`, which the
code does not make atomic. `Compile` to `PurgeCache` is
`ApplyCorrectionsYAML`, each inline test with its own read lock;
`RequestLock` to `PurgeCacheRegex` the regex swap. Go's `RWMutex` lets no new
reader past a waiting writer, and there is one writer. Which entry the LRU
evicts is left open: more behaviours than the code has, none fewer. History
variables (`chkGen`, `slipped`, `purged`, `floor`, `applied`, `known`,
`superseded`, `stale`) are read by no guard.

**Updater.** The server publishes versions 1, 2, ...; a version is good or
not (`GoodRegex`, `GoodCorrections`), a host's pushes are separate values. The
swap is one step (HotSwap takes it apart). `etag' \in {0, served}` is a server
with or without ETags. A request is bound to `p.ctx`, so it does not answer
after `done`; one whose body is complete is installed all the same. The install
(`updater_default.go:195`) and the record of the ETag (`:208`) are two steps: a
panic may occur anywhere in a tick, between them too. The file is then
installed under the ETag of an older one, and the next tick downloads it again;
`NotModifiedIsSafe` says that no such history lets a 304 keep an older file. Whether a correction file is good does not
depend on the database here; that it does in the code is HotSwap's subject.

**Pipeline.** A UA is the families uap-core reports and the set of tokens the
code looks for; versions are sequences of numbers (`Infer`,
`ApplyClientHints`, `ApplySignals`, `ApplyRule`/`SkipRule` per rule,
`ResolveDeviceVendor`, `Derive`). The tables of bots and brands are
represented by an entry or two of each kind, those of CPU and engine-version
tokens by what they give. The major version is the one that uap-core reports
beside the version (`parser.go:313-314`). The database has one family, FME, whose
major is not the first number of its version ("2015.1"); as long as nothing
replaces the pair it stays as it came (the exception in `MajorMatchesVersion`). `Key` takes the headers of `CacheKeyHeaders`, which the
code lists apart from where it reads them (`parser.go:424-426`): a call whose
headers differ in one that is consumed but not listed would be answered from the
cache, against `SameKeySameResult`. Two exceptions in `DeviceAgrees`
are what the code does: several touch points turn a type that a hint gave into
a tablet and leave the hinted form factor (`parser.go:461-469`), and the vendor of
an iPad that was unmasked by its touch points is not asked of the prefixes
again, even if one of them (a catch-all, say) matches its model. Left out: OS labels, security
payloads, automation flags, frozen-UA detection (look-ups no later stage reads)
and the class hash (a tuple of modelled fields).

**Corrections.** `Matches`, `Corrected`, `ResolveVendor` and `Category` are a
rule's anchors, conditions and regex, its writes, `resolveDeviceVendor` and
the category after the rules: `Pipeline` sends calls through them, `Rules` the
inline tests of a candidate, as the code runs both through
`computeResultFull`.

**Rules.** A rule is what the checks ask of it (decoded or not, anchors,
conditions, regex length and groups, values, tests); one action per check that
the loop makes. `Compiled` is the rule that `Corrections` applies, `TestResult`
the result of an inline test behind all rules of the candidate, its vendor
look-up and its category. What the stages before the rules make of a test's
input is a constant (`Hinted`). Left out: the fields that `enrichResult` makes of
the final state, which a test may ask for too, and a swap of the uap-core
database under the active file, after which its tests need not pass any more
(HotSwap has that).

**GroupRefs.** The scan of a value, a step per character it stops at, and
`Expand` as recursive functions on positions. `strconv.Atoi` reads numbers up to
`MaxInt` (2^63 - 1) and the scan lets a larger one in; `Expand` stops taking
digits for a number at `NumberLimit` (10^8) and reads the whole as a name. The
two agree because the second limit is far below the first
(`LimitsAssumption`); the run scales them to 110 and 10.

**Server.** `main` and the shutdown goroutine step by step; `net/http` from its
use. Names in paths are one character long, `"h"` standing for "health".
`HandleFunc` panics on a pattern with a blank or an open brace (`Rejected`), and
the mux redirects a path with a doubled slash (`Unclean`). Not modelled are
settings with a well-formed wildcard (`{x}`), with dot segments or with escapes. A
failing listener is `log.Fatalf` and cuts requests off at once, as in the code;
the properties speak of signals. A second signal changes nothing, because
`NotifyContext` is not stopped.

**WasmHost.** `registry` and `mem` are the two sides of a buffer: `Collect` may
turn anything the registry does not pin into garbage and `malloc` may reuse it.
`Enter` takes the monitor of a synchronized method, `FreeInput` leaves it.
`ClaimPusher`/`StartPusher` are the `compareAndSet` and the thread start, which
happen outside it. An empty config crosses without a buffer (`BeginInitEmpty`),
an empty payload changes nothing. `core.New` on the embedded resources does not
fail, and a trap inside the module is left out.

**CShared.** `Lock` to `Flag` are the body of `Init`, with `Publish` (the store
of the global) and `Flag` (`initialized = true` and the deferred unlock) apart,
because `Parse` may read between them. `ReadParser` is the unsynchronised read:
a thread that a return of `Init`, or an answer, has told of the engine reads
it; any other may read the engine or the old nil (`MaySeeEngine`). A call reads
the global again when it uses it (`main.go:76`): reads of one word by one thread
do not go backwards, so it finds at least what the first read found. What the
pointer leads to is another matter: on arm64, for which `release.yml` builds the
library, the store of `parser` may be seen before the fields of the `Parser`
until `Init` unlocks. `SeeHalfMade` is the call that dereferences a nil field:
nothing recovers the panic and the host process ends. Fields that are seen in
part without a panic (no cache, no rules yet) change what a parse computes, which
is not modelled here. A host that starts no `Parse` before an `Init` has returned
does not meet it. `ReturnString` is `C.CString` into any free address,
`Copy` and `FreeString` are the host. `assured` is read by `MaySeeEngine` only
and stands for the happens-before of a return that a thread has seen.

**NodeClient.** An action is what JavaScript runs without yielding: up to the
`await` of `WebAssembly.compile` (`FallBack`), from there to the end of
`_initWasmNode` (`Instantiated`), the continuation of `init` (`Resolve`). A WASI
instance has the name of the call that made it. `Asked`, `Answer`, `Arrive`,
`Hang`, `DownloadFails` are one `https.get`; which slot of the bounded array it
takes means nothing. A download starts whatever else is under way; with all
slots taken it is one that fails. `Hang` is the silent server: the `timeout`
option of `https.get` only raises an event, nobody listens to it
(`index.js:179`), so the download stays under way for ever. The bound: one slot
is always left for a download that does not hang. `after` is a history variable, read by no guard.

**Browser.** Engines and runtimes are numbered; the last runtime owns the global
functions. `Loaded` is `go.run` with the `initUA` behind it, which no `await`
separates. `InitParser` is `initParser` with the evidence it collects at once
(`Collect`); `FetchEnds` and `HintsSettle` are the goroutine and the promise
that end later, in the engine and the runtime they were started for.
`MergeCollected` is what a parse is given. A page that calls the functions
itself is `RunGo`, `InitUA`, `Push`, `ParseLazily`.

## 3. Runs

| run | bounds | distinct states | what it shows |
|---|---|---|---|
| `hot_swap` | 2 parsers, 1 host and the updater, 2 keys, a cache of 1, 1 regex swap, 2 rule sets, no self-tests | 3,956,401 | `FreshCache`, `NoSupersededAnswer`, `NoSupersededRules` |
| `hot_swap_live` | 2 parsers, no cache, 1 regex swap, 2 files of 2 tests, file 1 fails on every database, file 2 on database 1 | 63,109 | `ActivePassedTests`, `CallsReturn` (parses and swaps) |
| `updater` | 3 versions of each file, the 2nd bad; 1 push, 3 panics, a backoff cap of 3 | 285,621 | `NotModifiedIsSafe` (a 304 means that the served file is installed), `KeepLastGood` (both resources refine `LastGood`), crashes at startup only, stop, convergence |
| `pipeline` | 19 UAs, 18 header sets, 5 signal blocks, 3 rule files; the second call differs in its headers or its signals | 940,500 | parts of a result agree (`MajorMatchesVersion`, `BotAgreement`, `DeviceAgrees`), corrections are terminal, an honest client is genuine, equal keys give equal results |
| `rules` | every list of up to 3 rules from 6, and one file per way to be wrong | 101,835 | `AcceptsExactlyTheValid`, `ActivePassesItsTests`, `SelfTestWorkBounded` |
| `group_refs` | every value of up to 5 characters of 7, regexes of 0, 1, 12 groups; `MaxInt` 110, `NumberLimit` 10 | 377,943 | `ScanAgreesWithExpand` |
| `server` | 2 requests, 42 settings: with and without slashes, on one path or two, malformed, with doubled slashes | 131,535 | `CutOnlyByTimeout`, `EndpointsServed`, `SignalEndsServer` |
| `wasm_host` | 2 threads and the pusher, 2 addresses, 2 payloads, 2 files (1st bad), 2 inits | 81,434 | ownership, one pusher, convergence |
| `c_shared` | 2 threads, 2 addresses, 2 good configs and a bad one, a good and a bad payload and file | 9,336 | `FirstInitWins` (refines `Once`), `InitializedStays`, `ReadsOwnAnswer`, `EachStringFreed`, `CallsReturn` |
| `js_client` | 2 `init` calls on each side; Node.js: 2 downloads at a time, 3 sources (two versions, one bad, one `http:`); page: 2 objects, 2 runtimes, 2 engines | 121,808 | `ServedByResolved`, `OneInstanceUnlessOverlap`, `OwnRules`, `NewestInTheEnd`, `ServedAsConfigured`, `CollectedAsAllowed` |
| `hot_swap_stale`, `pipeline_memory` | as `hot_swap` with one key, as `pipeline` | | violated: see below |

Why the bounds are enough to be interesting. The race on the cache needs one
parser between load and add, one swap, and a second caller to read what was
left; a cache of one with two keys makes evictions happen. The host and the
updater both apply files, so two swaps overlap. In the updater, a bad file
between two good ones exercises rejection with a recorded tag before and a retry
after; three panics reach the backoff cap (1, 2, 3). A WASM call holds at most
two buffers, so two addresses force reuse. In `c_shared` two threads are enough
for each to hold the mutex, a string or an unsynchronised read while the other
does anything; the rest are copies of the other. In `js_client` two calls
overlap or follow each other, two downloads overtake each other, a source that
publishes twice makes the older file arrive last, and two engines are the
replaced one and its replacement. The proofs remove the bounds for most of these
properties. In `group_refs` five characters hold a pair of dollars and a braced
number, or two references.

`CHECK_DEADLOCK FALSE` stands where the system really stops: the updater after
Close, a pipeline after its second call, a scan at its verdict, an ended server,
a client whose calls are over and whose downloads are done, a host process that
has crashed.

The type invariants of `HotSwap`, `Updater`, `WasmHost`, `CShared`, `Server` and
both sides of `JsClient` are theorems, so no run repeats them; that of
`Pipeline`, the richest in shapes of values, is a theorem and `pipeline` checks
it as well.

### Disagreements with the repository's own words

Two runs each check one sentence of the repository and find it violated:

- `hot_swap_stale`: "a stale entry cannot be re-added after the purge"
  (`updater_default.go:198-200`). The generation check and `cache.Add` are two
  steps. A parser passes the check, a swap bumps and purges, the parser adds:
  the old result stays until it is evicted or the next swap. `FreshCache` and
  its theorem say that this window is the only way.
- `pipeline_memory`: device memory is "NOT consumed by the pipeline"
  (`parser.go:413`) and so not part of the cache key, but
  `detection.signals_used` depends on it: two calls share a cached answer of
  which one is wrong. `SameKeySameResult` shows that on the same inputs nothing
  else of the result differs.

Also met while modelling; these follow from the lines quoted and have no run:

- `corrections.go:654-655` says that runtime and CI "can never disagree on
  validity". CI tests a file on the embedded database, `ApplyCorrectionsYAML` on
  whatever was swapped in (`:659`), and turns away a file that CI accepted.
- "Genuine CH data is never overridden" (`parser.go:341`), "a signal never
  overrides real CH data" (`README.md:280`). Touch points on a Macintosh UA or a
  Linux desktop rewrite the OS or the device type whatever the hints said
  (`parser.go:461-473`).
- When a client sends only one of the architecture and bitness hints, the other
  keeps what the user agent said, and the two may not belong to one CPU.
- An empty signals block counts as "signals present" for the integrity check but
  not for `detection.signals_used` (`parser.go:793` against `:818`), so a phone
  that sends `{}` is reported as touchless.
- A rule that sets `is_ai_crawler` alone gives an AI crawler that is not a bot,
  against `.junie/guidelines.md:22`, and a rule that sets `is_bot` alone gives a
  bot without the bot object that `types.go:90` announces
  (`corrections.go:552-557`); `BotAgreement` therefore speaks of results whose
  flags no rule set.
- A panic of the startup fetch is outside the function that recovers and ends
  the process. `CrashOnlyAtStartup` shows that it is the only one that does.
- A host's push is kept by later 304s until the next file is published.
- `clients/node/README.md:146` says that `init()` and `parse()` "work exactly
  the same" in WASM mode. `isWasm` is set before the fallback can fail
  (`index.js:60`) and is never cleared, so an object that another call had
  initialized natively asks instances that are not there (the exception in
  `ServedByResolved`); and an `http:` URL, fine for the native engine, makes
  `https.get` throw (`:179`), so `init()` fails in WASM mode only.
- `clients/node/README.md:193` offers `disable_signal_collection` to "opt out of
  collection entirely". A config that does not unmarshal is replaced by the
  defaults as a whole (`wasmjs/main.go:59-65`), as is a parse before `initUA`;
  and the runtime of a second object answers for the first, under its own
  config. `CollectedAsAllowed` therefore speaks of the runtime's configs.
- Two overlapping `init` calls with different URLs can put a file of one URL
  into the instance of the other call (the exception in `OwnRules`).

## 4. Fairness

- HotSwap: weak fairness of every started call and swap: the Go scheduler runs
  what can run, and `RWMutex` blocks new readers behind a waiting writer, so
  the writer's step is not disabled for ever. Nobody has to begin a call.
- Updater: weak fairness of the goroutine. Strong fairness of the fetches'
  answers: a server asked on every tick answers now and then. Strong fairness
  of stopping in the `select`: Go chooses among ready cases at random, so
  `done` is not passed over for ever. No panic, push or publication is owed.
- Server: weak fairness of `main` and of the shutdown goroutine. None for the
  handlers: the server has no read timeout and a client may stall.
- CShared: weak fairness of a thread inside a call, while the process lives. Strong fairness of `Lock`:
  `sync.Mutex` has a starvation mode that hands the lock over in order.
- JsClient: weak fairness of the daily timer; strong fairness of *some*
  download's answer and of *some* answer's arrival: while downloads that do not
  hang are asked for again and again, the server answers one now and then, and
  one of the bodies is complete now and then. No particular download has to end,
  and a hung one never need: a client that waited for the last download before
  it asked again would fail `NewestInTheEnd` (that is its mutant). None of
  `init`, of promises or of the page's downloads.
- WasmHost: weak fairness of threads inside a call; strong fairness of the
  pusher's entry (the monitor is free again and again) and of its download
  (one of the daily ones succeeds now and then). A Java monitor does not
  promise first-come order, only that a thread contending for ever gets it now
  and then in practice; the property is about exceptions ending the loop.

## 5. Proofs

All constants are arbitrary; the assumptions are the named `ASSUME`s of the
modules (numbers are numbers, the updater is not a host, `Nobody` is no
caller; two modules say a little more of their inputs, see below). No proof
assumes the fairness above.

- **HotSwapProofs.** `TypeCorrect`; `GenOrder` (no one has seen a generation
  that is yet to come); `SeenFresh`, the heart: a parser whose generation still
  stands holds the active versions of what it has read, unless an applier is
  between its store and its bump. `FreshCache` is not inductive without it: an
  entry is fresh when it is added because of what the parser saw before, and it
  stays fresh because who replaces a resource purges later. `PurgedOrder`
  relates the cache and each answer to the completed swaps and gives
  `NoSupersededAnswer`. `NoSupersededRules` is the same promise for correction
  files, harder because several appliers store, bump and purge at once: files are
  new to what their appliers know of (`CandidatesFresh`), so nobody who is done
  or about to be replaces the active set (`ActiveCurrent`), and a parser whose
  generation stands has loaded its set after the bump of whoever is to purge
  (`RulesOrder`).
  `ActiveTestsPassed`: the rules in force passed each of their tests, not all on
  one database perhaps, but each on one that has been active (`TestsCounted`: an
  applier that is at test n has seen all earlier ones pass).
- **PipelineProofs.** For all user agents, headers, signals and files.
  `StageInv` says where a call stands and what its rules have set so far; the
  major version is recomputed wherever the version changes, hence
  `MajorMatches`. On it rest, a family of fields each, `DeviceInv` (`DeviceInv`
  and `VendorInv` give `DeviceAgreesAtTheEnd`), `BotInv` (`BotsAgreeAtTheEnd`),
  `TerminalInv` (`CorrectionsStand`: only the documented gaps are filled behind
  a rule) and `VocabularyInv` (the rest of `TypeCorrect`). `KeySuffices` is
  about two calls: `FirstCall` says that a result is the one at the end of a
  way, a sequence of intermediate results of which each is a function of the
  input and the one before; `SecondCall` that the second call goes the same
  way when the two have the same key (`SameCall`: then they have the same consumed
  headers, and blocks that differ in nothing but device memory). `HonestNotSpoofed`:
  `Honest` says which inputs belong together, in terms of the inputs alone, and
  `HonestInv` that no stage makes up a contradiction where there was none. Two
  assumptions on the inputs: a signals block has the fields of `Signals`
  (`BlocksAssumption`), and a rule writes the fields of `correctionSet` and no
  other, its flags Booleans that no template expands (`FilesAssumption`); Go's
  types, `KnownFields` and `*bool` see to both.
- **UpdaterProofs.** Types; a 304 never keeps an older file (`TagsDescribe`, from
  `TagOrder`: a recorded tag is never ahead of what the updater installed); a panic ends the
  process at startup only (behind it the loop recovers); at most one install
  after Close (there is one goroutine, and after `done` no fetch answers, so at
  most the download under way is left); the refinement of `LastGood` for regexes
  and corrections (`RefinesLastGood`). Its invariant, `InFlight`: what is
  downloaded is published, and not older than what is installed, because nobody
  else installs.
- **RulesProofs.** `ActiveRulesPass`: behind the position of the self-test every
  rule has passed with the whole candidate, which does not change any more.
  `SelfTestBounded`: what the self-test has spent, in bytes, is a partial sum of
  what the candidate costs, which the cap bounds (`CostInv`; that such a
  sum is a number is `BytesAreCounted`). `VerdictIsJust`: what is installed is
  the file without its rules of newer schemas, and nothing is wrong with it;
  what is rejected has something wrong with it that can be named (`ScanInv`: what has
  been read of the file, what the candidate has of it, and at which positions).
  `AcceptsExactlyValid` says the same in the words of the property, which are
  folds over the list. `LeastNumber` makes that possible: that every set of
  numbers has a least one follows from the library's fact that inclusion is
  well-founded on finite sets, and with it induction over lists is an argument
  from the least counterexample. So the recursion behind `FoldLeft` has a
  solution (`FoldExists`), the sum of the test bytes is the last of its partial
  sums, and what is understood of a file is what its positions keep of it.
  `ScanAgrees` is about `GroupRefs`, which shares the module: for every value over
  the seven characters (`RefsAssumed`), however long, `ScanAgreesWithExpand`
  holds. The two readers recurse over positions (`ReadingUnfolds`, again by the
  least counterexample); `ReadInv` runs them side by side: every group that
  Expand reads exists or is still ahead of the scan, and up to where Expand goes
  on the scan meets no "$"; numbers that one of the two readers does not take are
  larger than any group (`NumberOfMore`: each digit counts). `PairInv`: the dollars before a "$" where the scan
  stands come in pairs.
- **WasmHostProofs.** `IInv`: the registry is exactly the buffers of the holder
  of the monitor, and they contain what was written (`Owned`, `Intact`). From it
  `HostTypeCorrect`, `AnswersAreOwn` and `NoLeak`. `OnePusher` rests on who
  passes the compare-and-set being alone until it has started the thread.
- **CSharedProofs.** `OnceInv`: only the holder of `initMu` is between the check
  and the flag, so there is an engine exactly if `initialized` says so or the
  holder is about to; `HeapInv`: a string belongs to the one call that returned
  it. Their conjunction is inductive with the types and gives the refinement of
  `Once` (`LibraryIsOnce`), `NeverUninitializedAgain`, `AnswersReadAreOwn` and
  `StringsOwnedOnce`. The two halves meet in `assured`.
- **JsClientProofs.** `BothSides` takes the composition apart. Node.js:
  `Configured` (who has a timer has an instance and a URL), `Sequential` (no
  call gets past the check once another has resolved, so nothing that a call
  replaced was there before it began), `Serving` and `Sourced` give
  `ServedAfterInit`, `InstancesOverlap` and half of `RulesAreOwn`. Page:
  `Settled` (an engine's config and runtime never change), `OwnFiles` and
  `AskedFor` (what is under way names the engine that asked) give
  `ServesConfigGiven`, `CollectsWhatIsAllowed`, the other half, and
  `PushedFileStands`: a pushed file is replaced by a download at most once.
- **ServerProofs.** `DrainInv`: once `Shutdown` was called nothing is accepted,
  so the requests in flight when the drain ends are the last. It gives
  `DrainLosesNone` for any number of requests and any settings. `EndpointsInv`:
  the mux is the one the settings determine and every answer is what it gives,
  whether the two endpoints share a path or not. `DocumentedEndpointsServed`
  takes `joinPath` apart, place by place: what the two `TrimRight`s and the
  leading slash leave of settings of any length is what a reader of the README
  expects, as long as no slashes meet before a name; and the server panics at
  its start only if a setting holds a character that `ServeMux` takes for the
  end of a method or the start of a wildcard.

Only model-checked: liveness (out of the prover's reach, like `ENABLED`). Whether the clients listed as `Genuine` are `Honest` is a
question about an instance: those of `MCPipeline` are, and `pipeline` checks
`GenuineNotSpoofed` of them.

## 6. Not modelled

- `NativeLoader` extracts the library from the jar and `index.js`, the Python
  client and `JnaBackend` look for it under file names: file system, no state
  worth a model. Which backend `UaParser` picks follows from it; both are
  modelled (`WasmHost`, `CShared`).
- The Go client has no code of its own, `tools/compare` is a batch script,
  `updater_wasm.go` is empty.
- uap-core and the regex engine are third party: `Pipeline` takes what they
  report as an input, `HotSwap` whether a test passes.
- Formats: OS labels, security payloads, automation flags, the wording of
  errors, the JSON of requests and results, the format of hint headers.
- Several objects of the Node.js client in one process: they share nothing but
  the library, whose first config serves them all (`FirstInitWins`).

## 7. What comes next

1. Compose `HotSwap` with `Updater`: the goroutine's install step implemented by
   the swap's steps, so that `LastGood` is shown down to `p.uap`.
