------------------------------- MODULE HotSwap -------------------------------
(***************************************************************************)
(* The heart of pkg/core: concurrent ParseFull calls share one Parser with *)
(* the background updater (updateRegexes, updateCorrections) and with the  *)
(* hosts that push correction files (ApplyCorrectionsYAML).                *)
(*                                                                         *)
(* A resource is abstracted to the number of its version: regex databases  *)
(* are numbered in the order the updater installs them, correction sets in *)
(* the order they are compiled; 0 is what New embeds.  A result is the     *)
(* pair of versions it was computed from.  Every access to shared state    *)
(* (p.cache, p.gen, p.corrections, p.uap under p.mu) is a step of its own. *)
(***************************************************************************)
EXTENDS Naturals, FiniteSets

CONSTANTS
    Parsers,    \* goroutines that call Parse / ParseFull
    Hosts,      \* goroutines that call ApplyCorrectionsYAML
    Updater,    \* the goroutine of startUpdater
    Keys,       \* cache keys (buildCacheKey of an input)
    Capacity,   \* Config.LRUCacheSize; 0 is "no cache" (p.cache = nil)
    MaxRegex,   \* bound: regex databases the updater downloads
    MaxCorr,    \* bound: correction files that compile
    NTests,     \* inline tests of a correction file
    Breaks      \* <<c, u, i>>: test i of file c fails on regex database u

ASSUME UpdaterAssumption == Updater \notin Hosts
ASSUME DisjointAssumption == Parsers \cap (Hosts \union {Updater}) = {}
ASSUME BoundsAssumption ==
    /\ Capacity \in Nat
    /\ MaxRegex \in Nat
    /\ MaxCorr \in Nat
    /\ NTests \in Nat
ASSUME BreaksAssumption == Breaks \subseteq (Nat \X Nat \X Nat)

Appliers == Hosts \union {Updater}

VARIABLES
    uap,          \* p.uap: the installed regex database
    corrections,  \* p.corrections: the active correction set
    gen,          \* p.gen
    cache,        \* p.cache: key -> entry, or NoEntry
    pc,           \* where each parser goroutine stands in ParseFull
    key,          \* its cache key
    genSeen,      \* its local gen
    ccSeen,       \* the correction set of its result
    uapSeen,      \* the regex database of its result
    upc,          \* where each applier stands in its swap
    cand,         \* its compiled candidate
    tested,       \* inline tests of the candidate that passed
    testUap,      \* the regex database the running test reads
    nextCC,       \* the next correction file to compile
    \* history variables: no guard reads them
    chkGen,       \* the value of gen when the parser passed its check
    slipped,      \* its result comes from an entry added after a bump that
                  \* the check did not see
    purged,       \* the newest regex database whose swap is complete
    floor,        \* the value of purged when the call began
    applied,      \* correction sets whose application is complete
    known,        \* the value of applied when the applier's call began
    superseded,   \* sets that a later call, complete by now, has replaced
    stale         \* the value of superseded when the parse began

shared == <<uap, corrections, gen, cache>>
parserVars == <<pc, key, genSeen, ccSeen, uapSeen, chkGen, slipped,
                floor, stale>>
swapHistory == <<purged, applied, known, superseded>>
applierVars == <<upc, cand, tested, testUap, nextCC, swapHistory>>
vars == <<shared, parserVars, applierVars>>

Entry == [uap : Nat, cc : Nat, slipped : BOOLEAN]
NoEntry == [none |-> TRUE]
NoKey == [none |-> TRUE]

Live(k) == cache[k] # NoEntry
EmptyCache == [k \in Keys |-> NoEntry]

ParserPC == {"idle", "gen", "cc", "rlock", "parse", "check", "add", "ret"}
ApplierPC == {"idle", "test", "testing", "bump", "purge",
              "lock", "locked", "bumpR", "purgeR"}

(***************************************************************************)
(* p.mu, a sync.RWMutex.  Its only writer is the updater: a writer that    *)
(* waits or holds the lock keeps new readers out, and gets the lock when   *)
(* the last reader left.                                                   *)
(***************************************************************************)
ReadLocked == \/ \E t \in Parsers : pc[t] = "parse"
              \/ \E s \in Appliers : upc[s] = "testing"
CanRLockUnlessHeld == upc[Updater] # "locked"  \* mutant: readers overtake a waiting writer
CanRLock == upc[Updater] \notin {"lock", "locked"}
CanLock == ~ReadLocked

(***************************************************************************)
(* New: the embedded regexes and corrections, an empty cache.              *)
(***************************************************************************)
Init ==
    /\ uap = 0
    /\ corrections = 0
    /\ gen = 0
    /\ cache = EmptyCache
    /\ pc = [t \in Parsers |-> "idle"]
    /\ key = [t \in Parsers |-> NoKey]
    /\ genSeen = [t \in Parsers |-> 0]
    /\ ccSeen = [t \in Parsers |-> 0]
    /\ uapSeen = [t \in Parsers |-> 0]
    /\ upc = [s \in Appliers |-> "idle"]
    /\ cand = [s \in Appliers |-> 0]
    /\ tested = [s \in Appliers |-> 0]
    /\ testUap = [s \in Appliers |-> 0]
    /\ nextCC = 1
    /\ chkGen = [t \in Parsers |-> 0]
    /\ slipped = [t \in Parsers |-> FALSE]
    /\ purged = 0
    /\ floor = [t \in Parsers |-> 0]
    /\ applied = {0}
    /\ known = [s \in Appliers |-> {}]
    /\ superseded = {}
    /\ stale = [t \in Parsers |-> {}]

-----------------------------------------------------------------------------
(***************************************************************************)
(* ParseFull                                                               *)
(***************************************************************************)

\* cache.Get finds the key: the entry is copied and returned.
Hit(t, k) ==
    /\ pc[t] = "idle"
    /\ Live(k)
    /\ pc' = [pc EXCEPT ![t] = "ret"]
    /\ key' = [key EXCEPT ![t] = k]
    /\ ccSeen' = [ccSeen EXCEPT ![t] = cache[k].cc]
    /\ uapSeen' = [uapSeen EXCEPT ![t] = cache[k].uap]
    /\ slipped' = [slipped EXCEPT ![t] = cache[k].slipped]
    /\ floor' = [floor EXCEPT ![t] = purged]
    /\ stale' = [stale EXCEPT ![t] = superseded]
    /\ UNCHANGED <<shared, applierVars, genSeen, chkGen>>

\* No cache, or cache.Get does not find the key.
Miss(t, k) ==
    /\ pc[t] = "idle"
    /\ ~Live(k)
    /\ pc' = [pc EXCEPT ![t] = "gen"]
    /\ key' = [key EXCEPT ![t] = k]
    /\ slipped' = [slipped EXCEPT ![t] = FALSE]
    /\ floor' = [floor EXCEPT ![t] = purged]
    /\ stale' = [stale EXCEPT ![t] = superseded]
    /\ UNCHANGED <<shared, applierVars, genSeen, ccSeen, uapSeen, chkGen>>

\* gen := p.gen.Load()
LoadGen(t) ==
    /\ pc[t] = "gen"
    /\ genSeen' = [genSeen EXCEPT ![t] = gen]
    /\ pc' = [pc EXCEPT ![t] = "cc"]
    /\ UNCHANGED <<shared, applierVars, key, ccSeen, uapSeen, chkGen, slipped, floor, stale>>

\* p.corrections.Load(), evaluated as an argument of computeResultFull
LoadCorrections(t) ==
    /\ pc[t] = "cc"
    /\ ccSeen' = [ccSeen EXCEPT ![t] = corrections]
    /\ pc' = [pc EXCEPT ![t] = "rlock"]
    /\ UNCHANGED <<shared, applierVars, key, genSeen, uapSeen, chkGen, slipped, floor, stale>>

\* computeResultFull: p.mu.RLock() and the read of p.uap
ReadUap(t) ==
    /\ pc[t] = "rlock"
    /\ CanRLock
    /\ uapSeen' = [uapSeen EXCEPT ![t] = uap]
    /\ pc' = [pc EXCEPT ![t] = "parse"]
    /\ UNCHANGED <<shared, applierVars, key, genSeen, ccSeen, chkGen, slipped, floor, stale>>

\* p.mu.RUnlock(); the rest of the pipeline touches no shared state
RUnlock(t) ==
    /\ pc[t] = "parse"
    /\ pc' = [pc EXCEPT ![t] = "check"]
    /\ UNCHANGED <<shared, applierVars, key, genSeen, ccSeen, uapSeen, chkGen, slipped, floor, stale>>

\* p.cache != nil && p.gen.Load() == gen
MayCacheAnyGen(t) == Capacity > 0  \* mutant: no check of the generation
MayCache(t) == Capacity > 0 /\ gen = genSeen[t]

CheckGen(t) ==
    /\ pc[t] = "check"
    /\ pc' = [pc EXCEPT ![t] = IF MayCache(t) THEN "add" ELSE "ret"]
    /\ chkGen' = [chkGen EXCEPT ![t] = gen]
    /\ UNCHANGED <<shared, applierVars, key, genSeen, ccSeen, uapSeen, slipped, floor, stale>>

\* The entry the LRU evicts to make room for k, if it must: which of them is
\* the least recent is abstracted to any of them.
LiveKeys == {k \in Keys : Live(k)}
Victims(k) == IF Live(k) \/ Cardinality(LiveKeys) < Capacity
              THEN {{}}
              ELSE {{j} : j \in LiveKeys}

\* p.cache.Add(cacheKey, res): a step after the check, and not under a lock.
AddToCache(t) ==
    /\ pc[t] = "add"
    /\ \E evicted \in Victims(key[t]) :
          cache' = [k \in Keys |->
                      IF k = key[t]
                      THEN [uap |-> uapSeen[t], cc |-> ccSeen[t],
                            slipped |-> chkGen[t] # gen]
                      ELSE IF k \in evicted THEN NoEntry ELSE cache[k]]
    /\ pc' = [pc EXCEPT ![t] = "ret"]
    /\ UNCHANGED <<uap, corrections, gen, applierVars, key, genSeen, ccSeen,
                   uapSeen, chkGen, slipped, floor, stale>>

\* return copyResult(res); the locals die with the call.
Return(t) ==
    /\ pc[t] = "ret"
    /\ pc' = [pc EXCEPT ![t] = "idle"]
    /\ key' = [key EXCEPT ![t] = NoKey]
    /\ genSeen' = [genSeen EXCEPT ![t] = 0]
    /\ ccSeen' = [ccSeen EXCEPT ![t] = 0]
    /\ uapSeen' = [uapSeen EXCEPT ![t] = 0]
    /\ chkGen' = [chkGen EXCEPT ![t] = 0]
    /\ slipped' = [slipped EXCEPT ![t] = FALSE]
    /\ floor' = [floor EXCEPT ![t] = 0]
    /\ stale' = [stale EXCEPT ![t] = {}]
    /\ UNCHANGED <<shared, applierVars>>

-----------------------------------------------------------------------------
(***************************************************************************)
(* ApplyCorrectionsYAML, by a host or by the updater's updateCorrections   *)
(***************************************************************************)

\* compileCorrections accepted the payload.  (When it rejects it the call
\* returns the error and no state changed.)
Compile(s) ==
    /\ upc[s] = "idle"
    /\ nextCC <= MaxCorr
    /\ cand' = [cand EXCEPT ![s] = nextCC]
    /\ nextCC' = nextCC + 1
    /\ tested' = [tested EXCEPT ![s] = 0]
    /\ upc' = [upc EXCEPT ![s] = "test"]
    /\ known' = [known EXCEPT ![s] = applied]
    /\ UNCHANGED <<shared, parserVars, testUap, purged, applied, superseded>>

\* runCorrectionTests: the next inline test runs computeResult on the
\* candidate and on whatever database p.uap is by then.
BeginTest(s) ==
    /\ upc[s] = "test"
    /\ tested[s] < NTests
    /\ CanRLock
    /\ testUap' = [testUap EXCEPT ![s] = uap]
    /\ upc' = [upc EXCEPT ![s] = "testing"]
    /\ UNCHANGED <<shared, parserVars, cand, tested, nextCC, swapHistory>>

TestFailsNever(s) == FALSE  \* mutant: the verdict of a test is ignored
TestFails(s) == <<cand[s], testUap[s], tested[s] + 1>> \in Breaks

\* A failing test returns the error: the last good rules stay.
EndTest(s) ==
    /\ upc[s] = "testing"
    /\ upc' = [upc EXCEPT ![s] = IF TestFails(s) THEN "idle" ELSE "test"]
    /\ tested' = [tested EXCEPT ![s] = IF TestFails(s) THEN 0 ELSE @ + 1]
    /\ cand' = [cand EXCEPT ![s] = IF TestFails(s) THEN 0 ELSE @]
    /\ testUap' = [testUap EXCEPT ![s] = 0]
    /\ known' = [known EXCEPT ![s] = IF TestFails(s) THEN {} ELSE @]
    /\ UNCHANGED <<shared, parserVars, nextCC, purged, applied, superseded>>

\* p.corrections.Store(cc)
StoreCorrections(s) ==
    /\ upc[s] = "test"
    /\ tested[s] = NTests
    /\ corrections' = cand[s]
    /\ upc' = [upc EXCEPT ![s] = "bump"]
    /\ UNCHANGED <<uap, gen, cache, parserVars, cand, tested, testUap, nextCC, swapHistory>>

BumpGenSkipped(s) ==  \* mutant: a new correction set leaves the generation alone
    /\ upc[s] = "bump"
    /\ upc' = [upc EXCEPT ![s] = "purge"]
    /\ UNCHANGED <<shared, parserVars, cand, tested, testUap, nextCC, swapHistory>>
\* p.gen.Add(1)
BumpGen(s) ==
    /\ upc[s] = "bump"
    /\ gen' = gen + 1
    /\ upc' = [upc EXCEPT ![s] = "purge"]
    /\ UNCHANGED <<uap, corrections, cache, parserVars, cand, tested, testUap, nextCC, swapHistory>>

\* p.cache.Purge(), and the return
PurgeCache(s) ==
    /\ upc[s] = "purge"
    /\ cache' = EmptyCache
    /\ upc' = [upc EXCEPT ![s] = "idle"]
    /\ cand' = [cand EXCEPT ![s] = 0]
    /\ tested' = [tested EXCEPT ![s] = 0]
    /\ applied' = applied \union {cand[s]}
    /\ superseded' = superseded \union known[s]
    /\ known' = [known EXCEPT ![s] = {}]
    /\ UNCHANGED <<uap, corrections, gen, parserVars, testUap, nextCC, purged>>

-----------------------------------------------------------------------------
(***************************************************************************)
(* updateRegexes, by the updater only, once the download is validated      *)
(***************************************************************************)

\* p.mu.Lock() is called: from here on readers wait.
RequestLock ==
    /\ upc[Updater] = "idle"
    /\ uap < MaxRegex
    /\ upc' = [upc EXCEPT ![Updater] = "lock"]
    /\ UNCHANGED <<shared, parserVars, cand, tested, testUap, nextCC, swapHistory>>

\* p.mu.Lock() returns; p.uap = newUap
SwapUap ==
    /\ upc[Updater] = "lock"
    /\ CanLock
    /\ uap' = uap + 1
    /\ upc' = [upc EXCEPT ![Updater] = "locked"]
    /\ UNCHANGED <<corrections, gen, cache, parserVars, cand, tested, testUap, nextCC, swapHistory>>

\* p.mu.Unlock()
Unlock ==
    /\ upc[Updater] = "locked"
    /\ upc' = [upc EXCEPT ![Updater] = "bumpR"]
    /\ UNCHANGED <<shared, parserVars, cand, tested, testUap, nextCC, swapHistory>>

\* p.gen.Add(1)
BumpGenRegex ==
    /\ upc[Updater] = "bumpR"
    /\ gen' = gen + 1
    /\ upc' = [upc EXCEPT ![Updater] = "purgeR"]
    /\ UNCHANGED <<uap, corrections, cache, parserVars, cand, tested, testUap, nextCC, swapHistory>>

\* mutant: the regex swap leaves the cache alone
PurgeCacheRegexSkipped ==
    /\ upc[Updater] = "purgeR"
    /\ purged' = uap
    /\ upc' = [upc EXCEPT ![Updater] = "idle"]
    /\ UNCHANGED <<uap, corrections, gen, cache, parserVars, cand, tested, testUap, nextCC, applied, known, superseded>>

\* p.cache.Purge()
PurgeCacheRegex ==
    /\ upc[Updater] = "purgeR"
    /\ cache' = EmptyCache
    /\ purged' = uap
    /\ upc' = [upc EXCEPT ![Updater] = "idle"]
    /\ UNCHANGED <<uap, corrections, gen, parserVars, cand, tested, testUap, nextCC, applied, known, superseded>>

-----------------------------------------------------------------------------
ParseStep(t) ==
    \/ LoadGen(t) \/ LoadCorrections(t) \/ ReadUap(t) \/ RUnlock(t)
    \/ CheckGen(t) \/ AddToCache(t) \/ Return(t)

BeginCall(t) == \E k \in Keys : Hit(t, k) \/ Miss(t, k)

ApplyStep(s) ==
    \/ BeginTest(s) \/ EndTest(s) \/ StoreCorrections(s)
    \/ BumpGen(s) \/ PurgeCache(s)

RegexStep == SwapUap \/ Unlock \/ BumpGenRegex \/ PurgeCacheRegex

Next ==
    \/ \E t \in Parsers : BeginCall(t) \/ ParseStep(t)
    \/ \E s \in Appliers : Compile(s) \/ ApplyStep(s)
    \/ RequestLock
    \/ RegexStep

Spec == Init /\ [][Next]_vars

\* The Go scheduler runs every goroutine that can run.  Nobody has to call.
Fairness ==
    /\ \A t \in Parsers : WF_vars(ParseStep(t))
    /\ \A s \in Appliers : WF_vars(ApplyStep(s))
    /\ WF_vars(RegexStep)

FairSpec == Spec /\ Fairness

-----------------------------------------------------------------------------
(***************************************************************************)
(* Properties                                                              *)
(***************************************************************************)

\* The type invariant of the shared state and of every goroutine's locals.
TypeOK ==
    /\ uap \in Nat /\ corrections \in Nat /\ gen \in Nat
    /\ cache \in [Keys -> Entry \union {NoEntry}]
    /\ pc \in [Parsers -> ParserPC]
    /\ key \in [Parsers -> Keys \union {NoKey}]
    /\ genSeen \in [Parsers -> Nat]
    /\ ccSeen \in [Parsers -> Nat]
    /\ uapSeen \in [Parsers -> Nat]
    /\ chkGen \in [Parsers -> Nat]
    /\ slipped \in [Parsers -> BOOLEAN]
    /\ floor \in [Parsers -> Nat]
    /\ upc \in [Appliers -> ApplierPC]
    /\ \A s \in Hosts : upc[s] \notin {"lock", "locked", "bumpR", "purgeR"}
    /\ cand \in [Appliers -> Nat]
    /\ tested \in [Appliers -> Nat]
    /\ testUap \in [Appliers -> Nat]
    /\ nextCC \in Nat \ {0}
    /\ purged \in Nat
    /\ applied \subseteq Nat
    /\ known \in [Appliers -> SUBSET Nat]
    /\ superseded \subseteq Nat
    /\ stale \in [Parsers -> SUBSET Nat]

\* Somebody replaced the correction set, or the regex database, and has not
\* purged the cache yet.
CorrectionsPending == \E s \in Appliers : upc[s] \in {"bump", "purge"}
RegexPending == upc[Updater] \in {"locked", "bumpR", "purgeR"}

\* A cached result that was added with the generation its check saw agrees
\* with the active resources, unless a swap that will purge it is under way:
\* store-bump-purge of every applier against load-compute-check-add of every
\* parser (the ordering argued for at updater_default.go:198-200).  It covers
\* results mixing an old correction set with a new database, too.
FreshCache ==
    \A k \in Keys : Live(k) /\ ~cache[k].slipped =>
        /\ cache[k].cc = corrections \/ CorrectionsPending
        /\ cache[k].uap = uap \/ RegexPending

\* A call returns no result of a regex database whose replacement was complete
\* (swapped, bumped and purged) before the call began, unless it hits an entry
\* that slipped in between a check and its Add.
NoSupersededAnswer ==
    \A t \in Parsers : pc[t] = "ret" /\ ~slipped[t] => uapSeen[t] >= floor[t]

\* A call returns no result of a correction set that an apply replaced which
\* began when the set was in force (stored, bumped and purged) and returned
\* before the parse began: a host may rely on its ApplyCorrectionsYAML.  Files
\* applied at the same time may win in either order; the exception for entries
\* that slipped in is the same.
NoSupersededRules ==
    \A t \in Parsers : pc[t] = "ret" /\ ~slipped[t] => ccSeen[t] \notin stale[t]

\* What updater_default.go:198-200 says: "a stale entry cannot be re-added
\* after the purge".  CheckGen and AddToCache are two steps: a swap between
\* them leaves the old result in the cache.
NoStaleAfterPurge ==
    \A k \in Keys : Live(k) =>
        /\ cache[k].cc = corrections \/ CorrectionsPending
        /\ cache[k].uap = uap \/ RegexPending

\* Each test of an active correction file passed on some database that has been
\* installed, not necessarily the same for all of them: a file that fails test i
\* on every database there has been is never activated.
ActivePassedTests ==
    \A i \in 1..NTests : corrections > 0 =>
        \E u \in 0..uap : <<corrections, u, i>> \notin Breaks

\* Every call returns, for the writer gives the lock back and readers queue
\* behind it but once; and every swap ends with its purge, even while parsers
\* keep on calling: the waiting writer is not starved by readers.
CallsReturn ==
    /\ \A t \in Parsers : pc[t] # "idle" ~> pc[t] = "idle"
    /\ \A s \in Appliers : upc[s] # "idle" ~> upc[s] = "idle"

=============================================================================
