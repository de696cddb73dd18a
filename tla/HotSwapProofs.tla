---------------------------- MODULE HotSwapProofs ----------------------------
(***************************************************************************)
(* What holds of HotSwap for any number of parsers, hosts, keys, swaps and *)
(* inline tests, and any cache size.                                       *)
(*                                                                         *)
(* The argument of FreshCache.  A parser that still sees the generation it *)
(* loaded has a result of the active resources, unless an applier stands   *)
(* between its store and its bump (SeenFresh): the bump of every applier   *)
(* that stored earlier would have changed the generation.  So an entry is  *)
(* added either fresh or before the purge of the applier that outdated it. *)
(***************************************************************************)
EXTENDS HotSwap, TLAPS

\* Where a parser holds a correction set, a database, a result to cache.
HasCC == {"rlock", "parse", "check", "add"}
HasUap == {"parse", "check", "add"}

\* Generations only move on, and a passed check saw the loaded generation.
GenOrder ==
    \A t \in Parsers :
        /\ genSeen[t] <= gen
        /\ pc[t] = "add" => chkGen[t] = genSeen[t]

\* A result whose generation still stands is of the active resources, but for
\* a swap that has not bumped the generation yet.
SeenFresh ==
    \A t \in Parsers : genSeen[t] = gen =>
        /\ pc[t] \in HasCC =>
              ccSeen[t] = corrections \/ \E s \in Appliers : upc[s] = "bump"
        /\ pc[t] \in HasUap =>
              uapSeen[t] = uap \/ upc[Updater] \in {"locked", "bumpR"}

\* No result of a standing generation, no cached entry and no answer is older
\* than the last completed regex swap they have to respect.
PurgedOrder ==
    /\ purged <= uap
    /\ \A t \in Parsers :
        /\ pc[t] \in HasUap /\ genSeen[t] = gen => uapSeen[t] >= purged
        /\ pc[t] # "idle" => floor[t] <= purged
        /\ pc[t] \in HasUap \union {"ret"} /\ ~slipped[t] => uapSeen[t] >= floor[t]
    /\ \A k \in Keys : Live(k) /\ ~cache[k].slipped => cache[k].uap >= purged

\* An applier has a candidate: it tests it, or has stored it.
Applying == {"test", "testing", "bump", "purge"}
Stored == {"bump", "purge"}

\* Every applier has a file of its own, which is new to what it knew of.
CandidatesFresh ==
    /\ \A c \in applied : c < nextCC
    /\ \A s \in Appliers : upc[s] \in Applying =>
          /\ cand[s] < nextCC
          /\ cand[s] \notin applied
          /\ \A r \in Appliers : upc[r] \in Applying /\ r # s => cand[r] # cand[s]
    /\ \A s \in Appliers : known[s] \subseteq applied
    /\ superseded \subseteq applied

\* The active set is replaced by nobody who has finished, and by nobody who has
\* stored a set and is about to finish.
ActiveCurrent ==
    /\ corrections \notin superseded
    /\ \A s \in Appliers : upc[s] \in Stored => corrections \notin known[s]

\* No result of a standing generation, no cached entry and no answer is of a set
\* that a finished apply replaced.  A parser that loaded the generation after an
\* apply bumped it has not seen what that apply is about to supersede.
RulesOrder ==
    /\ \A t \in Parsers :
        /\ pc[t] \in HasCC /\ genSeen[t] = gen =>
              /\ ccSeen[t] \notin superseded
              /\ \A s \in Appliers : upc[s] = "purge" => ccSeen[t] \notin known[s]
        /\ pc[t] # "idle" => stale[t] \subseteq superseded
        /\ pc[t] \in HasCC \union {"ret"} /\ ~slipped[t] => ccSeen[t] \notin stale[t]
    /\ \A k \in Keys : Live(k) /\ ~cache[k].slipped => cache[k].cc \notin superseded

\* The tests of c up to the n-th, each passed on a database of 0..top.
PassedUpTo(c, n, top) == \A i \in 1..n : \E u \in 0..top : <<c, u, i>> \notin Breaks

\* A candidate has passed the tests counted for it, the running test reads a
\* database that was installed, and the active set has passed them all.
TestsCounted ==
    /\ \A s \in Appliers :
        /\ upc[s] \in {"test", "testing"} => PassedUpTo(cand[s], tested[s], uap)
        /\ upc[s] = "testing" => testUap[s] <= uap
    /\ corrections > 0 => PassedUpTo(corrections, NTests, uap)

-----------------------------------------------------------------------------
\* HotSwap keeps its types: every step writes the state it declares.
THEOREM TypeCorrect == Spec => []TypeOK
<1>1. Init => TypeOK
  BY BoundsAssumption
     DEF Init, TypeOK, EmptyCache, Appliers, ParserPC, ApplierPC
<1>2. TypeOK /\ [Next]_vars => TypeOK'
  <2> SUFFICES ASSUME TypeOK, [Next]_vars PROVE TypeOK'
    OBVIOUS
  <2> USE UpdaterAssumption DEF TypeOK, Appliers, ParserPC, ApplierPC
  <2>1. ASSUME NEW t \in Parsers, BeginCall(t) PROVE TypeOK'
    <3> PICK k \in Keys : Hit(t, k) \/ Miss(t, k)
      BY <2>1 DEF BeginCall
    <3>1. CASE Hit(t, k)
      <4>1. cache[k] \in Entry
        BY <3>1 DEF Hit, Live
      <4> QED BY <3>1, <4>1 DEF Hit, Entry, shared, applierVars, swapHistory
    <3>2. CASE Miss(t, k)
      BY <3>2 DEF Miss, shared, applierVars, swapHistory
    <3> QED BY <3>1, <3>2
  <2>2. ASSUME NEW t \in Parsers, ParseStep(t) PROVE TypeOK'
    <3>1. CASE AddToCache(t)
      BY <3>1 DEF AddToCache, Entry, applierVars, swapHistory
    <3>2. CASE LoadGen(t)
      BY <3>2 DEF LoadGen, shared, applierVars, swapHistory
    <3>3. CASE LoadCorrections(t)
      BY <3>3 DEF LoadCorrections, shared, applierVars, swapHistory
    <3>4. CASE ReadUap(t)
      BY <3>4 DEF ReadUap, shared, applierVars, swapHistory
    <3>5. CASE RUnlock(t)
      BY <3>5 DEF RUnlock, shared, applierVars, swapHistory
    <3>6. CASE CheckGen(t)
      BY <3>6 DEF CheckGen, shared, applierVars, swapHistory
    <3>7. CASE Return(t)
      BY <3>7 DEF Return, shared, applierVars, swapHistory
    <3> QED BY <2>2, <3>1, <3>2, <3>3, <3>4, <3>5, <3>6, <3>7 DEF ParseStep
  <2>3. ASSUME NEW s \in Appliers, Compile(s) \/ ApplyStep(s) PROVE TypeOK'
    <3>1. CASE Compile(s)
      BY <3>1 DEF Compile, shared, parserVars
    <3>2. CASE BeginTest(s)
      BY <3>2 DEF BeginTest, shared, parserVars, swapHistory
    <3>3. CASE EndTest(s)
      BY <3>3 DEF EndTest, shared, parserVars
    <3>4. CASE StoreCorrections(s)
      BY <3>4 DEF StoreCorrections, parserVars, swapHistory
    <3>5. CASE BumpGen(s)
      BY <3>5 DEF BumpGen, parserVars, swapHistory
    <3>6. CASE PurgeCache(s)
      <4>1. applied' \subseteq Nat /\ superseded' \subseteq Nat
        <5>1. /\ applied \subseteq Nat /\ superseded \subseteq Nat
              /\ cand[s] \in Nat /\ known[s] \subseteq Nat
          OBVIOUS
        <5>2. /\ applied' = applied \union {cand[s]}
              /\ superseded' = superseded \union known[s]
          BY <3>6 DEF PurgeCache
        <5> HIDE DEF TypeOK
        <5> QED BY <5>1, <5>2
      <4>2. known' \in [Appliers -> SUBSET Nat]
        BY <3>6 DEF PurgeCache
      <4> QED BY <3>6, <4>1, <4>2 DEF PurgeCache, EmptyCache, parserVars
    <3> QED BY <2>3, <3>1, <3>2, <3>3, <3>4, <3>5, <3>6 DEF ApplyStep
  <2>4. ASSUME RequestLock \/ RegexStep PROVE TypeOK'
    <3>1. CASE RequestLock
      BY <3>1 DEF RequestLock, shared, parserVars, swapHistory
    <3>2. CASE SwapUap
      BY <3>2 DEF SwapUap, parserVars, swapHistory
    <3>3. CASE Unlock
      BY <3>3 DEF Unlock, shared, parserVars, swapHistory
    <3>4. CASE BumpGenRegex
      BY <3>4 DEF BumpGenRegex, parserVars, swapHistory
    <3>5. CASE PurgeCacheRegex
      BY <3>5 DEF PurgeCacheRegex, EmptyCache, parserVars
    <3> QED BY <2>4, <3>1, <3>2, <3>3, <3>4, <3>5 DEF RegexStep
  <2>5. CASE UNCHANGED vars
    BY <2>5 DEF vars, shared, parserVars, applierVars, swapHistory
  <2> QED BY <2>1, <2>2, <2>3, <2>4, <2>5 DEF Next
<1> QED BY <1>1, <1>2, PTL DEF Spec

-----------------------------------------------------------------------------
\* GenOrder holds of every run: only an Add on p.gen writes it, and a parser
\* reaches its Add of the cache with the check it passed.
THEOREM GenOrderHolds == Spec => []GenOrder
<1>1. Init => GenOrder
  BY DEF Init, GenOrder
<1>2. TypeOK /\ GenOrder /\ [Next]_vars => GenOrder'
  <2> SUFFICES ASSUME TypeOK, GenOrder, [Next]_vars PROVE GenOrder'
    OBVIOUS
  <2> USE DEF TypeOK, GenOrder
  <2>1. ASSUME NEW t \in Parsers, BeginCall(t) PROVE GenOrder'
    BY <2>1 DEF BeginCall, Hit, Miss, shared
  <2>2. ASSUME NEW t \in Parsers, ParseStep(t) PROVE GenOrder'
    <3>1. CASE LoadGen(t) \/ LoadCorrections(t) \/ ReadUap(t)
      BY <3>1 DEF LoadGen, LoadCorrections, ReadUap, shared
    <3>2. CASE RUnlock(t) \/ AddToCache(t) \/ Return(t)
      BY <3>2 DEF RUnlock, AddToCache, Return, shared
    <3>3. CASE CheckGen(t)
      BY <3>3 DEF CheckGen, MayCache, shared
    <3> QED BY <2>2, <3>1, <3>2, <3>3 DEF ParseStep
  <2>3. ASSUME NEW s \in Appliers, Compile(s) \/ ApplyStep(s) PROVE GenOrder'
    BY <2>3 DEF ApplyStep, Compile, BeginTest, EndTest, StoreCorrections,
          BumpGen, PurgeCache, shared, parserVars
  <2>4. ASSUME RequestLock \/ RegexStep PROVE GenOrder'
    BY <2>4 DEF RegexStep, RequestLock, SwapUap, Unlock, BumpGenRegex,
          PurgeCacheRegex, shared, parserVars
  <2>5. CASE UNCHANGED vars
    BY <2>5 DEF vars, shared, parserVars
  <2> QED BY <2>1, <2>2, <2>3, <2>4, <2>5 DEF Next
<1> QED BY <1>1, <1>2, TypeCorrect, PTL DEF Spec

-----------------------------------------------------------------------------
\* SeenFresh holds of every run: whoever replaces a resource bumps the
\* generation later, and no parser has seen the new generation before.
THEOREM SeenFreshHolds == Spec => []SeenFresh
<1>1. Init => SeenFresh
  BY DEF Init, SeenFresh, HasCC, HasUap
<1>2. TypeOK /\ GenOrder /\ SeenFresh /\ [Next]_vars => SeenFresh'
  <2> SUFFICES ASSUME TypeOK, GenOrder, SeenFresh, [Next]_vars PROVE SeenFresh'
    OBVIOUS
  <2> USE DEF TypeOK, SeenFresh, HasCC, HasUap
  <2>1. ASSUME NEW t \in Parsers, BeginCall(t) PROVE SeenFresh'
    BY <2>1 DEF BeginCall, Hit, Miss, shared, applierVars, swapHistory
  <2>2. ASSUME NEW t \in Parsers, ParseStep(t) PROVE SeenFresh'
    <3>1. CASE LoadGen(t)
      BY <3>1 DEF LoadGen, shared, applierVars, swapHistory
    <3>2. CASE LoadCorrections(t)
      BY <3>2 DEF LoadCorrections, shared, applierVars, swapHistory
    <3>3. CASE ReadUap(t)
      BY <3>3 DEF ReadUap, shared, applierVars, swapHistory
    <3>4. CASE RUnlock(t) \/ CheckGen(t)
      BY <3>4 DEF RUnlock, CheckGen, shared, applierVars, swapHistory
    <3>5. CASE AddToCache(t) \/ Return(t)
      BY <3>5 DEF AddToCache, Return, shared, applierVars, swapHistory
    <3> QED BY <2>2, <3>1, <3>2, <3>3, <3>4, <3>5 DEF ParseStep
  <2>3. ASSUME NEW s \in Appliers, Compile(s) \/ ApplyStep(s) PROVE SeenFresh'
    <3> USE UpdaterAssumption DEF Appliers
    <3>1. CASE Compile(s) \/ BeginTest(s) \/ EndTest(s) \/ PurgeCache(s)
      BY <3>1 DEF Compile, BeginTest, EndTest, PurgeCache, shared, parserVars
    <3>2. CASE StoreCorrections(s)
      BY <3>2 DEF StoreCorrections, parserVars
    <3>3. CASE BumpGen(s)
      BY <3>3 DEF BumpGen, parserVars, GenOrder
    <3> QED BY <2>3, <3>1, <3>2, <3>3 DEF ApplyStep
  <2>4. ASSUME RequestLock \/ RegexStep PROVE SeenFresh'
    <3> USE DEF Appliers
    <3>1. CASE RequestLock \/ Unlock \/ PurgeCacheRegex
      BY <3>1 DEF RequestLock, Unlock, PurgeCacheRegex, shared, parserVars
    <3>2. CASE SwapUap
      BY <3>2 DEF SwapUap, parserVars
    <3>3. CASE BumpGenRegex
      BY <3>3 DEF BumpGenRegex, parserVars, GenOrder
    <3> QED BY <2>4, <3>1, <3>2, <3>3 DEF RegexStep
  <2>5. CASE UNCHANGED vars
    BY <2>5 DEF vars, shared, parserVars, applierVars, swapHistory
  <2> QED BY <2>1, <2>2, <2>3, <2>4, <2>5 DEF Next
<1> QED BY <1>1, <1>2, TypeCorrect, GenOrderHolds, PTL DEF Spec

-----------------------------------------------------------------------------
\* FreshCache holds of every run: but for the entries that slipped in between
\* a check and its Add, the cache never outlives a completed swap.
THEOREM CacheFresh == Spec => []FreshCache
<1>1. Init => FreshCache
  BY DEF Init, FreshCache, EmptyCache, Live
<1>2. TypeOK /\ GenOrder /\ SeenFresh /\ FreshCache /\ [Next]_vars => FreshCache'
  <2> SUFFICES ASSUME TypeOK, GenOrder, SeenFresh, FreshCache, [Next]_vars
               PROVE FreshCache'
    OBVIOUS
  <2> USE DEF TypeOK, FreshCache, Live, CorrectionsPending, RegexPending
  <2>1. ASSUME NEW t \in Parsers, BeginCall(t) PROVE FreshCache'
    BY <2>1 DEF BeginCall, Hit, Miss, shared, applierVars, swapHistory
  <2>2. ASSUME NEW t \in Parsers, ParseStep(t) PROVE FreshCache'
    <3>1. CASE AddToCache(t)
      <4> SUFFICES ASSUME NEW k \in Keys, Live(k)', ~cache'[k].slipped
                   PROVE /\ cache'[k].cc = corrections \/ CorrectionsPending
                         /\ cache'[k].uap = uap \/ RegexPending
        BY <3>1 DEF AddToCache, applierVars, swapHistory
      <4>1. CASE k = key[t]
        <5>1. cache'[k] = [uap |-> uapSeen[t], cc |-> ccSeen[t],
                           slipped |-> chkGen[t] # gen]
          BY <3>1, <4>1 DEF AddToCache
        <5>2. genSeen[t] = gen
          <6>1. cache'[k].slipped = (chkGen[t] # gen)
            BY <5>1
          <6>2. chkGen[t] = gen
            BY <6>1
          <6> QED BY <3>1, <6>2 DEF AddToCache, GenOrder
        <5> QED BY <3>1, <5>1, <5>2 DEF AddToCache, SeenFresh, HasCC, HasUap
      <4>2. CASE k # key[t]
        BY <3>1, <4>2 DEF AddToCache
      <4> QED BY <4>1, <4>2
    <3>2. CASE LoadGen(t) \/ LoadCorrections(t) \/ ReadUap(t)
      BY <3>2 DEF LoadGen, LoadCorrections, ReadUap, shared, applierVars, swapHistory
    <3>3. CASE RUnlock(t) \/ CheckGen(t) \/ Return(t)
      BY <3>3 DEF RUnlock, CheckGen, Return, shared, applierVars, swapHistory
    <3> QED BY <2>2, <3>1, <3>2, <3>3 DEF ParseStep
  <2>3. ASSUME NEW s \in Appliers, Compile(s) \/ ApplyStep(s) PROVE FreshCache'
    <3> USE DEF Appliers
    <3>1. CASE Compile(s) \/ BeginTest(s) \/ EndTest(s)
      BY <3>1 DEF Compile, BeginTest, EndTest, shared
    <3>2. CASE StoreCorrections(s) \/ BumpGen(s)
      BY <3>2 DEF StoreCorrections, BumpGen
    <3>3. CASE PurgeCache(s)
      BY <3>3 DEF PurgeCache, EmptyCache
    <3> QED BY <2>3, <3>1, <3>2, <3>3 DEF ApplyStep
  <2>4. ASSUME RequestLock \/ RegexStep PROVE FreshCache'
    <3> USE DEF Appliers
    <3>1. CASE RequestLock \/ SwapUap \/ Unlock \/ BumpGenRegex
      BY <3>1 DEF RequestLock, SwapUap, Unlock, BumpGenRegex, shared
    <3>2. CASE PurgeCacheRegex
      BY <3>2 DEF PurgeCacheRegex, EmptyCache
    <3> QED BY <2>4, <3>1, <3>2 DEF RegexStep
  <2>5. CASE UNCHANGED vars
    BY <2>5 DEF vars, shared, applierVars, swapHistory
  <2> QED BY <2>1, <2>2, <2>3, <2>4, <2>5 DEF Next
<1> QED BY <1>1, <1>2, TypeCorrect, GenOrderHolds, SeenFreshHolds, PTL DEF Spec

-----------------------------------------------------------------------------
\* PurgedOrder holds of every run: completed regex swaps bound from below what
\* a standing generation, the cache and every answer can hold.
THEOREM PurgedOrderHolds == Spec => []PurgedOrder
<1>1. Init => PurgedOrder
  BY DEF Init, PurgedOrder, EmptyCache, Live, HasUap
<1>2. /\ TypeOK /\ TypeOK' /\ GenOrder /\ SeenFresh /\ PurgedOrder
      /\ [Next]_vars
      => PurgedOrder'
  <2> SUFFICES ASSUME TypeOK, TypeOK', GenOrder, SeenFresh, PurgedOrder, [Next]_vars
               PROVE PurgedOrder'
    OBVIOUS
  <2> USE DEF TypeOK, PurgedOrder, Live, HasUap
  <2>1. ASSUME NEW t \in Parsers, NEW k \in Keys, Hit(t, k) PROVE PurgedOrder'
    BY <2>1 DEF Hit, shared, applierVars, swapHistory
  <2>2. ASSUME NEW t \in Parsers, NEW k \in Keys, Miss(t, k) PROVE PurgedOrder'
    BY <2>2 DEF Miss, shared, applierVars, swapHistory
  <2>3. ASSUME NEW t \in Parsers, ParseStep(t) PROVE PurgedOrder'
    <3>1. CASE AddToCache(t)
      <4>1. ASSUME NEW k \in Keys, Live(k)', ~cache'[k].slipped
            PROVE cache'[k].uap >= purged
        <5>1. CASE k = key[t]
          <6>1. cache'[k] = [uap |-> uapSeen[t], cc |-> ccSeen[t],
                             slipped |-> chkGen[t] # gen]
            BY <3>1, <5>1 DEF AddToCache
          <6>2. cache'[k].slipped = (chkGen[t] # gen)
            BY <6>1
          <6>3. chkGen[t] = gen
            BY <4>1, <6>2
          <6> QED BY <3>1, <6>1, <6>3 DEF AddToCache, GenOrder
        <5>2. CASE k # key[t]
          BY <3>1, <4>1, <5>2 DEF AddToCache
        <5> QED BY <5>1, <5>2
      <4> QED BY <3>1, <4>1 DEF AddToCache, applierVars, swapHistory
    <3>2. CASE LoadGen(t) \/ LoadCorrections(t)
      BY <3>2 DEF LoadGen, LoadCorrections, shared, applierVars, swapHistory
    <3>3. CASE ReadUap(t)
      BY <3>3 DEF ReadUap, shared, applierVars, swapHistory
    <3>4. CASE RUnlock(t) \/ CheckGen(t)
      BY <3>4 DEF RUnlock, CheckGen, shared, applierVars, swapHistory
    <3>5. CASE Return(t)
      BY <3>5 DEF Return, shared, applierVars, swapHistory
    <3> QED BY <2>3, <3>1, <3>2, <3>3, <3>4, <3>5 DEF ParseStep
  <2>4. ASSUME NEW s \in Appliers, Compile(s) \/ ApplyStep(s) PROVE PurgedOrder'
    <3>1. CASE Compile(s) \/ BeginTest(s) \/ EndTest(s) \/ StoreCorrections(s)
      BY <3>1 DEF Compile, BeginTest, EndTest, StoreCorrections, shared, parserVars, swapHistory
    <3>2. CASE BumpGen(s)
      BY <3>2 DEF BumpGen, parserVars, swapHistory, GenOrder
    <3>3. CASE PurgeCache(s)
      BY <3>3 DEF PurgeCache, EmptyCache, parserVars
    <3> QED BY <2>4, <3>1, <3>2, <3>3 DEF ApplyStep
  <2>5. CASE RequestLock \/ SwapUap \/ Unlock
    BY <2>5 DEF RequestLock, SwapUap, Unlock, shared, parserVars, swapHistory
  <2>6. CASE BumpGenRegex
    BY <2>6 DEF BumpGenRegex, parserVars, swapHistory, GenOrder
  <2>7. CASE PurgeCacheRegex
    BY <2>7 DEF PurgeCacheRegex, EmptyCache, parserVars, SeenFresh
  <2>8. CASE UNCHANGED vars
    BY <2>8 DEF vars, shared, parserVars, applierVars, swapHistory
  <2> QED
    BY <2>1, <2>2, <2>3, <2>4, <2>5, <2>6, <2>7, <2>8 DEF Next, BeginCall, RegexStep
<1> QED BY <1>1, <1>2, TypeCorrect, GenOrderHolds, SeenFreshHolds, PTL DEF Spec

\* No call returns a result of a database whose replacement was complete when
\* the call began, unless it hits an entry that slipped in.
THEOREM AnswersNotSuperseded == Spec => []NoSupersededAnswer
<1>1. PurgedOrder => NoSupersededAnswer
  BY DEF PurgedOrder, NoSupersededAnswer, HasUap
<1> QED BY <1>1, PurgedOrderHolds, PTL

-----------------------------------------------------------------------------
\* CandidatesFresh holds of every run: files are numbered as they are compiled,
\* and a file is known only when its apply is complete.
THEOREM CandidatesFreshHolds == Spec => []CandidatesFresh
<1>1. Init => CandidatesFresh
  BY DEF Init, CandidatesFresh, Applying
<1>2. TypeOK /\ CandidatesFresh /\ [Next]_vars => CandidatesFresh'
  <2> SUFFICES ASSUME TypeOK, CandidatesFresh, [Next]_vars PROVE CandidatesFresh'
    OBVIOUS
  <2> USE DEF TypeOK, CandidatesFresh, Applying
  <2>1. ASSUME NEW t \in Parsers, BeginCall(t) \/ ParseStep(t) PROVE CandidatesFresh'
    <3>1. UNCHANGED applierVars
      BY <2>1 DEF BeginCall, Hit, Miss, ParseStep, LoadGen, LoadCorrections, ReadUap,
            RUnlock, CheckGen, AddToCache, Return
    <3> QED BY <3>1 DEF applierVars, swapHistory
  <2>2. ASSUME NEW s \in Appliers, Compile(s) PROVE CandidatesFresh'
    BY <2>2 DEF Compile
  <2>3. ASSUME NEW s \in Appliers, EndTest(s) PROVE CandidatesFresh'
    BY <2>3 DEF EndTest
  <2>4. ASSUME NEW s \in Appliers, BeginTest(s) \/ StoreCorrections(s) \/ BumpGen(s)
        PROVE CandidatesFresh'
    BY <2>4 DEF BeginTest, StoreCorrections, BumpGen, swapHistory
  <2>5. ASSUME NEW s \in Appliers, PurgeCache(s) PROVE CandidatesFresh'
    BY <2>5 DEF PurgeCache
  <2>6. ASSUME RequestLock \/ RegexStep PROVE CandidatesFresh'
    <3>1. /\ UNCHANGED <<cand, nextCC, applied, known, superseded>>
          /\ \A s \in Appliers : upc'[s] \in Applying => upc'[s] = upc[s]
      BY <2>6 DEF RegexStep, RequestLock, SwapUap, Unlock, BumpGenRegex,
            PurgeCacheRegex, swapHistory
    <3> QED BY <3>1
  <2>7. CASE UNCHANGED vars
    BY <2>7 DEF vars, applierVars, swapHistory
  <2> QED BY <2>1, <2>2, <2>3, <2>4, <2>5, <2>6, <2>7 DEF Next, ApplyStep
<1> QED BY <1>1, <1>2, TypeCorrect, PTL DEF Spec

\* ActiveCurrent holds of every run: who stores a set stores one that no apply
\* knows of yet.
THEOREM ActiveCurrentHolds == Spec => []ActiveCurrent
<1>1. Init => ActiveCurrent
  BY DEF Init, ActiveCurrent, Stored
<1>2. TypeOK /\ CandidatesFresh /\ ActiveCurrent /\ [Next]_vars => ActiveCurrent'
  <2> SUFFICES ASSUME TypeOK, CandidatesFresh, ActiveCurrent, [Next]_vars
               PROVE ActiveCurrent'
    OBVIOUS
  <2> USE DEF TypeOK, ActiveCurrent, Stored
  <2>1. ASSUME NEW t \in Parsers, BeginCall(t) \/ ParseStep(t) PROVE ActiveCurrent'
    <3>1. UNCHANGED <<corrections, applierVars>>
      BY <2>1 DEF BeginCall, Hit, Miss, ParseStep, LoadGen, LoadCorrections, ReadUap,
            RUnlock, CheckGen, AddToCache, Return, shared
    <3> QED BY <3>1 DEF applierVars, swapHistory
  <2>2. ASSUME NEW s \in Appliers, Compile(s) \/ BeginTest(s) \/ EndTest(s) \/ BumpGen(s)
        PROVE ActiveCurrent'
    BY <2>2 DEF Compile, BeginTest, EndTest, BumpGen, shared, swapHistory
  <2>3. ASSUME NEW s \in Appliers, StoreCorrections(s) PROVE ActiveCurrent'
    BY <2>3 DEF StoreCorrections, swapHistory, CandidatesFresh, Applying
  <2>4. ASSUME NEW s \in Appliers, PurgeCache(s) PROVE ActiveCurrent'
    BY <2>4 DEF PurgeCache
  <2>5. ASSUME RequestLock \/ RegexStep PROVE ActiveCurrent'
    BY <2>5, UpdaterAssumption DEF RegexStep, RequestLock, SwapUap, Unlock,
          BumpGenRegex, PurgeCacheRegex, shared, swapHistory, Appliers
  <2>6. CASE UNCHANGED vars
    BY <2>6 DEF vars, shared, applierVars, swapHistory
  <2> QED BY <2>1, <2>2, <2>3, <2>4, <2>5, <2>6 DEF Next, ApplyStep
<1> QED BY <1>1, <1>2, TypeCorrect, CandidatesFreshHolds, PTL DEF Spec

\* RulesOrder holds of every run: a bump separates the parsers that loaded an old
\* set from the purge that ends the apply.
THEOREM RulesOrderHolds == Spec => []RulesOrder
<1>1. Init => RulesOrder
  BY DEF Init, RulesOrder, EmptyCache, Live, HasCC
<1>2. /\ TypeOK /\ GenOrder /\ ActiveCurrent /\ RulesOrder
      /\ [Next]_vars
      => RulesOrder'
  <2> SUFFICES ASSUME TypeOK, GenOrder, ActiveCurrent, RulesOrder, [Next]_vars
               PROVE RulesOrder'
    OBVIOUS
  <2> USE DEF TypeOK, RulesOrder, Live, HasCC
  <2>1. ASSUME NEW t \in Parsers, NEW k \in Keys, Hit(t, k) PROVE RulesOrder'
    BY <2>1 DEF Hit, shared, applierVars, swapHistory
  <2>2. ASSUME NEW t \in Parsers, NEW k \in Keys, Miss(t, k) PROVE RulesOrder'
    BY <2>2 DEF Miss, shared, applierVars, swapHistory
  <2>3. ASSUME NEW t \in Parsers, ParseStep(t) PROVE RulesOrder'
    <3>1. CASE AddToCache(t)
      <4>1. ASSUME NEW k \in Keys, Live(k)', ~cache'[k].slipped
            PROVE cache'[k].cc \notin superseded
        <5>1. CASE k = key[t]
          <6>1. cache'[k] = [uap |-> uapSeen[t], cc |-> ccSeen[t],
                             slipped |-> chkGen[t] # gen]
            BY <3>1, <5>1 DEF AddToCache
          <6>2. cache'[k].slipped = (chkGen[t] # gen)
            BY <6>1
          <6>3. chkGen[t] = gen
            BY <4>1, <6>2
          <6> QED BY <3>1, <6>1, <6>3 DEF AddToCache, GenOrder
        <5>2. CASE k # key[t]
          BY <3>1, <4>1, <5>2 DEF AddToCache
        <5> QED BY <5>1, <5>2
      <4> QED BY <3>1, <4>1 DEF AddToCache, applierVars, swapHistory
    <3>2. CASE LoadGen(t)
      BY <3>2 DEF LoadGen, shared, applierVars, swapHistory
    <3>3. CASE LoadCorrections(t)
      BY <3>3 DEF LoadCorrections, shared, applierVars, swapHistory, ActiveCurrent, Stored
    <3>4. CASE ReadUap(t) \/ RUnlock(t) \/ CheckGen(t)
      BY <3>4 DEF ReadUap, RUnlock, CheckGen, shared, applierVars, swapHistory
    <3>5. CASE Return(t)
      BY <3>5 DEF Return, shared, applierVars, swapHistory
    <3> QED BY <2>3, <3>1, <3>2, <3>3, <3>4, <3>5 DEF ParseStep
  <2>4. ASSUME NEW s \in Appliers, Compile(s) \/ ApplyStep(s) PROVE RulesOrder'
    <3>1. CASE Compile(s)
      BY <3>1 DEF Compile, shared, parserVars
    <3>2. CASE BeginTest(s) \/ EndTest(s) \/ StoreCorrections(s)
      BY <3>2 DEF BeginTest, EndTest, StoreCorrections, shared, parserVars, swapHistory
    <3>3. CASE BumpGen(s)
      BY <3>3 DEF BumpGen, parserVars, swapHistory, GenOrder
    <3>4. CASE PurgeCache(s)
      BY <3>4 DEF PurgeCache, EmptyCache, parserVars
    <3> QED BY <2>4, <3>1, <3>2, <3>3, <3>4 DEF ApplyStep
  <2>5. ASSUME RequestLock \/ RegexStep PROVE RulesOrder'
    <3> USE UpdaterAssumption DEF Appliers
    <3>1. CASE RequestLock \/ SwapUap \/ Unlock
      BY <3>1 DEF RequestLock, SwapUap, Unlock, shared, parserVars, swapHistory
    <3>2. CASE BumpGenRegex
      BY <3>2 DEF BumpGenRegex, parserVars, swapHistory, GenOrder
    <3>3. CASE PurgeCacheRegex
      BY <3>3 DEF PurgeCacheRegex, EmptyCache, parserVars
    <3> QED BY <2>5, <3>1, <3>2, <3>3 DEF RegexStep
  <2>6. CASE UNCHANGED vars
    BY <2>6 DEF vars, shared, parserVars, applierVars, swapHistory
  <2> QED BY <2>1, <2>2, <2>3, <2>4, <2>5, <2>6 DEF Next, BeginCall
<1> QED BY <1>1, <1>2, TypeCorrect, GenOrderHolds, ActiveCurrentHolds, PTL DEF Spec

\* No call returns a result of a correction set that was replaced by an apply
\* complete when the call began, unless it hits an entry that slipped in.
THEOREM RulesNotSuperseded == Spec => []NoSupersededRules
<1>1. RulesOrder => NoSupersededRules
  BY DEF RulesOrder, NoSupersededRules
<1> QED BY <1>1, RulesOrderHolds, PTL

-----------------------------------------------------------------------------
\* The updater replaces the database by a later one and nobody else writes it,
\* so what was installed once stays within 0..uap.
LEMMA UapGrows == ASSUME TypeOK, [Next]_vars PROVE uap' \in Nat /\ uap <= uap'
<1> USE DEF TypeOK
<1>1. ASSUME NEW t \in Parsers, BeginCall(t) \/ ParseStep(t) PROVE uap' = uap
  BY <1>1 DEF BeginCall, Hit, Miss, ParseStep, LoadGen, LoadCorrections, ReadUap,
        RUnlock, CheckGen, AddToCache, Return, shared
<1>2. ASSUME NEW s \in Appliers, Compile(s) \/ ApplyStep(s) PROVE uap' = uap
  BY <1>2 DEF ApplyStep, Compile, BeginTest, EndTest, StoreCorrections, BumpGen,
        PurgeCache, shared
<1>3. ASSUME RequestLock \/ RegexStep PROVE uap' = uap \/ uap' = uap + 1
  BY <1>3 DEF RegexStep, RequestLock, SwapUap, Unlock, BumpGenRegex,
        PurgeCacheRegex, shared
<1>4. CASE UNCHANGED vars
  BY <1>4 DEF vars, shared
<1> QED BY <1>1, <1>2, <1>3, <1>4 DEF Next

\* A test that an installed database passed stays passed when others follow.
LEMMA PassedStaysPassed ==
    ASSUME NEW c, NEW n \in Nat, NEW top \in Nat, NEW later \in Nat, top <= later,
           PassedUpTo(c, n, top)
    PROVE  PassedUpTo(c, n, later)
<1> SUFFICES ASSUME NEW i \in 1..n PROVE \E u \in 0..later : <<c, u, i>> \notin Breaks
  BY DEF PassedUpTo
<1>1. PICK u \in 0..top : <<c, u, i>> \notin Breaks
  BY DEF PassedUpTo
<1>2. u \in 0..later
  OBVIOUS
<1> QED BY <1>1, <1>2

\* Who a candidate belongs to is the only one that moves it or its count.
LEMMA CandidateSteps ==
    ASSUME TypeOK, [Next]_vars, NEW s \in Appliers, upc'[s] \in {"test", "testing"}
    PROVE  \/ Compile(s)
           \/ EndTest(s)
           \/ /\ upc[s] \in {"test", "testing"}
              /\ cand'[s] = cand[s] /\ tested'[s] = tested[s]
              /\ upc'[s] = "testing" => testUap'[s] \in {uap, testUap[s]}
              /\ upc'[s] = "testing" /\ upc[s] = "test" => testUap'[s] = uap
<1> USE DEF TypeOK
<1>1. ASSUME NEW t \in Parsers, BeginCall(t) \/ ParseStep(t)
      PROVE UNCHANGED <<upc, cand, tested, testUap>>
  BY <1>1 DEF BeginCall, Hit, Miss, ParseStep, LoadGen, LoadCorrections, ReadUap,
        RUnlock, CheckGen, AddToCache, Return, applierVars, swapHistory
<1>2. ASSUME NEW a \in Appliers, Compile(a) \/ ApplyStep(a), a # s
      PROVE /\ upc'[s] = upc[s] /\ cand'[s] = cand[s]
            /\ tested'[s] = tested[s] /\ testUap'[s] = testUap[s]
  BY <1>2 DEF ApplyStep, Compile, BeginTest, EndTest, StoreCorrections, BumpGen, PurgeCache
<1>3. CASE ApplyStep(s)
  BY <1>3 DEF ApplyStep, BeginTest, StoreCorrections, BumpGen, PurgeCache
<1>4. ASSUME RequestLock \/ RegexStep
      PROVE /\ UNCHANGED <<cand, tested, testUap>>
            /\ upc'[s] = upc[s]
  BY <1>4 DEF RegexStep, RequestLock, SwapUap, Unlock, BumpGenRegex, PurgeCacheRegex, Appliers
<1>5. CASE UNCHANGED vars
  BY <1>5 DEF vars, applierVars, swapHistory
<1> QED BY <1>1, <1>2, <1>3, <1>4, <1>5 DEF Next

\* Who stores a correction set has passed all of its tests.
LEMMA CorrectionsSteps ==
    ASSUME TypeOK, [Next]_vars
    PROVE  \/ corrections' = corrections
           \/ \E s \in Appliers : StoreCorrections(s)
<1>1. ASSUME NEW t \in Parsers, BeginCall(t) \/ ParseStep(t) PROVE corrections' = corrections
  BY <1>1 DEF BeginCall, Hit, Miss, ParseStep, LoadGen, LoadCorrections, ReadUap,
        RUnlock, CheckGen, AddToCache, Return, shared
<1>2. ASSUME NEW s \in Appliers, Compile(s) \/ ApplyStep(s)
      PROVE corrections' = corrections \/ StoreCorrections(s)
  BY <1>2 DEF ApplyStep, Compile, BeginTest, EndTest, BumpGen, PurgeCache, shared
<1>3. ASSUME RequestLock \/ RegexStep PROVE corrections' = corrections
  BY <1>3 DEF RegexStep, RequestLock, SwapUap, Unlock, BumpGenRegex,
        PurgeCacheRegex, shared
<1>4. CASE UNCHANGED vars
  BY <1>4 DEF vars, shared
<1> QED BY <1>1, <1>2, <1>3, <1>4 DEF Next

\* TestsCounted holds of every run: a test is counted when it has passed, a new
\* candidate starts without any, and only a candidate with all is stored.
THEOREM TestsCountedHolds == Spec => []TestsCounted
<1>1. Init => TestsCounted
  BY DEF Init, TestsCounted
<1>2. TypeOK /\ TypeOK' /\ TestsCounted /\ [Next]_vars => TestsCounted'
  <2> SUFFICES ASSUME TypeOK, TypeOK', TestsCounted, [Next]_vars PROVE TestsCounted'
    OBVIOUS
  <2>0. uap \in Nat /\ uap' \in Nat /\ uap <= uap'
    BY UapGrows DEF TypeOK
  <2>1. ASSUME NEW s \in Appliers, upc'[s] \in {"test", "testing"}
        PROVE  /\ PassedUpTo(cand[s], tested[s], uap)'
               /\ upc'[s] = "testing" => testUap'[s] <= uap'
    <3> USE DEF TypeOK
    <3>1. CASE Compile(s)
      BY <3>1 DEF Compile, PassedUpTo
    <3>2. CASE EndTest(s)
      <4>1. /\ ~TestFails(s) /\ upc[s] = "testing" /\ upc'[s] = "test"
            /\ cand'[s] = cand[s] /\ tested'[s] = tested[s] + 1 /\ uap' = uap
        BY <3>2, <2>1 DEF EndTest, shared
      <4>2. PassedUpTo(cand[s], tested[s], uap) /\ testUap[s] \in 0..uap
        BY <4>1 DEF TestsCounted
      <4>3. \A i \in 1..(tested[s] + 1) : i \in 1..tested[s] \/ i = tested[s] + 1
        <5>1. tested[s] \in Nat
          OBVIOUS
        <5> HIDE DEF TypeOK
        <5> QED BY <5>1
      <4>4. PassedUpTo(cand[s], tested[s] + 1, uap)
        BY <4>1, <4>2, <4>3 DEF PassedUpTo, TestFails
      <4> QED BY <4>1, <4>4
    <3>3. CASE ~Compile(s) /\ ~EndTest(s)
      <4>1. /\ upc[s] \in {"test", "testing"}
            /\ cand'[s] = cand[s] /\ tested'[s] = tested[s]
            /\ upc'[s] = "testing" => testUap'[s] \in {uap, testUap[s]}
            /\ upc'[s] = "testing" /\ upc[s] = "test" => testUap'[s] = uap
        BY <2>1, <3>3, CandidateSteps
      <4>2. PassedUpTo(cand[s], tested[s], uap)
        BY <4>1 DEF TestsCounted
      <4>3. PassedUpTo(cand[s], tested[s], uap')
        BY <4>2, <2>0, PassedStaysPassed
      <4>4. upc[s] = "testing" => testUap[s] <= uap
        BY DEF TestsCounted
      <4> QED BY <4>1, <4>3, <4>4, <2>0
    <3> QED BY <3>1, <3>2, <3>3
  <2>2. corrections' > 0 => PassedUpTo(corrections, NTests, uap)'
    <3>1. CASE corrections' = corrections
      BY <3>1, <2>0, PassedStaysPassed, BoundsAssumption DEF TestsCounted
    <3>2. ASSUME NEW s \in Appliers, StoreCorrections(s)
          PROVE  PassedUpTo(corrections', NTests, uap')
      <4>1. /\ upc[s] = "test" /\ tested[s] = NTests
            /\ corrections' = cand[s] /\ uap' = uap
        BY <3>2 DEF StoreCorrections
      <4> QED BY <4>1 DEF TestsCounted
    <3> QED BY <3>1, <3>2, CorrectionsSteps
  <2> QED BY <2>1, <2>2 DEF TestsCounted
<1> QED BY <1>1, <1>2, TypeCorrect, PTL DEF Spec

\* A correction set that is active has passed its inline tests, in their order,
\* on databases that were installed in turn.
THEOREM ActiveTestsPassed == Spec => []ActivePassedTests
<1>1. TestsCounted => ActivePassedTests
  BY DEF TestsCounted, ActivePassedTests, PassedUpTo
<1> QED BY <1>1, TestsCountedHolds, PTL

=============================================================================
