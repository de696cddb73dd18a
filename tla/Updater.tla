------------------------------- MODULE Updater -------------------------------
(***************************************************************************)
(* startUpdater (pkg/core/updater_default.go): the goroutine that fetches  *)
(* corrections once at startup and then, on every tick, regexes and        *)
(* corrections, with ETag revalidation, keep-last-good, panic recovery     *)
(* with a backoff, and Close.                                              *)
(*                                                                         *)
(* The swap itself is one step here; HotSwap has its steps.  A version is  *)
(* a number: the server publishes them in turn, 0 is the embedded one.     *)
(* An ETag is the version it names; 0 is the empty string.                 *)
(***************************************************************************)
EXTENDS Naturals

CONSTANTS
    GoodRegex,         \* published regex files that parse and compile
    GoodCorrections,   \* published correction files that compile and self-test
    FetchCorrections,  \* ~Config.DisableCorrectionsUpdate
    MaxPublish,        \* bound: versions published of each resource
    MaxPush,           \* bound: corrections pushed by the host
    MaxPanics,         \* bound: panics
    MaxBackoff         \* maxBackoff, in minutes

ASSUME GoodAssumption == GoodRegex \subseteq Nat /\ GoodCorrections \subseteq Nat
ASSUME BoundsAssumption ==
    /\ FetchCorrections \in BOOLEAN
    /\ MaxPublish \in Nat /\ MaxPush \in Nat /\ MaxPanics \in Nat
    /\ MaxBackoff \in Nat \ {0}

VARIABLES
    srvRegex,        \* the regex file the update URL serves
    srvCorrections,  \* the correction file the corrections URL serves
    uap,             \* the installed regex version
    corrections,     \* the active correction set: [from, v]
    lastETag,
    lastCorrectionsETag,
    pc,              \* where the goroutine stands
    body,            \* the version downloaded by the running fetch
    etag,            \* and the ETag that came with it
    backoff,         \* in minutes
    done,            \* p.ctx is done: Close, or the parent context
    pushes, panics,
    \* history variables: no guard reads them
    fetchedRules,    \* the newest correction file the updater activated
    lateInstalls     \* what the updater installed after done

server == <<srvRegex, srvCorrections>>
rules == <<corrections, fetchedRules>>
installed == <<uap, rules>>
tags == <<lastETag, lastCorrectionsETag>>
fetched == <<body, etag>>
counters == <<pushes, panics>>
vars == <<server, installed, tags, pc, fetched, backoff, done, counters, lateInstalls>>

Remote(v) == [from |-> "remote", v |-> v]
Host(v) == [from |-> "host", v |-> v]

Running == {"fetchR", "applyR", "tagR", "fetchC", "applyC", "tagC"}
AtStartup == {"fetchC0", "applyC0", "tagC0"}
PC == Running \union AtStartup \union
      {"start", "top", "select", "tickEnd", "stopped", "crashed"}

Init ==
    /\ srvRegex = 0 /\ srvCorrections = 0
    /\ uap = 0
    /\ corrections = Remote(0)
    /\ fetchedRules = 0
    /\ lastETag = 0 /\ lastCorrectionsETag = 0
    /\ pc = "start"
    /\ body = 0 /\ etag = 0
    /\ backoff = 0
    /\ done = FALSE
    /\ pushes = 0 /\ panics = 0
    /\ lateInstalls = 0

-----------------------------------------------------------------------------
(***************************************************************************)
(* fetchResource                                                           *)
(***************************************************************************)

\* The request ends with an error: transport, status, redirect, size cap, or
\* the context, which ends every request under way.
FetchFails(at, next) ==
    /\ pc = at
    /\ pc' = next
    /\ UNCHANGED <<server, installed, tags, fetched, backoff, done, counters, lateInstalls>>

\* The answer when the URL serves a file: 304 when the tag names it, else the
\* whole file, with an ETag or without.
Answer(at, tag, served, apply, next) ==
    /\ pc = at
    /\ served > 0
    /\ IF tag = served
       THEN pc' = next /\ UNCHANGED fetched
       ELSE pc' = apply /\ body' = served /\ etag' \in {0, served}
    /\ UNCHANGED <<server, installed, tags, backoff, done, counters, lateInstalls>>

\* mutant: the request is not bound to the parser's context
FetchAnswersUnbound(at, tag, served, apply, next) == Answer(at, tag, served, apply, next)

\* The server answers: a request bound to the context, so not after done.
FetchAnswers(at, tag, served, apply, next) ==
    ~done /\ Answer(at, tag, served, apply, next)

CountInstall == lateInstalls' = IF done THEN lateInstalls + 1 ELSE lateInstalls

-----------------------------------------------------------------------------
(***************************************************************************)
(* updateRegexes                                                           *)
(***************************************************************************)
AfterRegexes == IF FetchCorrections THEN "fetchC" ELSE "tickEnd"

RegexFetchFails == FetchFails("fetchR", AfterRegexes)
RegexFetchAnswers ==
    FetchAnswers("fetchR", lastETag, srvRegex, "applyR", AfterRegexes)

\* mutant: the errors of Unmarshal and uaparser.New are logged and ignored
InstallRegexesUnchecked ==
    /\ pc = "applyR"
    /\ uap' = body
    /\ CountInstall
    /\ pc' = "tagR"
    /\ UNCHANGED <<server, rules, tags, fetched, backoff, done, counters>>

\* The file parses (YAML, or JSON) and compiles: swap, bump and purge.
InstallRegexes ==
    /\ pc = "applyR"
    /\ body \in GoodRegex
    /\ uap' = body
    /\ CountInstall
    /\ pc' = "tagR"
    /\ UNCHANGED <<server, rules, tags, fetched, backoff, done, counters>>

\* p.lastETag = etag: a panic before it leaves the tag of an older file.
RecordRegexETag ==
    /\ pc = "tagR"
    /\ lastETag' = etag
    /\ pc' = AfterRegexes
    /\ UNCHANGED <<server, installed, lastCorrectionsETag, fetched, backoff, done, counters,
                   lateInstalls>>

\* mutant: the ETag of a rejected file is recorded
RejectRegexesWithTag ==
    /\ pc = "applyR"
    /\ body \notin GoodRegex
    /\ lastETag' = etag
    /\ pc' = AfterRegexes
    /\ UNCHANGED <<server, installed, lastCorrectionsETag, fetched, backoff, done, counters, lateInstalls>>

\* The file is rejected: neither the database nor the ETag changes.
RejectRegexes ==
    /\ pc = "applyR"
    /\ body \notin GoodRegex
    /\ pc' = AfterRegexes
    /\ UNCHANGED <<server, installed, tags, fetched, backoff, done, counters, lateInstalls>>

-----------------------------------------------------------------------------
(***************************************************************************)
(* updateCorrections, at startup ("fetchC0") and on every tick ("fetchC")  *)
(***************************************************************************)
AfterCorrections(at) == IF at \in AtStartup THEN "top" ELSE "tickEnd"

CorrectionsFetchFails ==
    \/ FetchFails("fetchC0", "top")
    \/ FetchFails("fetchC", "tickEnd")

StartupFetchAnswers ==
    FetchAnswers("fetchC0", lastCorrectionsETag, srvCorrections, "applyC0", "top")
CorrectionsFetchAnswers ==
    FetchAnswers("fetchC", lastCorrectionsETag, srvCorrections, "applyC", "tickEnd")

\* ApplyCorrectionsYAML accepts the file.
InstallCorrections ==
    /\ pc \in {"applyC0", "applyC"}
    /\ body \in GoodCorrections
    /\ corrections' = Remote(body)
    /\ fetchedRules' = body
    /\ CountInstall
    /\ pc' = IF pc \in AtStartup THEN "tagC0" ELSE "tagC"
    /\ UNCHANGED <<server, uap, tags, fetched, backoff, done, counters>>

\* p.lastCorrectionsETag = etag; the host may have pushed since.
RecordCorrectionsETag ==
    /\ pc \in {"tagC0", "tagC"}
    /\ lastCorrectionsETag' = etag
    /\ pc' = AfterCorrections(pc)
    /\ UNCHANGED <<server, installed, lastETag, fetched, backoff, done, counters, lateInstalls>>

\* ApplyCorrectionsYAML returns an error: the last good rules stay.
RejectCorrections ==
    /\ pc \in {"applyC0", "applyC"}
    /\ body \notin GoodCorrections
    /\ pc' = AfterCorrections(pc)
    /\ UNCHANGED <<server, installed, tags, fetched, backoff, done, counters, lateInstalls>>

-----------------------------------------------------------------------------
(***************************************************************************)
(* startUpdater                                                            *)
(***************************************************************************)
Goto(at, next) ==
    /\ pc = at
    /\ pc' = next
    /\ UNCHANGED <<server, installed, tags, fetched, backoff, done, counters, lateInstalls>>

Start == Goto("start", IF FetchCorrections THEN "fetchC0" ELSE "top")

\* The head of the loop waits while backoff > 0, for the timer or for done.
EnterTicker == Goto("top", "select")
StopInBackoff == backoff > 0 /\ done /\ Goto("top", "stopped")

\* The select of the ticker loop; when both are ready either is taken.
Tick == Goto("select", "fetchR")

StopOnDoneNever == FALSE  \* mutant: the ticker loop does not listen to done
StopOnDone == done /\ Goto("select", "stopped")

\* The tick went through: the backoff is over.
TickEnd ==
    /\ pc = "tickEnd"
    /\ backoff' = 0
    /\ pc' = "select"
    /\ UNCHANGED <<server, installed, tags, fetched, done, counters, lateInstalls>>

NextBackoff ==
    IF backoff = 0 THEN 1
    ELSE IF 2 * backoff > MaxBackoff THEN MaxBackoff ELSE 2 * backoff

\* mutant: recover is deferred by startUpdater, outside its loop
RecoverLeavesLoop ==
    /\ pc \in Running
    /\ panics < MaxPanics
    /\ panics' = panics + 1
    /\ backoff' = NextBackoff
    /\ pc' = "stopped"
    /\ UNCHANGED <<server, installed, tags, fetched, done, pushes, lateInstalls>>

\* mutant: the recovered panic is raised again
RecoverRaises ==
    /\ pc \in Running
    /\ panics < MaxPanics
    /\ panics' = panics + 1
    /\ backoff' = NextBackoff
    /\ pc' = "crashed"
    /\ UNCHANGED <<server, installed, tags, fetched, done, pushes, lateInstalls>>

\* A panic during a tick: recovered, and the loop starts over.
Recover ==
    /\ pc \in Running
    /\ panics < MaxPanics
    /\ panics' = panics + 1
    /\ backoff' = NextBackoff
    /\ pc' = IF done THEN "stopped" ELSE "top"
    /\ UNCHANGED <<server, installed, tags, fetched, done, pushes, lateInstalls>>

\* The startup fetch runs before the function that recovers: the process dies.
StartupPanic ==
    /\ pc \in AtStartup
    /\ panics < MaxPanics
    /\ panics' = panics + 1
    /\ pc' = "crashed"
    /\ UNCHANGED <<server, installed, tags, fetched, backoff, done, pushes, lateInstalls>>

-----------------------------------------------------------------------------
(***************************************************************************)
(* The outside: the publisher of the two files, the host.                  *)
(***************************************************************************)
PublishRegexes ==
    /\ srvRegex < MaxPublish
    /\ srvRegex' = srvRegex + 1
    /\ UNCHANGED <<srvCorrections, installed, tags, pc, fetched, backoff, done, counters, lateInstalls>>

PublishCorrections ==
    /\ srvCorrections < MaxPublish
    /\ srvCorrections' = srvCorrections + 1
    /\ UNCHANGED <<srvRegex, installed, tags, pc, fetched, backoff, done, counters, lateInstalls>>

\* A host's ApplyCorrectionsYAML that is accepted.
HostPush ==
    /\ pc # "crashed"
    /\ pushes < MaxPush
    /\ pushes' = pushes + 1
    /\ corrections' = Host(pushes + 1)
    /\ UNCHANGED <<server, uap, fetchedRules, tags, pc, fetched, backoff, done, panics,
                   lateInstalls>>

\* Close, or the end of Config.Ctx.
Close ==
    /\ ~done
    /\ done' = TRUE
    /\ UNCHANGED <<server, installed, tags, pc, fetched, backoff, counters, lateInstalls>>

-----------------------------------------------------------------------------
LoopStep ==
    \/ Start \/ EnterTicker \/ Tick \/ TickEnd
    \/ RegexFetchFails \/ RegexFetchAnswers \/ InstallRegexes \/ RejectRegexes
    \/ CorrectionsFetchFails \/ StartupFetchAnswers \/ CorrectionsFetchAnswers
    \/ InstallCorrections \/ RejectCorrections
    \/ RecordRegexETag \/ RecordCorrectionsETag
    \/ StopInBackoff \/ StopOnDone

Next ==
    \/ LoopStep
    \/ Recover \/ StartupPanic
    \/ PublishRegexes \/ PublishCorrections \/ HostPush \/ Close

Spec == Init /\ [][Next]_vars

\* The goroutine is scheduled and its timers fire (WF).  A server that is
\* asked again and again answers now and then (SF on the answers).  A select
\* with done ready does not take the tick for ever (SF on the stops): Go
\* chooses among the ready cases at random.
Fairness ==
    /\ WF_vars(LoopStep)
    /\ SF_vars(RegexFetchAnswers) /\ SF_vars(CorrectionsFetchAnswers)
    /\ SF_vars(StopOnDone)

FairSpec == Spec /\ Fairness

-----------------------------------------------------------------------------
(***************************************************************************)
(* Properties                                                              *)
(***************************************************************************)

Sources == {"remote", "host"}

\* The type invariant; the backoff never passes its cap.
TypeOK ==
    /\ srvRegex \in Nat /\ srvCorrections \in Nat
    /\ uap \in Nat /\ fetchedRules \in Nat
    /\ corrections \in [from : Sources, v : Nat]
    /\ lastETag \in Nat /\ lastCorrectionsETag \in Nat
    /\ pc \in PC
    /\ body \in Nat /\ etag \in Nat
    /\ backoff \in 0..MaxBackoff
    /\ done \in BOOLEAN
    /\ pushes \in Nat /\ panics \in Nat /\ lateInstalls \in Nat

\* A 304 never leaves an older file in place: when the recorded ETag is that of
\* the served file, that file is installed (updater_default.go:167-175, :208,
\* :240), however often an install and the record of its ETag were separated by
\* a panic.  For corrections a host's push may stand on top: then the 304s keep
\* the host's rules.
NotModifiedIsSafe ==
    /\ lastETag # 0 /\ lastETag = srvRegex => uap = srvRegex
    /\ lastCorrectionsETag # 0 /\ lastCorrectionsETag = srvCorrections =>
          corrections = Remote(srvCorrections) \/ corrections.from = "host"

\* After Close the updater installs at most the one file whose download was
\* complete (updater_default.go:113-116): the fetch of the next is cancelled.
AtMostOneInstallAfterClose == lateInstalls <= 1

\* The only panic that ends the process is one of the startup fetch, which runs
\* outside the function that recovers (updater_default.go:45): a process that
\* died of the updater had neither recovered before nor reached the ETag of its
\* first file, though that file may be installed.
CrashOnlyAtStartup ==
    pc = "crashed" =>
        uap = 0 /\ lastETag = 0 /\ lastCorrectionsETag = 0 /\ panics = 1

\* The regexes keep the promise of a runtime-updated resource: only newer,
\* published and good databases are ever installed, whatever fails.
Regexes == INSTANCE LastGood WITH
    Good <- GoodRegex, published <- srvRegex, active <- uap
RegexesKeepLastGood == Regexes!Spec

\* The same of the correction files the updater activates, whatever the host
\* pushes between them.
Corrections == INSTANCE LastGood WITH
    Good <- GoodCorrections, published <- srvCorrections, active <- fetchedRules
CorrectionsKeepLastGood == Corrections!Spec

KeepLastGood == RegexesKeepLastGood /\ CorrectionsKeepLastGood

\* Close ends the goroutine, from the backoff as from the ticker loop.
StopsAfterClose == done ~> pc \in {"stopped", "crashed"}

\* The newest files are installed in the end, if they are good, unless a host
\* pushed its own rules: panics, failed fetches and rejected files before them do
\* not stop the updater.
NewestInstalled ==
    <>[](\/ done \/ pc = "crashed"
         \/ /\ srvRegex \in GoodRegex => uap = srvRegex
            /\ srvCorrections \in GoodCorrections =>
                  corrections = Remote(srvCorrections) \/ corrections.from = "host")

=============================================================================
