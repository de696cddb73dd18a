---------------------------- MODULE UpdaterProofs ----------------------------
(***************************************************************************)
(* What holds of Updater for any published files, good or bad, and any     *)
(* number of panics, pushes and failed fetches.                            *)
(*                                                                         *)
(* The argument of the refinement: there is one goroutine, so between a    *)
(* download and its installation nothing else installs, and the files are  *)
(* published in order (InFlight).                                          *)
(***************************************************************************)
EXTENDS Updater, TLAPS

USE DEF server, rules, installed, tags, fetched, counters

\* A step of the goroutine other than the fetches' answers and the swaps.
Quiet ==
    \/ Start \/ EnterTicker \/ Tick \/ TickEnd \/ StopInBackoff \/ StopOnDone
    \/ RegexFetchFails \/ CorrectionsFetchFails
    \/ RejectRegexes \/ RejectCorrections
    \/ Recover \/ StartupPanic

\* A Quiet step holds no download to apply and leaves versions, tags, the
\* context and the install count alone.
LEMMA QuietFrame ==
    ASSUME Quiet
    PROVE  /\ pc' \notin {"applyR", "applyC0", "applyC", "tagR", "tagC0", "tagC"}
           /\ UNCHANGED <<server, installed, tags, fetched, done, lateInstalls>>
BY DEF Quiet, Start, EnterTicker, Tick, TickEnd, StopInBackoff, StopOnDone,
       RegexFetchFails, CorrectionsFetchFails, FetchFails, RejectRegexes,
       RejectCorrections, Recover, StartupPanic, Goto, AfterRegexes,
       AfterCorrections, AtStartup

\* The cases of a step the proofs below tell apart.
LEMMA StepCases ==
    ASSUME [Next]_vars
    PROVE  \/ Quiet
           \/ RegexFetchAnswers \/ StartupFetchAnswers \/ CorrectionsFetchAnswers
           \/ InstallRegexes \/ InstallCorrections
           \/ RecordRegexETag \/ RecordCorrectionsETag
           \/ PublishRegexes \/ PublishCorrections \/ HostPush \/ Close
           \/ UNCHANGED vars
BY DEF Next, LoopStep, Quiet

-----------------------------------------------------------------------------
\* Updater keeps its types.
THEOREM UpdaterTypeCorrect == Spec => []TypeOK
<1>0. ASSUME NEW v \in Nat
      PROVE  /\ Remote(v) \in [from : Sources, v : Nat]
             /\ Host(v) \in [from : Sources, v : Nat]
  BY DEF Remote, Host, Sources
<1> USE DEF TypeOK, PC, Running, AtStartup
<1>1. Init => TypeOK
  <2>1. Remote(0) \in [from : Sources, v : Nat]
    BY <1>0
  <2>2. Init => done \in BOOLEAN
    BY DEF Init
  <2>3. Init => corrections \in [from : Sources, v : Nat]
    BY <2>1 DEF Init
  <2> QED BY <2>2, <2>3, BoundsAssumption DEF Init
<1>2. TypeOK /\ [Next]_vars => TypeOK'
  <2> SUFFICES ASSUME TypeOK, [Next]_vars PROVE TypeOK'
    OBVIOUS
  <2>1. CASE Start \/ EnterTicker \/ Tick \/ StopInBackoff \/ StopOnDone
    BY <2>1 DEF Start, EnterTicker, Tick, StopInBackoff, StopOnDone, Goto
  <2>2. CASE TickEnd
    BY <2>2, BoundsAssumption DEF TickEnd
  <2>3. CASE RegexFetchFails \/ CorrectionsFetchFails
    BY <2>3 DEF RegexFetchFails, CorrectionsFetchFails, FetchFails, AfterRegexes
  <2>4. CASE RegexFetchAnswers \/ StartupFetchAnswers \/ CorrectionsFetchAnswers
    BY <2>4 DEF RegexFetchAnswers, StartupFetchAnswers, CorrectionsFetchAnswers,
          FetchAnswers, Answer, AfterRegexes
  <2>5. CASE InstallRegexes \/ RejectRegexes
    BY <2>5 DEF InstallRegexes, RejectRegexes, CountInstall, AfterRegexes
  <2>6. CASE InstallCorrections \/ RejectCorrections
    <3>1. Remote(body) \in [from : Sources, v : Nat]
      BY <1>0
    <3> QED BY <2>6, <3>1 DEF InstallCorrections, RejectCorrections, CountInstall,
            AfterCorrections
  <2>7. CASE Recover
    <3>1. NextBackoff \in 0..MaxBackoff
      BY BoundsAssumption DEF NextBackoff
    <3> QED BY <2>7, <3>1 DEF Recover
  <2>8. CASE StartupPanic
    BY <2>8 DEF StartupPanic
  <2>11. CASE RecordRegexETag \/ RecordCorrectionsETag
    BY <2>11 DEF RecordRegexETag, RecordCorrectionsETag, AfterRegexes, AfterCorrections
  <2>9. CASE PublishRegexes \/ PublishCorrections \/ HostPush \/ Close
    <3>1. CASE HostPush
      <4>1. Host(pushes + 1) \in [from : Sources, v : Nat]
        BY <1>0
      <4> QED BY <3>1, <4>1 DEF HostPush
    <3>2. CASE Close
      BY <3>2 DEF Close
    <3>3. CASE PublishRegexes \/ PublishCorrections
      BY <3>3 DEF PublishRegexes, PublishCorrections
    <3> QED BY <2>9, <3>1, <3>2, <3>3
  <2>10. CASE UNCHANGED vars
    BY <2>10 DEF vars
  <2> QED BY <2>1, <2>2, <2>3, <2>4, <2>5, <2>6, <2>7, <2>8, <2>9, <2>10, <2>11
          DEF Next, LoopStep
<1> QED BY <1>1, <1>2, PTL DEF Spec

-----------------------------------------------------------------------------
\* After Close at most one more file is installed: the one whose download was
\* complete.
THEOREM AtMostOneLateInstall == Spec => []AtMostOneInstallAfterClose
<1> DEFINE Late == /\ lateInstalls \in {0, 1}
                   /\ ~done => lateInstalls = 0
                   /\ pc \in {"applyR", "applyC0", "applyC"} => lateInstalls = 0
<1>1. Init => Late
  BY DEF Init
<1>2. TypeOK /\ Late /\ [Next]_vars => Late'
  <2> SUFFICES ASSUME TypeOK, Late, [Next]_vars PROVE Late'
    OBVIOUS
  <2>1. CASE Quiet
    BY <2>1, QuietFrame
  <2>2. CASE RegexFetchAnswers \/ StartupFetchAnswers \/ CorrectionsFetchAnswers
    BY <2>2 DEF RegexFetchAnswers, StartupFetchAnswers, CorrectionsFetchAnswers,
          FetchAnswers, Answer, AfterRegexes
  <2>3. CASE InstallRegexes \/ InstallCorrections
    BY <2>3 DEF InstallRegexes, InstallCorrections, AtStartup, CountInstall
  <2>6. CASE RecordRegexETag \/ RecordCorrectionsETag
    BY <2>6 DEF RecordRegexETag, RecordCorrectionsETag, AfterRegexes,
          AfterCorrections
  <2>4. CASE PublishRegexes \/ PublishCorrections \/ HostPush \/ Close
    BY <2>4 DEF PublishRegexes, PublishCorrections, HostPush, Close, TypeOK
  <2>5. CASE UNCHANGED vars
    BY <2>5 DEF vars
  <2> QED BY <2>1, <2>2, <2>3, <2>4, <2>5, <2>6, StepCases
<1>3. Late => AtMostOneInstallAfterClose
  BY DEF AtMostOneInstallAfterClose
<1> HIDE DEF Late
<1> QED BY <1>1, <1>2, <1>3, UpdaterTypeCorrect, PTL DEF Spec

-----------------------------------------------------------------------------
\* No panic ends the process once the loop is entered: until then no ETag is
\* recorded and no panic recovered, and only then does StartupPanic happen.
THEOREM CrashesAtStartupOnly == Spec => []CrashOnlyAtStartup
<1> DEFINE Untagged == uap = 0 /\ lastETag = 0 /\ lastCorrectionsETag = 0
<1> DEFINE Early == /\ pc \in {"start"} \union AtStartup => Untagged /\ panics = 0
                    /\ CrashOnlyAtStartup
<1> USE DEF CrashOnlyAtStartup, Running, AtStartup
<1>1. Init => Early
  BY DEF Init
<1>2. Early /\ [Next]_vars => Early'
  <2> SUFFICES ASSUME Early, [Next]_vars PROVE Early'
    OBVIOUS
  <2>1. CASE Start \/ EnterTicker \/ Tick \/ TickEnd \/ StopInBackoff \/ StopOnDone
    BY <2>1 DEF Start, EnterTicker, Tick, TickEnd, StopInBackoff, StopOnDone, Goto
  <2>2. CASE RegexFetchFails \/ CorrectionsFetchFails \/ RejectRegexes \/ RejectCorrections
    BY <2>2 DEF RegexFetchFails, CorrectionsFetchFails, FetchFails, RejectRegexes,
          RejectCorrections, AfterRegexes, AfterCorrections
  <2>3. CASE Recover
    BY <2>3 DEF Recover
  <2>4. CASE StartupPanic
    BY <2>4 DEF StartupPanic
  <2>5. CASE RegexFetchAnswers \/ StartupFetchAnswers \/ CorrectionsFetchAnswers
    BY <2>5 DEF RegexFetchAnswers, StartupFetchAnswers, CorrectionsFetchAnswers,
          FetchAnswers, Answer, AfterRegexes
  <2>6. CASE InstallRegexes \/ InstallCorrections
    BY <2>6 DEF InstallRegexes, InstallCorrections, AfterRegexes, AfterCorrections
  <2>7. CASE PublishRegexes \/ PublishCorrections \/ HostPush \/ Close
    BY <2>7 DEF PublishRegexes, PublishCorrections, HostPush, Close
  <2>8. CASE UNCHANGED vars
    BY <2>8 DEF vars
  <2>9. CASE RecordRegexETag \/ RecordCorrectionsETag
    BY <2>9 DEF RecordRegexETag, RecordCorrectionsETag, AfterRegexes, AfterCorrections
  <2> QED BY <2>1, <2>2, <2>3, <2>4, <2>5, <2>6, <2>7, <2>8, <2>9, StepCases DEF Quiet
<1>3. Early => CrashOnlyAtStartup
  OBVIOUS
<1> HIDE DEF Early
<1> QED BY <1>1, <1>2, <1>3, PTL DEF Spec

-----------------------------------------------------------------------------
\* What the goroutine holds was published, and is not older than what is
\* installed.
InFlight ==
    /\ uap <= srvRegex
    /\ pc = "applyR" => uap <= body /\ body <= srvRegex
    /\ fetchedRules <= srvCorrections
    /\ pc \in {"applyC0", "applyC"} => fetchedRules <= body /\ body <= srvCorrections

\* InFlight holds of every run: nobody else fetches in between.
LEMMA InFlightHolds == Spec => []InFlight
<1> USE DEF InFlight, TypeOK
<1>1. Init => InFlight
  BY DEF Init
<1>2. TypeOK /\ InFlight /\ [Next]_vars => InFlight'
  <2> SUFFICES ASSUME TypeOK, InFlight, [Next]_vars PROVE InFlight'
    OBVIOUS
  <2>1. CASE Quiet
    BY <2>1, QuietFrame
  <2>2. CASE RegexFetchAnswers \/ StartupFetchAnswers \/ CorrectionsFetchAnswers
    BY <2>2 DEF RegexFetchAnswers, StartupFetchAnswers, CorrectionsFetchAnswers,
          FetchAnswers, Answer, AfterRegexes
  <2>3. CASE InstallRegexes \/ InstallCorrections
    BY <2>3 DEF InstallRegexes, InstallCorrections
  <2>6. CASE RecordRegexETag \/ RecordCorrectionsETag
    BY <2>6 DEF RecordRegexETag, RecordCorrectionsETag, AfterRegexes, AfterCorrections
  <2>4. CASE PublishRegexes \/ PublishCorrections \/ HostPush \/ Close
    BY <2>4 DEF PublishRegexes, PublishCorrections, HostPush, Close
  <2>5. CASE UNCHANGED vars
    BY <2>5 DEF vars
  <2> QED BY <2>1, <2>2, <2>3, <2>4, <2>5, <2>6, StepCases
<1> QED BY <1>1, <1>2, UpdaterTypeCorrect, PTL DEF Spec

-----------------------------------------------------------------------------
\* What a recorded ETag can name: a file that is installed, or an older one when a
\* panic came between an install and its ETag.
TagOrder ==
    /\ lastETag <= uap
    /\ lastCorrectionsETag <= fetchedRules
    /\ corrections = Remote(fetchedRules) \/ corrections.from = "host"
    /\ pc \in {"applyR", "applyC0", "applyC"} => etag \in {0, body}
    /\ pc = "tagR" => etag \in {0, uap}
    /\ pc \in {"tagC0", "tagC"} => etag \in {0, fetchedRules}

\* TagOrder holds of every run: an ETag is recorded for what the same fetch has
\* installed, and later installs are of later files.
LEMMA TagOrderHolds == Spec => []TagOrder
<1> USE DEF TagOrder, TypeOK
<1>1. Init => TagOrder
  BY DEF Init
<1>2. TypeOK /\ InFlight /\ TagOrder /\ [Next]_vars => TagOrder'
  <2> SUFFICES ASSUME TypeOK, InFlight, TagOrder, [Next]_vars PROVE TagOrder'
    OBVIOUS
  <2>1. CASE Quiet
    BY <2>1, QuietFrame
  <2>2. CASE RegexFetchAnswers \/ StartupFetchAnswers \/ CorrectionsFetchAnswers
    BY <2>2 DEF RegexFetchAnswers, StartupFetchAnswers, CorrectionsFetchAnswers,
          FetchAnswers, Answer, AfterRegexes
  <2>3. CASE InstallRegexes
    BY <2>3 DEF InstallRegexes, InFlight
  <2>4. CASE InstallCorrections
    BY <2>4 DEF InstallCorrections, InFlight, AtStartup
  <2>5. CASE RecordRegexETag \/ RecordCorrectionsETag
    BY <2>5 DEF RecordRegexETag, RecordCorrectionsETag, AfterRegexes,
          AfterCorrections, AtStartup
  <2>6. CASE PublishRegexes \/ PublishCorrections \/ Close
    BY <2>6 DEF PublishRegexes, PublishCorrections, Close
  <2>7. CASE HostPush
    <3>1. corrections'.from = "host"
      BY <2>7 DEF HostPush, Host
    <3> QED BY <2>7, <3>1 DEF HostPush
  <2>8. CASE UNCHANGED vars
    BY <2>8 DEF vars
  <2> QED BY <2>1, <2>2, <2>3, <2>4, <2>5, <2>6, <2>7, <2>8, StepCases
<1> QED BY <1>1, <1>2, UpdaterTypeCorrect, InFlightHolds, PTL DEF Spec

\* A 304 means that the served file is installed, for regexes always and for
\* corrections unless a host's push stands on top: the tag is not newer than the
\* installed file, nor that newer than the served one.
THEOREM TagsDescribe == Spec => []NotModifiedIsSafe
<1>1. TypeOK /\ InFlight /\ TagOrder => NotModifiedIsSafe
  <2> SUFFICES ASSUME TypeOK, InFlight, TagOrder PROVE NotModifiedIsSafe
    OBVIOUS
  <2>1. lastETag = srvRegex => uap = srvRegex
    BY DEF TypeOK, InFlight, TagOrder
  <2>2. lastCorrectionsETag = srvCorrections => fetchedRules = srvCorrections
    BY DEF TypeOK, InFlight, TagOrder
  <2> QED BY <2>1, <2>2 DEF TagOrder, NotModifiedIsSafe
<1> QED BY <1>1, UpdaterTypeCorrect, InFlightHolds, TagOrderHolds, PTL

-----------------------------------------------------------------------------
\* The updater implements LastGood for the regexes: every installation is of a
\* later, published and good version; every other step publishes or stutters.
LEMMA RegexesRefineLastGood == Spec => RegexesKeepLastGood
<1>1. Init => Regexes!Init
  BY DEF Init, Regexes!Init
<1>2. TypeOK /\ InFlight /\ [Next]_vars
      => [Regexes!Next]_<<srvRegex, uap>>
  <2> SUFFICES ASSUME TypeOK, InFlight, [Next]_vars
               PROVE  Regexes!Next \/ UNCHANGED <<srvRegex, uap>>
    OBVIOUS
  <2> USE DEF Regexes!Next, Regexes!Install, Regexes!Publish
  <2>1. CASE InstallRegexes
    BY <2>1 DEF InstallRegexes, InFlight, TypeOK
  <2>2. CASE PublishRegexes
    BY <2>2 DEF PublishRegexes
  <2>3. CASE Quiet
    BY <2>3, QuietFrame
  <2>4. CASE RegexFetchAnswers \/ StartupFetchAnswers \/ CorrectionsFetchAnswers
    BY <2>4 DEF RegexFetchAnswers, StartupFetchAnswers, CorrectionsFetchAnswers,
          FetchAnswers, Answer
  <2>5. \/ InstallCorrections \/ RecordRegexETag \/ RecordCorrectionsETag
        \/ PublishCorrections \/ HostPush \/ Close
        => UNCHANGED <<srvRegex, uap>>
    BY DEF InstallCorrections, RecordRegexETag, RecordCorrectionsETag,
          PublishCorrections, HostPush, Close
  <2>6. CASE UNCHANGED vars
    BY <2>6 DEF vars
  <2> QED BY <2>1, <2>2, <2>3, <2>4, <2>5, <2>6, StepCases
<1> QED BY <1>1, <1>2, UpdaterTypeCorrect, InFlightHolds, PTL
        DEF Spec, RegexesKeepLastGood, Regexes!Spec

\* The updater implements LastGood for the correction files it
\* activates, under any pushes of the host: every activation is of a later,
\* published and good version; every other step publishes or stutters.
LEMMA CorrectionsRefineLastGood == Spec => CorrectionsKeepLastGood
<1>1. Init => Corrections!Init
  BY DEF Init, Corrections!Init
<1>2. TypeOK /\ InFlight /\ [Next]_vars
      => [Corrections!Next]_<<srvCorrections, fetchedRules>>
  <2> SUFFICES ASSUME TypeOK, InFlight, [Next]_vars
               PROVE  Corrections!Next \/ UNCHANGED <<srvCorrections, fetchedRules>>
    OBVIOUS
  <2> USE DEF Corrections!Next, Corrections!Install, Corrections!Publish
  <2>1. CASE InstallCorrections
    BY <2>1 DEF InstallCorrections, InFlight, TypeOK
  <2>2. CASE PublishCorrections
    BY <2>2 DEF PublishCorrections
  <2>3. CASE Quiet
    BY <2>3, QuietFrame
  <2>4. CASE RegexFetchAnswers \/ StartupFetchAnswers \/ CorrectionsFetchAnswers
    BY <2>4 DEF RegexFetchAnswers, StartupFetchAnswers, CorrectionsFetchAnswers,
          FetchAnswers, Answer
  <2>5. \/ InstallRegexes \/ RecordRegexETag \/ RecordCorrectionsETag
        \/ PublishRegexes \/ HostPush \/ Close
        => UNCHANGED <<srvCorrections, fetchedRules>>
    BY DEF InstallRegexes, RecordRegexETag, RecordCorrectionsETag,
          PublishRegexes, HostPush, Close
  <2>6. CASE UNCHANGED vars
    BY <2>6 DEF vars
  <2> QED BY <2>1, <2>2, <2>3, <2>4, <2>5, <2>6, StepCases
<1> QED BY <1>1, <1>2, UpdaterTypeCorrect, InFlightHolds, PTL
        DEF Spec, CorrectionsKeepLastGood, Corrections!Spec

\* The updater implements LastGood for both resources.
THEOREM RefinesLastGood == Spec => KeepLastGood
BY RegexesRefineLastGood, CorrectionsRefineLastGood DEF KeepLastGood

=============================================================================
