-------------------------------- MODULE Rules --------------------------------
(***************************************************************************)
(* ApplyCorrectionsYAML, seen from the file: compileCorrections checks it  *)
(* rule by rule, runCorrectionTests runs the inline tests of every rule    *)
(* through the candidate set, and only then is the set installed           *)
(* (pkg/core/corrections.go).  A file that fails anywhere leaves the       *)
(* active set alone.  HotSwap has the calls that run meanwhile, and the    *)
(* swap of the uap-core database, which does not change here.              *)
(*                                                                         *)
(* A rule is what the checks ask of it:                                    *)
(*   decode    "ok", "newer" (unknown fields only) or "error"              *)
(*   all, any  its anchors; "" is an empty one                             *)
(*   cond, xrw its conditions on the result and on x-requested-with        *)
(*   regex     NoRegex or [len, valid, groups, finds]                      *)
(*   set       field |-> [len, dollar, refs, value]: refs are the groups   *)
(*             it names, dollar whether it has a "$" at all                *)
(*   tests     [tokens, build, capture, xrw, len, expect]: a user agent    *)
(*             and its headers, and path |-> value                         *)
(* The inline tests go as far as the category: the fields enrichResult     *)
(* makes of the final state, which a test may ask for too, are left out.   *)
(***************************************************************************)
EXTENDS Naturals, FiniteSets, Sequences, SequencesExt, Corrections

CONSTANTS
    Files,            \* what may be pushed or downloaded
    Embedded,         \* the set compiled into the binary
    Paths,            \* expect paths resultField knows
    Hinted(_),        \* what the stages before the rules make of a test's input
    SchemaVersion, MaxBytes, MaxRules, MaxVendorPrefixes, MaxRegex, MaxValue,
    MaxTestUALen, MaxTestsPerRule, MaxTotalTestBytes

NoRegex == [none |-> TRUE]

VARIABLES
    file,       \* the payload at hand
    phase,      \* "idle", "header", "rules", "prefixes", "tests", "rejected", "installed"
    at,         \* position in the rules, prefixes or rules under test
    candidate,  \* the set under construction
    seen,       \* rule ids
    total,      \* inline-test bytes
    work,       \* history: test bytes run through the pipeline for this file
    active      \* Parser.corrections

vars == <<file, phase, at, candidate, seen, total, work, active>>

Nothing == [rules |-> <<>>, prefixes |-> <<>>, skipped |-> 0]

-----------------------------------------------------------------------------
(***************************************************************************)
(* compileRule                                                             *)
(***************************************************************************)
WellAnchored(rule) ==
    /\ "" \notin rule.all \union rule.any
    /\ rule.all \union rule.any # {}

Values(rule) == {rule.set[f] : f \in DOMAIN rule.set}

RegexUsable(rule) ==
    IF rule.regex = NoRegex
    THEN \A v \in Values(rule) : ~v.dollar
    ELSE /\ rule.regex.len <= MaxRegex
         /\ rule.regex.valid
         /\ \A v \in Values(rule) : \A n \in v.refs : n <= rule.regex.groups

Tested(rule) ==
    /\ Len(rule.tests) \in 1..MaxTestsPerRule
    /\ \A t \in Range(rule.tests) : t.len \in 1..MaxTestUALen /\ DOMAIN t.expect # {}

CompileRule(rule) ==
    /\ WellAnchored(rule)
    /\ RegexUsable(rule)
    /\ rule.set # <<>>
    /\ \A v \in Values(rule) : v.len <= MaxValue
    /\ Tested(rule)

TestBytes(rule) == FoldLeft(LAMBDA n, t : n + t.len, 0, rule.tests)

UsablePrefix(p) ==
    /\ p.vendor # "" /\ p.regex.len \in 1..MaxRegex
    /\ p.regex.valid

HeaderFits(f) ==
    /\ f.size <= MaxBytes
    /\ f.parses
    /\ f.schema <= SchemaVersion
    /\ Len(f.rules) <= MaxRules
    /\ Len(f.prefixes) <= MaxVendorPrefixes

-----------------------------------------------------------------------------
(***************************************************************************)
(* runCorrectionTests: an inline test's input goes through the stages, the *)
(* rules of the set in order, its vendor look-up and the category.         *)
(***************************************************************************)
Compiled(rule) ==
    [all |-> rule.all, any |-> rule.any, cond |-> rule.cond, xrw |-> rule.xrw,
     re |-> IF rule.regex = NoRegex THEN "" ELSE rule.regex.finds,
     set |-> [f \in DOMAIN rule.set |-> rule.set[f].value],
     capture |-> {f \in DOMAIN rule.set : rule.set[f].dollar}]

\* The result after a rule, and the category chosen so far.
Apply(rule, t, r) ==
    IF Matches(rule, r.res, t, t)
    THEN [res |-> Corrected(rule, r.res, t),
          chosen |-> IF "category" \in Writes(rule) THEN Value(rule, t, "category")
                                                   ELSE r.chosen]
    ELSE r

TestResult(rules, prefixes, t) ==
    LET ruled == FoldLeft(LAMBDA r, rule : Apply(Compiled(rule), t, r),
                          [res |-> Hinted(t), chosen |-> ""], rules)
        final == ResolveVendor(ruled.res, t, prefixes)
    IN  [final EXCEPT !.category = Category(final, ruled.chosen)]

TestPasses(rules, prefixes, t) ==
    /\ DOMAIN t.expect \subseteq Paths
    /\ LET res == TestResult(rules, prefixes, t)
       IN  \A path \in DOMAIN t.expect : res[path] = t.expect[path]

RuleTestsPass(rules, prefixes, rule) ==
    \A t \in Range(rule.tests) : TestPasses(rules, prefixes, t)

-----------------------------------------------------------------------------
RuleSet == UNION {Range(f.rules) : f \in Files}
PrefixSet == UNION {Range(f.prefixes) : f \in Files}

ASSUME FilesAreLists ==
    \A f \in Files : f.rules \in Seq(RuleSet) /\ f.prefixes \in Seq(PrefixSet)

ASSUME TestsAreLists ==
    /\ MaxTotalTestBytes \in Nat
    /\ \A r \in RuleSet : /\ r.tests \in Seq(Range(r.tests))
                          /\ \A t \in Range(r.tests) : t.len \in Nat

\* The tests of the repository run those of the embedded file.
ASSUME EmbeddedIsGood ==
    \A r \in Range(Embedded.rules) : RuleTestsPass(Embedded.rules, Embedded.prefixes, r)

-----------------------------------------------------------------------------
Init ==
    /\ file = Embedded
    /\ phase = "idle"
    /\ at = 1
    /\ candidate = Nothing
    /\ seen = {}
    /\ total = 0
    /\ work = 0
    /\ active = [rules |-> Embedded.rules, prefixes |-> Embedded.prefixes, skipped |-> 0]

Receive ==
    /\ phase \in {"idle", "rejected", "installed"}
    /\ file' \in Files
    /\ phase' = "header"
    /\ at' = 1
    /\ candidate' = Nothing
    /\ seen' = {}
    /\ total' = 0
    /\ work' = 0
    /\ UNCHANGED active

\* keep-last-good: the active set stays, the candidate is dropped.
Reject ==
    /\ phase' = "rejected"
    /\ candidate' = Nothing
    /\ UNCHANGED <<file, at, seen, total, work, active>>

CheckHeader ==
    /\ phase = "header"
    /\ IF HeaderFits(file)
       THEN /\ phase' = "rules"
            /\ UNCHANGED <<file, at, candidate, seen, total, work, active>>
       ELSE Reject

Rule == file.rules[at]
AtRule == phase = "rules" /\ at <= Len(file.rules)

SkipNewerRule ==
    /\ AtRule
    /\ Rule.decode = "newer"
    /\ candidate' = [candidate EXCEPT !.skipped = @ + 1]
    /\ at' = at + 1
    /\ UNCHANGED <<file, phase, seen, total, work, active>>

FitsTotalLate(rule) == total <= MaxTotalTestBytes  \* mutant: asked before this rule is added
FitsTotal(rule) == total + TestBytes(rule) <= MaxTotalTestBytes
FreshIdAlways(rule) == rule.id # ""  \* mutant: duplicates are let in
FreshId(rule) == rule.id # "" /\ rule.id \notin seen

AddRule ==
    /\ AtRule
    /\ Rule.decode = "ok" /\ CompileRule(Rule) /\ FreshId(Rule) /\ FitsTotal(Rule)
    /\ candidate' = [candidate EXCEPT !.rules = Append(@, Rule)]
    /\ seen' = seen \union {Rule.id}
    /\ total' = total + TestBytes(Rule)
    /\ at' = at + 1
    /\ UNCHANGED <<file, phase, work, active>>

RejectRule ==
    /\ AtRule
    /\ \/ Rule.decode = "error"
       \/ Rule.decode = "ok" /\ ~(CompileRule(Rule) /\ FreshId(Rule) /\ FitsTotal(Rule))
    /\ Reject

RulesDone ==
    /\ phase = "rules" /\ at > Len(file.rules)
    /\ phase' = "prefixes"
    /\ at' = 1
    /\ UNCHANGED <<file, candidate, seen, total, work, active>>

CheckPrefix ==
    /\ phase = "prefixes" /\ at <= Len(file.prefixes)
    /\ IF UsablePrefix(file.prefixes[at])
       THEN /\ candidate' = [candidate EXCEPT !.prefixes = Append(@, file.prefixes[at])]
            /\ at' = at + 1
            /\ UNCHANGED <<file, phase, seen, total, work, active>>
       ELSE Reject

PrefixesDone ==
    /\ phase = "prefixes" /\ at > Len(file.prefixes)
    /\ phase' = "tests"
    /\ at' = 1
    /\ UNCHANGED <<file, candidate, seen, total, work, active>>

\* The tests of one rule run against the whole candidate set.
SelfTestAlone(rule) == RuleTestsPass(<<rule>>, candidate.prefixes, rule)  \* mutant: against the rule alone
SelfTest(rule) == RuleTestsPass(candidate.rules, candidate.prefixes, rule)

TestRule ==
    /\ phase = "tests" /\ at <= Len(candidate.rules)
    /\ IF SelfTest(candidate.rules[at])
       THEN /\ at' = at + 1
            /\ work' = work + TestBytes(candidate.rules[at])
            /\ UNCHANGED <<file, phase, candidate, seen, total, active>>
       ELSE Reject

Install ==
    /\ phase = "tests" /\ at > Len(candidate.rules)
    /\ active' = candidate
    /\ phase' = "installed"
    /\ UNCHANGED <<file, at, candidate, seen, total, work>>

Next ==
    \/ Receive \/ CheckHeader
    \/ SkipNewerRule \/ AddRule \/ RejectRule \/ RulesDone
    \/ CheckPrefix \/ PrefixesDone
    \/ TestRule \/ Install

Spec == Init /\ [][Next]_vars

-----------------------------------------------------------------------------
(***************************************************************************)
(* Properties                                                              *)
(***************************************************************************)
Understood(f) ==
    FoldLeft(LAMBDA kept, r : IF r.decode = "newer" THEN kept ELSE Append(kept, r), <<>>, f.rules)

\* What the docs promise of a file as a whole, whatever the order of the checks:
\* the caps, rules that are well formed and differently named, every inline test
\* passing with all the rules and vendor prefixes in force.  Rules for a newer
\* engine only count for the cap on rules.
ValidFile(f) ==
    LET rules == Understood(f)
    IN  /\ HeaderFits(f)
        /\ \A r \in Range(rules) : r.decode = "ok" /\ r.id # "" /\ CompileRule(r)
        /\ \A i, j \in DOMAIN rules : rules[i].id = rules[j].id => i = j
        /\ FoldLeft(LAMBDA n, r : n + TestBytes(r), 0, rules) <= MaxTotalTestBytes
        /\ \A p \in Range(f.prefixes) : UsablePrefix(p)
        /\ \A r \in Range(rules) : RuleTestsPass(rules, f.prefixes, r)

\* A file is installed exactly when it is valid as a whole, and then all of it
\* is: no rule the engine understands is lost, none is there twice.
AcceptsExactlyTheValid ==
    /\ phase = "installed" =>
        /\ ValidFile(file)
        /\ active.rules = Understood(file) /\ active.prefixes = file.prefixes
    /\ phase = "rejected" => ~ValidFile(file)

\* The rules in force always pass their own tests, all of them together.
ActivePassesItsTests ==
    \A r \in Range(active.rules) : RuleTestsPass(active.rules, active.prefixes, r)

\* However long the file's tests are, the pipeline runs on no more of them than
\* the cap before the file is refused or installed.
SelfTestWorkBounded == work <= MaxTotalTestBytes

=============================================================================
