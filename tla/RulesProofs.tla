----------------------------- MODULE RulesProofs ------------------------------
(***************************************************************************)
(* For every file, every set of caps and every way uap-core reads a user   *)
(* agent: the rules in force pass their inline tests, the self-test does   *)
(* no more work than the cap, and a file is installed or rejected for what *)
(* it is.  And the check of a rule's values for missing groups, which      *)
(* RegexUsable asks, agrees with what regexp.Expand reads (GroupRefs).     *)
(***************************************************************************)
EXTENDS Rules, GroupRefs, FiniteSetTheorems, SequenceTheorems, TLAPS

-----------------------------------------------------------------------------
(***************************************************************************)
(* The sums and folds of Rules are recursive functions over sets of        *)
(* places.  That the recursions have solutions, and what these are,        *)
(* follows from the least counterexample.                                  *)
(***************************************************************************)
\* Every set of numbers that is not empty has a least one.
LEMMA LeastNumber ==
    ASSUME NEW T, T \subseteq Nat, T # {} PROVE \E x \in T : \A y \in T : x <= y
<1>1. PICK m \in T : TRUE
    OBVIOUS
<1> DEFINE U == {0..n : n \in {n \in T : n <= m}}
<1>2. \A n \in Nat : IsFiniteSet(0..n)
    BY FS_Interval
<1>3. U \subseteq FiniteSubsetsOf(Nat) /\ U # {}
    BY <1>1, <1>2 DEF FiniteSubsetsOf
<1>4. IsWellFoundedOn(StrictSubsetOrdering(Nat), FiniteSubsetsOf(Nat))
    BY FS_StrictSubsetOrderingWellFounded
<1> HIDE DEF U
<1>5. PICK least \in U : \A s \in U : <<s, least>> \notin StrictSubsetOrdering(Nat)
    BY <1>3, <1>4, WFMin
<1>6. PICK x \in T : x <= m /\ least = 0..x
    BY <1>5 DEF U
<1>7. ASSUME NEW y \in T, y < x PROVE FALSE
    <2>1. 0..y \in U
        BY <1>1, <1>6, <1>7 DEF U
    <2>2. 0..y \subseteq 0..x /\ x \in 0..x /\ x \notin 0..y /\ 0..x \subseteq Nat
        BY <1>7
    <2>3. <<0..y, least>> \in StrictSubsetOrdering(Nat)
        BY <1>6, <2>2 DEF StrictSubsetOrdering
    <2> QED BY <1>5, <2>1, <2>3
<1> QED BY <1>6, <1>7

\* Max is the maximum.
LEMMA MaxIsMaximum ==
    ASSUME NEW n \in Nat, NEW s, s \subseteq 1..n, s # {}
    PROVE  Max(s) \in s /\ \A y \in s : Max(s) >= y
<1> DEFINE T == {n - x : x \in s}
<1>1. T \subseteq Nat /\ T # {}
    <2>1. \A x \in 1..n : n - x \in Nat
        OBVIOUS
    <2> QED BY <2>1
<1> HIDE DEF T
<1>2. PICK d \in T : \A e \in T : d <= e
    BY <1>1, LeastNumber
<1>3. PICK x \in s : d = n - x
    BY <1>2 DEF T
<1>4. \A y \in s : x >= y
    <2> SUFFICES ASSUME NEW y \in s PROVE x >= y
        OBVIOUS
    <2>1. n - y \in T
        BY DEF T
    <2> QED BY <1>2, <1>3, <2>1
<1> QED BY <1>4 DEF Max

\* A prefix of the places ends in its last one.
LEMMA MaxOfInterval ==
    ASSUME NEW n \in Nat \ {0} PROVE Max(1..n) = n /\ (1..n) \ {n} = 1..(n - 1)
<1>1. Max(1..n) \in 1..n /\ \A y \in 1..n : Max(1..n) >= y
    <2>1. 1..n # {} /\ n \in Nat
        OBVIOUS
    <2> QED BY <2>1, MaxIsMaximum
<1>2. n \in 1..n
    OBVIOUS
<1>3. Max(1..n) = n
    BY <1>1, <1>2
<1>4. (1..n) \ {n} = 1..(n - 1)
    OBVIOUS
<1> QED BY <1>3, <1>4

\* A fold from left to right over n places, where "step" gives what becomes of a
\* value at each place, for the sets of up to m places.
PlaceSets(n, m) == {s \in SUBSET (1..n) : Cardinality(s) <= m}
FoldOf(fold, step, base, s) == IF s = {} THEN base ELSE step[Max(s)][fold[s \ {Max(s)}]]
Folds(fold, sets, V, step, base) ==
    fold \in [sets -> V] /\ \A s \in sets : fold[s] = FoldOf(fold, step, base, s)

\* What a fold over the places takes off is one of them, and leaves one less.
LEMMA SetOfPlaces ==
    ASSUME NEW n \in Nat, NEW s \in SUBSET (1..n)
    PROVE  /\ Cardinality(s) \in Nat /\ Cardinality(s) <= n
           /\ Cardinality(s) = 0 <=> s = {}
           /\ s # {} => /\ Max(s) \in 1..n /\ s \ {Max(s)} \in SUBSET (1..n)
                        /\ Cardinality(s \ {Max(s)}) = Cardinality(s) - 1
<1>1. IsFiniteSet(1..n) /\ Cardinality(1..n) = n
    <2>1. 1 \in Int /\ n \in Int /\ (1 > n => n = 0)
        OBVIOUS
    <2> QED BY <2>1, FS_Interval
<1>2. IsFiniteSet(s) /\ Cardinality(s) <= n
    BY <1>1, FS_Subset
<1>3. Cardinality(s) \in Nat
    BY <1>2, FS_CardinalityType
<1>4. Cardinality(s) = 0 <=> s = {}
    BY <1>2, FS_EmptySet
<1>5. ASSUME s # {} PROVE Max(s) \in s
    BY <1>5, MaxIsMaximum
<1>6. s # {} => Cardinality(s \ {Max(s)}) = Cardinality(s) - 1
    BY <1>2, <1>5, FS_RemoveElement
<1> QED BY <1>2, <1>3, <1>4, <1>5, <1>6

\* The recursion that a fold is has a solution.
LEMMA FoldExists ==
    ASSUME NEW n \in Nat, NEW V, NEW base \in V, NEW step \in [1..n -> [V -> V]]
    PROVE  \E fold : Folds(fold, SUBSET (1..n), V, step, base)
<1> DEFINE T == {m \in Nat : m <= n /\ ~\E fold : Folds(fold, PlaceSets(n, m), V, step, base)}
<1>1. ASSUME T # {} PROVE FALSE
    <2>1. PICK m \in T : \A k \in T : m <= k
        BY <1>1, LeastNumber
    <2>2. m \in Nat /\ m <= n /\ ~\E fold : Folds(fold, PlaceSets(n, m), V, step, base)
        BY <2>1
    <2>3. m # 0
        <3>1. PlaceSets(n, 0) = {{}}
            <4>1. \A s \in SUBSET (1..n) :
                     Cardinality(s) \in Nat /\ (Cardinality(s) = 0 <=> s = {})
                BY SetOfPlaces
            <4>2. {} \in SUBSET (1..n)
                OBVIOUS
            <4>3. \A s \in SUBSET (1..n) : Cardinality(s) <= 0 <=> Cardinality(s) = 0
                BY <4>1
            <4> QED BY <4>1, <4>2, <4>3 DEF PlaceSets
        <3> DEFINE fold == [s \in {{}} |-> base]
        <3>2. fold \in [{{}} -> V] /\ \A s \in {{}} : s = {} /\ fold[s] = base
            OBVIOUS
        <3> HIDE DEF fold
        <3>3. Folds(fold, PlaceSets(n, 0), V, step, base)
            BY <3>1, <3>2 DEF Folds, FoldOf
        <3> QED BY <2>2, <3>3
    <2>4. PICK less : Folds(less, PlaceSets(n, m - 1), V, step, base)
        <3>1. m - 1 \in Nat /\ ~(m <= m - 1) /\ m - 1 <= n
            BY <2>2, <2>3
        <3> QED BY <2>1, <3>1
    <2> DEFINE sets == PlaceSets(n, m)
               fewer == PlaceSets(n, m - 1)
               fold == [s \in sets |-> FoldOf(less, step, base, s)]
    <2>5. \A s \in sets : s # {} => Max(s) \in 1..n /\ s \ {Max(s)} \in fewer
        <3> SUFFICES ASSUME NEW s \in sets, s # {}
                     PROVE  Max(s) \in 1..n /\ s \ {Max(s)} \in fewer
            OBVIOUS
        <3>1. s \in SUBSET (1..n) /\ Cardinality(s) <= m
            BY DEF PlaceSets
        <3>2. /\ Cardinality(s) \in Nat /\ Max(s) \in 1..n /\ s \ {Max(s)} \in SUBSET (1..n)
              /\ Cardinality(s \ {Max(s)}) = Cardinality(s) - 1
            BY <3>1, SetOfPlaces
        <3> QED BY <2>2, <3>1, <3>2 DEF PlaceSets
    <2>6. fewer \subseteq sets
        <3>1. \A s \in SUBSET (1..n) : Cardinality(s) \in Nat
            BY SetOfPlaces
        <3> QED BY <2>2, <3>1 DEF PlaceSets
    <2>7. less \in [fewer -> V] /\ \A s \in fewer : less[s] = FoldOf(less, step, base, s)
        BY <2>4 DEF Folds
    <2> HIDE DEF sets, fewer
    <2>8. fold \in [sets -> V]
        <3>1. ASSUME NEW s \in sets PROVE FoldOf(less, step, base, s) \in V
            BY <2>5, <2>7 DEF FoldOf
        <3> QED BY <3>1
    <2>9. \A s \in fewer : fold[s] = less[s]
        BY <2>6, <2>7
    <2>10. \A s \in sets : fold[s] = FoldOf(less, step, base, s)
        OBVIOUS
    <2> HIDE DEF fold
    <2>11. \A s \in sets : fold[s] = FoldOf(fold, step, base, s)
        BY <2>5, <2>9, <2>10 DEF FoldOf
    <2> QED BY <2>2, <2>8, <2>11 DEF Folds, sets
<1>2. n \notin T
    <2> HIDE DEF T
    <2> QED BY <1>1
<1>3. PICK fold : Folds(fold, PlaceSets(n, n), V, step, base)
    BY <1>2
<1>4. PlaceSets(n, n) = SUBSET (1..n)
    <2>1. \A s \in SUBSET (1..n) : Cardinality(s) <= n
        BY SetOfPlaces
    <2> QED BY <2>1 DEF PlaceSets
<1> QED BY <1>3, <1>4

\* What TestBytes computes for the sets of a rule's tests.
BytesOf(rule, sums, s) ==
    IF s = {} THEN 0 ELSE sums[s \ {Max(s)}] + rule.tests[Max(s)].len
BytesOfFold(rule, sums) == sums = [s \in SUBSET DOMAIN rule.tests |-> BytesOf(rule, sums, s)]

\* The recursion in TestBytes has a solution, and its values are numbers.
LEMMA BytesAreCounted ==
    MaxTotalTestBytes \in Nat /\ \A r \in RuleSet : TestBytes(r) \in Nat
<1> SUFFICES ASSUME NEW r \in RuleSet PROVE TestBytes(r) \in Nat
    BY TestsAreLists
<1> DEFINE n == Len(r.tests)
           step == [k \in 1..n |-> [b \in Nat |-> b + r.tests[k].len]]
           chosen == CHOOSE sums : BytesOfFold(r, sums)
<1>1. n \in Nat /\ DOMAIN r.tests = 1..n
    BY TestsAreLists
<1>2. \A k \in 1..n : r.tests[k].len \in Nat
    BY <1>1, TestsAreLists DEF Range
<1>3. step \in [1..n -> [Nat -> Nat]]
    BY <1>2
<1>4. \A k \in 1..n, b \in Nat : step[k][b] = b + r.tests[k].len
    OBVIOUS
<1> HIDE DEF n, step
<1>5. PICK fold : Folds(fold, SUBSET (1..n), Nat, step, 0)
    BY <1>1, <1>3, FoldExists
<1>6. BytesOfFold(r, fold)
    <2>1. fold = [s \in SUBSET (1..n) |-> fold[s]]
        BY <1>5 DEF Folds
    <2>2. ASSUME NEW s \in SUBSET (1..n) PROVE fold[s] = BytesOf(r, fold, s)
        <3>1. fold[s] = FoldOf(fold, step, 0, s)
            BY <1>5 DEF Folds
        <3>2. s # {} => Max(s) \in 1..n /\ s \ {Max(s)} \in SUBSET (1..n)
            BY <1>1, SetOfPlaces
        <3>3. s # {} => fold[s \ {Max(s)}] \in Nat
            BY <1>5, <3>2 DEF Folds
        <3> QED BY <1>4, <3>1, <3>2, <3>3 DEF FoldOf, BytesOf
    <2>3. fold = [s \in SUBSET (1..n) |-> BytesOf(r, fold, s)]
        BY <2>1, <2>2
    <2> QED BY <1>1, <2>3 DEF BytesOfFold
<1>7. BytesOfFold(r, chosen)
    BY <1>6
<1>8. TestBytes(r) = chosen[DOMAIN r.tests]
    BY DEF TestBytes, BytesOfFold, BytesOf, FoldLeft, MapThenFoldSet
<1>9. PICK sums : sums = chosen
    OBVIOUS
<1> HIDE DEF chosen
<1>10. \A s \in SUBSET (1..n) : sums[s] = BytesOf(r, sums, s)
    BY <1>1, <1>7, <1>9 DEF BytesOfFold
<1> DEFINE T == {k \in Nat : k <= n /\ sums[1..k] \notin Nat}
<1>11. ASSUME T # {} PROVE FALSE
    <2>1. PICK k \in T : \A m \in T : k <= m
        BY <1>11, LeastNumber
    <2>2. k \in Nat /\ k <= n /\ sums[1..k] \notin Nat
        BY <2>1
    <2>3. k # 0
        <3>1. 1..0 = {} /\ 1..0 \in SUBSET (1..n)
            OBVIOUS
        <3>2. sums[1..0] = 0
            BY <1>10, <3>1 DEF BytesOf
        <3> QED BY <2>2, <3>2
    <2>4. k - 1 \in Nat /\ k - 1 <= n /\ ~(k <= k - 1) /\ k \in 1..n /\ k \in Nat \ {0}
        BY <1>1, <2>2, <2>3
    <2>5. sums[1..(k - 1)] \in Nat
        BY <2>1, <2>4
    <2>6. Max(1..k) = k /\ (1..k) \ {k} = 1..(k - 1)
        BY <2>4, MaxOfInterval
    <2> HIDE DEF T
    <2>7. 1..k \in SUBSET (1..n) /\ 1..k # {}
        <3>1. n \in Nat /\ k \in 1..n
            BY <1>1, <2>4
        <3>2. \A x \in 1..k : x \in 1..n
            BY <3>1
        <3>3. k \in 1..k
            BY <3>1
        <3> QED BY <3>2, <3>3
    <2>8. sums[1..k] = sums[1..(k - 1)] + r.tests[k].len
        BY <1>10, <2>6, <2>7 DEF BytesOf
    <2> QED BY <1>2, <2>2, <2>4, <2>5, <2>8
<1>12. n \notin T
    <2> HIDE DEF T
    <2> QED BY <1>11
<1>13. sums[1..n] \in Nat
    BY <1>1, <1>12
<1> QED BY <1>1, <1>8, <1>9, <1>13

-----------------------------------------------------------------------------
(***************************************************************************)
(* The rules in force pass their inline tests.                             *)
(***************************************************************************)
Candidates == [rules : Seq(RuleSet), prefixes : Seq(PrefixSet), skipped : Nat]

\* The self-test goes through the candidate in order, so what is behind "at" has
\* passed; the candidate does not change any more while it runs.
PInv ==
    /\ at \in Nat \ {0}
    /\ phase # "idle" => file \in Files
    /\ candidate \in Candidates
    /\ phase = "tests" => \A k \in 1..Len(candidate.rules) :
            k < at => RuleTestsPass(candidate.rules, candidate.prefixes, candidate.rules[k])
    /\ ActivePassesItsTests

\* What a request starts with is a candidate.
LEMMA NothingIsACandidate == Nothing \in Candidates
BY DEF Nothing, Candidates

\* A rejected file leaves nothing behind.
LEMMA RejectKeeps == PInv /\ phase # "idle" /\ Reject => PInv'
<1> SUFFICES ASSUME PInv, phase # "idle", Reject PROVE PInv'
    OBVIOUS
<1>1. phase' = "rejected" /\ candidate' = Nothing
    BY DEF Reject
<1>2. file' = file /\ at' = at /\ active' = active
    BY DEF Reject
<1>3. file \in Files
    BY DEF PInv, Reject
<1> QED BY <1>1, <1>2, <1>3, NothingIsACandidate DEF PInv, ActivePassesItsTests

\* The embedded rules pass their tests.
LEMMA PInvInit == Init => PInv
<1> SUFFICES ASSUME Init PROVE PInv
    OBVIOUS
<1>1. at = 1 /\ phase = "idle" /\ candidate = Nothing
    BY DEF Init
<1>2. active.rules = Embedded.rules /\ active.prefixes = Embedded.prefixes
    BY DEF Init
<1> QED BY <1>1, <1>2, NothingIsACandidate, EmbeddedIsGood DEF PInv, ActivePassesItsTests

\* No step installs a rule that fails a test, or changes a candidate under test.
LEMMA PInvStep == PInv /\ [Next]_vars => PInv'
<1> SUFFICES ASSUME PInv, [Next]_vars PROVE PInv'
    OBVIOUS
<1>1. CASE Receive
    <2>1. phase' = "header" /\ at' = 1 /\ candidate' = Nothing /\ file' \in Files
        BY <1>1 DEF Receive
    <2>2. active' = active
        BY <1>1 DEF Receive
    <2> QED BY <2>1, <2>2, NothingIsACandidate DEF PInv, ActivePassesItsTests
<1>2. CASE CheckHeader
    <2>1. CASE HeaderFits(file)
        BY <1>2, <2>1 DEF CheckHeader, PInv, ActivePassesItsTests
    <2>2. CASE ~HeaderFits(file)
        BY <1>2, <2>2, RejectKeeps DEF CheckHeader
    <2> QED BY <2>1, <2>2
<1>3. CASE SkipNewerRule
    <2>1. candidate' \in Candidates
        BY <1>3 DEF SkipNewerRule, PInv, Candidates
    <2> QED BY <1>3, <2>1 DEF SkipNewerRule, AtRule, PInv, ActivePassesItsTests
<1>4. CASE AddRule
    <2>1. file.rules \in Seq(RuleSet) /\ at \in 1..Len(file.rules)
        BY <1>4, FilesAreLists DEF AddRule, AtRule, PInv
    <2>3. candidate' = [candidate EXCEPT !.rules = Append(@, Rule)]
        BY <1>4 DEF AddRule
    <2>2. Rule \in RuleSet
        BY <2>1 DEF Rule
    <2>4. Append(candidate.rules, Rule) \in Seq(RuleSet)
        BY <2>2 DEF PInv, Candidates
    <2>5. candidate' \in Candidates
        BY <2>3, <2>4 DEF PInv, Candidates
    <2> QED BY <1>4, <2>5 DEF AddRule, AtRule, PInv, ActivePassesItsTests
<1>5. CASE RejectRule
    BY <1>5, RejectKeeps DEF RejectRule, AtRule
<1>6. CASE RulesDone
    BY <1>6 DEF RulesDone, PInv, ActivePassesItsTests
<1>7. CASE CheckPrefix
    <2>1. CASE UsablePrefix(file.prefixes[at])
        <3>1. Append(candidate.prefixes, file.prefixes[at]) \in Seq(PrefixSet)
            BY <1>7, FilesAreLists DEF CheckPrefix, PInv, Candidates
        <3>2. candidate' \in Candidates
            BY <1>7, <2>1, <3>1 DEF CheckPrefix, PInv, Candidates
        <3> QED BY <1>7, <2>1, <3>2 DEF CheckPrefix, PInv, ActivePassesItsTests
    <2>2. CASE ~UsablePrefix(file.prefixes[at])
        BY <1>7, <2>2, RejectKeeps DEF CheckPrefix
    <2> QED BY <2>1, <2>2
<1>8. CASE PrefixesDone
    BY <1>8 DEF PrefixesDone, PInv, ActivePassesItsTests
<1>9. CASE TestRule
    <2>1. CASE SelfTest(candidate.rules[at])
        <3>1. RuleTestsPass(candidate.rules, candidate.prefixes, candidate.rules[at])
            BY <2>1 DEF SelfTest
        <3>2. \A k \in 1..Len(candidate.rules) :
                k < at + 1 =>
                    RuleTestsPass(candidate.rules, candidate.prefixes, candidate.rules[k])
            BY <1>9, <3>1 DEF TestRule, PInv
        <3> QED BY <1>9, <2>1, <3>2 DEF TestRule, PInv, ActivePassesItsTests
    <2>2. CASE ~SelfTest(candidate.rules[at])
        BY <1>9, <2>2, RejectKeeps DEF TestRule
    <2> QED BY <2>1, <2>2
<1>10. CASE Install
    <2>1. \A k \in 1..Len(candidate.rules) :
             RuleTestsPass(candidate.rules, candidate.prefixes, candidate.rules[k])
        BY <1>10 DEF Install, PInv, Candidates
    <2>2. \A r \in Range(candidate.rules) :
             RuleTestsPass(candidate.rules, candidate.prefixes, r)
        BY <2>1 DEF PInv, Candidates, Range
    <2>3. ActivePassesItsTests'
        BY <1>10, <2>2 DEF Install, ActivePassesItsTests
    <2> QED BY <1>10, <2>3 DEF Install, PInv
<1>11. CASE UNCHANGED vars
    BY <1>11 DEF vars, PInv, ActivePassesItsTests
<1> QED BY <1>1, <1>2, <1>3, <1>4, <1>5, <1>6, <1>7, <1>8, <1>9, <1>10, <1>11 DEF Next

\* ActivePassesItsTests: at any time all rules of the active set pass their inline
\* tests, run with all of them in force (runCorrectionTests before Store).
THEOREM ActiveRulesPass == Spec => []ActivePassesItsTests
<1>1. PInv => ActivePassesItsTests
    BY DEF PInv
<1> QED BY <1>1, PInvInit, PInvStep, PTL DEF Spec

-----------------------------------------------------------------------------
(***************************************************************************)
(* The candidate against the file, without a fold over either: the rules   *)
(* it keeps stand at increasing positions of the file, and their bytes add *)
(* up to the total along a sequence of partial sums.                       *)
(***************************************************************************)
Kept(rules, f, n) ==
    \E pos \in [1..Len(rules) -> 1..n] :
        /\ \A k, l \in 1..Len(rules) : k < l => pos[k] < pos[l]
        /\ \A k \in 1..Len(rules) :
              rules[k] = f.rules[pos[k]] /\ rules[k].decode # "newer"
        /\ \A x \in 1..n : f.rules[x].decode # "newer" => \E k \in 1..Len(rules) : pos[k] = x

\* The first n of the rules have "spent" bytes, and all of them "bytes".
Costs(rules, n, spent, bytes) ==
    \E sums \in [0..Len(rules) -> Nat] :
        /\ sums[0] = 0
        /\ \A k \in 1..Len(rules) : sums[k] = sums[k - 1] + TestBytes(rules[k])
        /\ \A k \in 0..Len(rules) : sums[k] <= bytes
        /\ sums[n] = spent /\ sums[Len(rules)] = bytes

\* The bytes the rules cost; what the self-test has spent of them.
CostInv ==
    /\ total \in Nat /\ total <= MaxTotalTestBytes
    /\ work \in Nat /\ work <= MaxTotalTestBytes
    /\ phase \in {"idle", "header"} => candidate = Nothing /\ total = 0
    /\ phase \in {"header", "rules", "prefixes"} => work = 0
    /\ phase \in {"rules", "prefixes"} => Costs(candidate.rules, 0, 0, total)
    /\ phase \in {"tests", "installed"} => Costs(candidate.rules, at - 1, work, total)

\* No rule has cost nothing.
LEMMA NothingCosts == Costs(<<>>, 0, 0, 0)
<1> DEFINE sums == [k \in 0..0 |-> 0]
<1>1. /\ sums \in [0..0 -> Nat] /\ sums[0] = 0
      /\ \A k \in 0..0 : sums[k] <= 0
    OBVIOUS
<1> HIDE DEF sums
<1>2. Len(<<>>) = 0 /\ 1..0 = {}
    OBVIOUS
<1> QED BY <1>1, <1>2 DEF Costs

\* A rule that is added brings its own bytes.
LEMMA RuleCosts ==
    ASSUME NEW rules \in Seq(RuleSet), NEW rule \in RuleSet, NEW bytes \in Nat,
           Costs(rules, 0, 0, bytes)
    PROVE  Costs(Append(rules, rule), 0, 0, bytes + TestBytes(rule))
<1> DEFINE n == Len(rules)
           longer == Append(rules, rule)
<1>1. n \in Nat /\ TestBytes(rule) \in Nat
    BY BytesAreCounted
<1>2. /\ Len(longer) = n + 1 /\ longer[n + 1] = rule
      /\ \A k \in 1..n : longer[k] = rules[k]
    OBVIOUS
<1>3. PICK sums \in [0..n -> Nat] :
        /\ sums[0] = 0
        /\ \A k \in 1..n : sums[k] = sums[k - 1] + TestBytes(rules[k])
        /\ \A k \in 0..n : sums[k] <= bytes
        /\ sums[n] = bytes
    BY DEF Costs
<1> DEFINE more == [k \in 0..(n + 1) |-> IF k = n + 1 THEN bytes + TestBytes(rule) ELSE sums[k]]
<1> HIDE DEF n, longer
<1>4. more[n + 1] = bytes + TestBytes(rule) /\ \A k \in 0..n : more[k] = sums[k]
    BY <1>1
<1>5. more \in [0..(n + 1) -> Nat]
    BY <1>1, <1>3
<1> HIDE DEF more
<1>6. more[0] = 0
    BY <1>1, <1>3, <1>4
<1>7. ASSUME NEW k \in 1..(n + 1) PROVE more[k] = more[k - 1] + TestBytes(longer[k])
    <2>1. CASE k = n + 1
        BY <1>1, <1>2, <1>3, <1>4, <2>1
    <2>2. CASE k # n + 1
        <3>1. k \in 1..n /\ k - 1 \in 0..n /\ k \in 0..n
            BY <1>1, <2>2
        <3> QED BY <1>2, <1>3, <1>4, <3>1
    <2> QED BY <2>1, <2>2
<1>8. ASSUME NEW k \in 0..(n + 1) PROVE more[k] <= bytes + TestBytes(rule)
    <2>1. CASE k = n + 1
        BY <1>1, <1>4, <2>1
    <2>2. CASE k # n + 1
        <3>1. k \in 0..n
            BY <1>1, <2>2
        <3>2. sums[k] \in Nat /\ sums[k] <= bytes /\ more[k] = sums[k]
            BY <1>3, <1>4, <3>1
        <3> QED BY <1>1, <3>2
    <2> QED BY <2>1, <2>2
<1>9. Costs(longer, 0, 0, bytes + TestBytes(rule))
    BY <1>2, <1>4, <1>5, <1>6, <1>7, <1>8 DEF Costs
<1> QED BY <1>9 DEF longer

\* A rule that is tested spends its bytes, which the sum of all contains.
LEMMA RuleSpends ==
    ASSUME NEW rules \in Seq(RuleSet), NEW n \in 1..Len(rules), NEW spent, NEW bytes,
           Costs(rules, n - 1, spent, bytes)
    PROVE  Costs(rules, n, spent + TestBytes(rules[n]), bytes)
BY DEF Costs

\* What has been spent is part of the whole.
LEMMA SpentIsPart ==
    ASSUME NEW rules \in Seq(RuleSet), NEW n \in 0..Len(rules), NEW spent, NEW bytes,
           Costs(rules, n, spent, bytes)
    PROVE  spent \in Nat /\ spent <= bytes
BY DEF Costs

\* A rejection spends no more.
LEMMA RejectCosts == CostInv /\ Reject => CostInv'
BY DEF CostInv, Reject

\* CostInv holds of every run: the cap is asked before a rule is added, and the
\* self-test runs the tests of rules that have been.
THEOREM CostInvHolds == Spec => []CostInv
<1>1. Init => CostInv
    BY BytesAreCounted DEF Init, CostInv
<1>2. PInv /\ CostInv /\ [Next]_vars => CostInv'
    <2> SUFFICES ASSUME PInv, CostInv, [Next]_vars PROVE CostInv'
        OBVIOUS
    <2>a. candidate.rules \in Seq(RuleSet) /\ Len(candidate.rules) \in Nat /\ at \in Nat \ {0}
        BY DEF PInv, Candidates
    <2>1. CASE Receive
        BY <2>1, BytesAreCounted DEF Receive, CostInv
    <2>2. CASE CheckHeader
        <3>1. CASE HeaderFits(file)
            BY <2>2, <3>1, NothingCosts DEF CheckHeader, CostInv, Nothing
        <3>2. CASE ~HeaderFits(file)
            BY <2>2, <3>2, RejectCosts DEF CheckHeader
        <3> QED BY <3>1, <3>2
    <2>3. CASE SkipNewerRule
        <3>1. candidate'.rules = candidate.rules
            BY <2>3 DEF SkipNewerRule, PInv, Candidates
        <3> QED BY <2>3, <3>1 DEF SkipNewerRule, AtRule, CostInv
    <2>4. CASE AddRule
        <3>1. /\ phase = "rules" /\ phase' = phase /\ work' = work
              /\ total' = total + TestBytes(Rule) /\ total + TestBytes(Rule) <= MaxTotalTestBytes
            BY <2>4 DEF AddRule, AtRule, FitsTotal
        <3>2. Rule \in RuleSet
            <4>1. file.rules \in Seq(RuleSet) /\ at \in 1..Len(file.rules)
                BY <2>4, FilesAreLists DEF AddRule, AtRule, PInv
            <4> QED BY <4>1 DEF Rule
        <3>3. candidate'.rules = Append(candidate.rules, Rule)
            BY <2>4 DEF AddRule, PInv, Candidates
        <3>4. total' \in Nat
            BY <3>1, <3>2, BytesAreCounted DEF CostInv
        <3>5. Costs(candidate'.rules, 0, 0, total')
            BY <2>a, <3>1, <3>2, <3>3, RuleCosts DEF CostInv
        <3> QED BY <3>1, <3>4, <3>5 DEF CostInv
    <2>5. CASE RejectRule
        BY <2>5, RejectCosts DEF RejectRule
    <2>6. CASE RulesDone
        BY <2>6 DEF RulesDone, CostInv
    <2>7. CASE CheckPrefix
        <3>1. CASE UsablePrefix(file.prefixes[at])
            <4>1. candidate'.rules = candidate.rules
                BY <2>7, <3>1 DEF CheckPrefix, PInv, Candidates
            <4> QED BY <2>7, <3>1, <4>1 DEF CheckPrefix, CostInv
        <3>2. CASE ~UsablePrefix(file.prefixes[at])
            BY <2>7, <3>2, RejectCosts DEF CheckPrefix
        <3> QED BY <3>1, <3>2
    <2>8. CASE PrefixesDone
        <3>1. at' - 1 = 0
            BY <2>8 DEF PrefixesDone
        <3> QED BY <2>8, <3>1 DEF PrefixesDone, CostInv
    <2>9. CASE TestRule
        <3>1. CASE SelfTest(candidate.rules[at])
            <4>1. /\ phase = "tests" /\ at \in 1..Len(candidate.rules)
                  /\ at' = at + 1 /\ work' = work + TestBytes(candidate.rules[at])
                  /\ UNCHANGED <<phase, candidate, total>>
                BY <2>a, <2>9, <3>1 DEF TestRule
            <4>2. Costs(candidate.rules, at, work', total)
                BY <2>a, <4>1, RuleSpends DEF CostInv
            <4>3. work' \in Nat /\ work' <= total
                <5>1. at \in 0..Len(candidate.rules)
                    BY <2>a, <4>1
                <5> QED BY <2>a, <4>2, <5>1, SpentIsPart
            <4>4. at' - 1 = at /\ work' <= MaxTotalTestBytes
                BY <2>a, <4>1, <4>3, BytesAreCounted DEF CostInv
            <4> QED BY <4>1, <4>2, <4>3, <4>4 DEF CostInv
        <3>2. CASE ~SelfTest(candidate.rules[at])
            BY <2>9, <3>2, RejectCosts DEF TestRule
        <3> QED BY <3>1, <3>2
    <2>10. CASE Install
        BY <2>10 DEF Install, CostInv
    <2>11. CASE UNCHANGED vars
        BY <2>11 DEF vars, CostInv
    <2> QED BY <2>1, <2>2, <2>3, <2>4, <2>5, <2>6, <2>7, <2>8, <2>9, <2>10, <2>11 DEF Next
<1>3. Spec => []PInv
    BY PInvInit, PInvStep, PTL DEF Spec
<1> QED BY <1>1, <1>2, <1>3, PTL DEF Spec

\* The self-test of a file, however it ends, has run the pipeline on no more
\* bytes than the cap on the file's inline tests.
THEOREM SelfTestBounded == Spec => []SelfTestWorkBounded
<1>1. CostInv => SelfTestWorkBounded
    BY DEF CostInv, SelfTestWorkBounded
<1> QED BY <1>1, CostInvHolds, PTL

-----------------------------------------------------------------------------
(***************************************************************************)
(* The verdict on a file: what an installed one has, and what one of these *)
(* things a rejected one lacks.                                            *)
(***************************************************************************)
GoodRule(rule) == rule.decode = "ok" /\ rule.id # "" /\ CompileRule(rule)

\* The first n rules of f are good or newer, and the ids of the good ones differ.
Scanned(f, n) ==
    /\ \A x \in 1..n : f.rules[x].decode = "newer" \/ GoodRule(f.rules[x])
    /\ \A x, j \in 1..n :
          /\ f.rules[x].decode # "newer" /\ f.rules[j].decode # "newer"
          /\ f.rules[x].id = f.rules[j].id
          => x = j
Ids(f, n) == {f.rules[x].id : x \in {x \in 1..n : f.rules[x].decode # "newer"}}

Sound(f, set) ==
    /\ HeaderFits(f)
    /\ Scanned(f, Len(f.rules)) /\ Kept(set.rules, f, Len(f.rules))
    /\ \E bytes \in 0..MaxTotalTestBytes : Costs(set.rules, 0, 0, bytes)
    /\ \A p \in Range(f.prefixes) : UsablePrefix(p)
    /\ set.prefixes = f.prefixes
    /\ \A r \in Range(set.rules) : RuleTestsPass(set.rules, set.prefixes, r)

BadRule(f) ==
    \E x \in 1..Len(f.rules) : f.rules[x].decode # "newer" /\ ~GoodRule(f.rules[x])
DuplicateId(f) ==
    \E x, j \in 1..Len(f.rules) :
        /\ x # j /\ f.rules[x].decode # "newer" /\ f.rules[j].decode # "newer"
        /\ f.rules[x].id = f.rules[j].id
TooManyBytes(f) ==
    \E n \in 1..Len(f.rules), rules \in Seq(RuleSet), bytes \in Nat :
        /\ Kept(rules, f, n - 1) /\ Costs(rules, 0, 0, bytes)
        /\ f.rules[n].decode # "newer" /\ bytes + TestBytes(f.rules[n]) > MaxTotalTestBytes
FailingTest(f) ==
    \E rules \in Seq(RuleSet) :
        /\ Kept(rules, f, Len(f.rules))
        /\ \E r \in Range(rules) : ~RuleTestsPass(rules, f.prefixes, r)
Faulty(f) ==
    \/ ~HeaderFits(f)
    \/ BadRule(f) \/ DuplicateId(f) \/ TooManyBytes(f)
    \/ \E p \in Range(f.prefixes) : ~UsablePrefix(p)
    \/ FailingTest(f)

JustVerdict ==
    /\ phase = "installed" => Sound(file, active)
    /\ phase = "rejected" => Faulty(file)

\* How far the file has been read, and what the candidate has of it.
ScanInv ==
    /\ phase \in {"rules", "prefixes", "tests", "installed"} => HeaderFits(file)
    /\ phase = "rules" =>
          /\ at <= Len(file.rules) + 1 /\ seen = Ids(file, at - 1)
          /\ Scanned(file, at - 1) /\ Kept(candidate.rules, file, at - 1)
          /\ candidate.prefixes = <<>>
    /\ phase \in {"prefixes", "tests", "installed"} =>
          Scanned(file, Len(file.rules)) /\ Kept(candidate.rules, file, Len(file.rules))
    /\ phase = "prefixes" =>
          /\ at <= Len(file.prefixes) + 1 /\ Len(candidate.prefixes) = at - 1
          /\ \A k \in 1..(at - 1) : /\ candidate.prefixes[k] = file.prefixes[k]
                                    /\ UsablePrefix(file.prefixes[k])
    /\ phase \in {"tests", "installed"} =>
          /\ candidate.prefixes = file.prefixes
          /\ \A p \in Range(file.prefixes) : UsablePrefix(p)
    /\ phase = "tests" => at <= Len(candidate.rules) + 1
    /\ phase = "installed" => active = candidate /\ at = Len(candidate.rules) + 1
    /\ phase = "header" => candidate = Nothing /\ at = 1 /\ seen = {}
    /\ phase = "rejected" => Faulty(file)

\* Before the first rule the candidate is empty, and lacks nothing.
LEMMA NothingKept == ASSUME NEW f PROVE Kept(<<>>, f, 0)
<1> DEFINE pos == [k \in 1..0 |-> 0]
<1>1. pos \in [1..0 -> 1..0]
    OBVIOUS
<1>2. Len(<<>>) = 0 /\ 1..0 = {}
    OBVIOUS
<1> HIDE DEF pos
<1> QED BY <1>1, <1>2 DEF Kept

\* A rule for a newer engine leaves the candidate complete.
LEMMA NewerNotKept ==
    ASSUME NEW rules \in Seq(RuleSet), NEW f, NEW n \in Nat, Kept(rules, f, n),
           f.rules[n + 1].decode = "newer"
    PROVE  Kept(rules, f, n + 1)
<1>1. PICK pos \in [1..Len(rules) -> 1..n] :
        /\ \A k, l \in 1..Len(rules) : k < l => pos[k] < pos[l]
        /\ \A k \in 1..Len(rules) :
              rules[k] = f.rules[pos[k]] /\ rules[k].decode # "newer"
        /\ \A x \in 1..n : f.rules[x].decode # "newer" => \E k \in 1..Len(rules) : pos[k] = x
    BY DEF Kept
<1>2. 1..(n + 1) = 1..n \union {n + 1}
    OBVIOUS
<1>3. pos \in [1..Len(rules) -> 1..(n + 1)]
    BY <1>1, <1>2
<1> QED BY <1>1, <1>2, <1>3 DEF Kept

\* A rule that is appended stands behind all the others, in the file as well.
LEMMA RuleKept ==
    ASSUME NEW rules \in Seq(RuleSet), NEW f, NEW n \in Nat, Kept(rules, f, n),
           f.rules[n + 1] \in RuleSet, f.rules[n + 1].decode # "newer"
    PROVE  Kept(Append(rules, f.rules[n + 1]), f, n + 1)
<1> DEFINE len == Len(rules)
           longer == Append(rules, f.rules[n + 1])
<1>1. len \in Nat
    OBVIOUS
<1>2. /\ Len(longer) = len + 1 /\ longer[len + 1] = f.rules[n + 1]
      /\ \A k \in 1..len : longer[k] = rules[k]
    OBVIOUS
<1>3. PICK pos \in [1..len -> 1..n] :
        /\ \A k, l \in 1..len : k < l => pos[k] < pos[l]
        /\ \A k \in 1..len :
              rules[k] = f.rules[pos[k]] /\ rules[k].decode # "newer"
        /\ \A x \in 1..n : f.rules[x].decode # "newer" => \E k \in 1..len : pos[k] = x
    BY DEF Kept
<1> HIDE DEF len, longer
<1> DEFINE more == [k \in 1..(len + 1) |-> IF k = len + 1 THEN n + 1 ELSE pos[k]]
<1>4. more[len + 1] = n + 1 /\ \A k \in 1..len : more[k] = pos[k]
    BY <1>1
<1>5. more \in [1..(len + 1) -> 1..(n + 1)]
    BY <1>1, <1>3
<1> HIDE DEF more
<1>6. 1..(len + 1) = 1..len \union {len + 1} /\ 1..(n + 1) = 1..n \union {n + 1}
    BY <1>1
<1>7. \A k, l \in 1..(len + 1) : k < l => more[k] < more[l]
    <2> SUFFICES ASSUME NEW k \in 1..(len + 1), NEW l \in 1..(len + 1), k < l
                 PROVE  more[k] < more[l]
        OBVIOUS
    <2>1. k \in 1..len
        BY <1>1
    <2>2. CASE l = len + 1
        <3>1. more[k] \in 1..n
            BY <1>3, <1>4, <2>1
        <3> QED BY <1>4, <2>2, <3>1
    <2>3. CASE l # len + 1
        BY <1>3, <1>4, <1>6, <2>1, <2>3
    <2> QED BY <2>2, <2>3
<1>8. \A k \in 1..(len + 1) :
        longer[k] = f.rules[more[k]] /\ longer[k].decode # "newer"
    BY <1>2, <1>3, <1>4, <1>6
<1>9. \A x \in 1..(n + 1) :
        f.rules[x].decode # "newer" => \E k \in 1..(len + 1) : more[k] = x
    <2> SUFFICES ASSUME NEW x \in 1..(n + 1), f.rules[x].decode # "newer"
                 PROVE  \E k \in 1..(len + 1) : more[k] = x
        OBVIOUS
    <2>1. CASE x = n + 1
        BY <1>4, <1>6, <2>1
    <2>2. CASE x # n + 1
        <3>1. PICK k \in 1..len : pos[k] = x
            BY <1>3, <1>6, <2>2
        <3> QED BY <1>4, <1>6, <3>1
    <2> QED BY <2>1, <2>2
<1>10. Kept(longer, f, n + 1)
    <2> DEFINE m == len + 1
    <2>1. /\ more \in [1..m -> 1..(n + 1)]
          /\ \A k, l \in 1..m : k < l => more[k] < more[l]
          /\ \A k \in 1..m : longer[k] = f.rules[more[k]] /\ longer[k].decode # "newer"
          /\ \A x \in 1..(n + 1) :
                f.rules[x].decode # "newer" => \E k \in 1..m : more[k] = x
        BY <1>5, <1>7, <1>8, <1>9
    <2>2. Len(longer) = m
        BY <1>2
    <2> HIDE DEF m
    <2> QED BY <2>1, <2>2 DEF Kept
<1> QED BY <1>10 DEF longer

\* A rule for a newer engine is passed over, and claims no id.
LEMMA ScanNewer ==
    ASSUME NEW f, NEW n \in Nat, Scanned(f, n), f.rules[n + 1].decode = "newer"
    PROVE  Scanned(f, n + 1) /\ Ids(f, n + 1) = Ids(f, n)
<1>1. 1..(n + 1) = 1..n \union {n + 1}
    OBVIOUS
<1> QED BY <1>1 DEF Scanned, Ids

\* A good rule whose id is new keeps the ids different.
LEMMA ScanGood ==
    ASSUME NEW f, NEW n \in Nat, Scanned(f, n), GoodRule(f.rules[n + 1]),
           f.rules[n + 1].id \notin Ids(f, n)
    PROVE  Scanned(f, n + 1) /\ Ids(f, n + 1) = Ids(f, n) \union {f.rules[n + 1].id}
<1>1. 1..(n + 1) = 1..n \union {n + 1}
    OBVIOUS
<1>2. f.rules[n + 1].decode # "newer"
    BY DEF GoodRule
<1>3. Ids(f, n + 1) = Ids(f, n) \union {f.rules[n + 1].id}
    BY <1>1, <1>2 DEF Ids
<1>4. \A x \in 1..n : f.rules[x].decode # "newer" => f.rules[x].id # f.rules[n + 1].id
    BY DEF Ids
<1>5. Scanned(f, n + 1)
    BY <1>1, <1>4 DEF Scanned
<1> QED BY <1>3, <1>5

\* A rejection is just when the file is faulty.
LEMMA RejectJust == ScanInv /\ Reject /\ Faulty(file) => ScanInv'
BY DEF ScanInv, Reject

\* A rule is rejected for what is wrong with the file, wherever that is.
LEMMA RejectRuleJust ==
    ASSUME PInv, CostInv, ScanInv, RejectRule
    PROVE  Faulty(file)
<1>1. phase = "rules" /\ at \in 1..Len(file.rules) /\ Rule = file.rules[at]
    BY DEF RejectRule, AtRule, PInv, Rule
<1>2. CASE Rule.decode = "error" \/ (Rule.decode = "ok" /\ (~CompileRule(Rule) \/ Rule.id = ""))
    BY <1>1, <1>2 DEF GoodRule, BadRule, Faulty
<1>3. CASE Rule.decode = "ok" /\ Rule.id \in seen
    <2>1. PICK x \in 1..(at - 1) : file.rules[x].decode # "newer" /\ file.rules[x].id = Rule.id
        BY <1>1, <1>3 DEF ScanInv, Ids
    <2>2. x \in 1..Len(file.rules) /\ x # at
        BY <1>1, <2>1
    <2> QED BY <1>1, <1>3, <2>1, <2>2 DEF DuplicateId, Faulty
<1>4. CASE Rule.decode = "ok" /\ ~FitsTotal(Rule)
    <2>1. Kept(candidate.rules, file, at - 1) /\ Costs(candidate.rules, 0, 0, total)
        BY <1>1 DEF ScanInv, CostInv
    <2>2. Rule \in RuleSet
        BY <1>1, FilesAreLists DEF PInv
    <2>3. total + TestBytes(Rule) > MaxTotalTestBytes
        BY <1>4, <2>2, BytesAreCounted DEF FitsTotal, CostInv
    <2>4. TooManyBytes(file)
        <3>1. candidate.rules \in Seq(RuleSet) /\ total \in Nat
            BY DEF PInv, Candidates, CostInv
        <3> QED BY <1>1, <1>4, <2>1, <2>3, <3>1 DEF TooManyBytes
    <2> QED BY <2>4 DEF Faulty
<1> QED BY <1>2, <1>3, <1>4 DEF RejectRule, FreshId

\* ScanInv holds of every run: the checks go through the whole file before the
\* first test runs, and what one of them refuses is a fault of the file.
THEOREM ScanInvHolds == Spec => []ScanInv
<1>1. Init => ScanInv
    BY DEF Init, ScanInv
<1>2. PInv /\ CostInv /\ ScanInv /\ [Next]_vars => ScanInv'
    <2> SUFFICES ASSUME PInv, CostInv, ScanInv, [Next]_vars PROVE ScanInv'
        OBVIOUS
    <2>a. /\ candidate \in Candidates /\ candidate.rules \in Seq(RuleSet)
          /\ candidate.prefixes \in Seq(PrefixSet)
          /\ Len(candidate.rules) \in Nat /\ Len(candidate.prefixes) \in Nat
          /\ at \in Nat \ {0}
        BY DEF PInv, Candidates
    <2>b. phase # "idle" =>
            /\ file.rules \in Seq(RuleSet) /\ file.prefixes \in Seq(PrefixSet)
            /\ Len(file.rules) \in Nat /\ Len(file.prefixes) \in Nat
        BY FilesAreLists DEF PInv
    <2>1. CASE Receive
        BY <2>1 DEF Receive, ScanInv
    <2>2. CASE CheckHeader
        <3>1. CASE HeaderFits(file)
            <4>1. /\ phase' = "rules" /\ UNCHANGED <<file, at, candidate, seen>>
                  /\ candidate = Nothing /\ at = 1 /\ seen = {}
                BY <2>2, <3>1 DEF CheckHeader, ScanInv
            <4>2. at - 1 = 0 /\ 1..0 = {} /\ at <= Len(file.rules) + 1
                BY <2>2, <2>b, <4>1 DEF CheckHeader
            <4>3. Scanned(file, 0) /\ Ids(file, 0) = {} /\ Kept(<<>>, file, 0)
                BY <4>2, NothingKept DEF Scanned, Ids
            <4> QED BY <3>1, <4>1, <4>2, <4>3 DEF ScanInv, Nothing
        <3>2. CASE ~HeaderFits(file)
            BY <2>2, <3>2, RejectJust DEF CheckHeader, Faulty
        <3> QED BY <3>1, <3>2
    <2>3. CASE SkipNewerRule \/ AddRule
        <3> DEFINE n == at - 1
        <3>1. /\ phase = "rules" /\ phase' = "rules" /\ at <= Len(file.rules)
              /\ at' = at + 1 /\ UNCHANGED file
            BY <2>3 DEF SkipNewerRule, AddRule, AtRule
        <3>2. n \in Nat /\ n + 1 = at /\ at' - 1 = at /\ at' <= Len(file.rules) + 1
            BY <2>a, <2>b, <3>1
        <3>3. /\ Scanned(file, n) /\ Kept(candidate.rules, file, n) /\ seen = Ids(file, n)
              /\ candidate.prefixes = <<>> /\ HeaderFits(file)
            BY <3>1 DEF ScanInv
        <3>4. Rule = file.rules[n + 1]
            BY <3>2 DEF Rule
        <3> HIDE DEF n
        <3>5. CASE SkipNewerRule
            <4>1. /\ candidate'.rules = candidate.rules
                  /\ candidate'.prefixes = candidate.prefixes /\ seen' = seen
                BY <2>a, <3>5 DEF SkipNewerRule, Candidates
            <4>2. file.rules[n + 1].decode = "newer"
                BY <3>4, <3>5 DEF SkipNewerRule
            <4>3. Scanned(file, n + 1) /\ Ids(file, n + 1) = Ids(file, n)
                BY <3>2, <3>3, <4>2, ScanNewer
            <4>4. Kept(candidate.rules, file, n + 1)
                BY <2>a, <3>2, <3>3, <4>2, NewerNotKept
            <4> QED BY <3>1, <3>2, <3>3, <4>1, <4>3, <4>4 DEF ScanInv
        <3>6. CASE AddRule
            <4>1. /\ candidate'.rules = Append(candidate.rules, Rule)
                  /\ candidate'.prefixes = candidate.prefixes /\ seen' = seen \union {Rule.id}
                BY <2>a, <3>6 DEF AddRule, Candidates
            <4>2. GoodRule(file.rules[n + 1]) /\ file.rules[n + 1].id \notin Ids(file, n)
                BY <3>3, <3>4, <3>6 DEF AddRule, GoodRule, FreshId
            <4>3. /\ Scanned(file, n + 1)
                  /\ Ids(file, n + 1) = Ids(file, n) \union {file.rules[n + 1].id}
                BY <3>2, <3>3, <4>2, ScanGood
            <4>4. file.rules[n + 1] \in RuleSet /\ file.rules[n + 1].decode # "newer"
                <5>1. file.rules \in Seq(RuleSet) /\ n + 1 \in 1..Len(file.rules)
                    BY <2>a, <2>b, <3>1, <3>2
                <5>2. file.rules[n + 1] \in RuleSet
                    BY <5>1
                <5> QED BY <4>2, <5>2 DEF GoodRule
            <4>5. Kept(Append(candidate.rules, file.rules[n + 1]), file, n + 1)
                BY <2>a, <3>2, <3>3, <4>4, RuleKept
            <4> QED BY <3>1, <3>2, <3>3, <3>4, <4>1, <4>3, <4>5 DEF ScanInv
        <3> QED BY <2>3, <3>5, <3>6
    <2>4. CASE RejectRule
        BY <2>4, RejectRuleJust, RejectJust DEF RejectRule
    <2>5. CASE RulesDone
        <3>1. /\ phase = "rules" /\ phase' = "prefixes" /\ at > Len(file.rules) /\ at' = 1
              /\ UNCHANGED <<file, candidate>>
            BY <2>5 DEF RulesDone
        <3>2. at - 1 = Len(file.rules)
            BY <2>a, <2>b, <3>1 DEF ScanInv
        <3>3. Len(candidate.prefixes) = 0
            BY <3>1 DEF ScanInv
        <3>4. at' - 1 = 0 /\ at' <= Len(file.prefixes) + 1 /\ 1..0 = {}
            BY <2>b, <3>1
        <3> QED BY <3>1, <3>2, <3>3, <3>4 DEF ScanInv
    <2>6. CASE CheckPrefix
        <3> DEFINE prefix == file.prefixes[at]
        <3>1. phase = "prefixes" /\ at \in 1..Len(file.prefixes)
            BY <2>a, <2>b, <2>6 DEF CheckPrefix
        <3>2. CASE UsablePrefix(prefix)
            <4>1. /\ phase' = "prefixes" /\ at' = at + 1 /\ UNCHANGED file
                  /\ candidate'.prefixes = Append(candidate.prefixes, prefix)
                  /\ candidate'.rules = candidate.rules
                BY <2>a, <2>6, <3>1, <3>2 DEF CheckPrefix, Candidates
            <4>2. prefix \in PrefixSet /\ Len(candidate.prefixes) = at - 1
                BY <2>b, <3>1 DEF ScanInv
            <4>3. /\ at' - 1 = at /\ at' <= Len(file.prefixes) + 1
                  /\ Len(candidate'.prefixes) = at' - 1
                BY <2>a, <2>b, <3>1, <4>1, <4>2
            <4>4. \A k \in 1..at : /\ candidate'.prefixes[k] = file.prefixes[k]
                                   /\ UsablePrefix(file.prefixes[k])
                <5> SUFFICES ASSUME NEW k \in 1..at
                             PROVE  /\ candidate'.prefixes[k] = file.prefixes[k]
                                    /\ UsablePrefix(file.prefixes[k])
                    OBVIOUS
                <5>1. CASE k = at
                    BY <2>a, <3>2, <4>1, <4>2, <5>1
                <5>2. CASE k # at
                    <6>1. k \in 1..(at - 1)
                        BY <2>a, <5>2
                    <6>2. candidate'.prefixes[k] = candidate.prefixes[k]
                        BY <2>a, <4>1, <4>2, <6>1
                    <6> QED BY <3>1, <6>1, <6>2 DEF ScanInv
                <5> QED BY <5>1, <5>2
            <4> QED BY <3>1, <4>1, <4>3, <4>4 DEF ScanInv
        <3>3. CASE ~UsablePrefix(prefix)
            <4>1. prefix \in Range(file.prefixes)
                BY <2>b, <3>1 DEF Range
            <4>2. Faulty(file)
                BY <3>3, <4>1 DEF Faulty
            <4> QED BY <2>6, <3>3, <4>2, RejectJust DEF CheckPrefix
        <3> QED BY <3>2, <3>3
    <2>7. CASE PrefixesDone
        <3>1. /\ phase = "prefixes" /\ phase' = "tests" /\ at > Len(file.prefixes) /\ at' = 1
              /\ UNCHANGED <<file, candidate>>
            BY <2>7 DEF PrefixesDone
        <3>2. at - 1 = Len(file.prefixes) /\ at' <= Len(candidate.rules) + 1
            BY <2>a, <2>b, <3>1 DEF ScanInv
        <3>3. /\ Len(candidate.prefixes) = Len(file.prefixes)
              /\ \A k \in 1..Len(file.prefixes) : /\ candidate.prefixes[k] = file.prefixes[k]
                                                  /\ UsablePrefix(file.prefixes[k])
            BY <3>1, <3>2 DEF ScanInv
        <3>4. candidate.prefixes = file.prefixes
            BY <2>a, <2>b, <3>1, <3>3, SeqEqual
        <3>5. \A p \in Range(file.prefixes) : UsablePrefix(p)
            BY <2>b, <3>1, <3>3 DEF Range
        <3> QED BY <3>1, <3>2, <3>4, <3>5 DEF ScanInv
    <2>8. CASE TestRule
        <3>1. phase = "tests" /\ at \in 1..Len(candidate.rules)
            BY <2>a, <2>8 DEF TestRule
        <3>2. CASE SelfTest(candidate.rules[at])
            <4>1. at' = at + 1 /\ UNCHANGED <<file, phase, candidate>>
                BY <2>8, <3>2 DEF TestRule
            <4>2. at' <= Len(candidate.rules) + 1
                BY <2>a, <3>1, <4>1
            <4> QED BY <3>1, <4>1, <4>2 DEF ScanInv
        <3>3. CASE ~SelfTest(candidate.rules[at])
            <4>1. candidate.rules[at] \in Range(candidate.rules)
                BY <2>a, <3>1 DEF Range
            <4>2. candidate.rules \in Seq(RuleSet)
                BY DEF PInv, Candidates
            <4>3. Faulty(file)
                BY <3>1, <3>3, <4>1, <4>2 DEF SelfTest, FailingTest, Faulty, ScanInv
            <4> QED BY <2>8, <3>3, <4>3, RejectJust DEF TestRule
        <3> QED BY <3>2, <3>3
    <2>9. CASE Install
        <3>1. /\ phase = "tests" /\ phase' = "installed" /\ active' = candidate
              /\ at > Len(candidate.rules) /\ UNCHANGED <<file, at, candidate>>
            BY <2>9 DEF Install
        <3>2. at = Len(candidate.rules) + 1
            BY <2>a, <3>1 DEF ScanInv
        <3> QED BY <3>1, <3>2 DEF ScanInv
    <2>10. CASE UNCHANGED vars
        BY <2>10 DEF vars, ScanInv
    <2> QED BY <2>1, <2>2, <2>3, <2>4, <2>5, <2>6, <2>7, <2>8, <2>9, <2>10 DEF Next
<1>3. Spec => []PInv
    BY PInvInit, PInvStep, PTL DEF Spec
<1> QED BY <1>1, <1>2, <1>3, CostInvHolds, PTL DEF Spec

\* Keep-last-good rests on this verdict: an installed file is sound as a whole,
\* every rule that the engine understands is in force, in the file's order and
\* once, and a file is rejected only for a fault of its own.
THEOREM VerdictIsJust == Spec => []JustVerdict
<1>1. PInv /\ CostInv /\ ScanInv => JustVerdict
    <2> SUFFICES ASSUME PInv, CostInv, ScanInv, phase = "installed"
                 PROVE  Sound(file, active)
        BY DEF JustVerdict, ScanInv
    <2>1. active = candidate /\ total \in 0..MaxTotalTestBytes
        BY BytesAreCounted DEF ScanInv, CostInv
    <2>2. Costs(active.rules, 0, 0, total)
        BY <2>1 DEF CostInv, Costs
    <2>3. \A r \in Range(active.rules) : RuleTestsPass(active.rules, active.prefixes, r)
        BY DEF PInv, ActivePassesItsTests
    <2> QED BY <2>1, <2>2, <2>3 DEF ScanInv, Sound
<1>2. Spec => []PInv
    BY PInvInit, PInvStep, PTL DEF Spec
<1> QED BY <1>1, <1>2, CostInvHolds, ScanInvHolds, PTL

-----------------------------------------------------------------------------
(***************************************************************************)
(* The two folds of ValidFile.                                             *)
(***************************************************************************)
Bytes(rules) == FoldLeft(LAMBDA n, r : n + TestBytes(r), 0, rules)
BytesFrom(rules, sums, s) ==
    IF s = {} THEN 0 ELSE sums[s \ {Max(s)}] + TestBytes(rules[Max(s)])
BytesFold(rules, sums) == sums = [s \in SUBSET DOMAIN rules |-> BytesFrom(rules, sums, s)]

\* The bytes of a list are the last of its partial sums.
LEMMA BytesUnfold ==
    ASSUME NEW rules \in Seq(RuleSet)
    PROVE  \E sums : /\ sums[0] = 0
                     /\ \A k \in 1..Len(rules) : sums[k] = sums[k - 1] + TestBytes(rules[k])
                     /\ sums[Len(rules)] = Bytes(rules)
<1> DEFINE n == Len(rules)
           step == [k \in 1..n |-> [b \in Nat |-> b + TestBytes(rules[k])]]
           chosen == CHOOSE sums : BytesFold(rules, sums)
<1>1. n \in Nat /\ DOMAIN rules = 1..n
    OBVIOUS
<1>2. \A k \in 1..n : TestBytes(rules[k]) \in Nat
    BY BytesAreCounted
<1>3. step \in [1..n -> [Nat -> Nat]]
    BY <1>2
<1>4. \A k \in 1..n, b \in Nat : step[k][b] = b + TestBytes(rules[k])
    OBVIOUS
<1> HIDE DEF n, step
<1>5. PICK fold : Folds(fold, SUBSET (1..n), Nat, step, 0)
    BY <1>1, <1>3, FoldExists
<1>6. BytesFold(rules, fold)
    <2>1. fold = [s \in SUBSET (1..n) |-> fold[s]]
        BY <1>5 DEF Folds
    <2>2. ASSUME NEW s \in SUBSET (1..n) PROVE fold[s] = BytesFrom(rules, fold, s)
        <3>1. fold[s] = FoldOf(fold, step, 0, s)
            BY <1>5 DEF Folds
        <3>2. s # {} => Max(s) \in 1..n /\ s \ {Max(s)} \in SUBSET (1..n)
            BY <1>1, SetOfPlaces
        <3>3. s # {} => fold[s \ {Max(s)}] \in Nat
            BY <1>5, <3>2 DEF Folds
        <3> QED BY <1>4, <3>1, <3>2, <3>3 DEF FoldOf, BytesFrom
    <2>3. fold = [s \in SUBSET (1..n) |-> BytesFrom(rules, fold, s)]
        BY <2>1, <2>2
    <2> QED BY <1>1, <2>3 DEF BytesFold
<1>7. BytesFold(rules, chosen)
    BY <1>6
<1>8. Bytes(rules) = chosen[DOMAIN rules]
    BY DEF Bytes, BytesFold, BytesFrom, FoldLeft, MapThenFoldSet
<1>9. PICK sums : sums = chosen
    OBVIOUS
<1> HIDE DEF chosen
<1>10. \A s \in SUBSET (1..n) : sums[s] = BytesFrom(rules, sums, s)
    BY <1>1, <1>7, <1>9 DEF BytesFold
<1>11. sums[1..0] = 0
    <2>1. 1..0 = {} /\ 1..0 \in SUBSET (1..n)
        OBVIOUS
    <2> QED BY <1>10, <2>1 DEF BytesFrom
<1>12. ASSUME NEW k \in 1..n PROVE sums[1..k] = sums[1..(k - 1)] + TestBytes(rules[k])
    <2>1. 1..k \in SUBSET (1..n) /\ 1..k # {} /\ k \in Nat \ {0}
        BY <1>1
    <2>2. Max(1..k) = k /\ (1..k) \ {k} = 1..(k - 1)
        BY <2>1, MaxOfInterval
    <2> QED BY <1>10, <2>1, <2>2 DEF BytesFrom
<1> DEFINE along == [k \in 0..n |-> sums[1..k]]
<1>13. \A k \in 0..n : along[k] = sums[1..k]
    OBVIOUS
<1> HIDE DEF along
<1>14. /\ along[0] = 0
       /\ \A k \in 1..n : along[k] = along[k - 1] + TestBytes(rules[k])
       /\ along[n] = Bytes(rules)
    BY <1>1, <1>8, <1>9, <1>11, <1>12, <1>13
<1> QED BY <1>14 DEF n

\* The sum is the one along the partial sums that Costs speaks of.
LEMMA BytesAreCosts ==
    ASSUME NEW rules \in Seq(RuleSet), NEW bytes, Costs(rules, 0, 0, bytes)
    PROVE  Bytes(rules) = bytes
<1> DEFINE n == Len(rules)
<1>1. n \in Nat
    OBVIOUS
<1>2. PICK sums \in [0..n -> Nat] :
        /\ sums[0] = 0
        /\ \A k \in 1..n : sums[k] = sums[k - 1] + TestBytes(rules[k])
        /\ sums[n] = bytes
    BY DEF Costs
<1>3. PICK along : /\ along[0] = 0
                   /\ \A k \in 1..n : along[k] = along[k - 1] + TestBytes(rules[k])
                   /\ along[n] = Bytes(rules)
    BY BytesUnfold
<1> HIDE DEF n
<1> DEFINE T == {k \in Nat : k <= n /\ along[k] # sums[k]}
<1>4. ASSUME T # {} PROVE FALSE
    <2>1. PICK k \in T : \A m \in T : k <= m
        BY <1>4, LeastNumber
    <2>2. k \in 1..n /\ along[k] # sums[k]
        BY <1>1, <1>2, <1>3, <2>1
    <2>3. k - 1 \in Nat /\ k - 1 <= n /\ ~(k <= k - 1)
        BY <1>1, <2>2
    <2>4. along[k - 1] = sums[k - 1]
        BY <2>1, <2>3
    <2> QED BY <1>2, <1>3, <2>2, <2>4
<1>5. n \notin T
    <2> HIDE DEF T
    <2> QED BY <1>4
<1> QED BY <1>1, <1>2, <1>3, <1>5

KeptFrom(f, kept, s) ==
    IF s = {} THEN <<>>
    ELSE IF f.rules[Max(s)].decode = "newer" THEN kept[s \ {Max(s)}]
    ELSE Append(kept[s \ {Max(s)}], f.rules[Max(s)])
KeptFold(f, kept) == kept = [s \in SUBSET DOMAIN f.rules |-> KeptFrom(f, kept, s)]

\* What is understood of the first so many rules of a file.
KeptAlong(f, kept) ==
    /\ kept[0] = <<>>
    /\ \A k \in 1..Len(f.rules) :
          kept[k] = IF f.rules[k].decode = "newer" THEN kept[k - 1]
                    ELSE Append(kept[k - 1], f.rules[k])
    /\ kept[Len(f.rules)] = Understood(f)

\* What is understood of a file grows rule by rule.
LEMMA UnderstoodUnfolds ==
    ASSUME NEW f \in Files PROVE \E kept : KeptAlong(f, kept)
<1> DEFINE n == Len(f.rules)
           V == Seq(RuleSet)
           step == [k \in 1..n |-> [rules \in V |->
                       IF f.rules[k].decode = "newer" THEN rules ELSE Append(rules, f.rules[k])]]
           chosen == CHOOSE kept : KeptFold(f, kept)
<1>1. n \in Nat /\ DOMAIN f.rules = 1..n /\ f.rules \in Seq(RuleSet)
    BY FilesAreLists
<1>2. \A k \in 1..n : f.rules[k] \in RuleSet
    BY <1>1
<1>3. <<>> \in V /\ \A rules \in V, r \in RuleSet : Append(rules, r) \in V
    OBVIOUS
<1> HIDE DEF n, V
<1>4. step \in [1..n -> [V -> V]]
    BY <1>2, <1>3
<1>5. \A k \in 1..n, rules \in V :
         step[k][rules] = IF f.rules[k].decode = "newer" THEN rules ELSE Append(rules, f.rules[k])
    OBVIOUS
<1> HIDE DEF step
<1>6. PICK fold : Folds(fold, SUBSET (1..n), V, step, <<>>)
    BY <1>1, <1>3, <1>4, FoldExists
<1>7. KeptFold(f, fold)
    <2>1. fold = [s \in SUBSET (1..n) |-> fold[s]]
        BY <1>6 DEF Folds
    <2>2. ASSUME NEW s \in SUBSET (1..n) PROVE fold[s] = KeptFrom(f, fold, s)
        <3>1. fold[s] = FoldOf(fold, step, <<>>, s)
            BY <1>6 DEF Folds
        <3>2. s # {} => Max(s) \in 1..n /\ s \ {Max(s)} \in SUBSET (1..n)
            BY <1>1, SetOfPlaces
        <3>3. s # {} => fold[s \ {Max(s)}] \in V
            BY <1>6, <3>2 DEF Folds
        <3> QED BY <1>5, <3>1, <3>2, <3>3 DEF FoldOf, KeptFrom
    <2>3. fold = [s \in SUBSET (1..n) |-> KeptFrom(f, fold, s)]
        BY <2>1, <2>2
    <2> QED BY <1>1, <2>3 DEF KeptFold
<1>8. KeptFold(f, chosen)
    BY <1>7
<1>9. Understood(f) = chosen[DOMAIN f.rules]
    BY DEF Understood, KeptFold, KeptFrom, FoldLeft, MapThenFoldSet
<1>10. PICK kept : kept = chosen
    OBVIOUS
<1> HIDE DEF chosen
<1>11. \A s \in SUBSET (1..n) : kept[s] = KeptFrom(f, kept, s)
    BY <1>1, <1>8, <1>10 DEF KeptFold
<1>12. kept[1..0] = <<>>
    <2>1. 1..0 = {} /\ 1..0 \in SUBSET (1..n)
        OBVIOUS
    <2> QED BY <1>11, <2>1 DEF KeptFrom
<1>13. ASSUME NEW k \in 1..n
       PROVE  kept[1..k] = IF f.rules[k].decode = "newer" THEN kept[1..(k - 1)]
                           ELSE Append(kept[1..(k - 1)], f.rules[k])
    <2> n \in Nat
        BY <1>1
    <2>1. 1..k \in SUBSET (1..n) /\ 1..k # {} /\ k \in Nat \ {0}
        OBVIOUS
    <2>2. Max(1..k) = k /\ (1..k) \ {k} = 1..(k - 1)
        BY <2>1, MaxOfInterval
    <2> QED BY <1>11, <2>1, <2>2 DEF KeptFrom
<1> DEFINE along == [k \in 0..n |-> kept[1..k]]
<1>14. \A k \in 0..n : along[k] = kept[1..k]
    OBVIOUS
<1> HIDE DEF along
<1>15. /\ along[0] = <<>>
       /\ along[n] = Understood(f)
       /\ \A k \in 1..n : along[k] = IF f.rules[k].decode = "newer" THEN along[k - 1]
                                     ELSE Append(along[k - 1], f.rules[k])
    BY <1>1, <1>9, <1>10, <1>12, <1>13, <1>14
<1>16. KeptAlong(f, along)
    BY <1>15 DEF KeptAlong, n
<1> QED BY <1>16

-----------------------------------------------------------------------------
(***************************************************************************)
(* Kept determines the rules it keeps.                                     *)
(***************************************************************************)
Positions(rules, f, n, pos) ==
    /\ pos \in [1..Len(rules) -> 1..n]
    /\ \A k, l \in 1..Len(rules) : k < l => pos[k] < pos[l]
    /\ \A k \in 1..Len(rules) : rules[k] = f.rules[pos[k]] /\ rules[k].decode # "newer"
    /\ \A x \in 1..n : f.rules[x].decode # "newer" => \E k \in 1..Len(rules) : pos[k] = x

\* Kept is to have positions.
LEMMA PositionsOfKept ==
    ASSUME NEW rules, NEW f, NEW n, Kept(rules, f, n)
    PROVE  \E pos : Positions(rules, f, n, pos)
BY DEF Kept, Positions

\* Where one list of kept rules goes on, another one of the same rules does so with
\* the same rule.
LEMMA PositionsAgree ==
    ASSUME NEW a \in Seq(RuleSet), NEW b \in Seq(RuleSet), NEW f, NEW n \in Nat,
           NEW p, Positions(a, f, n, p), NEW q, Positions(b, f, n, q),
           NEW k \in 1..Len(a),
           \A l \in 1..(k - 1) : l <= Len(b) /\ p[l] = q[l]
    PROVE  k <= Len(b) /\ q[k] <= p[k]
<1>1. Len(a) \in Nat /\ Len(b) \in Nat /\ k \in Nat
    OBVIOUS
<1>2. p[k] \in 1..n /\ f.rules[p[k]].decode # "newer"
    BY DEF Positions
<1>3. PICK l \in 1..Len(b) : q[l] = p[k]
    BY <1>2 DEF Positions
<1>4. ~(l < k)
    <2>1. ASSUME l < k PROVE FALSE
        <3>1. l \in 1..(k - 1) /\ l \in 1..Len(a)
            BY <1>1, <2>1
        <3>2. p[l] = q[l] /\ p[l] < p[k]
            BY <2>1, <3>1 DEF Positions
        <3>3. p[l] \in 1..n
            BY <3>1 DEF Positions
        <3> QED BY <1>2, <1>3, <3>2, <3>3
    <2> QED BY <2>1
<1>5. k \in 1..Len(b)
    BY <1>1, <1>4
<1>6. q[k] \in 1..n /\ q[l] \in 1..n /\ (k < l => q[k] < q[l])
    BY <1>5 DEF Positions
<1>7. l = k \/ k < l
    BY <1>1, <1>4
<1> QED BY <1>1, <1>2, <1>3, <1>5, <1>6, <1>7

\* Of the same rules of a file only one list can be kept.
LEMMA KeptIsUnique ==
    ASSUME NEW a \in Seq(RuleSet), NEW b \in Seq(RuleSet), NEW f, NEW n \in Nat,
           Kept(a, f, n), Kept(b, f, n)
    PROVE  a = b
<1>1. PICK p : Positions(a, f, n, p)
    BY PositionsOfKept
<1>2. PICK q : Positions(b, f, n, q)
    BY PositionsOfKept
<1>3. Len(a) \in Nat /\ Len(b) \in Nat
    OBVIOUS
<1> DEFINE T == {k \in Nat : /\ k \in 1..Len(a) \/ k \in 1..Len(b)
                             /\ ~(k \in 1..Len(a) /\ k \in 1..Len(b) /\ p[k] = q[k])}
<1>4. ASSUME T # {} PROVE FALSE
    <2>1. PICK k \in T : \A m \in T : k <= m
        BY <1>4, LeastNumber
    <2>2. /\ k \in Nat
          /\ k \in 1..Len(a) \/ k \in 1..Len(b)
          /\ ~(k \in 1..Len(a) /\ k \in 1..Len(b) /\ p[k] = q[k])
        BY <2>1
    <2>3. \A l \in 1..(k - 1) : l \in Nat /\ ~(k <= l) /\ (l \in 1..Len(a) \/ l \in 1..Len(b))
        BY <1>3, <2>2
    <2>4. \A l \in 1..(k - 1) : l \notin T
        BY <2>1, <2>3
    <2>5. \A l \in 1..(k - 1) : l \in 1..Len(a) /\ l \in 1..Len(b) /\ p[l] = q[l]
        BY <2>3, <2>4
    <2> HIDE DEF T
    <2>6. ASSUME k \in 1..Len(a) PROVE k <= Len(b) /\ q[k] <= p[k]
        <3>1. \A l \in 1..(k - 1) : l <= Len(b) /\ p[l] = q[l]
            BY <1>3, <2>5
        <3> QED BY <1>1, <1>2, <2>6, <3>1, PositionsAgree
    <2>7. ASSUME k \in 1..Len(b) PROVE k <= Len(a) /\ p[k] <= q[k]
        <3>1. \A l \in 1..(k - 1) : l <= Len(a) /\ q[l] = p[l]
            BY <1>3, <2>5
        <3> QED BY <1>1, <1>2, <2>7, <3>1, PositionsAgree
    <2>8. k \in 1..Len(a) /\ k \in 1..Len(b)
        BY <1>3, <2>2, <2>6, <2>7
    <2>9. p[k] \in 1..n /\ q[k] \in 1..n
        BY <1>1, <1>2, <2>8 DEF Positions
    <2> QED BY <2>2, <2>6, <2>7, <2>8, <2>9
<1>5. \A k : (k \in 1..Len(a) \/ k \in 1..Len(b)) => k \in Nat /\ k \notin T
    <2> HIDE DEF T
    <2> QED BY <1>3, <1>4
<1>6. \A k : (k \in 1..Len(a) \/ k \in 1..Len(b)) =>
             k \in 1..Len(a) /\ k \in 1..Len(b) /\ p[k] = q[k]
    BY <1>5
<1> HIDE DEF T
<1>7. Len(a) = Len(b)
    <2>1. Len(a) = 0 \/ Len(a) \in 1..Len(a)
        BY <1>3
    <2>2. Len(b) = 0 \/ Len(b) \in 1..Len(b)
        BY <1>3
    <2> QED BY <1>3, <1>6, <2>1, <2>2
<1>8. \A k \in 1..Len(a) : a[k] = b[k]
    BY <1>1, <1>2, <1>6 DEF Positions
<1> QED BY <1>7, <1>8

-----------------------------------------------------------------------------
(***************************************************************************)
(* The verdict in the words of the property.                               *)
(***************************************************************************)

\* What is understood of each part of a file is kept of it, and bytes that are too
\* many do not become fewer.
LEMMA UnderstoodIsKept ==
    ASSUME NEW f \in Files, NEW kept, KeptAlong(f, kept)
    PROVE  \A k \in 0..Len(f.rules) : kept[k] \in Seq(RuleSet) /\ Kept(kept[k], f, k)
<1>1. Len(f.rules) \in Nat /\ f.rules \in Seq(RuleSet)
    BY FilesAreLists
<1> DEFINE T == {k \in Nat : /\ k <= Len(f.rules)
                             /\ ~(kept[k] \in Seq(RuleSet) /\ Kept(kept[k], f, k))}
<1>2. ASSUME T # {} PROVE FALSE
    <2>1. PICK k \in T : \A m \in T : k <= m
        BY <1>2, LeastNumber
    <2>2. k \in Nat /\ k <= Len(f.rules) /\ ~(kept[k] \in Seq(RuleSet) /\ Kept(kept[k], f, k))
        BY <2>1
    <2>3. k # 0
        <3>1. kept[0] = <<>> /\ <<>> \in Seq(RuleSet)
            BY DEF KeptAlong
        <3>2. Kept(<<>>, f, 0)
            BY NothingKept
        <3> QED BY <2>2, <3>1, <3>2
    <2>4. k - 1 \in Nat /\ ~(k <= k - 1) /\ k - 1 <= Len(f.rules) /\ (k - 1) + 1 = k
        BY <1>1, <2>2, <2>3
    <2>5. kept[k - 1] \in Seq(RuleSet) /\ Kept(kept[k - 1], f, k - 1)
        BY <2>1, <2>4
    <2>6. k \in 1..Len(f.rules) /\ f.rules[k] \in RuleSet
        BY <1>1, <2>2, <2>3
    <2> HIDE DEF T
    <2>7. CASE f.rules[k].decode = "newer"
        <3>1. kept[k] = kept[k - 1]
            BY <2>6, <2>7 DEF KeptAlong
        <3>2. Kept(kept[k - 1], f, (k - 1) + 1)
            BY <2>4, <2>5, <2>7, NewerNotKept
        <3> QED BY <2>2, <2>4, <2>5, <3>1, <3>2
    <2>8. CASE f.rules[k].decode # "newer"
        <3>1. kept[k] = Append(kept[k - 1], f.rules[k])
            BY <2>6, <2>8 DEF KeptAlong
        <3>2. Kept(Append(kept[k - 1], f.rules[k]), f, (k - 1) + 1)
            BY <2>4, <2>5, <2>6, <2>8, RuleKept
        <3>3. Append(kept[k - 1], f.rules[k]) \in Seq(RuleSet)
            BY <2>5, <2>6
        <3> QED BY <2>2, <2>4, <3>1, <3>2, <3>3
    <2> QED BY <2>7, <2>8
<1>3. \A k \in 0..Len(f.rules) : k \in Nat /\ k <= Len(f.rules) /\ k \notin T
    <2> HIDE DEF T
    <2> QED BY <1>1, <1>2
<1> QED BY <1>3

\* Bytes that are too many by some rule are too many at the end.
LEMMA TooManyStay ==
    ASSUME NEW f \in Files, NEW kept, KeptAlong(f, kept), NEW n \in 1..Len(f.rules),
           NEW many \in Nat, Costs(kept[n], 0, 0, many), many > MaxTotalTestBytes
    PROVE  \E all \in Nat : all = Bytes(Understood(f)) /\ all > MaxTotalTestBytes
<1>1. Len(f.rules) \in Nat /\ f.rules \in Seq(RuleSet) /\ MaxTotalTestBytes \in Nat
    BY FilesAreLists, BytesAreCounted
<1>2. \A k \in 0..Len(f.rules) : kept[k] \in Seq(RuleSet)
    BY UnderstoodIsKept
<1> DEFINE TooMany(k) == \E m \in Nat : m > MaxTotalTestBytes /\ Costs(kept[k], 0, 0, m)
           T == {k \in Nat : n <= k /\ k <= Len(f.rules) /\ ~TooMany(k)}
<1>3. TooMany(n)
    OBVIOUS
<1>4. ASSUME T # {} PROVE FALSE
    <2>1. PICK k \in T : \A m \in T : k <= m
        BY <1>4, LeastNumber
    <2>2. k \in Nat /\ n <= k /\ k <= Len(f.rules) /\ ~TooMany(k)
        BY <2>1
    <2>3. k # n
        BY <1>3, <2>2
    <2>4. /\ k - 1 \in Nat /\ ~(k <= k - 1) /\ k - 1 <= Len(f.rules) /\ n <= k - 1
          /\ k \in 1..Len(f.rules) /\ k - 1 \in 0..Len(f.rules)
        BY <1>1, <2>2, <2>3
    <2>5. TooMany(k - 1)
        BY <2>1, <2>4
    <2> HIDE DEF T
    <2>6. PICK m \in Nat : m > MaxTotalTestBytes /\ Costs(kept[k - 1], 0, 0, m)
        BY <2>5
    <2>7. CASE f.rules[k].decode = "newer"
        <3>1. kept[k] = kept[k - 1]
            BY <2>4, <2>7 DEF KeptAlong
        <3> QED BY <2>2, <2>6, <3>1
    <2>8. CASE f.rules[k].decode # "newer"
        <3>1. kept[k] = Append(kept[k - 1], f.rules[k])
            BY <2>4, <2>8 DEF KeptAlong
        <3>2. f.rules[k] \in RuleSet /\ TestBytes(f.rules[k]) \in Nat
            BY <1>1, <2>4, BytesAreCounted
        <3>3. Costs(kept[k], 0, 0, m + TestBytes(f.rules[k]))
            BY <1>2, <2>4, <2>6, <3>1, <3>2, RuleCosts
        <3>4. m + TestBytes(f.rules[k]) \in Nat /\ m + TestBytes(f.rules[k]) > MaxTotalTestBytes
            BY <1>1, <2>6, <3>2
        <3> QED BY <2>2, <3>3, <3>4
    <2> QED BY <2>7, <2>8
<1>5. Len(f.rules) \notin T
    <2> HIDE DEF T
    <2> QED BY <1>4
<1>6. TooMany(Len(f.rules))
    BY <1>1, <1>5
<1>7. PICK m \in Nat : m > MaxTotalTestBytes /\ Costs(Understood(f), 0, 0, m)
    BY <1>6 DEF KeptAlong
<1>8. Understood(f) \in Seq(RuleSet)
    BY <1>1, <1>2 DEF KeptAlong
<1> QED BY <1>7, <1>8, BytesAreCosts

\* A sound set is what is understood of a valid file.
LEMMA SoundIsValid ==
    ASSUME NEW f \in Files, NEW set, set.rules \in Seq(RuleSet), Sound(f, set)
    PROVE  ValidFile(f) /\ set.rules = Understood(f) /\ set.prefixes = f.prefixes
<1> DEFINE rules == set.rules
<1>1. Len(f.rules) \in Nat /\ f.rules \in Seq(RuleSet) /\ MaxTotalTestBytes \in Nat
    BY FilesAreLists, BytesAreCounted
<1>2. PICK kept : KeptAlong(f, kept)
    BY UnderstoodUnfolds
<1>3. Understood(f) \in Seq(RuleSet) /\ Kept(Understood(f), f, Len(f.rules))
    BY <1>1, <1>2, UnderstoodIsKept DEF KeptAlong
<1>4. Kept(rules, f, Len(f.rules)) /\ Scanned(f, Len(f.rules)) /\ HeaderFits(f)
    BY DEF Sound
<1>5. rules = Understood(f)
    BY <1>1, <1>3, <1>4, KeptIsUnique
<1>6. PICK p : Positions(rules, f, Len(f.rules), p)
    BY <1>4, PositionsOfKept
<1>7. DOMAIN rules = 1..Len(rules) /\ Len(rules) \in Nat
    OBVIOUS
<1>8. ASSUME NEW r \in Range(rules) PROVE r.decode = "ok" /\ r.id # "" /\ CompileRule(r)
    <2>1. PICK k \in 1..Len(rules) : r = rules[k]
        BY <1>7, <1>8 DEF Range
    <2>2. p[k] \in 1..Len(f.rules) /\ r = f.rules[p[k]] /\ r.decode # "newer"
        BY <1>6, <2>1 DEF Positions
    <2> QED BY <1>4, <2>2 DEF Scanned, GoodRule
<1>9. ASSUME NEW k \in DOMAIN rules, NEW l \in DOMAIN rules, rules[k].id = rules[l].id
      PROVE  k = l
    <2>1. /\ p[k] \in 1..Len(f.rules) /\ p[l] \in 1..Len(f.rules)
          /\ rules[k] = f.rules[p[k]] /\ rules[l] = f.rules[p[l]]
          /\ rules[k].decode # "newer" /\ rules[l].decode # "newer"
          /\ (k < l => p[k] < p[l]) /\ (l < k => p[l] < p[k])
        BY <1>6, <1>7, <1>9 DEF Positions
    <2>2. p[k] = p[l]
        BY <1>4, <1>9, <2>1 DEF Scanned
    <2> QED BY <1>7, <2>1, <2>2
<1>10. Bytes(rules) <= MaxTotalTestBytes
    <2>1. PICK bytes \in 0..MaxTotalTestBytes : Costs(rules, 0, 0, bytes)
        BY DEF Sound
    <2>2. Bytes(rules) = bytes
        BY <2>1, BytesAreCosts
    <2> QED BY <1>1, <2>1, <2>2
<1>11. /\ \A q \in Range(f.prefixes) : UsablePrefix(q)
       /\ \A r \in Range(rules) : RuleTestsPass(rules, f.prefixes, r)
       /\ set.prefixes = f.prefixes
    BY DEF Sound
<1> HIDE DEF rules
<1>12. ValidFile(f)
    BY <1>4, <1>5, <1>8, <1>9, <1>10, <1>11 DEF ValidFile, Bytes
<1> QED BY <1>5, <1>11, <1>12 DEF rules

\* A file with a fault is not valid.
LEMMA FaultyIsInvalid ==
    ASSUME NEW f \in Files, Faulty(f), ValidFile(f) PROVE FALSE
<1> DEFINE rules == Understood(f)
<1>1. Len(f.rules) \in Nat /\ f.rules \in Seq(RuleSet) /\ MaxTotalTestBytes \in Nat
    BY FilesAreLists, BytesAreCounted
<1>2. PICK kept : KeptAlong(f, kept)
    BY UnderstoodUnfolds
<1>3. \A k \in 0..Len(f.rules) : kept[k] \in Seq(RuleSet) /\ Kept(kept[k], f, k)
    BY <1>2, UnderstoodIsKept
<1>4. rules = kept[Len(f.rules)] /\ rules \in Seq(RuleSet) /\ Kept(rules, f, Len(f.rules))
    BY <1>1, <1>2, <1>3 DEF KeptAlong
<1>5. PICK p : Positions(rules, f, Len(f.rules), p)
    BY <1>4, PositionsOfKept
<1>6. DOMAIN rules = 1..Len(rules)
    BY <1>4
<1>7. /\ HeaderFits(f)
      /\ \A r \in Range(rules) : r.decode = "ok" /\ r.id # "" /\ CompileRule(r)
      /\ \A k, l \in DOMAIN rules : rules[k].id = rules[l].id => k = l
      /\ Bytes(rules) <= MaxTotalTestBytes
      /\ \A q \in Range(f.prefixes) : UsablePrefix(q)
      /\ \A r \in Range(rules) : RuleTestsPass(rules, f.prefixes, r)
    BY DEF ValidFile, Bytes
<1> HIDE DEF rules
<1>8. ASSUME NEW k \in 1..Len(f.rules), f.rules[k].decode # "newer"
      PROVE  \E l \in DOMAIN rules : p[l] = k /\ rules[l] = f.rules[k]
    BY <1>5, <1>6, <1>8 DEF Positions
<1>9. ~BadRule(f)
    <2> SUFFICES ASSUME NEW k \in 1..Len(f.rules), f.rules[k].decode # "newer",
                        ~GoodRule(f.rules[k])
                 PROVE  FALSE
        BY DEF BadRule
    <2>1. f.rules[k] \in Range(rules)
        BY <1>8 DEF Range
    <2> QED BY <1>7, <2>1 DEF GoodRule
<1>10. ~DuplicateId(f)
    <2> SUFFICES ASSUME NEW k \in 1..Len(f.rules), NEW l \in 1..Len(f.rules), k # l,
                        f.rules[k].decode # "newer", f.rules[l].decode # "newer",
                        f.rules[k].id = f.rules[l].id
                 PROVE  FALSE
        BY DEF DuplicateId
    <2>1. PICK a \in DOMAIN rules : p[a] = k /\ rules[a] = f.rules[k]
        BY <1>8
    <2>2. PICK b \in DOMAIN rules : p[b] = l /\ rules[b] = f.rules[l]
        BY <1>8
    <2>3. a = b
        BY <1>7, <2>1, <2>2
    <2> QED BY <2>1, <2>2, <2>3
<1>11. ~TooManyBytes(f)
    <2> SUFFICES ASSUME TooManyBytes(f) PROVE FALSE
        OBVIOUS
    <2>1. PICK n \in 1..Len(f.rules), some \in Seq(RuleSet), bytes \in Nat :
            /\ Kept(some, f, n - 1) /\ Costs(some, 0, 0, bytes)
            /\ f.rules[n].decode # "newer" /\ bytes + TestBytes(f.rules[n]) > MaxTotalTestBytes
        BY DEF TooManyBytes
    <2>2. n - 1 \in Nat /\ n - 1 \in 0..Len(f.rules)
        BY <1>1
    <2>3. some = kept[n - 1]
        BY <1>3, <2>1, <2>2, KeptIsUnique
    <2>4. kept[n] = Append(some, f.rules[n])
        BY <1>2, <2>1, <2>3 DEF KeptAlong
    <2>5. f.rules[n] \in RuleSet /\ TestBytes(f.rules[n]) \in Nat
        BY <1>1, BytesAreCounted
    <2>6. Costs(kept[n], 0, 0, bytes + TestBytes(f.rules[n]))
        BY <2>1, <2>4, <2>5, RuleCosts
    <2> DEFINE many == bytes + TestBytes(f.rules[n])
    <2>7. many \in Nat /\ many > MaxTotalTestBytes
        BY <2>1, <2>5
    <2> HIDE DEF many
    <2>8. Costs(kept[n], 0, 0, many)
        BY <2>6 DEF many
    <2>9. PICK all \in Nat : all = Bytes(rules) /\ all > MaxTotalTestBytes
        BY <1>2, <2>7, <2>8, TooManyStay DEF rules
    <2>10. Bytes(rules) <= MaxTotalTestBytes
        BY <1>7
    <2> QED BY <1>1, <2>9, <2>10
<1>12. ~FailingTest(f)
    <2> SUFFICES ASSUME NEW some \in Seq(RuleSet), Kept(some, f, Len(f.rules)),
                        NEW r \in Range(some), ~RuleTestsPass(some, f.prefixes, r)
                 PROVE  FALSE
        BY DEF FailingTest
    <2>1. some = rules
        BY <1>1, <1>4, KeptIsUnique
    <2> QED BY <1>7, <2>1
<1> QED BY <1>7, <1>9, <1>10, <1>11, <1>12 DEF Faulty

\* For every file: it is installed exactly if it is valid as a whole, and then all
\* of it that the engine understands is, in order and once.
THEOREM AcceptsExactlyValid == Spec => []AcceptsExactlyTheValid
<1>1. PInv /\ JustVerdict /\ (phase = "installed" => active.rules \in Seq(RuleSet))
      => AcceptsExactlyTheValid
    <2> SUFFICES ASSUME PInv, JustVerdict,
                        phase = "installed" => active.rules \in Seq(RuleSet)
                 PROVE  AcceptsExactlyTheValid
        OBVIOUS
    <2>1. ASSUME phase = "installed"
          PROVE  /\ ValidFile(file)
                 /\ active.rules = Understood(file) /\ active.prefixes = file.prefixes
        BY <2>1, SoundIsValid DEF PInv, JustVerdict
    <2>2. ASSUME phase = "rejected" PROVE ~ValidFile(file)
        BY <2>2, FaultyIsInvalid DEF PInv, JustVerdict
    <2> QED BY <2>1, <2>2 DEF AcceptsExactlyTheValid
<1>2. PInv /\ ScanInv => (phase = "installed" => active.rules \in Seq(RuleSet))
    BY DEF PInv, ScanInv, Candidates
<1>3. Spec => []PInv
    BY PInvInit, PInvStep, PTL DEF Spec
<1> QED BY <1>1, <1>2, <1>3, ScanInvHolds, VerdictIsJust, PTL

-----------------------------------------------------------------------------
(***************************************************************************)
(* The scan for missing groups and Expand.                                 *)
(***************************************************************************)
TextCharacters == {"$", "{", "}"} \union NameChars

\* n characters of v from the k-th on are in the set, and no more.
RunOf(v, k, chars, n) ==
    /\ n \in Nat
    /\ \A j \in k..(k + n - 1) : j <= Len(v) /\ v[j] \in chars
    /\ ~(k + n <= Len(v) /\ v[k + n] \in chars)

\* A run has a length: the CHOOSE of RunFrom finds it.
LEMMA RunEnds ==
    ASSUME NEW v \in Seq(TextCharacters), NEW k \in Nat \ {0}, NEW chars
    PROVE  \E n \in 0..Len(v) :
              /\ RunOf(v, k, chars, n)
              /\ RunFrom(v, k, chars) = SubSeq(v, k, k + n - 1)
<1> DEFINE T == {n \in Nat : ~(k + n <= Len(v) /\ v[k + n] \in chars)}
<1>1. Len(v) \in Nat /\ Len(v) \in T
    OBVIOUS
<1>2. PICK n \in T : \A m \in T : n <= m
    BY <1>1, LeastNumber
<1>3. n \in 0..Len(v) /\ RunOf(v, k, chars, n)
    <2>1. ASSUME NEW j \in k..(k + n - 1) PROVE j <= Len(v) /\ v[j] \in chars
        <3>1. j - k \in Nat /\ j - k < n /\ k + (j - k) = j
            BY <1>2, <2>1
        <3>2. j - k \notin T
            <4> DEFINE d == j - k
            <4>1. n \in Nat /\ d \in Nat /\ d < n
                BY <3>1
            <4> HIDE DEF d, T
            <4>2. d \notin T
                BY <1>2, <4>1
            <4> QED BY <4>2 DEF d
        <3> QED BY <3>1, <3>2
    <2> QED BY <1>1, <1>2, <2>1 DEF RunOf
<1>4. \E m \in 0..Len(v) : /\ RunFrom(v, k, chars) = SubSeq(v, k, k + m - 1)
                           /\ \A j \in k..(k + m - 1) : j <= Len(v) /\ v[j] \in chars
                           /\ ~(k + m <= Len(v) /\ v[k + m] \in chars)
    BY <1>3 DEF RunFrom, RunOf
<1> QED BY <1>1, <1>4 DEF RunOf

\* A run of name characters that is all digits is the run of digits.
LEMMA DigitsOfName ==
    ASSUME NEW v \in Seq(TextCharacters), NEW k \in Nat \ {0},
           \A j \in DOMAIN RunFrom(v, k, NameChars) :
              RunFrom(v, k, NameChars)[j] \in Digits
    PROVE  RunFrom(v, k, Digits) = RunFrom(v, k, NameChars)
<1>1. PICK n \in 0..Len(v) :
          /\ RunOf(v, k, NameChars, n)
          /\ RunFrom(v, k, NameChars) = SubSeq(v, k, k + n - 1)
    BY RunEnds
<1>2. PICK m \in 0..Len(v) :
          /\ RunOf(v, k, Digits, m)
          /\ RunFrom(v, k, Digits) = SubSeq(v, k, k + m - 1)
    BY RunEnds
<1>3. \A j \in k..(k + n - 1) : v[j] \in Digits
    <2> SUFFICES ASSUME NEW j \in k..(k + n - 1) PROVE v[j] \in Digits
        OBVIOUS
    <2>1. k + n - 1 <= Len(v)
        <3>1. k + n - 1 \in k..(k + n - 1)
            OBVIOUS
        <3> QED BY <1>1, <3>1 DEF RunOf
    <2>2. /\ DOMAIN SubSeq(v, k, k + n - 1) = 1..n
          /\ \A l \in 1..n : SubSeq(v, k, k + n - 1)[l] = v[k + l - 1]
        BY <2>1
    <2>3. j - k + 1 \in 1..n /\ k + (j - k + 1) - 1 = j
        OBVIOUS
    <2> QED BY <1>1, <2>2, <2>3
<1>4. Digits \subseteq NameChars
    BY DEF NameChars
<1>5. n = m
    <2>1. ASSUME n < m PROVE FALSE
        <3>1. k + n \in k..(k + m - 1)
            BY <2>1
        <3> QED BY <1>1, <1>2, <1>4, <3>1 DEF RunOf
    <2>2. ASSUME m < n PROVE FALSE
        <3>1. k + m \in k..(k + n - 1)
            BY <2>2
        <3> QED BY <1>1, <1>2, <1>3, <3>1 DEF RunOf
    <2> QED BY <2>1, <2>2
<1> QED BY <1>1, <1>2, <1>5

\* The number that n digits make, from that of one digit less.
Numeral(digits, f, n) == IF n = 0 THEN 0 ELSE f[n - 1] * 10 + DigitValue[digits[n]]
NumeralUpTo(digits, f, n) == f = [m \in 0..n |-> Numeral(digits, f, m)]

\* A digit stands for a number.
LEMMA DigitValues == \A d \in Digits : DigitValue[d] \in Nat
BY DEF Digits, DigitValue

\* The recursion in NumberOf has a solution.
LEMMA NumeralExists ==
    ASSUME NEW digits \in Seq(Digits)
    PROVE  \E f : NumeralUpTo(digits, f, Len(digits))
<1> DEFINE T == {n \in Nat : n <= Len(digits) /\ ~\E f : NumeralUpTo(digits, f, n)}
<1>1. ASSUME T # {} PROVE FALSE
    <2>2. PICK n \in T : \A m \in T : n <= m
        BY <1>1, LeastNumber
    <2>3. n \in Nat /\ n <= Len(digits) /\ ~\E f : NumeralUpTo(digits, f, n)
        BY <2>2
    <2>4. n # 0
        <3>1. NumeralUpTo(digits, [m \in 0..0 |-> 0], 0)
            BY DEF NumeralUpTo, Numeral
        <3> QED BY <2>3, <3>1
    <2>5. PICK f : NumeralUpTo(digits, f, n - 1)
        <3>1. n - 1 \in Nat /\ ~(n <= n - 1) /\ n - 1 <= Len(digits)
            BY <2>3, <2>4
        <3> QED BY <2>2, <3>1
    <2> DEFINE g == [m \in 0..n |-> IF m = n THEN Numeral(digits, f, n) ELSE f[m]]
    <2>6. \A m \in 0..n : g[m] = Numeral(digits, g, m)
        <3> SUFFICES ASSUME NEW m \in 0..n PROVE g[m] = Numeral(digits, g, m)
            OBVIOUS
        <3>1. m # 0 => m - 1 \in 0..n /\ m - 1 # n /\ g[m - 1] = f[m - 1]
            BY <2>3
        <3>2. Numeral(digits, g, m) = Numeral(digits, f, m)
            BY <3>1 DEF Numeral
        <3>3. m # n => m \in 0..(n - 1) /\ f[m] = Numeral(digits, f, m)
            BY <2>3, <2>5 DEF NumeralUpTo
        <3> QED BY <3>2, <3>3
    <2>7. NumeralUpTo(digits, g, n)
        BY <2>6 DEF NumeralUpTo
    <2> QED BY <2>3, <2>7
<1>2. Len(digits) \in Nat
    OBVIOUS
<1>3. Len(digits) \notin T
    <2> HIDE DEF T
    <2> QED BY <1>1
<1> QED BY <1>2, <1>3

\* Digits make a number.
LEMMA NumberOfType ==
    ASSUME NEW digits \in Seq(Digits) PROVE NumberOf(digits) \in Nat
<1> DEFINE Making == CHOOSE f : NumeralUpTo(digits, f, Len(digits))
<1>1. NumeralUpTo(digits, Making, Len(digits))
    BY NumeralExists
<1>2. NumberOf(digits) = Making[Len(digits)]
    BY DEF NumberOf, NumeralUpTo, Numeral
<1>3. PICK f : f = Making
    OBVIOUS
<1>4. \A m \in 0..Len(digits) : f[m] = Numeral(digits, f, m)
    BY <1>1, <1>3 DEF NumeralUpTo
<1> DEFINE T == {n \in Nat : n <= Len(digits) /\ f[n] \notin Nat}
<1>5. ASSUME T # {} PROVE FALSE
    <2>1. PICK n \in T : \A m \in T : n <= m
        BY <1>5, LeastNumber
    <2>2. n \in Nat /\ n <= Len(digits) /\ f[n] \notin Nat /\ n \in 0..Len(digits)
        BY <2>1
    <2>3. n # 0
        BY <1>4, <2>2 DEF Numeral
    <2>4. n - 1 \in Nat /\ ~(n <= n - 1) /\ n - 1 <= Len(digits)
        BY <2>2, <2>3
    <2>5. f[n - 1] \in Nat
        BY <2>1, <2>4
    <2>6. DigitValue[digits[n]] \in Nat
        BY <2>2, <2>3, DigitValues
    <2> QED BY <1>4, <2>2, <2>3, <2>5, <2>6 DEF Numeral
<1>6. Len(digits) \in Nat /\ Len(digits) \notin T
    BY <1>5
<1> QED BY <1>2, <1>3, <1>6

\* The number of some digits is that of those before the last one, times ten, and
\* the last one.
LEMMA NumberOfMore ==
    ASSUME NEW digits \in Seq(Digits), digits # <<>>
    PROVE  LET front == SubSeq(digits, 1, Len(digits) - 1)
           IN  /\ front \in Seq(Digits)
               /\ NumberOf(digits) = NumberOf(front) * 10 + DigitValue[digits[Len(digits)]]
<1> DEFINE N == Len(digits)
           front == SubSeq(digits, 1, N - 1)
           More == CHOOSE f : NumeralUpTo(digits, f, N)
           Less == CHOOSE f : NumeralUpTo(front, f, N - 1)
<1>1. /\ N \in Nat \ {0} /\ front \in Seq(Digits) /\ Len(front) = N - 1
      /\ \A m \in 1..(N - 1) : front[m] = digits[m]
    <2>1. N \in Nat \ {0} /\ DOMAIN digits = 1..N
        OBVIOUS
    <2>2. 1 \in 1..(N + 1) /\ N - 1 \in 0..N /\ (N - 1) - 1 + 1 = N - 1
        BY <2>1
    <2>3. /\ front \in Seq(Digits) /\ Len(front) = N - 1
          /\ \A m \in 1..(N - 1) : front[m] = digits[1 + m - 1]
        BY <2>1, <2>2, SubSeqProperties
    <2> HIDE DEF front, N
    <2> QED BY <2>1, <2>3
<1>2. PICK f : f = More
    OBVIOUS
<1>3. PICK g : g = Less
    OBVIOUS
<1>4. NumberOf(digits) = f[N]
    BY <1>2 DEF NumberOf, NumeralUpTo, Numeral
<1>5. NumberOf(front) = g[N - 1]
    <2>1. NumberOf(front) = (CHOOSE h : NumeralUpTo(front, h, Len(front)))[Len(front)]
        BY DEF NumberOf, NumeralUpTo, Numeral
    <2> QED BY <1>1, <1>3, <2>1
<1>6. \A m \in 0..N : f[m] = Numeral(digits, f, m)
    <2>1. NumeralUpTo(digits, f, N)
        BY <1>2, NumeralExists
    <2> QED BY <2>1 DEF NumeralUpTo
<1>7. \A m \in 0..(N - 1) : g[m] = Numeral(front, g, m)
    <2>1. \E h : NumeralUpTo(front, h, N - 1)
        BY <1>1, NumeralExists
    <2>2. NumeralUpTo(front, g, N - 1)
        BY <1>3, <2>1
    <2> QED BY <2>2 DEF NumeralUpTo
<1> HIDE DEF N, front, More, Less
<1> DEFINE T == {m \in Nat : m <= N - 1 /\ f[m] # g[m]}
<1>8. ASSUME T # {} PROVE FALSE
    <2>1. PICK m \in T : \A l \in T : m <= l
        BY <1>8, LeastNumber
    <2>2. m \in Nat /\ m <= N - 1 /\ f[m] # g[m] /\ m \in 0..N /\ m \in 0..(N - 1)
        BY <1>1, <2>1
    <2>3. m # 0
        BY <1>6, <1>7, <2>2 DEF Numeral
    <2>4. m - 1 \in Nat /\ ~(m <= m - 1) /\ m - 1 <= N - 1 /\ m \in 1..(N - 1)
        BY <1>1, <2>2, <2>3
    <2>5. f[m - 1] = g[m - 1] /\ front[m] = digits[m]
        BY <1>1, <2>1, <2>4
    <2>6. Numeral(digits, f, m) = Numeral(front, g, m)
        BY <2>5 DEF Numeral
    <2> QED BY <1>6, <1>7, <2>2, <2>6
<1>9. f[N - 1] = g[N - 1]
    <2>1. N - 1 \in Nat /\ N - 1 <= N - 1 /\ N - 1 \notin T
        BY <1>1, <1>8
    <2> QED BY <2>1
<1>10. f[N] = f[N - 1] * 10 + DigitValue[digits[N]]
    BY <1>1, <1>6 DEF Numeral
<1> QED BY <1>1, <1>4, <1>5, <1>9, <1>10 DEF N, front

\* What Expand reads from position k on, from what it reads further on.
ReadFrom(v, read, k) ==
    IF k > Len(v) THEN {}
    ELSE IF ~IsDollar(v, k) THEN read[k + 1]
    ELSE IF IsDollar(v, k + 1) THEN read[k + 2]
    ELSE ExtractAt(v, k).group \union read[ExtractAt(v, k).rest]
Reads(v, read, first) == read = [k \in first..(Len(v) + 2) |-> ReadFrom(v, read, k)]

\* A run of letters and digits lies within the value and holds no "$".
LEMMA NameIsText ==
    ASSUME NEW v \in Seq(TextCharacters), NEW k \in Nat \ {0}
    PROVE  LET name == RunFrom(v, k, NameChars)
           IN  /\ Len(name) \in Nat
               /\ name = <<>> <=> Len(name) = 0
               /\ Len(name) # 0 => k + Len(name) - 1 <= Len(v)
               /\ \A j \in k..(k + Len(name) - 1) : ~IsDollar(v, j)
<1>1. PICK n \in 0..Len(v) :
          /\ RunOf(v, k, NameChars, n)
          /\ RunFrom(v, k, NameChars) = SubSeq(v, k, k + n - 1)
    BY RunEnds
<1>2. n # 0 => k + n - 1 <= Len(v)
    <2>1. n # 0 => k + n - 1 \in k..(k + n - 1)
        OBVIOUS
    <2> QED BY <1>1, <2>1 DEF RunOf
<1>3. /\ SubSeq(v, k, k + n - 1) \in Seq(TextCharacters)
      /\ Len(SubSeq(v, k, k + n - 1)) = n
    BY <1>2
<1>4. "$" \notin NameChars
    BY DEF NameChars, Digits, DigitValue
<1>5. \A j \in k..(k + n - 1) : ~IsDollar(v, j)
    BY <1>1, <1>4 DEF IsDollar, RunOf
<1> QED BY <1>1, <1>2, <1>3, <1>5

\* A reference ends behind its "$" and within the value, and there is no "$" in it.
LEMMA ReferenceEnds ==
    ASSUME NEW v \in Seq(TextCharacters), NEW k \in 1..Len(v)
    PROVE  /\ ExtractAt(v, k).rest \in (k + 1)..(Len(v) + 1)
           /\ \A j \in (k + 1)..(ExtractAt(v, k).rest - 1) : ~IsDollar(v, j)
<1> DEFINE brace == k < Len(v) /\ v[k + 1] = "{"
           first == IF brace THEN k + 2 ELSE k + 1
           name == RunFrom(v, first, NameChars)
           end == first + Len(name)
           closed == ~brace \/ (end <= Len(v) /\ v[end] = "}")
           ok == name # <<>> /\ closed
<1>1. ExtractAt(v, k).rest = IF ok THEN IF brace THEN end + 1 ELSE end ELSE k + 1
    BY DEF ExtractAt
<1>2. k \in Nat /\ Len(v) \in Nat /\ k <= Len(v)
    OBVIOUS
<1>3. first \in Nat \ {0} /\ (brace => first = k + 2) /\ (~brace => first = k + 1)
    <2>1. k + 1 \in Nat \ {0} /\ k + 2 \in Nat \ {0}
        BY <1>2
    <2> HIDE DEF brace
    <2> QED BY <2>1
<1>4. brace => ~IsDollar(v, k + 1)
    BY DEF IsDollar
<1> HIDE DEF first
<1>5. /\ Len(name) \in Nat /\ (name = <<>> <=> Len(name) = 0)
      /\ Len(name) # 0 => first + Len(name) - 1 <= Len(v)
      /\ \A j \in first..(first + Len(name) - 1) : ~IsDollar(v, j)
    BY <1>3, NameIsText
<1>6. ok /\ brace => ~IsDollar(v, end) /\ end <= Len(v)
    BY DEF IsDollar
<1>7. ok => Len(name) # 0
    BY <1>5
<1> HIDE DEF brace, name, closed
<1>8. CASE ~ok
    BY <1>1, <1>2, <1>8
<1>9. CASE ok /\ brace
    <2>1. ExtractAt(v, k).rest = end + 1
        BY <1>1, <1>9
    <2>2. \A j \in (k + 1)..end : j = k + 1 \/ j = end \/ j \in first..(end - 1)
        BY <1>2, <1>3, <1>5, <1>9
    <2> QED BY <1>2, <1>3, <1>4, <1>5, <1>6, <1>9, <2>1, <2>2
<1>10. CASE ok /\ ~brace
    <2>1. ExtractAt(v, k).rest = end
        BY <1>1, <1>10
    <2> QED BY <1>2, <1>3, <1>5, <1>7, <1>10, <2>1
<1> QED BY <1>8, <1>9, <1>10

\* The recursion in GroupsRead has a solution.
LEMMA ReadingExists ==
    ASSUME NEW v \in Seq(TextCharacters) PROVE \E read : Reads(v, read, 1)
<1> DEFINE End == Len(v) + 2
           T == {n \in Nat : n <= End - 1 /\ ~\E read : Reads(v, read, End - n)}
<1>1. Len(v) \in Nat /\ End \in Nat /\ End - 1 \in Nat /\ End - (End - 1) = 1
    OBVIOUS
<1>2. ASSUME T # {} PROVE FALSE
    <2>1. PICK n \in T : \A m \in T : n <= m
        BY <1>2, LeastNumber
    <2>2. n \in Nat /\ n <= End - 1 /\ ~\E read : Reads(v, read, End - n)
        BY <2>1
    <2>3. n # 0
        <3>1. Reads(v, [k \in End..End |-> {}], End)
            BY <1>1 DEF Reads, ReadFrom
        <3> QED BY <1>1, <2>2, <3>1
    <2>4. PICK read : Reads(v, read, End - (n - 1))
        <3>1. n - 1 \in Nat /\ ~(n <= n - 1) /\ n - 1 <= End - 1
            BY <1>1, <2>2, <2>3
        <3> QED BY <2>1, <3>1
    <2> DEFINE first == End - n
               more == [k \in first..End |->
                           IF k = first THEN ReadFrom(v, read, first) ELSE read[k]]
    <2>5. first \in Nat /\ 1 <= first /\ first < End /\ End - (n - 1) = first + 1
        BY <1>1, <2>2, <2>3
    <2>6. /\ \A k \in (first + 1)..End : more[k] = read[k]
          /\ more[first] = ReadFrom(v, read, first)
        <3> HIDE DEF first, End
        <3>1. first \in first..End /\ \A k \in (first + 1)..End : k \in first..End /\ k # first
            BY <1>1, <2>5
        <3> QED BY <3>1
    <2> HIDE DEF more, first
    <2>7. \A k \in (first + 1)..End : read[k] = ReadFrom(v, read, k)
        <3>1. read = [k \in (first + 1)..End |-> ReadFrom(v, read, k)]
            BY <2>4, <2>5 DEF Reads
        <3>2. PICK r : r = read
            OBVIOUS
        <3>3. \A k \in (first + 1)..End : r[k] = ReadFrom(v, read, k)
            BY <3>1, <3>2
        <3> QED BY <3>2, <3>3
    <2>8. \A k \in first..End : ReadFrom(v, more, k) = ReadFrom(v, read, k)
        <3> TAKE k \in first..End
        <3>1. CASE k > Len(v)
            BY <3>1 DEF ReadFrom
        <3>2. CASE ~(k > Len(v))
            <4>1. k \in 1..Len(v) /\ k + 1 \in (first + 1)..End /\ k + 2 \in (first + 1)..End
                BY <1>1, <2>5, <3>2
            <4>2. ExtractAt(v, k).rest \in (first + 1)..End
                BY <1>1, <2>5, <4>1, ReferenceEnds
            <4> QED BY <2>6, <4>1, <4>2 DEF ReadFrom
        <3> QED BY <3>1, <3>2
    <2>9. \A k \in first..End : more[k] = ReadFrom(v, more, k)
        <3>1. \A k \in first..End : k = first \/ k \in (first + 1)..End
            BY <1>1, <2>5
        <3> QED BY <2>6, <2>7, <2>8, <3>1
    <2>10. Reads(v, more, first)
        <3>1. more = [k \in first..End |-> more[k]]
            BY DEF more
        <3> QED BY <2>9, <3>1 DEF Reads
    <2> QED BY <2>2, <2>10 DEF first
<1>3. End - 1 \notin T
    <2> HIDE DEF T
    <2> QED BY <1>2
<1> QED BY <1>1, <1>3

\* The function that GroupsRead(v) applies to the first position.
Reading(v) == CHOOSE read : Reads(v, read, 1)

\* What Expand reads from a place, by what it reads further on.
LEMMA ReadingUnfolds ==
    ASSUME NEW v \in Seq(TextCharacters)
    PROVE  /\ GroupsRead(v) = Reading(v)[1]
           /\ \A k \in 1..(Len(v) + 2) : Reading(v)[k] = ReadFrom(v, Reading(v), k)
<1>1. Reads(v, Reading(v), 1)
    BY ReadingExists DEF Reading
<1>2. GroupsRead(v) = Reading(v)[1]
    BY DEF GroupsRead, Reading, Reads, ReadFrom
<1>3. PICK read : read = Reading(v)
    OBVIOUS
<1> QED BY <1>1, <1>2, <1>3 DEF Reads

\* A run consists of the characters asked for.
LEMMA RunType ==
    ASSUME NEW v \in Seq(TextCharacters), NEW k \in Nat \ {0}, NEW chars
    PROVE  /\ RunFrom(v, k, chars) \in Seq(chars)
           /\ RunFrom(v, k, chars) # <<>> => k <= Len(v)
<1>1. PICK n \in 0..Len(v) :
          RunOf(v, k, chars, n) /\ RunFrom(v, k, chars) = SubSeq(v, k, k + n - 1)
    BY RunEnds
<1>2. n # 0 => k + n - 1 <= Len(v) /\ k <= Len(v)
    <2>1. n # 0 => k + n - 1 \in k..(k + n - 1)
        OBVIOUS
    <2> QED BY <1>1, <2>1 DEF RunOf
<1>3. /\ SubSeq(v, k, k + n - 1) = [l \in 1..n |-> v[k + l - 1]]
      /\ n = 0 => SubSeq(v, k, k + n - 1) = <<>>
    BY <1>2
<1>4. \A l \in 1..n : v[k + l - 1] \in chars
    <2>1. \A l \in 1..n : k + l - 1 \in k..(k + n - 1)
        OBVIOUS
    <2> QED BY <1>1, <2>1 DEF RunOf
<1> DEFINE run == [l \in 1..n |-> v[k + l - 1]]
<1>5. run \in [1..n -> chars]
    BY <1>4
<1> HIDE DEF run
<1>6. run \in Seq(chars)
    BY <1>5
<1> QED BY <1>1, <1>2, <1>3, <1>6 DEF run

\* Where the check finds nothing missing Expand asks for no group that is.
LEMMA ReferenceFits ==
    ASSUME NEW v \in Seq(TextCharacters), NEW k \in 1..Len(v), NEW n \in Nat,
           ~Missing(v, k, n)
    PROVE  \A g \in ExtractAt(v, k).group : g <= n
<1> DEFINE first == IF k < Len(v) /\ v[k + 1] = "{" THEN k + 2 ELSE k + 1
           name == RunFrom(v, first, NameChars)
           digits == RunFrom(v, first, Digits)
<1>1. first \in Nat \ {0}
    <2>1. k + 1 \in Nat \ {0} /\ k + 2 \in Nat \ {0}
        OBVIOUS
    <2> QED BY <2>1
<1>2. ExtractAt(v, k).group # {} =>
          /\ ExtractAt(v, k).group = {NumberOf(name)}
          /\ name # <<>>
          /\ \A j \in DOMAIN name : name[j] \in Digits
          /\ \A m \in 0..(Len(name) - 1) : NumberOf(SubSeq(name, 1, m)) < NumberLimit
    BY DEF ExtractAt
<1>3. digits # <<>> => NumberOf(digits) \notin (n + 1)..MaxInt
    BY DEF Missing, DigitsAt
<1> HIDE DEF first
<1>4. digits \in Seq(Digits)
    BY <1>1, RunType
<1>5. NumberOf(digits) \in Nat
    BY <1>4, NumberOfType
<1>6. (\A j \in DOMAIN name : name[j] \in Digits) => digits = name
    BY <1>1, DigitsOfName
<1> HIDE DEF name, digits
<1>7. ASSUME ExtractAt(v, k).group # {} PROVE NumberOf(digits) <= MaxInt
    <2>1. digits = name /\ digits # <<>>
        BY <1>2, <1>6, <1>7
    <2>2. Len(digits) \in Nat \ {0} /\ Len(digits) - 1 \in 0..(Len(digits) - 1)
        BY <1>4, <2>1
    <2> DEFINE front == SubSeq(digits, 1, Len(digits) - 1)
    <2>3. front \in Seq(Digits) /\ NumberOf(front) < NumberLimit
        BY <1>2, <1>4, <1>7, <2>1, <2>2, NumberOfMore
    <2>4. NumberOf(digits) = NumberOf(front) * 10 + DigitValue[digits[Len(digits)]]
        BY <1>4, <2>1, NumberOfMore
    <2>5. digits[Len(digits)] \in Digits
        BY <1>4, <2>2
    <2>6. DigitValue[digits[Len(digits)]] \in 0..9
        BY <2>5 DEF Digits, DigitValue
    <2>7. NumberOf(front) \in Nat
        BY <2>3, NumberOfType
    <2> HIDE DEF front
    <2>8. PICK a \in Nat : a = NumberOf(front)
        BY <2>7
    <2>9. PICK d \in 0..9 : d = DigitValue[digits[Len(digits)]]
        BY <2>6
    <2>10. a * 10 + d <= MaxInt
        BY <2>3, <2>8, LimitsAssumption
    <2> QED BY <2>4, <2>8, <2>9, <2>10
<1> QED BY <1>2, <1>3, <1>5, <1>6, <1>7

RefsTyped ==
    /\ value \in Seq(TextCharacters) /\ groups \in Nat
    /\ i \in 1..(Len(value) + 1)
    /\ verdict \in {"open", "missing", "fine"}

\* What Expand has read by the position of the scan are groups that exist; it goes
\* on from e, and up to there the scan meets no "$".
ReadInv ==
    verdict \in {"open", "fine"} =>
        \E e \in i..(Len(value) + 2) :
            /\ \A j \in i..(e - 1) : ~IsDollar(value, j)
            /\ \A n \in GroupsRead(value) : n <= groups \/ n \in Reading(value)[e]
            /\ verdict = "fine" => i > Len(value)

\* The scan never stands on the second "$" of a pair.
PairInv ==
    /\ IsDollar(value, i) => EvenDollarsBefore(value, i)
    /\ verdict = "missing" =>
          /\ i \in DOMAIN value /\ IsDollar(value, i)
          /\ i < Len(value) /\ value[i + 1] # "$"

RefsAssumed == Texts \subseteq Seq(TextCharacters) /\ Groups \subseteq Nat

\* The scan stays inside the value.
LEMMA RefsTypedHolds == ASSUME RefsAssumed PROVE RefsSpec => []RefsTyped
<1>1. RefsInit => RefsTyped
    BY DEF RefsAssumed, RefsInit, RefsTyped
<1>2. RefsTyped /\ [RefsNext]_refsVars => RefsTyped'
    <2> SUFFICES ASSUME RefsTyped, [RefsNext]_refsVars PROVE RefsTyped'
        OBVIOUS
    <2>1. Len(value) \in Nat /\ i \in Nat
        BY DEF RefsTyped
    <2>2. CASE PassOver
        BY <2>1, <2>2 DEF RefsTyped, PassOver, Scanning
    <2>3. CASE PassLiteral
        BY <2>1, <2>3 DEF RefsTyped, PassLiteral, Scanning, SkipPair, IsDollar
    <2>4. CASE PassReference
        BY <2>1, <2>4 DEF RefsTyped, PassReference, Scanning
    <2>5. CASE Accept
        BY <2>1, <2>5 DEF RefsTyped, Accept
    <2>6. CASE UNCHANGED refsVars
        BY <2>6 DEF RefsTyped, refsVars
    <2> QED BY <2>2, <2>3, <2>4, <2>5, <2>6 DEF RefsNext
<1> QED BY <1>1, <1>2, PTL DEF RefsSpec

\* The scan misses no group that Expand reads.
LEMMA ReadInvHolds == ASSUME RefsAssumed PROVE RefsSpec => []ReadInv
<1>1. RefsTyped /\ RefsInit => ReadInv
    <2> SUFFICES ASSUME RefsTyped, RefsInit PROVE ReadInv
        OBVIOUS
    <2>1. Len(value) \in Nat /\ i = 1 /\ 1 \in i..(Len(value) + 2)
        BY DEF RefsTyped, RefsInit
    <2>2. GroupsRead(value) = Reading(value)[1]
        BY ReadingUnfolds DEF RefsTyped
    <2>3. \A j \in i..(1 - 1) : ~IsDollar(value, j)
        BY <2>1
    <2>4. verdict # "fine"
        BY DEF RefsInit
    <2> QED BY <2>1, <2>2, <2>3, <2>4 DEF ReadInv
<1>2. RefsTyped /\ ReadInv /\ [RefsNext]_refsVars => ReadInv'
    <2> SUFFICES ASSUME RefsTyped, ReadInv, [RefsNext]_refsVars PROVE ReadInv'
        OBVIOUS
    <2>1. CASE UNCHANGED refsVars
        BY <2>1 DEF ReadInv, refsVars
    <2>2. ASSUME RefsNext PROVE ReadInv'
        <3>1. verdict = "open" /\ UNCHANGED <<value, groups>>
            BY <2>2 DEF RefsNext, PassOver, PassLiteral, PassReference,
                        Accept, Scanning
        <3>2. PICK e \in i..(Len(value) + 2) :
                /\ \A j \in i..(e - 1) : ~IsDollar(value, j)
                /\ \A n \in GroupsRead(value) : n <= groups \/ n \in Reading(value)[e]
            BY <3>1 DEF ReadInv
        <3> DEFINE v == value
        <3>3. /\ v \in Seq(TextCharacters) /\ Len(v) \in Nat /\ i \in Nat \ {0} /\ groups \in Nat
              /\ e \in Nat /\ e \in 1..(Len(v) + 2) /\ i <= Len(v) + 1
            BY DEF RefsTyped
        <3>4. Reading(v)[e] = ReadFrom(v, Reading(v), e)
            BY <3>3, ReadingUnfolds
        <3>5. IsDollar(v, i) => e = i
            BY <3>2, <3>3
        \* Expand goes on from f, which the scan has not passed.
        <3>6. ASSUME NEW f \in i'..(Len(v) + 2),
                     \A j \in i'..(f - 1) : ~IsDollar(v, j),
                     \A n \in Reading(v)[e] : n <= groups \/ n \in Reading(v)[f],
                     verdict' \in {"open", "missing"}
              PROVE  ReadInv'
            <4>1. \A n \in GroupsRead(v) : n <= groups \/ n \in Reading(v)[f]
                BY <3>2, <3>6
            <4>2. value' = v /\ groups' = groups
                BY <3>1
            <4>3. verdict' # "fine"
                BY <3>6
            <4> HIDE DEF v
            <4> QED BY <3>6, <4>1, <4>2, <4>3 DEF ReadInv
        <3> HIDE DEF v
        <3>7. CASE PassOver
            <4>1. ~IsDollar(v, i) /\ i <= Len(v) /\ i' = i + 1 /\ verdict' = "open"
                BY <3>1, <3>7 DEF PassOver, Scanning, v
            <4>2. CASE e = i
                <5>1. Reading(v)[e] = Reading(v)[i + 1]
                    BY <3>3, <3>4, <4>1, <4>2 DEF ReadFrom
                <5>2. /\ i + 1 \in i'..(Len(v) + 2)
                      /\ \A j \in i'..((i + 1) - 1) : ~IsDollar(v, j)
                    BY <3>3, <4>1
                <5> QED BY <3>6, <4>1, <5>1, <5>2
            <4>3. CASE e # i
                <5>1. e \in i'..(Len(v) + 2) /\ \A j \in i'..(e - 1) : ~IsDollar(v, j)
                    BY <3>2, <3>3, <4>1, <4>3 DEF v
                <5> QED BY <3>6, <4>1, <5>1
            <4> QED BY <4>2, <4>3
        <3>8. CASE PassLiteral
            <4>1. /\ IsDollar(v, i) /\ IsDollar(v, i + 1) /\ i + 1 <= Len(v)
                  /\ i' = i + 2 /\ verdict' = "open"
                BY <3>1, <3>8 DEF PassLiteral, Scanning, SkipPair, IsDollar, v
            <4>2. Reading(v)[e] = Reading(v)[i + 2]
                BY <3>3, <3>4, <3>5, <4>1 DEF ReadFrom
            <4>3. /\ i + 2 \in i'..(Len(v) + 2)
                  /\ \A j \in i'..((i + 2) - 1) : ~IsDollar(v, j)
                BY <3>3, <4>1
            <4> QED BY <3>6, <4>1, <4>2, <4>3
        <3>9. CASE PassReference /\ Missing(v, i, groups)
            BY <3>9 DEF PassReference, ReadInv, v
        <3>10. CASE PassReference /\ ~Missing(v, i, groups)
            <4>1. /\ IsDollar(v, i) /\ ~IsDollar(v, i + 1) /\ i <= Len(v)
                  /\ i' = i + 1 /\ verdict' = "open"
                BY <3>1, <3>10 DEF PassReference, Scanning, v
            <4> DEFINE f == ExtractAt(v, i).rest
            <4>2. i \in 1..Len(v)
                BY <3>3, <4>1
            <4>3. /\ f \in (i + 1)..(Len(v) + 1)
                  /\ \A j \in (i + 1)..(f - 1) : ~IsDollar(v, j)
                BY <3>3, <4>2, ReferenceEnds
            <4>4. \A g \in ExtractAt(v, i).group : g <= groups
                BY <3>3, <3>10, <4>2, ReferenceFits
            <4>5. Reading(v)[e] = ExtractAt(v, i).group \union Reading(v)[f]
                BY <3>3, <3>4, <3>5, <4>1 DEF ReadFrom
            <4> HIDE DEF f
            <4>6. f \in i'..(Len(v) + 2)
                BY <3>3, <4>1, <4>3
            <4> QED BY <3>6, <4>1, <4>3, <4>4, <4>5, <4>6
        <3>11. CASE Accept
            <4>1. i > Len(v) /\ i' = i /\ value' = v /\ groups' = groups
                BY <3>11 DEF Accept, v
            <4> QED BY <3>2, <4>1 DEF ReadInv, v
        <3> QED BY <2>2, <3>7, <3>8, <3>9, <3>10, <3>11 DEF RefsNext
    <2> QED BY <2>1, <2>2
<1> QED BY <1>1, <1>2, RefsTypedHolds, PTL DEF RefsSpec

\* A run of dollars that is to begin is even; a pair leaves it even.
LEMMA DollarsStayEven ==
    ASSUME NEW v, NEW k \in Nat \ {0}
    PROVE  /\ k = 1 \/ ~IsDollar(v, k - 1) => EvenDollarsBefore(v, k)
           /\ IsDollar(v, k) /\ IsDollar(v, k + 1) /\ EvenDollarsBefore(v, k)
                 => EvenDollarsBefore(v, k + 2)
<1>1. ASSUME k = 1 \/ ~IsDollar(v, k - 1) PROVE EvenDollarsBefore(v, k)
    <2>1. k \in 1..k /\ k..(k - 1) = {} /\ (k - k) % 2 = 0
        OBVIOUS
    <2> QED BY <1>1, <2>1 DEF EvenDollarsBefore
<1>2. ASSUME IsDollar(v, k), IsDollar(v, k + 1), EvenDollarsBefore(v, k)
      PROVE  EvenDollarsBefore(v, k + 2)
    <2>1. PICK b \in 1..k : /\ b = 1 \/ ~IsDollar(v, b - 1)
                            /\ \A l \in b..(k - 1) : IsDollar(v, l)
                            /\ (k - b) % 2 = 0
        BY <1>2 DEF EvenDollarsBefore
    <2>2. b..((k + 2) - 1) = (b..(k - 1)) \union {k, k + 1}
        OBVIOUS
    <2>3. \A l \in b..((k + 2) - 1) : IsDollar(v, l)
        BY <1>2, <2>1, <2>2
    <2>4. b \in 1..(k + 2) /\ ((k + 2) - b) % 2 = 0
        BY <2>1
    <2> QED BY <2>1, <2>3, <2>4 DEF EvenDollarsBefore
<1> QED BY <1>1, <1>2

\* The scan takes dollars two by two.
LEMMA PairInvHolds == ASSUME RefsAssumed PROVE RefsSpec => []PairInv
<1>1. RefsTyped /\ RefsInit => PairInv
    BY DollarsStayEven DEF PairInv, RefsInit
<1>2. RefsTyped /\ PairInv /\ [RefsNext]_refsVars => PairInv'
    <2> SUFFICES ASSUME RefsTyped, PairInv, [RefsNext]_refsVars PROVE PairInv'
        OBVIOUS
    <2>1. i \in Nat \ {0} /\ Len(value) \in Nat /\ groups \in Nat
          /\ value \in Seq(TextCharacters) /\ DOMAIN value = 1..Len(value)
        BY DEF RefsTyped
    <2>2. IsDollar(value, i) => EvenDollarsBefore(value, i)
        BY DEF PairInv
    \* One step further from where there is no dollar, i or there.
    <2>3. ASSUME i' = i + 1, value' = value, verdict' = "open",
                 ~IsDollar(value, i) \/ ~IsDollar(value, i + 1)
          PROVE  PairInv'
        <3>1. i + 1 \in Nat \ {0} /\ (i + 1) - 1 = i
            BY <2>1
        <3>2. ~IsDollar(value, i) => EvenDollarsBefore(value, i + 1)
            BY <3>1, DollarsStayEven
        <3> QED BY <2>3, <3>2 DEF PairInv
    <2>4. CASE PassOver
        BY <2>3, <2>4 DEF PassOver, Scanning
    <2>5. CASE PassLiteral
        <3>1. /\ IsDollar(value, i) /\ IsDollar(value, i + 1) /\ value' = value
              /\ i' = i + 2 /\ verdict' = "open"
            BY <2>5 DEF PassLiteral, Scanning, SkipPair
        <3>2. EvenDollarsBefore(value, i + 2)
            BY <2>1, <2>2, <3>1, DollarsStayEven
        <3> QED BY <3>1, <3>2 DEF PairInv
    <2>6. CASE PassReference /\ ~Missing(value, i, groups)
        BY <2>3, <2>6 DEF PassReference, Scanning
    <2>7. CASE PassReference /\ Missing(value, i, groups)
        <3>1. /\ IsDollar(value, i) /\ ~IsDollar(value, i + 1) /\ i <= Len(value)
              /\ i' = i /\ value' = value
            BY <2>7 DEF PassReference, Scanning
        <3>2. RunFrom(value, DigitsAt(value, i), Digits) # <<>>
            BY <2>7 DEF Missing
        <3>3. /\ DigitsAt(value, i) \in {i + 1, i + 2}
              /\ i + 1 \in Nat \ {0} /\ i + 2 \in Nat \ {0}
            BY <2>1 DEF DigitsAt
        <3>4. DigitsAt(value, i) <= Len(value)
            BY <2>1, <3>2, <3>3, RunType
        <3>5. i < Len(value)
            BY <2>1, <3>3, <3>4
        <3>6. value[i + 1] # "$"
            BY <2>1, <3>1, <3>5 DEF IsDollar
        <3> QED BY <2>1, <2>2, <3>1, <3>5, <3>6 DEF PairInv
    <2>8. CASE Accept
        BY <2>2, <2>8 DEF Accept, PairInv
    <2>9. CASE UNCHANGED refsVars
        BY <2>9 DEF PairInv, refsVars
    <2> QED BY <2>4, <2>5, <2>6, <2>7, <2>8, <2>9 DEF RefsNext
<1> QED BY <1>1, <1>2, RefsTypedHolds, PTL DEF RefsSpec

\* For every value and every number of groups: a value that referencesMissingGroup lets
\* in makes Expand read only groups that exist, and one that it keeps out has a "$" that
\* is not part of a pair.
THEOREM ScanAgrees == ASSUME RefsAssumed PROVE RefsSpec => []ScanAgreesWithExpand
<1>1. RefsTyped /\ ReadInv /\ PairInv => ScanAgreesWithExpand
    <2> SUFFICES ASSUME RefsTyped, ReadInv, PairInv PROVE ScanAgreesWithExpand
        OBVIOUS
    <2>1. ASSUME verdict = "fine", NEW n \in GroupsRead(value) PROVE n <= groups
        <3>1. PICK e \in i..(Len(value) + 2) :
                /\ n <= groups \/ n \in Reading(value)[e]
                /\ i > Len(value)
            BY <2>1 DEF ReadInv
        <3>2. Len(value) \in Nat /\ i \in Nat \ {0}
            BY DEF RefsTyped
        <3>3. e \in 1..(Len(value) + 2) /\ e > Len(value)
            BY <3>1, <3>2
        <3>4. Reading(value)[e] = {}
            BY <3>3, ReadingUnfolds DEF RefsTyped, ReadFrom
        <3> QED BY <3>1, <3>4
    <2>2. ASSUME verdict = "missing"
          PROVE  \E k \in DOMAIN value :
                    /\ IsDollar(value, k) /\ k < Len(value) /\ value[k + 1] # "$"
                    /\ EvenDollarsBefore(value, k)
        BY <2>2 DEF PairInv
    <2> QED BY <2>1, <2>2 DEF ScanAgreesWithExpand
<1> QED BY <1>1, RefsTypedHolds, ReadInvHolds, PairInvHolds, PTL

=============================================================================
