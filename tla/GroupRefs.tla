------------------------------ MODULE GroupRefs ------------------------------
(***************************************************************************)
(* referencesMissingGroup (pkg/core/corrections.go) scans a rule's value   *)
(* for a $N or ${N} beyond the groups of the regex, a step for each        *)
(* character it stops at, against what regexp.Expand reads from that       *)
(* value when the rule is applied.  The characters are "$", "{", "}", a    *)
(* letter and three digits.                                                *)
(***************************************************************************)
EXTENDS Naturals, Sequences

CONSTANTS
    Texts,
    Groups,      \* how many groups a regex has
    MaxInt,      \* the largest number strconv.Atoi reads, 2^63 - 1
    NumberLimit  \* where regexp.Expand takes no further digit, 10^8

ASSUME LimitsAssumption ==
    /\ MaxInt \in Nat /\ NumberLimit \in Nat \ {0}
    /\ NumberLimit * 10 <= MaxInt + 1

DigitValue == [d \in {"0", "1", "2"} |-> CASE d = "0" -> 0 [] d = "1" -> 1 [] d = "2" -> 2]
Digits == DOMAIN DigitValue
NameChars == Digits \union {"x"}  \* of a group name: letters, digits, underscore

VARIABLES value, groups, i, verdict
refsVars == <<value, groups, i, verdict>>

IsDollar(v, k) == k <= Len(v) /\ v[k] = "$"

\* The characters from k on that are in the set.
RunFrom(v, k, chars) ==
    LET n == CHOOSE n \in 0..Len(v) :
                /\ \A j \in k..(k + n - 1) : j <= Len(v) /\ v[j] \in chars
                /\ ~(k + n <= Len(v) /\ v[k + n] \in chars)
    IN  SubSeq(v, k, k + n - 1)

NumberOf(digits) ==
    LET f[n \in 0..Len(digits)] == IF n = 0 THEN 0 ELSE f[n - 1] * 10 + DigitValue[digits[n]]
    IN  f[Len(digits)]

\* Where the digits after the "$" at k begin.
DigitsAtNoBrace(v, k) == k + 1  \* mutant: ${N} is not recognised
DigitsAt(v, k) == IF k < Len(v) /\ v[k + 1] = "{" THEN k + 2 ELSE k + 1

\* A number that Atoi does not read is let in.
Missing(v, k, n) ==
    LET digits == RunFrom(v, DigitsAt(v, k), Digits)
    IN  digits # <<>> /\ NumberOf(digits) \in (n + 1)..MaxInt

RefsInit ==
    /\ value \in Texts
    /\ groups \in Groups
    /\ i = 1
    /\ verdict = "open"

Scanning == verdict = "open" /\ i <= Len(value)

PassOver ==
    /\ Scanning /\ ~IsDollar(value, i)
    /\ i' = i + 1
    /\ UNCHANGED <<value, groups, verdict>>

SkipPair(k) == k + 2

PassLiteral ==
    /\ Scanning /\ IsDollar(value, i) /\ IsDollar(value, i + 1)
    /\ i' = SkipPair(i)
    /\ UNCHANGED <<value, groups, verdict>>

PassReference ==
    /\ Scanning /\ IsDollar(value, i) /\ ~IsDollar(value, i + 1)
    /\ IF Missing(value, i, groups)
       THEN verdict' = "missing" /\ i' = i
       ELSE i' = i + 1 /\ verdict' = verdict
    /\ UNCHANGED <<value, groups>>

Accept ==
    /\ verdict = "open" /\ i > Len(value)
    /\ verdict' = "fine"
    /\ UNCHANGED <<value, groups, i>>

RefsNext == PassOver \/ PassLiteral \/ PassReference \/ Accept
RefsSpec == RefsInit /\ [][RefsNext]_refsVars

-----------------------------------------------------------------------------
(***************************************************************************)
(* regexp.Expand: at a "$", a pair is a literal one, then a name, in       *)
(* braces or not; a name of digits without a leading zero is a number,     *)
(* unless what precedes its last digit is too large for one more.          *)
(***************************************************************************)
ExtractAt(v, k) ==
    LET brace == k < Len(v) /\ v[k + 1] = "{"
        name == RunFrom(v, IF brace THEN k + 2 ELSE k + 1, NameChars)
        end == (IF brace THEN k + 2 ELSE k + 1) + Len(name)
        closed == ~brace \/ (end <= Len(v) /\ v[end] = "}")
        ok == name # <<>> /\ closed
        numeric == /\ \A j \in DOMAIN name : name[j] \in Digits
                   /\ \A m \in 0..(Len(name) - 1) : NumberOf(SubSeq(name, 1, m)) < NumberLimit
                   /\ Len(name) > 1 => name[1] # "0"
    IN  [rest |-> IF ok THEN IF brace THEN end + 1 ELSE end ELSE k + 1,
         group |-> IF ok /\ numeric THEN {NumberOf(name)} ELSE {}]

\* The groups Expand asks for, from each position on.
GroupsRead(v) ==
    LET read[k \in 1..(Len(v) + 2)] ==
            IF k > Len(v) THEN {}
            ELSE IF ~IsDollar(v, k) THEN read[k + 1]
            ELSE IF IsDollar(v, k + 1) THEN read[k + 2]
            ELSE ExtractAt(v, k).group \union read[ExtractAt(v, k).rest]
    IN  read[1]

\* The dollars right before k come in pairs: they begin at b.
EvenDollarsBefore(v, k) ==
    \E b \in 1..k :
        /\ b = 1 \/ ~IsDollar(v, b - 1)
        /\ \A l \in b..(k - 1) : IsDollar(v, l)
        /\ (k - b) % 2 = 0

\* The scan and Expand agree.  A value that is let in never makes Expand blank a
\* numbered group that the regex does not have; and a value that names no number
\* but after "$$" is let in: a literal dollar can always be written.
ScanAgreesWithExpand ==
    /\ verdict = "fine" => \A n \in GroupsRead(value) : n <= groups
    /\ verdict = "missing" => \E k \in DOMAIN value :
          /\ IsDollar(value, k) /\ k < Len(value) /\ value[k + 1] # "$"
          /\ EvenDollarsBefore(value, k)

=============================================================================
