----------------------------- MODULE ServerProofs -----------------------------
(***************************************************************************)
(* What holds of the server for any number of requests and any settings.   *)
(*                                                                         *)
(* Once Shutdown was called nothing is accepted, so the requests that are  *)
(* handled when the drain ends are the last ones: DrainInv.                *)
(* The mux does not change once it is mounted, so each answer is the one   *)
(* that the settings determine: EndpointsInv.                              *)
(* That joinPath gives the documented path is shown for sequences of any   *)
(* length (JoinedAsDocumented): TrimRight is looked at place by place.     *)
(***************************************************************************)
EXTENDS Server, FiniteSetTheorems, SequenceTheorems, TLAPS

USE DEF vars, server, shutting, requests

Past(steps) == drain \in steps

\* What the shutdown goroutine has done at each of its steps, and what that
\* means for the listener and for the requests.
DrainInv ==
    /\ main \in {"setup", "panicked"} => drain = "off"
    /\ listening => main = "serve"
    /\ Past({"draining", "close", "closed", "done"}) => inShutdown
    /\ inShutdown => ~listening
    /\ Past({"close", "closed", "done"}) /\ Handling # {} => drainErr
    /\ parserClosed => Past({"closed", "done"})
    /\ main = "exited" => drain = "done"

-----------------------------------------------------------------------------
LEMMA DrainInvInit == Init => DrainInv
  BY DEF Init, DrainInv, Past, Handling

LEMMA DrainInvNext == DrainInv /\ [Next]_vars => DrainInv'
  <1> SUFFICES ASSUME DrainInv, [Next]_vars
               PROVE  DrainInv'
    OBVIOUS
  <1> USE DEF DrainInv, Past, Handling, Alive, Ended
  <1>1. CASE Mount
    BY <1>1 DEF Mount
  <1>2. CASE ListenAndServe
    BY <1>2 DEF ListenAndServe
  <1>3. CASE ServeReturns
    BY <1>3 DEF ServeReturns
  <1>4. CASE MainReturns
    BY <1>4 DEF MainReturns
  <1>5. CASE BeginShutdown
    BY <1>5 DEF BeginShutdown
  <1>6. CASE Drained
    BY <1>6 DEF Drained
  <1>7. CASE DrainTimeout
    BY <1>7 DEF DrainTimeout
  <1>8. CASE CloseParser
    BY <1>8 DEF CloseParser
  <1>9. CASE CloseDone
    BY <1>9 DEF CloseDone
  <1>10. CASE ListenerFails
    BY <1>10 DEF ListenerFails
  <1>11. CASE Signal
    BY <1>11 DEF Signal
  <1>12. ASSUME NEW r \in Requests, Accept(r)
         PROVE  DrainInv'
    <2>1. listening /\ ~inShutdown /\ ~Past({"close", "closed", "done"})
      BY <1>12 DEF Accept
    <2> QED
      BY <1>12, <2>1 DEF Accept
  <1>13. ASSUME NEW r \in Requests, Respond(r)
         PROVE  DrainInv'
    <2>1. Handling' \subseteq Handling
      BY <1>13 DEF Respond
    <2> QED
      BY <1>13, <2>1 DEF Respond
  <1>14. CASE UNCHANGED vars
    BY <1>14
  <1> QED
    BY <1>1, <1>2, <1>3, <1>4, <1>5, <1>6, <1>7, <1>8, <1>9, <1>10, <1>11, <1>12, <1>13, <1>14
    DEF Next, MainStep, DrainStep

\* A signal cuts no request off before the drain gave up, and the parser is not
\* closed under one either (main.go:179-199).
THEOREM DrainLosesNone == Spec => []CutOnlyByTimeout
  <1>1. DrainInv => CutOnlyByTimeout
    BY DEF DrainInv, CutOnlyByTimeout, Past
  <1> QED
    BY <1>1, DrainInvInit, DrainInvNext, PTL DEF Spec

-----------------------------------------------------------------------------
LEMMA TypeInit == Init => TypeOK
  BY DEF Init, TypeOK, Ended, NoAnswer

LEMMA AnswersAreOfType ==
    ASSUME TypeOK,
           NEW method, NEW path, NEW body
    PROVE  Answer(method, path, body) \in {"health", "parse", "400", "405", "404", "redirect"}
  BY DEF Answer, Serve

LEMMA TypeNext == TypeOK /\ [Next]_vars => TypeOK'
  <1> SUFFICES ASSUME TypeOK, [Next]_vars
               PROVE  TypeOK'
    OBVIOUS
  <1> USE DEF TypeOK, Ended, NoAnswer
  <1>1. CASE Mount
    <2>1. \A p \in DOMAIN mux' : mux'[p] \in {"health", "parse", "both"}
      BY <1>1 DEF Mount
    <2> QED
      BY <1>1, <2>1 DEF Mount
  <1>2. CASE ListenAndServe
    BY <1>2 DEF ListenAndServe
  <1>3. CASE ServeReturns
    BY <1>3 DEF ServeReturns
  <1>4. CASE MainReturns
    BY <1>4 DEF MainReturns
  <1>5. CASE BeginShutdown
    BY <1>5 DEF BeginShutdown
  <1>6. CASE Drained
    BY <1>6 DEF Drained
  <1>7. CASE DrainTimeout
    BY <1>7 DEF DrainTimeout
  <1>8. CASE CloseParser
    BY <1>8 DEF CloseParser
  <1>9. CASE CloseDone
    BY <1>9 DEF CloseDone
  <1>10. CASE ListenerFails
    BY <1>10 DEF ListenerFails
  <1>11. CASE Signal
    BY <1>11 DEF Signal
  <1>12. ASSUME NEW r \in Requests, Accept(r)
         PROVE  TypeOK'
    BY <1>12 DEF Accept
  <1>13. ASSUME NEW r \in Requests, Respond(r)
         PROVE  TypeOK'
    <2>1. Answer(asked[r][1], asked[r][2], asked[r][3]) \in {"health", "parse", "400", "405", "404", "redirect"}
      BY AnswersAreOfType
    <2>2. answer' \in [Requests -> {NoAnswer, "health", "parse", "400", "405", "404", "redirect"}]
      BY <1>13, <2>1 DEF Respond
    <2> QED
      BY <1>13, <2>2 DEF Respond
  <1>14. CASE UNCHANGED vars
    BY <1>14
  <1> QED
    BY <1>1, <1>2, <1>3, <1>4, <1>5, <1>6, <1>7, <1>8, <1>9, <1>10, <1>11, <1>12, <1>13, <1>14
    DEF Next, MainStep, DrainStep

\* The variables of the server keep their types.
THEOREM TypeCorrect == Spec => []TypeOK
  BY TypeInit, TypeNext, PTL DEF Spec

-----------------------------------------------------------------------------
\* What Mount registers, and who answers: both endpoints stay where they are for
\* as long as the process lives, and an answer is that of the mux.
Mounted ==
    IF HealthPath = RoutePath
    THEN [p \in {RoutePath} |-> "both"]
    ELSE [p \in {RoutePath, HealthPath} |-> IF p = RoutePath THEN "parse" ELSE "health"]

EndpointsInv ==
    /\ main = "panicked" <=> (main # "setup" /\ Rejected)
    /\ main = "setup" => \A r \in Requests : req[r] = "out"
    /\ main # "setup" => mux = Mounted
    /\ \A r \in Requests : req[r] = "answered" =>
          /\ main # "setup"
          /\ answer[r] = Answer(asked[r][1], asked[r][2], asked[r][3])

\* EndpointsInv holds of every run.
THEOREM EndpointsInvHolds == Spec => []EndpointsInv
<1>1. Init => EndpointsInv
  BY DEF Init, EndpointsInv
<1>2. TypeOK /\ DrainInv /\ EndpointsInv /\ [Next]_vars => EndpointsInv'
  <2> SUFFICES ASSUME TypeOK, DrainInv, EndpointsInv, [Next]_vars PROVE EndpointsInv'
    OBVIOUS
  <2>1. CASE Mount
    <3>1. main = "setup" /\ mux' = Mounted /\ Mounted' = Mounted /\ Rejected' = Rejected
          /\ main' = IF Rejected THEN "panicked" ELSE "listen"
      BY <2>1 DEF Mount, Mounted, RoutePath, HealthPath, Rejected
    <3>2. UNCHANGED requests
      BY <2>1 DEF Mount
    <3> QED BY <3>1, <3>2 DEF EndpointsInv
  <2>2. ASSUME UNCHANGED <<env, mux, req, asked, answer>>,
               main' = "panicked" <=> main = "panicked",
               main' = "setup" <=> main = "setup"
        PROVE  EndpointsInv'
    <3>1. Mounted' = Mounted /\ Rejected' = Rejected
      BY <2>2 DEF Mounted, RoutePath, HealthPath, Rejected
    <3>2. \A m, p, b : Answer(m, p, b)' = Answer(m, p, b)
      BY <2>2 DEF Answer
    <3> QED BY <2>2, <3>1, <3>2 DEF EndpointsInv, Answer
  <2>3. CASE ListenAndServe \/ ListenerFails \/ ServeReturns \/ MainReturns \/ Signal
    BY <2>2, <2>3 DEF ListenAndServe, ListenerFails, ServeReturns, MainReturns, Signal,
          EndpointsInv
  <2>4. CASE DrainStep
    BY <2>2, <2>4 DEF DrainStep, BeginShutdown, Drained, DrainTimeout, CloseParser, CloseDone,
          EndpointsInv
  <2>5. ASSUME NEW r \in Requests, Accept(r) PROVE EndpointsInv'
    <3>1. main # "setup" /\ main' = main /\ req[r] = "out"
      BY <2>5 DEF Accept, DrainInv
    <3>2. Mounted' = Mounted /\ mux' = mux /\ Rejected' = Rejected
      BY <2>5 DEF Accept, Mounted, RoutePath, HealthPath, Rejected
    <3>3. ASSUME NEW q \in Requests, req'[q] = "answered"
          PROVE  answer'[q] = Answer(asked[q][1], asked[q][2], asked[q][3])'
      <4>1. q # r /\ req[q] = "answered" /\ asked'[q] = asked[q] /\ answer' = answer
        BY <2>5, <3>3 DEF Accept, TypeOK
      <4> QED BY <3>2, <4>1 DEF EndpointsInv, Answer
    <3> QED BY <3>1, <3>2, <3>3 DEF EndpointsInv
  <2>6. ASSUME NEW r \in Requests, Respond(r) PROVE EndpointsInv'
    <3>1. main' = main /\ mux' = mux /\ asked' = asked /\ req[r] = "handling"
      BY <2>6 DEF Respond
    <3>2. Mounted' = Mounted /\ Rejected' = Rejected
      BY <2>6 DEF Respond, Mounted, RoutePath, HealthPath, Rejected
    <3>3. main # "setup"
      BY <3>1 DEF EndpointsInv
    <3>4. ASSUME NEW q \in Requests, req'[q] = "answered"
          PROVE  answer'[q] = Answer(asked[q][1], asked[q][2], asked[q][3])'
      <4>1. CASE q = r
        BY <2>6, <3>1, <4>1 DEF Respond, TypeOK, Answer
      <4>2. CASE q # r
        <5>1. req[q] = "answered" /\ answer'[q] = answer[q]
          BY <2>6, <3>4, <4>2 DEF Respond, TypeOK
        <5> QED BY <3>1, <5>1 DEF EndpointsInv, Answer
      <4> QED BY <4>1, <4>2
    <3> QED BY <3>1, <3>2, <3>3, <3>4 DEF EndpointsInv
  <2>7. CASE UNCHANGED vars
    BY <2>2, <2>7 DEF EndpointsInv
  <2> QED BY <2>1, <2>3, <2>4, <2>5, <2>6, <2>7 DEF Next, MainStep
<1>3. Spec => []DrainInv
  BY DrainInvInit, DrainInvNext, PTL DEF Spec
<1> QED BY <1>1, <1>2, <1>3, TypeCorrect, PTL DEF Spec

-----------------------------------------------------------------------------
\* A non-empty set of natural numbers has a least one.
LEMMA LeastPlace ==
    ASSUME NEW T, T \subseteq Nat, T # {} PROVE \E x \in T : \A y \in T : x <= y
<1>1. PICK m \in T : TRUE
  OBVIOUS
<1> DEFINE U == {0..n : n \in {n \in T : n <= m}}
<1>2. \A n \in Nat : IsFiniteSet(0..n)
  BY FS_Interval
<1>3. U \subseteq FiniteSubsetsOf(Nat) /\ U # {}
  BY <1>1, <1>2 DEF FiniteSubsetsOf
<1>4. IsWellFoundedOn(StrictSubsetOrdering(Nat), FiniteSubsetsOf(Nat))
  BY FS_StrictSubsetOrderingWellFounded
<1> HIDE DEF U
<1>5. PICK least \in U : \A s \in U : <<s, least>> \notin StrictSubsetOrdering(Nat)
  BY <1>3, <1>4, WFMin
<1>6. PICK x \in T : x <= m /\ least = 0..x
  BY <1>5 DEF U
<1>7. ASSUME NEW y \in T, y < x PROVE FALSE
  <2>1. 0..y \in U
    BY <1>1, <1>6, <1>7 DEF U
  <2>2. 0..y \subseteq 0..x /\ x \in 0..x /\ x \notin 0..y /\ 0..x \subseteq Nat
    BY <1>7
  <2>3. <<0..y, least>> \in StrictSubsetOrdering(Nat)
    BY <1>6, <2>2 DEF StrictSubsetOrdering
  <2> QED BY <1>5, <2>1, <2>3
<1> QED BY <1>6, <1>7

\* Min and Max of a non-empty set of places are its first and its last place.
LEMMA FirstAndLast ==
    ASSUME NEW n \in Nat, NEW S \in SUBSET (0..n), S # {}
    PROVE  /\ Min(S) \in S /\ \A y \in S : Min(S) <= y
           /\ Max(S) \in S /\ \A y \in S : y <= Max(S)
<1>0. S \subseteq Nat
  OBVIOUS
<1>1. \E x \in S : \A y \in S : x <= y
  BY <1>0, LeastPlace
<1>2. Min(S) \in S /\ \A y \in S : Min(S) <= y
  BY <1>1 DEF Min
<1> DEFINE T == {n - x : x \in S}
<1>3. T \subseteq Nat /\ T # {}
  <2>1. \A x \in S : n - x \in Nat
    OBVIOUS
  <2>2. PICK x \in S : TRUE
    OBVIOUS
  <2>3. n - x \in T
    BY <2>2
  <2> QED BY <2>1, <2>3
<1> HIDE DEF T
<1>4. PICK d \in T : \A y \in T : d <= y
  BY <1>3, LeastPlace
<1>5. PICK x \in S : d = n - x
  BY <1>4 DEF T
<1>6. \A y \in S : x >= y
  <2> SUFFICES ASSUME NEW y \in S PROVE x >= y
    OBVIOUS
  <2>1. n - y \in T
    BY DEF T
  <2>2. n - x <= n - y /\ x \in 0..n /\ y \in 0..n
    BY <1>4, <1>5, <2>1
  <2> QED BY <2>2
<1>7. Max(S) \in S /\ \A y \in S : Max(S) >= y
  BY <1>6 DEF Max
<1>8. \A y \in S : y <= Max(S)
  BY <1>7
<1> QED BY <1>2, <1>7, <1>8

\* TrimRight leaves the path up to its last character that is no slash.
LEMMA TrimRightEnds ==
    ASSUME NEW p \in Seq(Characters), NEW n \in 0..Len(p),
           n # 0 => p[n] # "/",
           \A k \in (n + 1)..Len(p) : p[k] = "/"
    PROVE  TrimRight(p) = SubSeq(p, 1, n)
<1> DEFINE at == {k \in 1..Len(p) : p[k] # "/"}
           S == {0} \union at
<1>1. S \in SUBSET (0..Len(p)) /\ S # {} /\ n \in S /\ Len(p) \in Nat
  OBVIOUS
<1>2. \A y \in S : y <= n
  OBVIOUS
<1> HIDE DEF S, at
<1>3. Max(S) \in S /\ \A y \in S : y <= Max(S)
  BY <1>1, FirstAndLast
<1>4. Max(S) = n
  <2>1. Max(S) \in 0..Len(p)
    BY ONLY <1>1, <1>3
  <2>2. Max(S) <= n /\ n <= Max(S)
    BY <1>1, <1>2, <1>3
  <2> QED BY ONLY <2>1, <2>2, n \in 0..Len(p), Len(p) \in Nat
<1>5. TrimRight(p) = SubSeq(p, 1, Max(S))
  BY ONLY TRUE DEF TrimRight, S, at
<1> QED BY <1>4, <1>5

\* What precedes and ends the characters between the slashes at the ends.
Nameless(s) == \A i \in DOMAIN s : s[i] = "/"

\* Under is empty for a setting of slashes only, and otherwise the slash and what is
\* between the first and the last character that is none.
LEMMA UnderIs ==
    ASSUME NEW s \in Seq(Characters)
    PROVE  /\ Nameless(s) => Under(s) = <<>>
           /\ ~Nameless(s) =>
                \E a \in 1..Len(s), z \in 1..Len(s) :
                   /\ a <= z /\ s[a] # "/" /\ s[z] # "/"
                   /\ \A i \in 1..Len(s) : i < a \/ i > z => s[i] = "/"
                   /\ Under(s) = Slash \o SubSeq(s, a, z)
<1> DEFINE at == {i \in DOMAIN s : s[i] # "/"}
<1>1. CASE Nameless(s)
  <2>1. at = {}
    BY <1>1 DEF Nameless
  <2>2. Bare(s) = <<>>
    BY <2>1 DEF Bare
  <2> QED BY <1>1, <2>2 DEF Under
<1>2. CASE ~Nameless(s)
  <2>1. at # {} /\ at \in SUBSET (0..Len(s)) /\ Len(s) \in Nat /\ DOMAIN s = 1..Len(s)
    BY <1>2 DEF Nameless
  <2> HIDE DEF at
  <2>2. /\ Min(at) \in at /\ \A y \in at : Min(at) <= y
        /\ Max(at) \in at /\ \A y \in at : y <= Max(at)
    BY <2>1, FirstAndLast
  <2>3. /\ Min(at) \in 1..Len(s) /\ Max(at) \in 1..Len(s) /\ Min(at) <= Max(at)
        /\ s[Min(at)] # "/" /\ s[Max(at)] # "/"
    BY <2>1, <2>2 DEF at
  <2>4. \A i \in 1..Len(s) : i < Min(at) \/ i > Max(at) => s[i] = "/"
    <3> SUFFICES ASSUME NEW i \in 1..Len(s), i < Min(at) \/ i > Max(at), s[i] # "/"
                 PROVE  FALSE
      OBVIOUS
    <3>1. i \in at
      BY <2>1 DEF at
    <3>2. Min(at) <= i /\ i <= Max(at)
      BY <2>2, <3>1
    <3> QED BY <2>3, <3>2
  <2>5. Bare(s) = SubSeq(s, Min(at), Max(at))
    BY <2>1 DEF Bare, at
  <2>6. Len(SubSeq(s, Min(at), Max(at))) = Max(at) - Min(at) + 1
    BY <2>3
  <2>7. Bare(s) # <<>>
    <3>1. Len(Bare(s)) # 0
      BY <2>3, <2>5, <2>6
    <3> QED BY <3>1
  <2>8. Under(s) = Slash \o SubSeq(s, Min(at), Max(at))
    BY <2>5, <2>7 DEF Under
  <2> QED BY <1>2, <2>3, <2>4, <2>8
<1> QED BY <1>1, <1>2

\* TrimRight only takes characters away at the end.
LEMMA TrimRightPrefix ==
    ASSUME NEW p \in Seq(Characters)
    PROVE  \E n \in 0..Len(p) : TrimRight(p) = SubSeq(p, 1, n)
<1> DEFINE at == {k \in 1..Len(p) : p[k] # "/"}
           S == {0} \union at
<1>1. S \in SUBSET (0..Len(p)) /\ S # {} /\ Len(p) \in Nat
  OBVIOUS
<1> HIDE DEF S
<1>2. Max(S) \in 0..Len(p)
  BY <1>1, FirstAndLast
<1>3. TrimRight(p) = SubSeq(p, 1, Max(S))
  BY ONLY TRUE DEF TrimRight, S, at
<1> QED BY <1>2, <1>3

\* The defaults are paths, and a slash in front of a path gives one.
LEMMA Slashes ==
    /\ Slash \in Seq(Characters) /\ Len(Slash) = 1 /\ Slash[1] = "/" /\ ~Malformed(Slash)
    /\ Health \in Seq(Characters) /\ Len(Health) = 2 /\ Health[2] = "h" /\ ~Malformed(Health)
<1>1. Slash \in Seq(Characters) /\ Len(Slash) = 1 /\ Slash[1] = "/"
  <2>1. "/" \in Characters
    BY SettingsAssumption
  <2> QED BY ONLY <2>1 DEF Slash
<1>2. Health \in Seq(Characters) /\ Len(Health) = 2 /\ Health[1] = "/" /\ Health[2] = "h"
  <2>1. "/" \in Characters /\ "h" \in Characters
    BY SettingsAssumption
  <2> QED BY ONLY <2>1 DEF Health
<1>3. \A i \in DOMAIN Slash : i = 1
  BY <1>1
<1>4. \A i \in DOMAIN Health : i = 1 \/ i = 2
  BY <1>2
<1> QED BY <1>1, <1>2, <1>3, <1>4 DEF Malformed

\* A slash in front of a sequence moves its characters by one place.
LEMMA SlashBefore ==
    ASSUME NEW w \in Seq(Characters)
    PROVE  /\ Slash \o w \in Seq(Characters) /\ Len(Slash \o w) = 1 + Len(w)
           /\ (Slash \o w)[1] = "/"
           /\ \A j \in 2..(1 + Len(w)) : (Slash \o w)[j] = w[j - 1]
<1>1. Slash \in Seq(Characters) /\ Len(Slash) = 1 /\ Slash[1] = "/"
  BY Slashes
<1>2. Slash \o w \in Seq(Characters)
  BY <1>1
<1>5. Len(Slash \o w) = 1 + Len(w)
  <2>1. Len(Slash \o w) = Len(Slash) + Len(w)
    BY <1>1, ConcatProperties
  <2> QED BY <1>1, <2>1
<1>3. (Slash \o w)[1] = "/"
  BY <1>1
<1>4. ASSUME NEW j \in 2..(1 + Len(w)) PROVE (Slash \o w)[j] = w[j - 1]
  <2>1. j \in (Len(Slash) + 1)..(Len(Slash) + Len(w)) /\ Len(w) \in Nat
    BY <1>1
  <2>2. (Slash \o w)[j] = w[j - Len(Slash)]
    <3>1. \A i \in 1..(Len(Slash) + Len(w)) :
             (Slash \o w)[i] = IF i <= Len(Slash) THEN Slash[i] ELSE w[i - Len(Slash)]
      BY <1>1, ConcatProperties
    <3>2. j \in 1..(Len(Slash) + Len(w)) /\ ~(j <= Len(Slash))
      BY <1>1, <2>1
    <3> QED BY <3>1, <3>2
  <2> QED BY <1>1, <2>2
<1> QED BY <1>2, <1>3, <1>4, <1>5

\* Concatenation brings no character in.
LEMMA MalformedPart ==
    ASSUME NEW a \in Seq(Characters), NEW b \in Seq(Characters), Malformed(a \o b)
    PROVE  Malformed(a) \/ Malformed(b)
<1>1. PICK i \in 1..(Len(a) + Len(b)) : (a \o b)[i] \in {" ", "{"}
  <2>1. DOMAIN (a \o b) = 1..(Len(a) + Len(b))
    OBVIOUS
  <2> QED BY <2>1 DEF Malformed
<1>0. Len(a) \in Nat /\ Len(b) \in Nat
  OBVIOUS
<1>2. CASE i <= Len(a)
  <2>1. i \in DOMAIN a /\ a[i] = (a \o b)[i]
    BY <1>2
  <2> QED BY <1>1, <2>1 DEF Malformed
<1>3. CASE i > Len(a)
  <2>1. i - Len(a) \in DOMAIN b /\ b[i - Len(a)] = (a \o b)[i]
    BY <1>3
  <2> QED BY <1>1, <2>1 DEF Malformed
<1>4. i <= Len(a) \/ i > Len(a)
  BY <1>0
<1> QED BY <1>2, <1>3, <1>4

\* normalizePath gives a path of the characters of the setting and a slash.
LEMMA NormalizedPath ==
    ASSUME NEW s \in Seq(Characters)
    PROVE  NormalizePath(s) \in Seq(Characters) /\ (Malformed(NormalizePath(s)) => Malformed(s))
<1>1. CASE s = <<>> \/ s[1] # "/"
  <2>1. NormalizePath(s) = Slash \o s
    BY <1>1 DEF NormalizePath
  <2>2. Slash \o s \in Seq(Characters)
    BY Slashes
  <2> QED BY <2>1, <2>2, Slashes, MalformedPart
<1>2. CASE ~(s = <<>> \/ s[1] # "/")
  BY <1>2 DEF NormalizePath
<1> QED BY <1>1, <1>2

\* Unless slashes meet before a name, what normalizePath gives begins with what the
\* README means by the setting, and goes on with slashes only.
LEMMA NormalizedIs ==
    ASSUME NEW s \in Seq(Characters), ~Doubled(s)
    PROVE  /\ NormalizePath(s) \in Seq(Characters)
           /\ Under(s) \in Seq(Characters)
           /\ Len(Under(s)) \in 0..Len(NormalizePath(s))
           /\ SubSeq(NormalizePath(s), 1, Len(Under(s))) = Under(s)
           /\ Under(s) # <<>> => Under(s)[Len(Under(s))] # "/"
           /\ \A k \in (Len(Under(s)) + 1)..Len(NormalizePath(s)) : NormalizePath(s)[k] = "/"
           /\ ~Unclean(Under(s))
<1> DEFINE p == NormalizePath(s)
           u == Under(s)
<1>1. p \in Seq(Characters)
  BY NormalizedPath
<1>2. CASE Nameless(s)
  <2>1. u = <<>>
    BY <1>2, UnderIs
  <2>2. \A k \in 1..Len(p) : p[k] = "/"
    BY <1>2 DEF NormalizePath, Slash, Nameless
  <2> QED BY <1>1, <2>1, <2>2 DEF Unclean
<1>3. CASE ~Nameless(s)
  <2>1. PICK a \in 1..Len(s), z \in 1..Len(s) :
           /\ a <= z /\ s[a] # "/" /\ s[z] # "/"
           /\ \A i \in 1..Len(s) : i < a \/ i > z => s[i] = "/"
           /\ u = Slash \o SubSeq(s, a, z)
    BY <1>3, UnderIs
  <2> DEFINE n == z - a + 2
  <2>2. /\ u \in Seq(Characters) /\ Len(u) = n /\ n \in Nat /\ n >= 2
        /\ u[1] = "/" /\ \A j \in 2..n : u[j] = s[a + j - 2]
    <3> DEFINE w == SubSeq(s, a, z)
    <3>1. /\ w \in Seq(Characters) /\ Len(w) = z - a + 1 /\ z - a \in Nat
          /\ \A j \in 1..Len(w) : w[j] = s[a + j - 1]
      BY <2>1
    <3>2. u = Slash \o w
      BY <2>1
    <3> HIDE DEF w, u
    <3>3. /\ u \in Seq(Characters) /\ Len(u) = 1 + Len(w) /\ u[1] = "/"
          /\ \A j \in 2..(1 + Len(w)) : u[j] = w[j - 1]
      BY ONLY <3>1, <3>2, SlashBefore
    <3>4. ASSUME NEW j \in 2..n PROVE u[j] = s[a + j - 2]
      <4>1. j - 1 \in 1..Len(w) /\ a + (j - 1) - 1 = a + j - 2 /\ j \in 2..(1 + Len(w))
        BY <2>1, <3>1
      <4> QED BY <3>1, <3>3, <4>1
    <3> QED BY <3>1, <3>3, <3>4
  <2>3. a \in {1, 2}
    <3>1. CASE a > 2
      <4>1. s[1] = "/" /\ s[2] = "/" /\ 1 \in 1..(Len(s) - 1) /\ 1 + 1 = 2
        BY <2>1, <3>1
      <4>2. Doubled(s)
        BY <2>1, <3>1, <4>1 DEF Doubled
      <4> QED BY <4>2
    <3> QED BY <2>1, <3>1
  <2>4. /\ Len(p) = Len(s) + 2 - a
        /\ p[1] = "/" /\ \A k \in 2..Len(p) : p[k] = s[k + a - 2]
    <3>1. CASE a = 1
      <4>1. s[1] # "/" /\ p = Slash \o s
        BY <2>1, <3>1 DEF NormalizePath
      <4> QED BY <3>1, <4>1 DEF Slash
    <3>2. CASE a = 2
      <4>1. s[1] = "/" /\ p = s /\ s # <<>>
        BY <2>1, <3>2 DEF NormalizePath
      <4> QED BY <3>2, <4>1
    <3> QED BY <2>3, <3>1, <3>2
  <2> HIDE DEF p, u
  <2>5. Len(u) \in 0..Len(p) /\ Len(p) \in Nat
    BY <1>1, <2>1, <2>2, <2>4
  <2>6. SubSeq(p, 1, Len(u)) = u
    <3>1. /\ SubSeq(p, 1, Len(u)) \in Seq(Characters) /\ Len(SubSeq(p, 1, Len(u))) = Len(u)
          /\ \A j \in 1..Len(u) : SubSeq(p, 1, Len(u))[j] = p[j]
      BY <1>1, <2>5
    <3>2. \A j \in 1..Len(u) : p[j] = u[j]
      <4> SUFFICES ASSUME NEW j \in 1..Len(u) PROVE p[j] = u[j]
        OBVIOUS
      <4>1. j = 1 \/ (j \in 2..n /\ j \in 2..Len(p) /\ a + j - 2 = j + a - 2)
        BY <2>2, <2>3, <2>5
      <4> QED BY <2>2, <2>4, <4>1
    <3> QED BY <2>2, <3>1, <3>2
  <2>7. u[Len(u)] # "/"
    <3>1. n \in 2..n /\ a + n - 2 = z
      BY <2>1, <2>2
    <3> QED BY <2>1, <2>2, <3>1
  <2>8. \A k \in (Len(u) + 1)..Len(p) : p[k] = "/"
    <3> SUFFICES ASSUME NEW k \in (Len(u) + 1)..Len(p) PROVE p[k] = "/"
      OBVIOUS
    <3>1. k \in 2..Len(p) /\ k + a - 2 \in 1..Len(s) /\ k + a - 2 > z
      BY <2>1, <2>2, <2>3, <2>4
    <3> QED BY <2>1, <2>4, <3>1
  <2>9. ~Unclean(u)
    <3> SUFFICES ASSUME NEW i \in 1..(Len(u) - 1), u[i] = "/", u[i + 1] = "/" PROVE FALSE
      BY DEF Unclean
    <3>1. CASE i = 1
      <4>1. 2 \in 2..n /\ i + 1 = 2 /\ a + 2 - 2 = a
        BY <2>1, <2>2, <3>1
      <4> QED BY <2>1, <2>2, <4>1
    <3>2. CASE i # 1
      <4>1. /\ i \in 2..n /\ i + 1 \in 2..n
            /\ a + i - 2 \in 1..(Len(s) - 1) /\ z > a + i - 2
            /\ a + (i + 1) - 2 = (a + i - 2) + 1
        BY <2>1, <2>2, <3>2
      <4>2. s[a + i - 2] = "/" /\ s[(a + i - 2) + 1] = "/"
        BY <2>2, <4>1
      <4>3. \E j \in DOMAIN s : j > a + i - 2 /\ s[j] # "/"
        BY <2>1, <4>1
      <4>4. Doubled(s)
        BY <4>1, <4>2, <4>3 DEF Doubled
      <4> QED BY <4>4
    <3> QED BY <3>1, <3>2
  <2> QED BY <1>1, <2>2, <2>5, <2>6, <2>7, <2>8, <2>9 DEF p, u
<1> QED BY <1>2, <1>3

\* joinPath gives the documented path, for settings of any length: main.go:46-60.
LEMMA JoinedAsDocumented ==
    ASSUME NEW b \in Seq(Characters), NEW s \in Seq(Characters), ~Doubled(b), ~Doubled(s)
    PROVE  JoinPath(b, s) = Documented(b, s) /\ ~Unclean(Documented(b, s))
<1> DEFINE p == NormalizePath(s)
           q == NormalizePath(b)
           u == Under(s)
           v == Under(b)
<1>1. /\ p \in Seq(Characters) /\ u \in Seq(Characters) /\ Len(u) \in 0..Len(p)
      /\ SubSeq(p, 1, Len(u)) = u
      /\ u # <<>> => u[Len(u)] # "/"
      /\ \A k \in (Len(u) + 1)..Len(p) : p[k] = "/"
      /\ ~Unclean(u)
  BY NormalizedIs
<1>2. /\ q \in Seq(Characters) /\ v \in Seq(Characters) /\ Len(v) \in 0..Len(q)
      /\ SubSeq(q, 1, Len(v)) = v
      /\ v # <<>> => v[Len(v)] # "/"
      /\ \A k \in (Len(v) + 1)..Len(q) : q[k] = "/"
      /\ ~Unclean(v)
  BY NormalizedIs
<1> HIDE DEF p, q, u, v
<1>3. TrimRight(q) = v
  <2>1. Len(v) # 0 => q[Len(v)] # "/"
    BY <1>2
  <2> QED BY <1>2, <2>1, TrimRightEnds
<1> DEFINE f == v \o p
<1>4. /\ f \in Seq(Characters) /\ Len(f) = Len(v) + Len(p)
      /\ \A i \in 1..Len(v) : f[i] = v[i]
      /\ \A i \in (Len(v) + 1)..Len(f) : f[i] = p[i - Len(v)]
  BY <1>1, <1>2
<1> HIDE DEF f
<1>5. TrimRight(f) = v \o u
  <2> DEFINE n == Len(v) + Len(u)
  <2>1. n \in 0..Len(f) /\ Len(u) \in Nat /\ Len(v) \in Nat /\ Len(p) \in Nat
    BY <1>1, <1>2, <1>4
  <2>2. \A j \in 1..Len(u) : p[j] = u[j]
    BY <1>1
  <2>3. n # 0 => f[n] # "/"
    <3>1. CASE Len(u) # 0
      <4>1. n \in (Len(v) + 1)..Len(f) /\ n - Len(v) = Len(u) /\ Len(u) \in 1..Len(u)
        BY <2>1, <3>1
      <4>2. f[n] = u[Len(u)]
        BY <1>4, <2>2, <4>1
      <4> QED BY <1>1, <3>1, <4>2
    <3>2. CASE Len(u) = 0 /\ Len(v) # 0
      <4>1. n = Len(v) /\ n \in 1..Len(v) /\ v # <<>>
        BY <2>1, <3>2
      <4> QED BY <1>2, <1>4, <4>1
    <3> QED BY <2>1, <3>1, <3>2
  <2>4. \A k \in (n + 1)..Len(f) : f[k] = "/"
    <3> SUFFICES ASSUME NEW k \in (n + 1)..Len(f) PROVE f[k] = "/"
      OBVIOUS
    <3>1. k \in (Len(v) + 1)..Len(f) /\ k - Len(v) \in (Len(u) + 1)..Len(p)
      BY <1>4, <2>1
    <3> QED BY <1>1, <1>4, <3>1
  <2>5. TrimRight(f) = SubSeq(f, 1, n)
    BY <1>4, <2>1, <2>3, <2>4, TrimRightEnds
  <2>6. SubSeq(f, 1, n) = v \o u
    <3>1. /\ SubSeq(f, 1, n) \in Seq(Characters) /\ Len(SubSeq(f, 1, n)) = n
          /\ \A j \in 1..n : SubSeq(f, 1, n)[j] = f[j]
      BY <1>4, <2>1
    <3>2. /\ v \o u \in Seq(Characters) /\ Len(v \o u) = n
          /\ \A j \in 1..Len(v) : (v \o u)[j] = v[j]
          /\ \A j \in (Len(v) + 1)..n : (v \o u)[j] = u[j - Len(v)]
      BY <1>1, <1>2
    <3>3. ASSUME NEW j \in 1..n PROVE f[j] = (v \o u)[j]
      <4>1. CASE j \in 1..Len(v)
        BY <1>4, <3>2, <4>1
      <4>2. CASE j \notin 1..Len(v)
        <5>1. /\ j \in (Len(v) + 1)..n /\ j \in (Len(v) + 1)..Len(f)
              /\ j - Len(v) \in 1..Len(u)
          BY <2>1, <4>2
        <5> QED BY <1>4, <2>2, <3>2, <5>1
      <4> QED BY <4>1, <4>2
    <3> HIDE DEF n
    <3> QED BY <3>1, <3>2, <3>3
  <2> QED BY <2>5, <2>6
<1>6. JoinPath(b, s) = Documented(b, s)
  BY <1>3, <1>5 DEF JoinPath, Documented, p, q, u, v, f
<1>7. ~Unclean(v \o u)
  <2> SUFFICES ASSUME NEW i \in 1..(Len(v \o u) - 1),
                      (v \o u)[i] = "/", (v \o u)[i + 1] = "/"
               PROVE  FALSE
    BY DEF Unclean
  <2>1. /\ Len(v \o u) = Len(v) + Len(u) /\ Len(u) \in Nat /\ Len(v) \in Nat
        /\ \A j \in 1..Len(v) : (v \o u)[j] = v[j]
        /\ \A j \in (Len(v) + 1)..(Len(v) + Len(u)) : (v \o u)[j] = u[j - Len(v)]
    BY <1>1, <1>2
  <2>2. CASE i < Len(v)
    <3>1. i \in 1..(Len(v) - 1) /\ i \in 1..Len(v) /\ i + 1 \in 1..Len(v)
      BY <2>1, <2>2
    <3> QED BY <1>2, <2>1, <3>1 DEF Unclean
  <2>3. CASE i = Len(v)
    <3>1. i \in 1..Len(v) /\ v # <<>>
      BY <2>1, <2>3
    <3> QED BY <1>2, <2>1, <2>3, <3>1
  <2>4. CASE i > Len(v)
    <3>1. /\ i \in (Len(v) + 1)..(Len(v) + Len(u)) /\ i + 1 \in (Len(v) + 1)..(Len(v) + Len(u))
          /\ i - Len(v) \in 1..(Len(u) - 1) /\ (i + 1) - Len(v) = (i - Len(v)) + 1
      BY <2>1, <2>4
    <3> QED BY <1>1, <2>1, <3>1 DEF Unclean
  <2> QED BY <2>1, <2>2, <2>3, <2>4
<1>8. ~Unclean(Documented(b, s))
  BY <1>7 DEF Documented, Unclean, Slash, u, v
<1> QED BY <1>6, <1>8

\* What is in no setting is in no path.
LEMMA JoinedOfSettings ==
    ASSUME NEW b \in Seq(Characters), NEW s \in Seq(Characters), Malformed(JoinPath(b, s))
    PROVE  Malformed(b) \/ Malformed(s)
<1> DEFINE q == NormalizePath(b)
           p == NormalizePath(s)
<1>1. q \in Seq(Characters) /\ (Malformed(q) => Malformed(b))
  BY NormalizedPath
<1>2. p \in Seq(Characters) /\ (Malformed(p) => Malformed(s))
  BY NormalizedPath
<1> HIDE DEF p, q
<1>3. ASSUME NEW x \in Seq(Characters) 
      PROVE  TrimRight(x) \in Seq(Characters) /\ (Malformed(TrimRight(x)) => Malformed(x))
  <2>1. PICK n \in 0..Len(x) : TrimRight(x) = SubSeq(x, 1, n)
    BY TrimRightPrefix
  <2>2. /\ SubSeq(x, 1, n) \in Seq(Characters) /\ DOMAIN SubSeq(x, 1, n) = 1..n
        /\ \A i \in 1..n : i \in DOMAIN x /\ SubSeq(x, 1, n)[i] = x[i]
    OBVIOUS
  <2> QED BY <2>1, <2>2 DEF Malformed
<1> DEFINE v == TrimRight(q)
<1>4. v \in Seq(Characters) /\ (Malformed(v) => Malformed(b))
  BY <1>1, <1>3
<1> HIDE DEF v
<1>5. v \o p \in Seq(Characters) /\ (Malformed(v \o p) => Malformed(v) \/ Malformed(p))
  BY <1>2, <1>4, MalformedPart
<1> DEFINE f == v \o p
<1> HIDE DEF f
<1>6. f \in Seq(Characters) /\ (Malformed(f) => Malformed(v) \/ Malformed(p))
  BY <1>5 DEF f
<1>7. JoinPath(b, s) = IF TrimRight(f) = <<>> THEN Slash ELSE TrimRight(f)
  BY DEF JoinPath, f, v, p, q
<1>8. ~Malformed(Slash)
  BY Slashes
<1>9. Malformed(TrimRight(f)) => Malformed(f)
  BY <1>3, <1>6
<1> QED BY <1>2, <1>4, <1>6, <1>7, <1>8, <1>9

-----------------------------------------------------------------------------
\* The server starts unless a setting holds a character no pattern takes; and with
\* settings of any length whose slashes do not meet before a name, on one path, on
\* "/" or apart, a GET of the documented health path is a health check and a POST of
\* the documented parse path a parse.
THEOREM DocumentedEndpointsServed == Spec => []EndpointsServed
<1>1. TypeOK /\ EndpointsInv => EndpointsServed
  <2> SUFFICES ASSUME TypeOK, EndpointsInv PROVE EndpointsServed
    OBVIOUS
  <2>1. /\ env[1] \in Seq(Characters) /\ env[2] \in Seq(Characters) /\ env[3] \in Seq(Characters)
    BY SettingsAssumption DEF TypeOK
  <2> DEFINE sub == EnvOr(env[2], Slash)
             hub == EnvOr(env[3], Health)
  <2>2. /\ sub \in Seq(Characters) /\ (Malformed(sub) => Malformed(env[2]))
        /\ Doubled(sub) => Doubled(env[2])
    <3>1. ~Doubled(Slash)
      BY Slashes DEF Doubled
    <3> QED BY <2>1, <3>1, Slashes DEF EnvOr
  <2>3. /\ hub \in Seq(Characters) /\ (Malformed(hub) => Malformed(env[3]))
        /\ Doubled(hub) => Doubled(env[3])
    <3>1. ~Doubled(Health)
      BY Slashes DEF Doubled
    <3> QED BY <2>1, <3>1, Slashes DEF EnvOr
  <2> HIDE DEF sub, hub
  <2>4. RoutePath = JoinPath(env[1], sub) /\ HealthPath = JoinPath(env[1], hub)
    BY DEF RoutePath, HealthPath, sub, hub
  <2>5. main = "panicked" => \E i \in 1..3 : Malformed(env[i])
    <3> SUFFICES ASSUME main = "panicked" PROVE \E i \in 1..3 : Malformed(env[i])
      OBVIOUS
    <3>1. Malformed(RoutePath) \/ Malformed(HealthPath)
      BY DEF EndpointsInv, Rejected
    <3>2. Malformed(env[1]) \/ Malformed(env[2]) \/ Malformed(env[3])
      BY <2>1, <2>2, <2>3, <2>4, <3>1, JoinedOfSettings
    <3> QED BY <3>2
  <2>6. ASSUME \A i \in 1..3 : ~Doubled(env[i]), NEW r \in Requests, req[r] = "answered"
        PROVE  /\ asked[r][1] = "GET" /\ asked[r][2] = DocumentedHealth => answer[r] = "health"
               /\ asked[r] = <<"POST", DocumentedRoute, "json">> => answer[r] = "parse"
    <3>1. ~Doubled(env[1]) /\ ~Doubled(env[2]) /\ ~Doubled(env[3])
      BY <2>6
    <3>2. RoutePath = Documented(env[1], sub) /\ ~Unclean(RoutePath)
      BY <2>1, <2>2, <2>4, <3>1, JoinedAsDocumented
    <3>3. HealthPath = DocumentedHealth /\ ~Unclean(HealthPath)
      BY <2>1, <2>3, <2>4, <3>1, JoinedAsDocumented DEF DocumentedHealth, hub
    <3>4. DocumentedRoute = Documented(env[1], sub)
      <4>1. CASE env[2] = <<>>
        <5>1. Nameless(sub) /\ Nameless(env[2]) /\ sub \in Seq(Characters)
          <6>1. sub = Slash /\ \A i \in DOMAIN Slash : i = 1
            BY <4>1, Slashes DEF sub, EnvOr
          <6> QED BY <4>1, <6>1, Slashes DEF Nameless
        <5>2. Under(sub) = <<>> /\ Under(env[2]) = <<>>
          BY <2>1, <5>1, UnderIs
        <5> QED BY <5>2 DEF DocumentedRoute, Documented
      <4>2. CASE env[2] # <<>>
        BY <4>2 DEF sub, EnvOr, DocumentedRoute
      <4> QED BY <4>1, <4>2
    <3>5. mux = Mounted /\ answer[r] = Answer(asked[r][1], asked[r][2], asked[r][3])
      BY <2>6 DEF EndpointsInv
    <3>6. HealthPath \in DOMAIN mux /\ mux[HealthPath] \in {"health", "both"}
      BY <3>5 DEF Mounted
    <3>7. RoutePath \in DOMAIN mux /\ mux[RoutePath] \in {"parse", "both"}
      BY <3>5 DEF Mounted
    <3>8. asked[r][1] = "GET" /\ asked[r][2] = HealthPath => answer[r] = "health"
      BY <3>3, <3>5, <3>6 DEF Answer, Serve
    <3>9. asked[r] = <<"POST", RoutePath, "json">> => answer[r] = "parse"
      BY <3>2, <3>5, <3>7 DEF Answer, Serve
    <3> QED BY <3>2, <3>3, <3>4, <3>8, <3>9
  <2> QED BY <2>5, <2>6 DEF EndpointsServed
<1> QED BY <1>1, EndpointsInvHolds, TypeCorrect, PTL

=============================================================================
