------------------------------- MODULE JsClient -------------------------------
(***************************************************************************)
(* lib/index.js: one class for both sides.  isBrowser is settled when the  *)
(* script is loaded, and each method asks it.                              *)
(***************************************************************************)
EXTENDS NodeClient, Browser

VARIABLE isBrowser

vars == <<isBrowser, nodeVars, pageVars>>

Init ==
    /\ NodeInit /\ PageInit
    /\ \/ isBrowser = TRUE  /\ ~koffiLoads /\ ~wasmFileExists
       \/ isBrowser = FALSE /\ manual /\ userAgentData = "absent"

Next ==
    \/ isBrowser /\ PageNext /\ UNCHANGED <<isBrowser, nodeVars>>
    \/ ~isBrowser /\ NodeNext /\ UNCHANGED <<isBrowser, pageVars>>

Spec == Init /\ [][Next]_vars

\* On either side a downloaded file only comes into force where its URL was
\* configured.
OwnRules == RulesFromOwnSource /\ FileFromOwnSource

\* The daily timer fires.  Of the downloads that do not hang, asked for again and
\* again, some are answered again and again, and some of the answers complete; no
\* particular download has to end.  Nor has a call of init().
InNode(A) == ~isBrowser /\ A /\ UNCHANGED <<isBrowser, pageVars>>
SomeAnswer == \E d \in Slots : Answer(d)
SomeArrive == \E d \in Slots : Arrive(d)
FairSpec ==
    /\ Spec
    /\ \A c \in NodeCalls : WF_vars(InNode(Tick(c)))
    /\ SF_vars(InNode(SomeAnswer)) /\ SF_vars(InNode(SomeArrive))

=============================================================================
