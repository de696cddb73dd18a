------------------------------ MODULE LastGood -------------------------------
(***************************************************************************)
(* What a runtime-updated resource promises (README "Hot-Swap", "any       *)
(* failure keeps the last good rules"): versions are published one after   *)
(* the other; the active one only ever moves to a later published version  *)
(* that is good.                                                           *)
(***************************************************************************)
EXTENDS Naturals

CONSTANT Good          \* the versions that pass validation
VARIABLES published,   \* the newest published version
          active       \* the version in use; 0 is the embedded one

Init == published = 0 /\ active = 0

Publish == published' = published + 1 /\ UNCHANGED active

Install ==
    /\ active' \in Good
    /\ active < active'
    /\ active' <= published
    /\ UNCHANGED published

Next == Publish \/ Install

Spec == Init /\ [][Next]_<<published, active>>

=============================================================================
