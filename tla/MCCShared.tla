------------------------------ MODULE MCCShared -------------------------------
(***************************************************************************)
(* Two threads and a C heap of as many addresses; one argument of each   *)
(* kind is good, one bad, and two configs compete.                         *)
(***************************************************************************)
EXTENDS CShared

ASSUME RoomForEachCall == Cardinality(Threads) <= Cardinality(Addrs)

=============================================================================
