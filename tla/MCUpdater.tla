------------------------------ MODULE MCUpdater ------------------------------
(***************************************************************************)
(* Small instances of Updater: the second published file of each kind is   *)
(* bad, the others are good.                                               *)
(***************************************************************************)
EXTENDS Updater

MCGood == {1, 3}

=============================================================================
