-------------------------------- MODULE Once ---------------------------------
(***************************************************************************)
(* A value that is given once and for all to a set of clients: the promise *)
(* of a process-wide engine ("the FIRST call wins and later calls are      *)
(* no-ops that return success", cmd/cshared/main.go).  A client that was   *)
(* assured has been told that the value is there.                          *)
(***************************************************************************)
CONSTANTS Values, Clients, None
VARIABLES cell, assured

Init == cell = None /\ assured = {}

Put == cell = None /\ cell' \in Values /\ UNCHANGED assured

Assure ==
    /\ cell # None
    /\ \E c \in Clients : assured' = assured \union {c}
    /\ UNCHANGED cell

Next == Put \/ Assure

Spec == Init /\ [][Next]_<<cell, assured>>

=============================================================================
