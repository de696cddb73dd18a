------------------------------- MODULE JsConfig -------------------------------
(***************************************************************************)
(* What both sides of the JavaScript client take from the argument of      *)
(* init(): whether the engine can unmarshal it, where correction files are *)
(* downloaded from, and what the page may be asked about itself.           *)
(***************************************************************************)
CONSTANTS
    Sources,   \* URLs of correction files
    NoSource   \* disable_corrections_update

ASSUME NoSourceAssumption == NoSource \notin Sources

Config == [readable : BOOLEAN,
           source : Sources \union {NoSource},
           collect : {"none", "basic", "gpu"}]

Embedded == [embedded |-> TRUE]
ASSUME EmbeddedAssumption == Embedded \notin Sources

=============================================================================
