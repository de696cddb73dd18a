----------------------------- MODULE MCGroupRefs ------------------------------
(* Every value of up to five characters. *)
EXTENDS GroupRefs

MCTexts == UNION {[1..n -> {"$", "{", "}", "x", "0", "1", "2"}] : n \in 0..5}

=============================================================================
