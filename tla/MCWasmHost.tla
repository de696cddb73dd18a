----------------------------- MODULE MCWasmHost ------------------------------
(***************************************************************************)
(* Small instances of WasmHost: the first published correction file is bad,*)
(* the second good.                                                        *)
(***************************************************************************)
EXTENDS WasmHost

MCGoodFiles == {2}

=============================================================================
