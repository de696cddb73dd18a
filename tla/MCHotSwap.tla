------------------------------ MODULE MCHotSwap ------------------------------
(***************************************************************************)
(* Small instances of HotSwap.                                             *)
(***************************************************************************)
EXTENDS HotSwap, TLC

\* File 1 has a test no database satisfies.  File 2 was written for the embedded
\* database: its second test fails on database 1.
MCBreaks == ({1} \X (0..MaxRegex) \X {1}) \union {<<2, 1, 2>>}

Symmetry == Permutations(Parsers) \union Permutations(Keys)

=============================================================================
