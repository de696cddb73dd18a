------------------------------ MODULE MCJsClient ------------------------------
(***************************************************************************)
(* Two overlapping calls of init() on each side.  In Node.js one source    *)
(* serves two good files after each other, one a bad file, and one has an  *)
(* http: URL; two downloads are under way at once.                         *)
(***************************************************************************)
EXTENDS JsClient, TLC

CONSTANTS s1, s2, plain

Conf(readable, source, collect) == [readable |-> readable, source |-> source, collect |-> collect]

MCNodeConfigs == {Conf(TRUE, s1, "basic"), Conf(FALSE, s1, "basic"), Conf(FALSE, s2, "basic"),
                  Conf(FALSE, NoSource, "basic"), Conf(FALSE, plain, "basic")}
MCPageConfigs == {Conf(TRUE, s2, "gpu"), Conf(TRUE, NoSource, "none"),
                  Conf(FALSE, NoSource, "none")}
MCDefaultConfig == Conf(TRUE, s1, "basic")
MCLatest == [s \in Sources |-> IF s = s1 THEN 2 ELSE 1]
MCBadFiles == {<<s2, 1>>}

=============================================================================
