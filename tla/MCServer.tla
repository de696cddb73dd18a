------------------------------ MODULE MCServer -------------------------------
(***************************************************************************)
(* Small instances of Server: base paths, parse paths and health paths     *)
(* with and without slashes, that meet or do not; blanks, braces and       *)
(* slashes that double.                                                    *)
(***************************************************************************)
EXTENDS Server

Bases == {<<>>, <<"a">>, <<"/", "a", "/">>}
Routes == {<<>>, <<"/">>, <<"h">>, <<"/", "p", "/">>}
Healths == {<<>>, <<"/">>, <<"h", "/", "/">>}
Odd == {<<<<"a", " ">>, <<>>, <<>>>>, <<<<>>, <<"/", "{">>, <<>>>>, <<<<>>, <<>>, <<" ", "h">>>>,
        <<<<"a", "/", "/", "b">>, <<"p">>, <<>>>>, <<<<"/", "/", "a", "/", "/">>, <<>>, <<>>>>,
        <<<<"/", "/">>, <<"a", "b", "/", "/">>, <<"/", "a", "/", "b">>>>}
MCSettings == (Bases \X Routes \X Healths) \union Odd

=============================================================================
