------------------------------- MODULE MCIngest -------------------------------
(* Instances of Ingest for TLC.                                               *)
EXTENDS Ingest

\* "/", two separate directories, and one inside another.
Roots == {<<>>, <<"d">>, <<"d", "e">>, <<"g">>}

\* A file of the inner directory, which a pair of the outer one contains too, and a
\* file with the same name elsewhere.
Files == {<<"d", "e", "x">>, <<"g", "x">>}

\* No pattern, or one that matches the name of the inner directory.
Patterns == {{}, {<<"e">>}}
===============================================================================
