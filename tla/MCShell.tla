------------------------------- MODULE MCShell --------------------------------
(***************************************************************************)
(* Lines for two files: every command, good and wrong arities, unknown     *)
(* commands, words and lines at and over their limits, and separators in   *)
(* unusual places.                                                         *)
(***************************************************************************)
EXTENDS Shell

Changes == {<<"touch", " ", "a">>, <<"touch", " ", "b">>,
            <<"touch", " ", "0">>, <<"rm", " ", "a">>, <<"rm", " ", "b">>,
            <<" ", "write", " ", " ", "a", " ", "x", " ", " ", "y", " ">>,
            <<"write", " ", "b", " ", "y">>,
            <<"append", " ", "a", " ", "x">>,
            <<"append", " ", "a", " ", "x", " ", "y">>}

Reads == {<<"ls">>, <<"cat", " ", "a">>, <<"cat", " ", "b">>,
          <<"echo", " ", " ", "x", " ", "y">>, <<"status">>, <<"clear">>}

Wrong == {<<" ", " ">>, <<"x", " ", "a">>, <<"touch", " ", "/">>,
          <<"ls", " ", "a">>, <<"rm", " ", "a", " ", "b">>,
          <<"write", " ", "a", " ", "x", "x", "x">>,
          <<"echo", " ", "x", " ", "x", " ", "x", " ", "x">>}

MCUserLines == Changes \cup Reads \cup Wrong
===============================================================================
