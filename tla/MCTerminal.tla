------------------------------ MODULE MCTerminal ------------------------------
(* A full line and the cursor take the whole screen of three rows. *)
EXTENDS Terminal

MCUserLines == UNION {[1 .. n -> {"x", " "}] : n \in 0 .. SHELL_LINE_MAX}
               \cup {<<"echo", " ", "y">>, <<"clear">>, <<"touch", " ", "a">>, <<"ls">>}
===============================================================================
