------------------------------- MODULE MCRamfs --------------------------------
(* Two slots for three names, so that creation runs out of space and slots *)
(* are reused; two data bytes, so that appends run into the limit.         *)
EXTENDS Ramfs

MCNames == {<<"a">>, <<"b">>, <<".", "a">>,          \* valid
            <<".", ".">>, <<"a", "a", "a">>}         \* reserved, too long
MCData == {<< >>, <<1>>, <<2, 1>>, <<1, 1, 1>>}
===============================================================================
