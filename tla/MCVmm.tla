-------------------------------- MODULE MCVmm ---------------------------------
(* Six directory entries of two pages: one identity region, a gap, a window *)
(* of three regions for two dynamic tables, and a region behind the window. *)
EXTENDS Vmm

WindowPages == {8, 10, 12, 14, 16}

(* Valid requests, and one with each argument wrong: below the window,      *)
(* behind it, unaligned, a misaligned frame, an unknown flag.               *)
MCMapRequests ==
  {<<v, 4, {"USER"}>> : v \in WindowPages} \cup {<<v, 6, {"WRITABLE"}>> : v \in WindowPages}
    \cup {<<2, 4, {}>>, <<20, 4, {}>>, <<9, 4, {}>>, <<8, 5, {}>>, <<8, 4, {"GLOBAL"}>>}

MCUnmapRequests ==
  {<<v, FALSE>> : v \in WindowPages} \cup {<<2, FALSE>>, <<20, FALSE>>, <<9, FALSE>>, <<8, TRUE>>}
===============================================================================
