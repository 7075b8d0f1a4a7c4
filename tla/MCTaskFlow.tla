----------------------------- MODULE MCTaskFlow ------------------------------
(* The task flow with the kernel's own message count, ticks and budget. *)
EXTENDS TaskFlow
==============================================================================
