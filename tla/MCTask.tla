------------------------------- MODULE MCTask -------------------------------
(* The scheduler with three slots and budgets that run out mid-way. *)
EXTENDS Task
=============================================================================
