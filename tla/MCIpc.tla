------------------------------- MODULE MCIpc --------------------------------
(* One endpoint; how endpoints are kept apart is a theorem of EventProofs. *)
EXTENDS Ipc
=============================================================================
