-------------------------------- MODULE MCHeap --------------------------------
(* An arena for up to four blocks; sizes around the split limit and the     *)
(* overflow limit.                                                          *)
EXTENDS Heap
===============================================================================
