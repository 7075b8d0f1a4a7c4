-------------------------------- MODULE MCIrq ---------------------------------
(* Counters that wrap after three, two timer edges in a round and two bytes *)
(* waiting, so that requests overlap, are lost and come back.              *)
EXTENDS Irq
===============================================================================
