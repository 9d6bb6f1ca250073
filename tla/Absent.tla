-------------------------------- MODULE Absent --------------------------------
(* What the strategies, the trader and the research share: a value that is not there. *)
CONSTANT None
===============================================================================
