----------------------------- MODULE MCOutcomes -----------------------------
(* Small instance of Outcomes: prices are kept for one moment, and the      *)
(* longer of the two horizons is two moments.                               *)
EXTENDS Outcomes
=============================================================================
