-------------------------------- MODULE Sums --------------------------------
(***************************************************************************)
(* The sum of what a function gives the members of a set: the $sum of the  *)
(* aggregations behind the summaries, and the loops that add up items.     *)
(***************************************************************************)
EXTENDS Integers, FiniteSetsExt

SumOver(f, S) == MapThenSumSet(LAMBDA x : f[x], S)
=============================================================================
