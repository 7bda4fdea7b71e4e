-------------------------------- MODULE Sums --------------------------------
(* The sum of the values of a function over a finite part of its domain,   *)
(* as the books of several contracts are compared with one.  What is known *)
(* about it for every set is proved in FiniteSums.                         *)
EXTENDS Integers, FiniteSetsExt

SumOver(w, S) == MapThenSumSet(LAMBDA x : w[x], S)
=============================================================================
