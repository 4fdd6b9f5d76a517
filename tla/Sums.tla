--------------------------------- MODULE Sums ---------------------------------
(* The sum of what a function gives to the members of a finite set.           *)
EXTENDS Integers, FiniteSets, FiniteSetsExt

SumOf(f, S) == MapThenSumSet(LAMBDA x : f[x], S)
===============================================================================
