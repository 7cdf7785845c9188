--------------------------------- MODULE Sums ---------------------------------
(* Amounts, one for each member of a finite set, added up. *)
EXTENDS Integers, FiniteSetsExt

SumOver(set, amount) == MapThenSumSet(LAMBDA a : amount[a], set)
===============================================================================
