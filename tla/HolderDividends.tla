--------------------------- MODULE HolderDividends ---------------------------
(***************************************************************************)
(* What a launch token promises its holders about dividends, with nothing  *)
(* of streams, per-share values or corrections: USDC is distributed;       *)
(* holders earn only by time passing, never more than was distributed, and *)
(* what one has earned it keeps and can claim to the last unit, whatever   *)
(* is transferred, burned, distributed or claimed by others in between.    *)
(*                                                                         *)
(* LaunchToken.tla implements it (DividendsRefined).                       *)
(***************************************************************************)
EXTENDS Integers, Sums

CONSTANTS
  Accounts,
  Excluded          \* accounts that never earn

VARIABLES
  time,
  distributed,      \* USDC given to the holders so far
  earned,           \* what each account has earned so far,
  paid              \* and how much of it was paid out

dividendVars == <<time, distributed, earned, paid>>

Total(amounts) == SumOver(Accounts, amounts)

Init ==
  /\ time \in Nat
  /\ distributed = 0
  /\ earned = [a \in Accounts |-> 0]
  /\ paid = [a \in Accounts |-> 0]

Give ==
  /\ distributed' > distributed
  /\ UNCHANGED <<time, earned, paid>>

TimePasses ==
  /\ time' > time
  /\ \A a \in Accounts : earned'[a] >= earned[a]
  /\ \A a \in Excluded : earned'[a] = 0
  /\ Total(earned') <= distributed
  /\ UNCHANGED <<distributed, paid>>

PayOut(a) ==
  /\ paid' = [paid EXCEPT ![a] = earned[a]]
  /\ UNCHANGED <<time, distributed, earned>>

Next == Give \/ TimePasses \/ \E a \in Accounts : PayOut(a)

Spec == Init /\ [][Next]_dividendVars
=============================================================================
