------------------------------ MODULE LaunchSale ------------------------------
(***************************************************************************)
(* What the launchpad promises about every token's sale, with nothing of   *)
(* how it is computed: a sale opens once, possibly with its creator's      *)
(* first trade; every trade may move the tokens sold and the USDC raised   *)
(* in either direction but never lowers the product of what is left of     *)
(* the virtual reserves; the trade that sells the last token closes it     *)
(* for good.  There is no other step, so fees, collections, plugins, pool  *)
(* trades, donations and the admin never touch a sale.                     *)
(*                                                                         *)
(* Launchpad.tla implements it (SaleRefined).                              *)
(***************************************************************************)
EXTENDS Integers

CONSTANTS
  Tokens,
  Supply,           \* tokens each sale offers
  TokenReserve,     \* the virtual reserves a sale starts from
  UsdcReserve

VARIABLES
  phase,    \* "unopened", "open" or "pool"
  sold,     \* tokens sold and not sold back
  raised    \* USDC the curve holds for them

saleVars == <<phase, sold, raised>>

Product(usd, out) == (UsdcReserve + usd) * (TokenReserve - out)

Init ==
  /\ phase = [t \in Tokens |-> "unopened"]
  /\ sold = [t \in Tokens |-> 0]
  /\ raised = [t \in Tokens |-> 0]

(* The sale of t moves to these totals, and ends with the last token. *)
MoveTo(t, out, usd) ==
  /\ out \in 0..Supply
  /\ usd \in Nat
  /\ Product(usd, out) >= Product(raised[t], sold[t])
  /\ sold' = [sold EXCEPT ![t] = out]
  /\ raised' = [raised EXCEPT ![t] = usd]
  /\ phase' = [phase EXCEPT ![t] = IF out = Supply THEN "pool" ELSE "open"]

OpenSale(t) ==
  /\ phase[t] = "unopened"
  /\ MoveTo(t, sold'[t], raised'[t])

Trade(t) ==
  /\ phase[t] = "open"
  /\ MoveTo(t, sold'[t], raised'[t])

Next == \E t \in Tokens : OpenSale(t) \/ Trade(t)

Spec == Init /\ [][Next]_saleVars
=============================================================================
