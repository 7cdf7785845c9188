--------------------------- MODULE MC_ArchitexPair ---------------------------
(***************************************************************************)
(* Model values of the ArchitexPair runs: one account that does everything *)
(* and has all tokens.  A behaviour is a long one without time ("shares"), *)
(* one with flash swaps ("flash"), or one with few tokens and no LP sent   *)
(* while time passes ("prices").                                           *)
(***************************************************************************)
EXTENDS ArchitexPair

CONSTANTS u, Tokens0, Tokens1, Parts

MCHolding0 == [a \in Accounts |-> IF a = u THEN Tokens0 ELSE 0]
MCHolding1 == [a \in Accounts |-> IF a = u THEN Tokens1 ELSE 0]

VARIABLE part

MCInit == Init /\ part \in Parts

MCNext ==
  /\ Next
  /\ UNCHANGED part
  /\ part = "flash" => now' = now
  /\ part = "prices" => wallet0'[u] >= 3 /\ wallet1'[u] >= 2 /\ lp'[Self] = 0

MCSpec == MCInit /\ [][MCNext]_<<part, vars>>
=============================================================================
