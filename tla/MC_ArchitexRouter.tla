-------------------------- MODULE MC_ArchitexRouter --------------------------
(***************************************************************************)
(* Model values of the router's run.  A behaviour trades along paths over  *)
(* three tokens, or adds, removes and permits over one pair, or does so in *)
(* larger amounts while the protocol fee is switched on and off: a whole   *)
(* share for the protocol takes a pool of twelve that has nearly doubled,  *)
(* which a gift of eleven makes of it.                                     *)
(***************************************************************************)
EXTENDS AmmQuotes

CONSTANTS tA, tB, tC, u, HeldA, HeldB, HeldC

MCAddress == [t \in Tokens |-> IF t = tA THEN 2 ELSE IF t = tB THEN 1 ELSE 3]

MCHolding == [x \in Users |-> [t \in Tokens |->
                 IF t = tA THEN HeldA ELSE IF t = tB THEN HeldB ELSE HeldC]]

(* Straight paths of one and two hops, one that turns back into the pair   *)
(* it came from, and one that comes round to its first pair again.         *)
MCPaths == {<<tA, tB>>, <<tA, tB, tC>>, <<tC, tB, tA>>, <<tA, tB, tA>>,
            <<tA, tB, tC, tA, tB>>}

(* Bounds: what the user leaves in the wallet, and the most spent of a     *)
(* token in one step.                                                      *)
KeptBack(p, t) ==
  IF t = tC THEN 0
  ELSE [fee |-> 1, liquidity |-> IF t = tA THEN 16 ELSE 17,
        paths |-> IF t = tA THEN 13 ELSE 15][p]
SpentAtOnce(p) == IF p = "fee" THEN {0, 4, 11} ELSE 0..4

VARIABLE part

MCInit == part \in {"paths", "liquidity", "fee"} /\ Init
MCNext ==
  /\ UNCHANGED part
  /\ Next
  /\ \A t \in Tokens :
       /\ wallet'[u][t] >= KeptBack(part, t)
       /\ wallet[u][t] > wallet'[u][t] => wallet[u][t] - wallet'[u][t] \in SpentAtOnce(part)
  /\ part = "paths" => UNCHANGED <<allowance, permit>> /\ \A p \in Pairs : lp'[p][Self] = 0
  /\ part = "fee" =>
       /\ permit' = permit
       /\ \A p \in Pairs : allowance'[p][u] \in {0, Unlimited} /\ lp'[p][Self] = 0
  /\ part # "paths" => created' \subseteq {{tA, tB}}
  /\ part # "fee" => feeTo' = feeTo
MCSpec == MCInit /\ [][MCNext]_<<part, vars>>
=============================================================================
