--------------------------- MODULE MC_LaunchToken ---------------------------
(***************************************************************************)
(* A behaviour is a token's dividend stream or a curve that is traded; the *)
(* other one stays where it starts.  The curve's reserves keep the code's  *)
(* ratios (1_066_666_667 : 800_000_000 tokens), scaled down.               *)
(***************************************************************************)
EXTENDS LaunchToken, CurveTrades, TLC

CONSTANTS u1, u2, pool, self

MCSymmetry == Permutations({u1, u2})

MCCreatorFees == {0, 3}
MCBuyAmounts  == {1, 2, 5, 9, 20, 60}
MCSellAmounts == {1, 2, 7, 20, 48}

VARIABLE part

mcVars == <<part, vars, tradesVars>>

MCInit ==
  /\ Init /\ TradesInit
  /\ \/ part = "token" /\ creatorFeeBps = 0
     \/ part = "curve" /\ now = 2

MCNext ==
  \/ part = "token" /\ Next /\ UNCHANGED <<part, tradesVars>>
  \/ part = "curve" /\ TradesNext /\ UNCHANGED <<part, vars>>

MCSpec == MCInit /\ [][MCNext]_mcVars
=============================================================================
