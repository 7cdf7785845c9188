---------------------------- MODULE MC_Launchpad ----------------------------
(* Constants shared by the Launchpad runs.  Supplies keep the code's       *)
(* proportions (VIRTUAL_TOKENS_0 : CURVE_SUPPLY : POOL_SUPPLY is 16:12:3), *)
(* so that a pool opens at its curve's last price.                         *)
EXTENDS Launchpad, TLC

CONSTANTS t1, t2, u1, u2, h1, p1, p2

MCPair1 == t1 :> p1
MCPair2 == (t1 :> p1) @@ (t2 :> p2)
MCUsdcPool  == u1 :> 18
MCUsdcCalls == (u1 :> 26) @@ (h1 :> 0)
=============================================================================
