-------------------------- MODULE MC_LaunchFixtures --------------------------
(* Constants of the LaunchFixtures run.  A curve raises three times its    *)
(* starting reserve, as in the code (16 to 64 USDC), and opens a pool at   *)
(* its last price.                                                         *)
EXTENDS RehearsalModels

CONSTANTS cora, alice

MCShares == [o \in Owners |-> IF o = cora THEN 2 ELSE 1]

To(kind) == [kind |-> kind, entries |-> <<>>, burnBps |-> 10]
Of(kind, bps) == [kind |-> kind, bps |-> bps]
Combo(entries) == [kind |-> "combo", entries |-> entries, burnBps |-> 10]

On(version, dest, fee, seeded, others, usdcIs0) ==
  [version |-> version, dest |-> dest, fee |-> fee, seeded |-> seeded,
   others |-> others, usdcIs0 |-> usdcIs0]

MCLaunches ==
  {On("v13", To("holders"), 2, 0, 0, FALSE),
   On("v13", To("deepen"), 2, 0, 0, FALSE),
   On("v13", Combo(<<Of("holders", 12), Of("buyback", 8)>>), 2, 200, 1000, FALSE),
   On("v14", Combo(<<Of("wallet", 10), Of("holders", 10)>>), 2, 200, 600, TRUE),
   On("v14", To("split"), 1, 0, 0, FALSE)}
=============================================================================
