--------------------------- MODULE RehearsalPlans ---------------------------
(***************************************************************************)
(* What the three on-chain rehearsals send, step by step: the order of     *)
(* main() and, for each step function, the transactions it sends.  The     *)
(* figures a step compares are reads; the driver sees their verdict.       *)
(*                                                                         *)
(* A call is one transaction of a step: `what` names it within the step    *)
(* (the key of the journal), `op` and `k` say what it does and to which    *)
(* token.  `optional` calls are sent only when a read says so; `kept` is   *)
(* how a finished call is recognised later: by the journal of mined        *)
(* transactions, or by a note of its own saved afterwards.                 *)
(***************************************************************************)
EXTENDS Naturals, Sequences, SequencesExt

Call(op, k) == [op |-> op, k |-> k, what |-> <<op, k, 1>>,
                optional |-> FALSE, kept |-> "journal"]
Nth(c, n)   == [c EXCEPT !.what[3] = n]
Maybe(c)    == [c EXCEPT !.optional = TRUE]
Noted(c)    == [c EXCEPT !.kept = "note"]

\* One transaction after the other (tx), or back to back (sendBatch).
One(c)       == [batch |-> FALSE, calls |-> <<c>>]
Batch(calls) == [batch |-> TRUE, calls |-> calls]
Each(calls)  == [n \in DOMAIN calls |-> One(calls[n])]

Step(id, sends)   == [id |-> id, sends |-> sends, always |-> FALSE, recovers |-> FALSE]
Always(id, sends) == [Step(id, sends) EXCEPT !.always = TRUE]
RecoverPending    == [Always(<<"recoverPending">>, <<>>) EXCEPT !.recovers = TRUE]

\* for (const k of kinds) ...: the steps of each kind in turn.
ForEach(kinds, StepsOf(_)) == FlattenSeq([n \in DOMAIN kinds |-> StepsOf(kinds[n])])
Only(cond, steps)          == IF cond THEN steps ELSE <<>>

-----------------------------------------------------------------------------
(* What the contracts ask of a call: the calls that must have landed, and  *)
(* those that must not have.                                               *)

Needs(c) ==
  LET created == {<<"create", c.k>>}
      opened  == {<<"fill", c.k>>, <<"approve", "router">>}
  IN CASE c.op \in {"buy", "fill"} -> created \cup {<<"approve", "launchpad">>}
       [] c.op = "create" -> {<<"approve", "launchpad">>}
       [] c.op = "sell" -> {<<"buy", c.k>>}
       [] c.op \in {"poolBuy", "poolSell"} -> opened
       [] c.op \in {"rawBuy", "rawSell", "rawAdd"} -> {<<"deploy", "raw">>, <<"fill", c.k>>, <<"give", c.k>>}
       [] c.op = "rawRemove" -> {<<"rawAdd", c.k>>}
       [] c.op = "rawSettled" -> {<<"fill", c.k>>, <<"mint", "raw">>}
       [] c.op \in {"give", "sync"} -> {<<"fill", c.k>>}
       [] c.op \in {"collect", "topUp"} -> created
       [] c.op \in {"release", "claim", "run"} -> {<<"collect", c.k>>}
       [] c.op = "mint" /\ c.k = "raw" -> {<<"deploy", "raw">>}
       [] c.op = "attack" -> {<<"deploy", "settler">>, <<"topUp", "atk">>, <<"fill", "atk">>}
       [] OTHER -> {}

\* A curve takes no trade after the buy that sold it out.
Bars(c) == IF c.op \in {"buy", "sell", "fill"} THEN {<<"fill", c.k>>} ELSE {}

-----------------------------------------------------------------------------
(* scripts/v14-rehearsal.ts *)

V14Deployment == <<Step(<<"deploy">>, <<>>)>>

V14DeployRaw == <<Step(<<"raw">>, <<One(Call("deploy", "raw"))>>)>>

V14Fund == <<Step(<<"fund">>, Each(<<Call("mint", "burner"), Call("mint", "raw")>>))>>

V14Approvals(real) ==
  <<Step(<<"approve">>, Each(<<Call("approve", "launchpad")>> \o
                             Only(~real, <<Call("approve", "router")>>)))>>

V14PlanStep == <<Step(<<"plan">>, <<>>)>>

V14Create(k, windowBuys) ==
  <<Step(<<"create", k>>,
         Each(<<Call("create", k)>> \o [n \in 1..windowBuys |-> Nth(Call("buy", k), n)]))>>

V14CurveTrades(k) == <<Step(<<"curve", k>>, Each(<<Call("buy", k), Call("sell", k)>>))>>

(* The sell-out buy, then the window trades back to back; a feature pool's *)
(* second batch is sized from the first as it landed.                      *)
V14Graduate(k, feature) ==
  LET poolBuy(n)  == Nth(Call("poolBuy", k), n)
      poolSell(n) == Nth(Call("poolSell", k), n)
      p1 == <<poolBuy(1), poolBuy(2)>> \o
            (IF feature THEN <<poolSell(1), poolBuy(3)>> ELSE <<poolSell(1)>>)
      p2 == <<poolBuy(4), poolBuy(5), poolSell(2), Call("rawSettled", k)>>
  IN <<Step(<<"graduate", k>>,
            <<One(Call("fill", k)), Batch(p1)>> \o Only(feature, <<Batch(p2)>>))>>

V14FundRaw(features) ==
  <<Step(<<"fund:raw">>, [n \in DOMAIN features |-> One(Call("give", features[n]))])>>

V14PoolTrades(k) == <<Step(<<"pool", k>>, Each(<<Call("poolBuy", k), Call("poolSell", k)>>))>>

V14RawSwaps(k) == <<Step(<<"raw", k>>, Each(<<Call("rawBuy", k), Call("rawSell", k)>>))>>

V14OutsideLiquidity(k) ==
  <<Step(<<"lp">>, Each(<<Call("rawAdd", k), Call("poolBuy", k), Call("rawRemove", k)>>))>>

V14SyncOne(k)      == <<Step(<<"sync", k>>, <<One(Call("sync", k))>>)>>
V14SyncBatch(k)    == <<Step(<<"syncBatch">>, <<One(Call("sync", k))>>)>>
V14Collect(k)      == <<Step(<<"collect", k>>, <<One(Call("collect", k))>>)>>
V14ReleaseSplit(k, payees) ==
  [n \in 1..payees |-> Step(<<"release", k, n>>, <<One(Call("release", k))>>)]
V14Sample          == <<Step(<<"sample">>, <<>>)>>
V14Claim(k)        == <<Step(<<"claim", k>>, <<One(Call("claim", k))>>)>>
V14CollectPlatformFees == <<Step(<<"collectFees">>, <<One(Call("collectFees", "platform"))>>)>>
V14SellAll(k)      == <<Step(<<"sellAll", k>>, <<One(Call("sell", k))>>)>>
V14FinalState      == <<Always(<<"final">>, <<>>)>>

(* main(): Run A (rUSDC, every scenario) or Run B (Arc's USDC, the curve). *)
V14Plan(kinds, features, holders, payees, real) ==
  LET create(k) == V14Create(k, 1)
      fees(k)   == V14Collect(k) \o Only(k = "split", V14ReleaseSplit(k, payees))
      back(k)   == V14SellAll(k) \o V14Collect(k)
      graduate(k) == V14Graduate(k, \E n \in DOMAIN features : features[n] = k)
  IN V14Deployment \o <<RecoverPending>>
     \o Only(~real, V14DeployRaw \o V14Fund)
     \o V14Approvals(real) \o V14PlanStep
     \o ForEach(kinds, create) \o ForEach(kinds, V14CurveTrades)
     \o (IF real THEN ForEach(kinds, back)
         ELSE ForEach(kinds, graduate) \o V14FundRaw(features)
              \o ForEach(kinds, V14PoolTrades) \o ForEach(features, V14RawSwaps)
              \o V14OutsideLiquidity(features[1])
              \o V14SyncOne(kinds[Len(kinds)]) \o V14SyncBatch(kinds[1])
              \o ForEach(kinds, fees) \o V14Sample \o ForEach(holders, V14Claim))
     \o V14CollectPlatformFees \o V14FinalState

-----------------------------------------------------------------------------
(* scripts/v13-rehearsal.ts *)

\* Nothing is minted, or approved, when the burner already holds enough.
V13Fund == <<Step(<<"fund">>, <<One(Maybe(Call("mint", "burner")))>>)>>

V13Approvals(real) ==
  <<Step(<<"approve">>, Each(<<Maybe(Call("approve", "launchpad"))>> \o
                             Only(~real, <<Maybe(Call("approve", "router"))>>)))>>

V13Create(k)    == <<Step(<<"create", k>>, <<One(Call("create", k))>>)>>
V13CurveBuy(k)  == <<Step(<<"buy", k>>, <<One(Call("buy", k))>>)>>
V13CurveSell(k) == <<Step(<<"sell", k>>, <<One(Call("sell", k))>>)>>
V13Collect(k, round) == <<Step(<<"collect", round, k>>, <<One(Call("collect", k))>>)>>
V13ReleaseAll(k, round, payees) ==
  [n \in 1..payees |-> Step(<<"release", round, k, n>>, <<One(Call("release", k))>>)]

\* The run is sent only if something above the minimum is waiting.
V13Buyback(k, round) == <<Step(<<"run", round, k>>, <<One(Maybe(Call("run", k)))>>)>>

V13Sample(round)   == <<Step(<<"sample", round>>, <<>>)>>
V13Claim(k, round) == <<Step(<<"claim", round, k>>, <<One(Call("claim", k))>>)>>

\* The sell-out buy, after a top-up mint if the burner is short.
V13Graduate(k) ==
  <<Step(<<"graduate", k>>, Each(<<Maybe(Call("mint", "burner")), Call("fill", k)>>))>>

V13PoolBuy(k)  == <<Step(<<"poolbuy", k>>, <<One(Call("poolBuy", k))>>)>>
V13PoolSell(k) == <<Step(<<"poolsell", k>>, <<One(Call("poolSell", k))>>)>>
V13CollectPlatformFees == <<Step(<<"collectFees">>, <<One(Call("collectFees", "platform"))>>)>>
V13FinalState == <<Always(<<"final">>, <<>>)>>

V13Plan(kinds, payees, real) ==
  LET holders(k) == k \in {"holders", "combo"}
      buyback(k) == k \in {"buyback", "combo"}
      curve(k)   == V13CurveBuy(k) \o V13CurveSell(k)
      round1(k)  == V13Collect(k, 1) \o Only(k = "split", V13ReleaseAll(k, 1, payees))
                    \o Only(buyback(k), V13Buyback(k, "1") \o V13Buyback(k, "1b"))
      pool(k)    == V13PoolBuy(k) \o V13PoolSell(k)
      round2(k)  == V13Collect(k, 2) \o Only(k = "split", V13ReleaseAll(k, 2, payees))
                    \o Only(buyback(k), V13Buyback(k, "2"))
      claim1(k)  == Only(holders(k), V13Claim(k, 1))
      claim2(k)  == Only(holders(k), V13Claim(k, 2))
  IN <<RecoverPending>> \o Only(~real, V13Fund) \o V13Approvals(real)
     \o ForEach(kinds, V13Create) \o ForEach(kinds, curve) \o ForEach(kinds, round1)
     \o V13Sample(1) \o ForEach(kinds, claim1)
     \o Only(~real, ForEach(kinds, V13Graduate) \o ForEach(kinds, pool) \o ForEach(kinds, round2)
                    \o V13Sample(2) \o ForEach(kinds, claim2))
     \o V13CollectPlatformFees \o V13FinalState

-----------------------------------------------------------------------------
(* scripts/deepen-rehearsal.ts *)

\* A deployment is recognised by progress.deepen, saved after the receipt.
DeepenDeployPlugin == <<Step(<<"deploy", "deepen">>, <<One(Noted(Call("deploy", "deepen")))>>)>>

DeepenApprovals ==
  <<Step(<<"approve">>,
         [n \in 1..3 |-> One(Maybe(Call("approve", <<"launchpad", "router", "deepen">>[n])))])>>

DeepenCreate(k) ==
  <<Step(<<"create", k>>, Each(<<Maybe(Call("mint", "burner")), Call("create", k)>>))>>
DeepenCurveBuy(k)  == <<Step(<<"buy", k>>, <<One(Call("buy", k))>>)>>
DeepenCurveSell(k) == <<Step(<<"sell", k>>, <<One(Call("sell", k))>>)>>
DeepenCollect(k, round) == <<Step(<<"collect", round, k>>, <<One(Call("collect", k))>>)>>
DeepenTopUp(k)     == <<Step(<<"topup", k>>, Each(<<Maybe(Call("mint", "burner")), Call("topUp", k)>>))>>
DeepenRun(k, round) == <<Step(<<"run", round, k>>, <<One(Call("run", k))>>)>>
DeepenGraduate(k) ==
  <<Step(<<"graduate", k>>, Each(<<Maybe(Call("mint", "burner")), Call("fill", k)>>))>>
DeepenPoolBuy(k)   == <<Step(<<"poolbuy", k>>, <<One(Call("poolBuy", k))>>)>>
DeepenPoolSell(k)  == <<Step(<<"poolsell", k>>, <<One(Call("poolSell", k))>>)>>

DeepenAttack ==
  DeepenCreate("atk") \o DeepenGraduate("atk") \o DeepenTopUp("atk")
  \o <<Step(<<"deploy", "settler">>, <<One(Noted(Call("deploy", "settler")))>>),
       Step(<<"attack">>, Each(<<Maybe(Call("mint", "settler")), Call("attack", "atk")>>))>>

DeepenPlan(kinds) ==
  LET curve(k) == DeepenCreate(k) \o DeepenCurveBuy(k) \o DeepenCurveSell(k)
                  \o DeepenCollect(k, 1) \o DeepenRun(k, "1") \o DeepenTopUp(k)
      pool(k)  == DeepenGraduate(k) \o DeepenPoolBuy(k) \o DeepenPoolSell(k)
                  \o DeepenCollect(k, 2) \o DeepenRun(k, "2")
  IN <<RecoverPending>> \o DeepenDeployPlugin \o DeepenApprovals
     \o ForEach(kinds, curve) \o ForEach(kinds, pool) \o DeepenAttack
=============================================================================
