---------------------------- MODULE RehearsalModels ----------------------------
(***************************************************************************)
(* "Model: the spec's formulas, written independently of the contracts":   *)
(* what the v1.3 rehearsal (scripts/v13-rehearsal.ts) and the Deepen pool  *)
(* rehearsal (scripts/deepen-rehearsal.ts) expect of a trade, a run and    *)
(* the dividend stream.  A rehearsal fails when the chain differs from     *)
(* them by a unit, so they are held here against the third writing of the  *)
(* same formulas, the market of LaunchFixtures, in every state it reaches. *)
(***************************************************************************)
EXTENDS LaunchFixtures

DivUp(a, b) == IF a = 0 THEN 0 ELSE (a - 1) \div b + 1

\* The root, looked for from the value down.
SqrtFromAbove(n) ==
  LET Fall[x \in Nat] == LET y == (x + n \div x) \div 2 IN IF y < x THEN Fall[y] ELSE x
  IN  IF n < 2 THEN n ELSE LET y == (n + 1) \div 2 IN IF y < n THEN Fall[y] ELSE n

-----------------------------------------------------------------------------
(* Trades. *)

(* The buy, and the buy that sells the curve out: only what is left is     *)
(* paid for.                                                               *)
ModelCurveBuy(c, usdcIn, creatorBps) ==
  LET k == c.usdc * c.tokens
      platform == DivUp(usdcIn * FEE_BPS, BPS)
      creator == DivUp(usdcIn * creatorBps, BPS)
      net == usdcIn - platform - creator
      out == c.tokens - DivUp(k, c.usdc + net)
      remaining == CURVE_SUPPLY - c.sold
      feeBps == FEE_BPS + creatorBps
      fillNet == DivUp(k, c.tokens - remaining) - c.usdc
      spent == Least(fillNet + DivUp(fillNet * feeBps, BPS - feeBps), usdcIn)
      fillPlatform == DivUp((spent - fillNet) * FEE_BPS, feeBps)
  IN  IF platform + creator >= usdcIn THEN NoBuy
      ELSE IF out < remaining
        THEN [ok |-> TRUE, tokensOut |-> out, platform |-> platform, creator |-> creator,
              usdcSpent |-> usdcIn, graduates |-> FALSE]
      ELSE [ok |-> TRUE, tokensOut |-> remaining, platform |-> fillPlatform,
            creator |-> spent - fillNet - fillPlatform, usdcSpent |-> spent, graduates |-> TRUE]

ModelSell(gross, creatorBps) ==
  LET platform == DivUp(gross * FEE_BPS, BPS)
      creator == DivUp(gross * creatorBps, BPS)
  IN  [gross |-> gross, platform |-> platform, creator |-> creator, usdcOut |-> gross - platform - creator]

ModelCurveSell(c, tokensIn, creatorBps) ==
  ModelSell(c.usdc - DivUp(c.usdc * c.tokens, c.tokens + tokensIn), creatorBps)

ModelPoolBuy(pool, usdcIn, creatorBps) ==
  LET platform == DivUp(usdcIn * FEE_BPS, BPS)
      creator == DivUp(usdcIn * creatorBps, BPS)
      net == usdcIn - platform - creator
  IN  [tokensOut |-> (net * pool.tokens) \div (pool.usdc + net), net |-> net,
       platform |-> platform, creator |-> creator]

ModelPoolSell(pool, tokensIn, creatorBps) ==
  ModelSell((tokensIn * pool.usdc) \div (pool.tokens + tokensIn), creatorBps)

-----------------------------------------------------------------------------
(* A run of the Deepen pool plugin. *)

ModelSides(offer, burnBps) ==
  LET toBurn == (offer * burnBps) \div BPS
      toDeepen == offer - toBurn
  IN  IF toBurn < MIN_RUN_USDC THEN <<0, offer>>
      ELSE IF toDeepen < MIN_RUN_USDC THEN <<offer, 0>> ELSE <<toBurn, toDeepen>>

UsdcToBuy(offer, reserveUsdc, feeBps) ==
  LET q == BPS - feeBps
      s == BPS + q
      root == SqrtFromAbove(s * s * reserveUsdc * reserveUsdc + 4 * q * q * offer * reserveUsdc)
      toBuy == (2 * BPS * offer * reserveUsdc) \div (s * reserveUsdc + root)
  IN  Least(Most(toBuy, MIN_RUN_USDC), offer)

\* The add, and the LP it mints of the pool's supply.
AddAmounts(tokens, usdcLeft, pool, supply) ==
  LET paired == (tokens * pool.usdc) \div pool.tokens
      usdc == IF paired > usdcLeft THEN usdcLeft ELSE paired
      token == IF paired > usdcLeft THEN (usdcLeft * pool.tokens) \div pool.usdc ELSE tokens
      liquidity == Least((token * supply) \div pool.tokens, (usdc * supply) \div pool.usdc)
  IN  IF tokens = 0 \/ usdcLeft = 0 \/ liquidity = 0 THEN NoAdd
      ELSE [tokens |-> token, usdc |-> usdc, liquidity |-> liquidity]

After(pool, buy) == [usdc |-> pool.usdc + buy.net, tokens |-> pool.tokens - buy.tokensOut]

(* A whole run on a pool: the burn side buys and burns; the deepen side    *)
(* buys, adds, and burns what the add does not take.                       *)
ModelPoolRun(pool, supply, offer, burnBps, creatorBps) ==
  LET sides == ModelSides(offer, burnBps)
      none == [tokensOut |-> 0, net |-> 0]
      burnBuy == IF sides[1] = 0 THEN none ELSE ModelPoolBuy(pool, sides[1], creatorBps)
      burnt == After(pool, burnBuy)
      toBuy == IF sides[2] = 0 THEN 0 ELSE UsdcToBuy(sides[2], burnt.usdc, FEE_BPS + creatorBps)
      buy == IF sides[2] = 0 THEN none ELSE ModelPoolBuy(burnt, toBuy, creatorBps)
      add == AddAmounts(buy.tokensOut, sides[2] - toBuy, After(burnt, buy), supply)
      bought == burnBuy.tokensOut + buy.tokensOut
  IN  [usdcSpent |-> sides[1] + toBuy + add.usdc, usdcAdded |-> add.usdc,
       tokensBought |-> bought, tokensAdded |-> add.tokens,
       tokensBurned |-> bought - add.tokens, liquidity |-> add.liquidity]

\* Fault: the first run is prorated too.
RunOfferProrated(held, base, lastRunAt, time) ==
  LET cap == (base * RUN_CAP_BPS) \div BPS
      offer == Least(held, (cap * Least(time - lastRunAt, RUN_INTERVAL)) \div RUN_INTERVAL)
  IN  IF offer < MIN_RUN_USDC THEN 0 ELSE offer

(* What a run offers: the cap of the reserve, prorated, within what is     *)
(* held; nothing below the least run.                                      *)
RunOffer(held, base, lastRunAt, time) ==
  LET cap == (base * RUN_CAP_BPS) \div BPS
      budget == IF lastRunAt = 0 \/ time - lastRunAt >= RUN_INTERVAL THEN cap
                ELSE (cap * (time - lastRunAt)) \div RUN_INTERVAL
      offer == Least(held, budget)
  IN  IF offer < MIN_RUN_USDC THEN 0 ELSE offer

-----------------------------------------------------------------------------
(* The dividend stream: [perShare, rate, eligible, last, end]. *)

Paused(t) == t.eligible < MIN_ELIGIBLE

ModelPerShareAt(t, time) ==
  IF t.last >= t.end \/ Paused(t) THEN t.perShare
  ELSE t.perShare + (t.rate * (Least(time, t.end) - t.last)) \div t.eligible

UndistributedAt(t, time) ==
  LET from == IF Paused(t) THEN t.last ELSE Least(time, t.end)
  IN  IF t.last >= t.end THEN 0 ELSE (t.rate * (t.end - from)) \div MAGNITUDE

AccrueAt(t, time) ==
  IF t.last >= t.end \/ t.last = time THEN t
  ELSE IF Paused(t) THEN [t EXCEPT !.end = @ + (time - t.last), !.last = time]
  ELSE [t EXCEPT !.perShare = ModelPerShareAt(t, time), !.last = Least(time, t.end)]

DistributeAt(t0, time, amount) ==
  LET t == AccrueAt(t0, time)
      owed == IF t.end > time THEN t.rate * (t.end - time) ELSE 0
      added == amount * MAGNITUDE
      from == Most(t.end, time)
      end == Most(from + (added * (time + DRIP_PERIOD - from)) \div (owed + added), time + 1)
  IN  [t EXCEPT !.rate = (owed + added) \div (end - time), !.last = time, !.end = end]

-----------------------------------------------------------------------------
StreamOf(s) == [perShare |-> s.holders.perShare, rate |-> s.holders.rate, eligible |-> RawEligible(s),
                last |-> s.holders.last, end |-> s.holders.end]

TradesAsModelled ==
  LET l == store.launch
      Bought(q, model) ==
        q.ok => /\ model.ok
                /\ <<q.tokensOut, q.usdcSpent, q.platform, q.creator, q.graduates>>
                     = <<model.tokensOut, model.usdcSpent, model.platform, model.creator, model.graduates>>
      Sold3(q, model) ==
        q.ok => <<q.usdcOut, q.gross, q.platform, q.creator>>
                  = <<model.usdcOut, model.gross, model.platform, model.creator>>
      PoolBought(q, model) ==
        q.ok => <<q.tokensOut, q.platform, q.creator>> = <<model.tokensOut, model.platform, model.creator>>
  IN  IF ~l.graduated
        THEN /\ \A x \in BuyAmounts : Bought(QuoteBuy(l.curve, x, l.fee, 0), ModelCurveBuy(l.curve, x, l.fee))
             /\ \A n \in SellAmounts : Sold3(QuoteSell(l.curve, n, l.fee), ModelCurveSell(l.curve, n, l.fee))
        ELSE /\ \A x \in BuyAmounts :
                  PoolBought(QuotePoolBuy(l.pool, x, l.fee), ModelPoolBuy(l.pool, x, l.fee))
             /\ \A n \in SellAmounts :
                  Sold3(QuotePoolSell(l.pool, n, l.fee), ModelPoolSell(l.pool, n, l.fee))

\* The run that the market would make now.
RunAsModelled ==
  LET l == store.launch
      book == store.deepen
      base == IF l.graduated THEN l.pool.usdc ELSE l.curve.usdc
      offer == RunOffer(book.held, base, book.lastRunAt, now)
      Agrees(run, made, model) ==
        run.ok /\ made.liquidity > book.liquidity /\ model.liquidity > 0 =>
          <<made.spent - book.spent, made.burned - book.burned,
            made.usdcAdded - book.usdcAdded, made.tokensAdded - book.tokensAdded>>
            = <<model.usdcSpent, model.tokensBurned, model.usdcAdded, model.tokensAdded>>
      AsModel(run) ==
        Agrees(run, run.s.deepen,
               ModelPoolRun(l.pool, Sqrt(POOL_SUPPLY * RealUsdc(l.curve)), offer, l.dest.burnBps, l.fee))
  IN  /\ BlockAt(now) > book.lastRunBlock => PacedOffer(store, book, now) = offer
      /\ l.graduated /\ l.version = "v13" => AsModel(RunDeepenInternal(store, now))

StreamAsModelled ==
  LET stream == StreamOf(store)
  IN  /\ PerShareAt(store, now) = ModelPerShareAt(stream, now)
      /\ Undistributed(store, now) = UndistributedAt(stream, now)
      /\ \A amount \in {1, 5} : StreamOf(Distribute(store, amount, now)) = DistributeAt(stream, now, amount)

(* "Ported to check the run to the unit" (deepen-rehearsal.ts:375): the     *)
(* rehearsals expect of every trade, run and distribution exactly what the *)
(* market does, whatever happened to the curve, the pool, the pace of runs *)
(* and the stream before.  A run's LP is left out: the market has no LP    *)
(* supply of its own and mints of the root of the reserves.                *)
ModelsAgree ==
  /\ store.created => TradesAsModelled /\ RunAsModelled /\ StreamAsModelled
  /\ \A n \in 0..50 : SqrtFromAbove(n) = Sqrt(n)
=============================================================================
