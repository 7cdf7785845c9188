----------------------------- MODULE LaunchQuotes -----------------------------
(***************************************************************************)
(* The arithmetic the site quotes launch trades with: the curve and the    *)
(* v1.3 launch pool (lib/curve.ts), what v1.4 adds to them                 *)
(* (lib/launchV14.ts), the figures of a trade sheet (lib/launchQuote.ts)   *)
(* and of its price-impact guard (lib/impactGuard.ts).  The site computes  *)
(* all of them itself and the chain computes them again.                   *)
(*                                                                         *)
(* A quote is a record.  Its field "ok" is FALSE exactly where the code    *)
(* throws, and the other fields are then of no interest.                   *)
(***************************************************************************)
EXTENDS Integers

CONSTANTS
  BPS, FEE_BPS, MAX_CREATOR_FEE_BPS,
  CURVE_SUPPLY, POOL_SUPPLY, VIRTUAL_TOKENS_0, VIRTUAL_USDC_0,
  SNIPE_BLOCKS, SNIPE_START_BPS, MAX_TOTAL_FEE_BPS,
  BID_DISCOUNT_TICKS,
  PRICE_SCALE,             \* the fixed point of spot prices
  ROOT_SCALE,              \* of a square root,
  Q96,                     \* and of a Uniswap price
  MAX_TICK                 \* a tick doubles the price here

ASSUME QuoteAssumption ==
  /\ 0 < FEE_BPS /\ FEE_BPS + MAX_CREATOR_FEE_BPS < MAX_TOTAL_FEE_BPS
  /\ MAX_TOTAL_FEE_BPS < BPS /\ SNIPE_START_BPS < BPS
  /\ 0 < CURVE_SUPPLY /\ CURVE_SUPPLY < VIRTUAL_TOKENS_0 /\ 0 < VIRTUAL_USDC_0
  /\ 0 < SNIPE_BLOCKS

Ceil(a, b) == (a + b - 1) \div b
Least(a, b) == IF a < b THEN a ELSE b
Most(a, b) == IF a > b THEN a ELSE b

(* sqrt (lib/amm.ts): from half the value down, for as long as it falls. *)
Sqrt(value) ==
  LET Fall[x \in Nat] ==
        LET next == (x + value \div x) \div 2 IN IF next < x THEN Fall[next] ELSE x
  IN  IF value < 2 THEN value ELSE Fall[value \div 2]

InitialCurve == [usdc |-> VIRTUAL_USDC_0, tokens |-> VIRTUAL_TOKENS_0, sold |-> 0]

RealUsdc(curve) == curve.usdc - VIRTUAL_USDC_0

-----------------------------------------------------------------------------
(* The curve. *)

TradeFees(gross, bps) ==
  [platform |-> Ceil(gross * FEE_BPS, BPS), creator |-> Ceil(gross * bps, BPS)]

(* The fees of the sell-out buy: whatever it pulls beyond the curve's own  *)
(* price, split by rate, the platform's part rounded up.                   *)
SplitSellOutFee(total, bps) ==
  LET platform == Ceil(total * FEE_BPS, FEE_BPS + bps)
  IN  [platform |-> platform, creator |-> total - platform, snipe |-> 0]

(* The same with the snipe fee, which takes the rest. *)
SplitOfThree(total, bps, snipe) ==
  LET all == FEE_BPS + bps + snipe
      platform == Ceil(total * FEE_BPS, all)
      creator == Least(Ceil(total * bps, all), total - platform)
  IN  [platform |-> platform, creator |-> creator, snipe |-> total - platform - creator]

NoBuy == [ok |-> FALSE]

(* What the tokens left cost, before fees. *)
FillNet(curve) ==
  Ceil(curve.usdc * curve.tokens, curve.tokens - (CURVE_SUPPLY - curve.sold)) - curve.usdc

BuyOf(curve, usdcSpent, tokensOut, fees, graduates) ==
  [ok |-> TRUE, tokensOut |-> tokensOut, usdcSpent |-> usdcSpent,
   platform |-> fees.platform, creator |-> fees.creator, snipe |-> fees.snipe,
   graduates |-> graduates,
   next |-> [usdc |-> curve.usdc + (usdcSpent - fees.platform - fees.creator - fees.snipe),
             tokens |-> curve.tokens - tokensOut,
             sold |-> curve.sold + tokensOut]]

\* The buy that sells out the curve pays only for what is left, fees on top.
SellOutBuy(curve, usdcIn, bps, snipe) ==
  LET all == FEE_BPS + bps + snipe
      net == FillNet(curve)
      spent == Least(net + Ceil(net * all, BPS - all), usdcIn)
      fees == IF snipe = 0 THEN SplitSellOutFee(spent - net, bps)
                           ELSE SplitOfThree(spent - net, bps, snipe)
  IN  BuyOf(curve, spent, CURVE_SUPPLY - curve.sold, fees, TRUE)

QuoteBuy(curve, usdcIn, bps, snipe) ==
  LET remaining == CURVE_SUPPLY - curve.sold
      fees == [platform |-> TradeFees(usdcIn, bps).platform,
               creator |-> TradeFees(usdcIn, bps).creator,
               snipe |-> Ceil(usdcIn * snipe, BPS)]
      net == usdcIn - fees.platform - fees.creator - fees.snipe
      out == curve.tokens - Ceil(curve.usdc * curve.tokens, curve.usdc + net)
  IN  IF bps > MAX_CREATOR_FEE_BPS \/ remaining <= 0 \/ usdcIn <= 0 \/ net <= 0 THEN NoBuy
      ELSE IF out = 0 THEN NoBuy
      ELSE IF out >= remaining THEN SellOutBuy(curve, usdcIn, bps, snipe)
      ELSE BuyOf(curve, usdcIn, out, fees, FALSE)

SellGross(curve, tokensIn) ==
  curve.usdc - Ceil(curve.usdc * curve.tokens, curve.tokens + tokensIn)

QuoteSell(curve, tokensIn, bps) ==
  LET gross == SellGross(curve, tokensIn)
      fees == TradeFees(gross, bps)
  IN  [ok |-> /\ bps <= MAX_CREATOR_FEE_BPS /\ curve.sold < CURVE_SUPPLY
              /\ tokensIn \in 1..curve.sold
              /\ fees.platform + fees.creator < gross,
       usdcOut |-> gross - fees.platform - fees.creator, gross |-> gross,
       platform |-> fees.platform, creator |-> fees.creator,
       next |-> [usdc |-> curve.usdc - gross, tokens |-> curve.tokens + tokensIn,
                 sold |-> curve.sold - tokensIn]]

-----------------------------------------------------------------------------
(* The v1.3 launch pool: a constant product with no fee of its own. *)

QuotePoolBuy(pool, usdcIn, bps) ==
  LET fees == TradeFees(usdcIn, bps)
      net == usdcIn - fees.platform - fees.creator
      out == IF net > 0 THEN (net * pool.tokens) \div (pool.usdc + net) ELSE 0
  IN  [ok |-> bps <= MAX_CREATOR_FEE_BPS /\ usdcIn > 0 /\ out # 0,
       tokensOut |-> out, usdcSpent |-> usdcIn,
       platform |-> fees.platform, creator |-> fees.creator, snipe |-> 0,
       next |-> [pool EXCEPT !.usdc = @ + net, !.tokens = @ - out]]

\* Fault: a sell whose fees eat all of it is let through.
QuotePoolSellOfNothing(pool, tokensIn, bps) ==
  LET gross == (tokensIn * pool.usdc) \div (pool.tokens + tokensIn)
      fees == TradeFees(gross, bps)
  IN  [ok |-> bps <= MAX_CREATOR_FEE_BPS /\ tokensIn > 0 /\ gross > 0,
       usdcOut |-> gross - fees.platform - fees.creator, gross |-> gross,
       platform |-> fees.platform, creator |-> fees.creator,
       next |-> [pool EXCEPT !.usdc = @ - gross, !.tokens = @ + tokensIn]]

QuotePoolSell(pool, tokensIn, bps) ==
  LET gross == (tokensIn * pool.usdc) \div (pool.tokens + tokensIn)
      fees == TradeFees(gross, bps)
  IN  [ok |-> /\ bps <= MAX_CREATOR_FEE_BPS /\ tokensIn > 0
              /\ fees.platform + fees.creator < gross,
       usdcOut |-> gross - fees.platform - fees.creator, gross |-> gross,
       platform |-> fees.platform, creator |-> fees.creator,
       next |-> [pool EXCEPT !.usdc = @ - gross, !.tokens = @ + tokensIn]]

SpotPrice(side) == IF side.tokens = 0 THEN 0 ELSE (side.usdc * PRICE_SCALE) \div side.tokens

PriceMove(before, after) ==
  IF before = 0 THEN 0
  ELSE ((IF after > before THEN after - before ELSE before - after) * BPS) \div before

-----------------------------------------------------------------------------
(* What v1.4 adds: the anti-sniping fee, a Uniswap pool and its bids. *)

(* Falls from SNIPE_START_BPS in the opening block to none, within what    *)
(* the other two fees leave of MAX_TOTAL_FEE_BPS.                          *)
SnipeBps(openBlock, block, bps) ==
  LET end == openBlock + SNIPE_BLOCKS
      left == Least(end - block, SNIPE_BLOCKS)
  IN  IF block >= end THEN 0
      ELSE Least((SNIPE_START_BPS * left) \div SNIPE_BLOCKS, MAX_TOTAL_FEE_BPS - FEE_BPS - bps)

PoolFeesOnGross(gross, bps, snipe) ==
  LET fees == [platform |-> Ceil(gross * FEE_BPS, BPS), creator |-> Ceil(gross * bps, BPS),
               snipe |-> Ceil(gross * snipe, BPS)]
  IN  [ok |-> fees.platform + fees.creator + fees.snipe < gross,
       platform |-> fees.platform, creator |-> fees.creator, snipe |-> fees.snipe]

(* The gross a pool paid for a sell that left usdcOut: the smallest whose  *)
(* fees leave that much, looked for from a guess three units down.         *)
GrossOfSell(usdcOut, bps) ==
  LET guess == (usdcOut * BPS) \div (BPS - FEE_BPS - bps)
      Net(gross) == gross - Ceil(gross * FEE_BPS, BPS) - Ceil(gross * bps, BPS)
      reach == {gross \in guess..(guess + 3) : Net(gross) >= usdcOut}
  IN  IF usdcOut <= 0 THEN 0 ELSE IF reach = {} THEN guess + 3
      ELSE CHOOSE g \in reach : \A h \in reach : g <= h

\* The price of currency0 in currency1, at a tick and as the pool's root of it.
PriceAtTick(tick) == IF tick >= 0 THEN Q96 * Q96 * 2 ^ tick ELSE (Q96 * Q96) \div (2 ^ (0 - tick))

\* The greatest tick whose price is at most this one.
TickAt(sqrtPrice) ==
  CHOOSE t \in (0 - MAX_TICK)..MAX_TICK :
    /\ PriceAtTick(t) <= sqrtPrice * sqrtPrice
    /\ t = MAX_TICK \/ PriceAtTick(t + 1) > sqrtPrice * sqrtPrice

\* What tokens are worth at a pool's price.
V4Value(tokens, sqrtPrice, usdcIs0) ==
  LET ratio == sqrtPrice * sqrtPrice
  IN  IF ratio = 0 THEN 0
      ELSE IF usdcIs0 THEN (tokens * (Q96 * Q96)) \div ratio ELSE (tokens * ratio) \div (Q96 * Q96)

\* With USDC as currency0 a higher tick is a cheaper token.
CheaperOf(usdcIs0, a, b) == IF usdcIs0 THEN Most(a, b) ELSE Least(a, b)

(* The edge of a bid's range nearest the market, about half the price at   *)
(* its reference (bidRange, with a tick spacing of one).                   *)
BidTop(usdcIs0, refTick) ==
  IF usdcIs0 THEN refTick + BID_DISCOUNT_TICKS + 1 ELSE refTick - BID_DISCOUNT_TICKS

\* Where a buy in the pool's window places its fee.
WindowBidTop(usdcIs0, preTick, bidRefTick) == BidTop(usdcIs0, CheaperOf(usdcIs0, preTick, bidRefTick))

(* How much worse than the pool's price a trade does. *)
V4ImpactBps(side, sqrtPrice, usdcIs0, usdc, tokens) ==
  LET worth == V4Value(tokens, sqrtPrice, usdcIs0)
  IN  IF side = "buy" THEN (IF usdc > 0 /\ worth < usdc THEN ((usdc - worth) * BPS) \div usdc ELSE 0)
      ELSE (IF worth > 0 /\ usdc < worth THEN ((worth - usdc) * BPS) \div worth ELSE 0)

-----------------------------------------------------------------------------
(* The figures of a trade sheet.  A launch is what the site last read of   *)
(* it: its version, fee, curve, whether it graduated and its pool.         *)

NoQuote == [ok |-> FALSE]

(* The sheet of a trade on the curve or in a v1.3 pool (quoteLaunchTrade). *)
LaunchQuote(launch, side, offer, snipe) ==
  LET onCurve == ~launch.graduated
      rate == IF launch.version = "v14" THEN snipe ELSE 0
      from == IF onCurve THEN launch.curve ELSE launch.pool
      buy == IF onCurve THEN QuoteBuy(launch.curve, offer, launch.fee, rate)
                        ELSE QuotePoolBuy(launch.pool, offer, launch.fee)
      sell == IF onCurve THEN QuoteSell(launch.curve, offer, launch.fee)
                         ELSE QuotePoolSell(launch.pool, offer, launch.fee)
      Sheet(amountIn, amountOut, q, snipeFee, graduates) ==
        [ok |-> TRUE, venue |-> IF onCurve THEN "curve" ELSE "pool", offer |-> offer,
         amountIn |-> amountIn, amountOut |-> amountOut,
         platform |-> q.platform, creator |-> q.creator, snipe |-> snipeFee,
         impact |-> PriceMove(SpotPrice(from), SpotPrice(q.next)), graduates |-> graduates]
  IN  IF offer <= 0 \/ (launch.graduated /\ launch.version = "v14") THEN NoQuote
      ELSE IF side = "buy"
        THEN (IF ~buy.ok THEN NoQuote
              ELSE Sheet(buy.usdcSpent, buy.tokensOut, buy, buy.snipe, onCurve /\ buy.graduates))
        ELSE (IF ~sell.ok THEN NoQuote ELSE Sheet(offer, sell.usdcOut, sell, 0, FALSE))

(* The sheet of a trade in a v1.4 pool, from what the router says comes    *)
(* out (quoteV4Trade).                                                     *)
V4Quote(launch, sqrtPrice, side, offer, amountOut, snipe) ==
  LET gross == IF side = "buy" THEN offer ELSE GrossOfSell(amountOut, launch.fee)
      fees == PoolFeesOnGross(gross, launch.fee, IF side = "buy" THEN snipe ELSE 0)
      usdcIs0 == launch.v4.usdcIs0
  IN  IF offer <= 0 \/ amountOut <= 0 \/ ~fees.ok THEN NoQuote
      ELSE [ok |-> TRUE, venue |-> "pool", offer |-> offer,
            amountIn |-> offer, amountOut |-> amountOut,
            platform |-> fees.platform, creator |-> fees.creator, snipe |-> fees.snipe,
            impact |-> IF side = "buy"
                         THEN V4ImpactBps(side, sqrtPrice, usdcIs0,
                                gross - fees.platform - fees.creator - fees.snipe, amountOut)
                         ELSE V4ImpactBps(side, sqrtPrice, usdcIs0, gross, offer),
            graduates |-> FALSE]

\* Fault: the fees are counted as impact.
ImpactLossWithFees(launch, sqrtPrice, side, q) ==
  IF side = "buy" THEN q.amountIn ELSE q.amountIn - q.amountOut

(* What the impact costs: the tokens at the price before the trade against *)
(* the USDC that went in or came out, fees left out (launchImpactLossUsd). *)
ImpactLoss(launch, sqrtPrice, side, q) ==
  LET fees == q.platform + q.creator + q.snipe
      usdc == IF side = "buy" THEN q.amountIn - fees ELSE q.amountOut + fees
      tokens == IF side = "buy" THEN q.amountOut ELSE q.amountIn
      from == IF q.venue = "pool" THEN launch.pool ELSE launch.curve
      worth == IF q.venue = "pool" /\ launch.version = "v14"
                 THEN V4Value(tokens, sqrtPrice, launch.v4.usdcIs0)
                 ELSE (tokens * from.usdc) \div from.tokens
  IN  Most(0, IF side = "buy" THEN usdc - worth ELSE worth - usdc)

(* The largest buy, and sell, that moves the price less than target.  The  *)
(* move is (1 + n/U)^2 - 1 for n into U, and 1 - (T / (T + x))^2 for x     *)
(* tokens into T.                                                          *)
MaxLaunchBuy(usdcReserve, bps, target) ==
  LET root == Sqrt(((BPS + target) * ROOT_SCALE * ROOT_SCALE) \div BPS)
      net == (usdcReserve * (root - ROOT_SCALE)) \div ROOT_SCALE
      kept == BPS - FEE_BPS - bps
  IN  IF kept > 0 THEN (net * BPS) \div kept ELSE 0

MaxLaunchSell(tokenReserve, target) ==
  LET root == Sqrt(((BPS - target) * ROOT_SCALE * ROOT_SCALE) \div BPS)
      growth == (ROOT_SCALE * ROOT_SCALE) \div root
  IN  (tokenReserve * (growth - ROOT_SCALE)) \div ROOT_SCALE

(* The size hint of a sheet whose launch trades on its curve or in a v1.3  *)
(* pool (maxLaunchTrade).                                                  *)
SizeHint(launch, side, target, snipe) ==
  LET from == IF launch.graduated THEN launch.pool ELSE launch.curve
      rate == IF launch.version = "v14" /\ ~launch.graduated THEN snipe ELSE 0
  IN  IF side = "buy" THEN MaxLaunchBuy(from.usdc, launch.fee + rate, target)
                      ELSE MaxLaunchSell(from.tokens, target)
=============================================================================
