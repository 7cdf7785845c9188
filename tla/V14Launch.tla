----------------------------- MODULE V14Launch -----------------------------
(***************************************************************************)
(* A v1.4 launch as scripts/v14-rehearsal.ts models it: the curve and its  *)
(* window, the sell-out buy that opens a Uniswap v4 pool, the pool's own   *)
(* window, whose trades the rehearsal plans in batches and sends back to   *)
(* back, and the trades, outside liquidity and fee syncs after it.  The    *)
(* rehearsal holds the chain to this model to the unit, so what the model  *)
(* gets wrong is a wrong verdict on the contracts.                         *)
(***************************************************************************)
EXTENDS V4Math, Sequences

CONSTANTS
  BPS, FEE_BPS, MAX_TOTAL_FEE_BPS, SNIPE_BLOCKS, SNIPE_START_BPS,
  BID_DISCOUNT_TICKS, BID_SPAN_TICKS,
  CURVE_SUPPLY, POOL_SUPPLY, VIRTUAL_USDC_0, VIRTUAL_TOKENS_0,
  USD,             \* one whole USDC: the lift back is sized in these
  LIFT_TICKS,      \* how far above graduation the lift back must reach
  LP_BELOW, LP_ABOVE, \* the outside position's range around the tick
  A,               \* the amounts of the rehearsal's trades
  CreatorFees,     \* creator fees of the launches
  MaxBlock, MaxCurveTrades, MaxAfter, MaxSyncs  \* bounds of the instance

VARIABLES
  block,      \* the block being built
  rec,        \* the launch: orientation, creator fee, scenario, blocks, graduation tick
  curve,      \* the curve, or its last state once graduated
  pad,        \* the launchpad: its USDC and what it owes
  hook,       \* the hook: fees not yet released, and its claims
  st,         \* the pool, the rounding held, the bids placed and the reference
  positions,  \* the positions recorded, with their owners
  manager,    \* the PoolManager's USDC and launch tokens
  batch,      \* window trades sent and not yet landed, each with its minimum
  phase,      \* curve, first (batch), second (batch), after
  plannedAt,  \* the head the batch was planned from
  lowest,     \* the cheapest price a window buy has started from
  made        \* curve trades, steps after the window and syncs so far

vVars == <<block, rec, curve, pad, hook, st, positions, manager, batch, phase, plannedAt, lowest, made>>

divCeil(a, b) == IF a = 0 THEN 0 ELSE (a - 1) \div b + 1

(***************************************************************************)
(* Fees, in the three ways the contracts take them.                        *)
(***************************************************************************)
snipeBpsAt(openBlock, b, creatorBps) ==
  LET end == openBlock + SNIPE_BLOCKS
      bps == (SNIPE_START_BPS * (end - b)) \div SNIPE_BLOCKS
  IN IF b >= end THEN 0 ELSE Lesser(bps, MAX_TOTAL_FEE_BPS - FEE_BPS - creatorBps)

\* Fees on a gross amount; a trade they would eat whole is refused.
feesOnGross(gross, creatorBps, snipeBps) ==
  [platform |-> divCeil(gross * FEE_BPS, BPS), creator |-> divCeil(gross * creatorBps, BPS),
   snipe |-> divCeil(gross * snipeBps, BPS)]

total(fees) == fees.platform + fees.creator + fees.snipe

feesOnNet(net, creatorBps, snipeBps) ==
  LET r == FEE_BPS + creatorBps + snipeBps
      all == divCeil(net * r, BPS - r)
      platform == divCeil(all * FEE_BPS, r)
      creator == Lesser(divCeil(all * creatorBps, r), all - platform)
  IN [platform |-> platform, creator |-> creator, snipe |-> all - platform - creator]

modelCurveBuy(c, usdcIn, creatorBps, snipeBps) ==
  LET k == c.virtualUsdc * c.virtualTokens
      fees == feesOnGross(usdcIn, creatorBps, snipeBps)
      net == usdcIn - total(fees)
      out == c.virtualTokens - divCeil(k, c.virtualUsdc + net)
      remaining == CURVE_SUPPLY - c.tokensSold
      feeBps == FEE_BPS + creatorBps + snipeBps
      fillNet == divCeil(k, c.virtualTokens - remaining) - c.virtualUsdc
      usdcSpent == Lesser(fillNet + divCeil(fillNet * feeBps, BPS - feeBps), usdcIn)
      totalFee == usdcSpent - fillNet
      p == divCeil(totalFee * FEE_BPS, feeBps)
      cr == Lesser(divCeil(totalFee * creatorBps, feeBps), totalFee - p)
  IN IF out < remaining
     THEN [tokensOut |-> out, fees |-> fees, usdcSpent |-> usdcIn, graduates |-> FALSE, net |-> net]
     ELSE [tokensOut |-> remaining, fees |-> [platform |-> p, creator |-> cr, snipe |-> totalFee - p - cr],
           usdcSpent |-> usdcSpent, graduates |-> TRUE, net |-> fillNet]

modelCurveSell(c, tokensIn, creatorBps) ==
  LET gross == c.virtualUsdc - divCeil(c.virtualUsdc * c.virtualTokens, c.virtualTokens + tokensIn)
  IN [gross |-> gross, fees |-> feesOnGross(gross, creatorBps, 0)]

(***************************************************************************)
(* Bids: the surcharge of a window buy, placed as USDC-only liquidity from *)
(* half the reference price down.  With USDC as currency0 a higher tick is *)
(* a cheaper token.                                                        *)
(***************************************************************************)
floorTick(t) == (t \div TICK_SPACING) * TICK_SPACING
ceilTick(t) == -floorTick(-t)

\* As bidRange, without the tick that a price inside its tick needs on the USDC-first side.
bidRangeFromTick(usdcIs0, refTick) ==
  LET lower == ceilTick(refTick + BID_DISCOUNT_TICKS)
      upper == floorTick(refTick - BID_DISCOUNT_TICKS)
  IN IF usdcIs0 THEN [lower |-> lower, upper |-> Lesser(lower + BID_SPAN_TICKS, maxUsableTick)]
     ELSE [lower |-> Larger(upper - BID_SPAN_TICKS, minUsableTick), upper |-> upper]

bidRange(usdcIs0, refTick) ==
  LET lower == ceilTick(refTick + BID_DISCOUNT_TICKS + 1)
      upper == floorTick(refTick - BID_DISCOUNT_TICKS)
  IN IF usdcIs0 THEN [lower |-> lower, upper |-> Lesser(lower + BID_SPAN_TICKS, maxUsableTick)]
     ELSE [lower |-> Larger(upper - BID_SPAN_TICKS, minUsableTick), upper |-> upper]

cheaperOf(usdcIs0, a, b) == IF usdcIs0 THEN Larger(a, b) ELSE Lesser(a, b)

\* No bid where the range is empty or the amount buys no liquidity.
NoBid == [lower |-> 0, upper |-> 0, liquidity |-> 0, used |-> 0]

modelBid(pool, usdcIs0, refTick, amount) ==
  LET r == bidRange(usdcIs0, refTick)
      a == sqrtAtTick(r.lower)
      b == sqrtAtTick(r.upper)
      liquidity == IF usdcIs0 THEN liquidityForAmount0(a, b, amount) ELSE liquidityForAmount1(a, b, amount)
      d == modifyLiquidity(pool, r.lower, r.upper, liquidity)
  IN IF r.lower >= r.upper \/ amount = 0 \/ liquidity = 0
     THEN [bid |-> NoBid, pool |-> pool, oneSided |-> TRUE]
     ELSE [bid |-> [lower |-> r.lower, upper |-> r.upper, liquidity |-> liquidity,
                    used |-> -(IF usdcIs0 THEN d.amount0 ELSE d.amount1)],
           pool |-> d.pool,
           oneSided |-> (IF usdcIs0 THEN d.amount1 ELSE d.amount0) = 0]

modelGraduation(usdcIs0, usdcSeeded, lockAmount) ==
  LET amount0 == IF usdcIs0 THEN usdcSeeded ELSE POOL_SUPPLY
      amount1 == IF usdcIs0 THEN POOL_SUPPLY ELSE usdcSeeded
      sqrtPrice == isqrt(mulDiv(amount1, Q96 * Q96, amount0))
      tick == tickAtSqrt(sqrtPrice)
      liquidity == liquidityForAmounts(sqrtPrice, sqrtAtTick(minUsableTick), sqrtAtTick(maxUsableTick), amount0, amount1)
      d == modifyLiquidity(PoolModel(sqrtPrice, tick), minUsableTick, maxUsableTick, liquidity)
      tokensUsed == -(IF usdcIs0 THEN d.amount1 ELSE d.amount0)
      usdcUsed == -(IF usdcIs0 THEN d.amount0 ELSE d.amount1)
      toLock == lockAmount + (usdcSeeded - usdcUsed)
      placed == modelBid(d.pool, usdcIs0, tick, toLock)
  IN [tick |-> tick, liquidity |-> liquidity, tokensUsed |-> tokensUsed, bid |-> placed.bid, oneSided |-> placed.oneSided,
      state |-> [pool |-> placed.pool, held |-> toLock - placed.bid.used,
                 bids |-> IF placed.bid = NoBid THEN 0 ELSE 1, bidRef |-> tick]]

(***************************************************************************)
(* A pool trade: the hook's fees around Uniswap's swap.  "ok" is FALSE     *)
(* where the code throws: fees that eat the amount, or a swap that stops   *)
(* short of the USDC its fees were computed on.                            *)
(***************************************************************************)
LIMIT(zeroForOne) == IF zeroForOne THEN SQRT[MIN_TICK] + 1 ELSE SQRT[MAX_TICK] - 1

modelPoolTrade(pool, usdcIs0, creatorBps, snipeBps, t) ==
  LET isBuy == t.side = "buy"
      zeroForOne == isBuy = usdcIs0
      before == IF isBuy /\ t.exact = "in" THEN feesOnGross(t.amount, creatorBps, snipeBps)
                ELSE feesOnNet(t.amount, creatorBps, 0)
      fixed == isBuy = (t.exact = "in")         \* the fees are known before the swap
      net == IF ~fixed THEN t.amount ELSE IF isBuy THEN t.amount - total(before) ELSE t.amount + total(before)
      settled(s, usdc, tokens, fees, gross) ==
        [ok |-> (fixed => usdc = net) /\ usdc > 0 /\ total(fees) < gross,
         fees |-> fees, pool |-> s.pool,
         paid |-> IF isBuy THEN gross ELSE -tokens,
         received |-> IF isBuy THEN tokens ELSE usdc - total(fees)]
      charged(s, usdc, tokens, fees) ==
        settled(s, usdc, tokens, fees, IF isBuy THEN usdc + total(fees) ELSE usdc)
      valued(s, usdc, tokens) ==
        charged(s, usdc, tokens,
                IF fixed THEN before
                ELSE IF isBuy THEN feesOnNet(usdc, creatorBps, snipeBps)
                ELSE feesOnGross(usdc, creatorBps, 0))
      swapped(s) ==
        IF usdcIs0 THEN valued(s, IF s.amount0 < 0 THEN -s.amount0 ELSE s.amount0, s.amount1)
        ELSE valued(s, IF s.amount1 < 0 THEN -s.amount1 ELSE s.amount1, s.amount0)
  IN IF net <= 0 THEN [ok |-> FALSE]
     ELSE swapped(swap(pool, zeroForOne, IF t.exact = "in" THEN -net ELSE net, LIMIT(zeroForOne)))

\* A window buy moves the reference down to the price it starts from, and bids its surcharge from there.
modelTradeStep(pre, usdcIs0, creatorBps, snipeBps, t) ==
  LET after(m, ref, placed) ==
        [ok |-> placed.oneSided, m |-> m, bid |-> placed.bid,
         post |-> [pool |-> placed.pool, held |-> pre.held + m.fees.snipe - placed.bid.used,
                   bids |-> IF placed.bid = NoBid THEN pre.bids ELSE pre.bids + 1, bidRef |-> ref]]
      bidding(m, ref) == after(m, ref, modelBid(m.pool, usdcIs0, ref, pre.held + m.fees.snipe))
      traded(m) ==
        IF ~m.ok THEN [ok |-> FALSE]
        ELSE IF m.fees.snipe > 0 THEN bidding(m, cheaperOf(usdcIs0, pre.pool.tick, pre.bidRef))
        ELSE after(m, pre.bidRef, [bid |-> NoBid, pool |-> m.pool, oneSided |-> TRUE])
  IN traded(modelPoolTrade(pre.pool, usdcIs0, creatorBps, IF t.side = "buy" THEN snipeBps ELSE 0, t))

StepAt(pre, t, b) == modelTradeStep(pre, rec.usdcIs0, rec.creatorBps, snipeBpsAt(rec.openBlock, b, rec.creatorBps), t)

(***************************************************************************)
(* The window's plan: trades in the order they are signed, and for each    *)
(* the least it may receive.                                               *)
(***************************************************************************)
Buy(name, amount) == [name |-> name, side |-> "buy", exact |-> "in", amount |-> amount]
Sell(name, amount) == [name |-> name, side |-> "sell", exact |-> "in", amount |-> amount]
RawOut(name, side, amount) == [name |-> name, side |-> side, exact |-> "out", amount |-> amount]

FirstBatch ==
  <<Buy("lift", A.poolWindowLift), Buy("capped", A.poolWindowBuy)>> \o
  (IF rec.feature THEN <<Sell("dump", A.dump), Buy("crash", A.poolWindowBuy)>> ELSE <<Sell("sell", A.poolWindowSell)>>)

SecondBatch(lift) ==
  <<Buy("back", lift), Buy("after", A.poolWindowBuy), Sell("sell", A.poolWindowSell),
    RawOut("rawOut", "buy", A.rawWindowOutBuy)>>

\* The batch landing whole in block b: what each of its trades receives.
runBatch(start, creatorBps, usdcIs0, openBlock, trades, b) ==
  LET run[i \in 0..Len(trades)] ==
        IF i = 0 THEN [state |-> start, fills |-> <<>>]
        ELSE LET s == run[i - 1]
                 landed(r) == [state |-> r.post, fills |-> Append(s.fills, r.m.received)]
             IN landed(modelTradeStep(s.state, usdcIs0, creatorBps, snipeBpsAt(openBlock, b, creatorBps), trades[i]))
  IN run[Len(trades)].fills

\* The lowest fill over the blocks the batch may land whole in, from the head to the window's end.
batchFloors(start, r, trades, from) ==
  LET fills == [b \in from..Larger(from, r.openBlock + SNIPE_BLOCKS) |->
                  runBatch(start, r.creatorBps, r.usdcIs0, r.openBlock, trades, b)]
  IN [i \in DOMAIN trades |-> Min({fills[b][i] : b \in DOMAIN fills})]

\* What is sent: 95% of the floor as the minimum, none for a dump or a raw swap.
Plan(start, r, trades, from) ==
  LET floors == batchFloors(start, r, trades, from)
  IN [i \in DOMAIN trades |->
        [trade |-> trades[i],
         minOut |-> IF trades[i].name = "dump" \/ trades[i].exact = "out" THEN 0 ELSE (floors[i] * 95) \div 100]]

\* Whether a lift of x, landing in the next block, brings the price back far enough above graduation.
LiftTarget == IF rec.usdcIs0 THEN rec.graduationTick - LIFT_TICKS ELSE rec.graduationTick + LIFT_TICKS
PastTarget(tick) == IF rec.usdcIs0 THEN tick <= LiftTarget ELSE tick >= LiftTarget
\* As Reaches, for the surcharge of the window's last block.
ReachesAtEnd(x) ==
  LET r == StepAt(st, Buy("back", x), rec.openBlock + SNIPE_BLOCKS)
  IN r.ok /\ PastTarget(r.post.pool.tick)

Reaches(x) ==
  LET r == StepAt(st, Buy("back", x), block + 1)
  IN r.ok /\ PastTarget(r.post.pool.tick)

\* Bisection between nothing and the ceiling down to one USDC, rounded up to whole USDC.
LiftAmount ==
  LET bisect[i \in 0..12] ==
        IF i = 0 THEN [lo |-> 0, hi |-> A.liftCeiling]
        ELSE LET s == bisect[i - 1]
                 mid == (s.lo + s.hi) \div 2
             IN IF s.hi - s.lo <= USD THEN s
                ELSE IF Reaches(mid) THEN [s EXCEPT !.hi = mid] ELSE [s EXCEPT !.lo = mid]
  IN divCeil(bisect[12].hi, USD) * USD

(***************************************************************************)
(* The curve and its window.                                               *)
(***************************************************************************)
CurveBuy ==
  LET m == modelCurveBuy(curve, A.curveBuy, rec.creatorBps, snipeBpsAt(0, block, rec.creatorBps))
  IN /\ phase = "curve" /\ made.curve < MaxCurveTrades
     /\ curve' = [virtualUsdc |-> curve.virtualUsdc + m.net, virtualTokens |-> curve.virtualTokens - m.tokensOut,
                  tokensSold |-> curve.tokensSold + m.tokensOut]
     /\ pad' = [usdc |-> pad.usdc + m.usdcSpent, pendingFees |-> pad.pendingFees + m.fees.platform,
                creator |-> pad.creator + m.fees.creator, snipe |-> pad.snipe + m.fees.snipe]
     /\ made' = [made EXCEPT !.curve = @ + 1, !.got = m.tokensOut]
     /\ UNCHANGED <<block, rec, hook, st, positions, manager, batch, phase, plannedAt, lowest>>

\* Half of the last buy, sold straight back once the window is over.
CurveSell ==
  LET tokensIn == made.got \div 2
      m == modelCurveSell(curve, tokensIn, rec.creatorBps)
  IN /\ phase = "curve" /\ made.got > 0 /\ block >= SNIPE_BLOCKS
     /\ curve' = [virtualUsdc |-> curve.virtualUsdc - m.gross, virtualTokens |-> curve.virtualTokens + tokensIn,
                  tokensSold |-> curve.tokensSold - tokensIn]
     /\ pad' = [pad EXCEPT !.usdc = @ - (m.gross - total(m.fees)), !.pendingFees = @ + m.fees.platform,
                           !.creator = @ + m.fees.creator]
     /\ made' = [made EXCEPT !.got = 0]
     /\ UNCHANGED <<block, rec, hook, st, positions, manager, batch, phase, plannedAt, lowest>>

\* A pool opened with all of usdc: its locked position, the graduation bid, and the first batch.
OpenPool(g, usdc) ==
  LET opened == [rec EXCEPT !.openBlock = block, !.graduationTick = g.tick]
      full == [owner |-> "hook", lower |-> minUsableTick, upper |-> maxUsableTick, salt |-> 0, liquidity |-> g.liquidity]
      bid == [owner |-> "hook", lower |-> g.bid.lower, upper |-> g.bid.upper, salt |-> 1, liquidity |-> g.bid.liquidity]
  IN /\ g.oneSided
     /\ rec' = opened
     /\ st' = g.state
     /\ hook' = [hook EXCEPT !.claims = g.state.held]
     /\ positions' = {full} \cup (IF g.bid = NoBid THEN {} ELSE {bid})
     /\ manager' = [usdc |-> usdc, tokens |-> g.tokensUsed]
     /\ lowest' = g.state.pool.sqrtPrice
     /\ batch' = Plan(g.state, opened, FirstBatch, block)

\* The sell-out buy: the curve's exact fill, the pool opened, its locked position, the graduation bid, and the
\* first batch planned from the model before anything else is read.
SellOut ==
  /\ phase = "curve" /\ block >= SNIPE_BLOCKS
  /\ LET m == modelCurveBuy(curve, A.graduateOffer, rec.creatorBps, snipeBpsAt(0, block, rec.creatorBps))
         usdcSeeded == curve.virtualUsdc + m.net - VIRTUAL_USDC_0
         lockAmount == pad.snipe + m.fees.snipe
     IN /\ m.graduates
        /\ curve' = [virtualUsdc |-> VIRTUAL_USDC_0, virtualTokens |-> curve.virtualTokens - m.tokensOut,
                     tokensSold |-> CURVE_SUPPLY]
        /\ pad' = [usdc |-> pad.usdc + m.usdcSpent - usdcSeeded - lockAmount,
                   pendingFees |-> pad.pendingFees + m.fees.platform,
                   creator |-> pad.creator + m.fees.creator, snipe |-> 0]
        /\ \E g \in {modelGraduation(rec.usdcIs0, usdcSeeded, lockAmount)} :
             OpenPool(g, usdcSeeded + lockAmount)
  /\ plannedAt' = block
  /\ phase' = "first"
  /\ UNCHANGED <<block, made>>

(***************************************************************************)
(* The pool.                                                               *)
(***************************************************************************)
\* The books of a pool trade: the PoolManager moves by what the trader paid or received, the hook's fees stay
\* there as claims, and a bid turns claims into a position.
PoolTrade(t, r) ==
  LET isBuy == t.side = "buy"
      bids == r.m.fees.snipe > 0
  IN /\ st' = r.post
     /\ hook' = [platform |-> hook.platform + r.m.fees.platform, creator |-> hook.creator + r.m.fees.creator,
                 claims |-> hook.claims + total(r.m.fees) - r.bid.used]
     /\ manager' = IF isBuy
                   THEN [usdc |-> manager.usdc + r.m.paid, tokens |-> manager.tokens - r.m.received]
                   ELSE [usdc |-> manager.usdc - r.m.received, tokens |-> manager.tokens + r.m.paid]
     /\ positions' = positions \cup
          (IF r.bid = NoBid THEN {}
           ELSE {[owner |-> "hook", lower |-> r.bid.lower, upper |-> r.bid.upper, salt |-> r.post.bids,
                  liquidity |-> r.bid.liquidity]})
     /\ lowest' = IF bids THEN (IF rec.usdcIs0 THEN Larger(lowest, st.pool.sqrtPrice) ELSE Lesser(lowest, st.pool.sqrtPrice))
                  ELSE lowest

\* The next trade of the batch lands, in its nonce order, in whatever block is being built.
BatchLands ==
  LET t == Head(batch).trade
      r == StepAt(st, t, block)
  IN /\ phase \in {"first", "second"} /\ batch # <<>> /\ block > plannedAt
     /\ r.ok /\ r.m.received >= Head(batch).minOut
     /\ PoolTrade(t, r)
     /\ batch' = Tail(batch)
     /\ UNCHANGED <<block, rec, curve, pad, phase, plannedAt, made>>

\* A scenario token's second batch, sized from the first as it landed.
PlanLift ==
  /\ phase = "first" /\ batch = <<>> /\ rec.feature
  /\ Reaches(A.liftCeiling)
  /\ batch' = Plan(st, rec, SecondBatch(LiftAmount), block)
  /\ plannedAt' = block
  /\ phase' = "second"
  /\ UNCHANGED <<block, rec, curve, pad, hook, st, positions, manager, lowest, made>>

\* The steps after the window wait for its last block.
WindowOver ==
  /\ batch = <<>> /\ phase = (IF rec.feature THEN "second" ELSE "first")
  /\ block >= rec.openBlock + SNIPE_BLOCKS
  /\ phase' = "after"
  /\ UNCHANGED <<block, rec, curve, pad, hook, st, positions, manager, batch, plannedAt, lowest, made>>

AfterTrades == {Buy("buy", A.poolBuy), Sell("sell", A.poolSell),
                RawOut("rawBuy", "buy", A.rawOutBuy), RawOut("rawSell", "sell", A.rawOutSellUsdc)}

Trade ==
  /\ phase = "after" /\ made.after < MaxAfter
  /\ \E t \in AfterTrades :
       LET r == StepAt(st, t, block)
       IN r.ok /\ PoolTrade(t, r)
  /\ made' = [made EXCEPT !.after = @ + 1]
  /\ UNCHANGED <<block, rec, curve, pad, batch, phase, plannedAt>>

\* A position of the outside provider's: delta is owed to the pool, or given back by it.
ChangeOutside(p, delta) ==
  LET d == modifyLiquidity(st.pool, p.lower, p.upper, delta)
  IN /\ delta # 0
     /\ st' = [st EXCEPT !.pool = d.pool]
     /\ positions' = (positions \ {p}) \cup {[p EXCEPT !.liquidity = @ + delta]}
     /\ manager' = [usdc |-> manager.usdc - (IF rec.usdcIs0 THEN d.amount0 ELSE d.amount1),
                    tokens |-> manager.tokens - (IF rec.usdcIs0 THEN d.amount1 ELSE d.amount0)]
     /\ made' = [made EXCEPT !.after = @ + 1]
     /\ UNCHANGED <<block, rec, curve, pad, hook, batch, phase, plannedAt, lowest>>

Outside == {p \in positions : p.owner = "raw"}

AddOutside ==
  LET lower == floorTick(st.pool.tick) - LP_BELOW
      upper == floorTick(st.pool.tick) + LP_ABOVE
      liquidity == liquidityForAmounts(st.pool.sqrtPrice, sqrtAtTick(lower), sqrtAtTick(upper),
                                       IF rec.usdcIs0 THEN A.lpUsdc ELSE A.lpTokens,
                                       IF rec.usdcIs0 THEN A.lpTokens ELSE A.lpUsdc)
  IN /\ phase = "after" /\ made.after < MaxAfter /\ Outside = {}
     /\ ChangeOutside([owner |-> "raw", lower |-> lower, upper |-> upper, salt |-> 0, liquidity |-> 0], liquidity)

RemoveOutside ==
  /\ phase = "after" /\ made.after < MaxAfter
  /\ \E p \in Outside : ChangeOutside(p, -(p.liquidity \div 2))

(***************************************************************************)
(* Fees.                                                                   *)
(***************************************************************************)
\* syncPoolFees, which anyone may call: the hook burns its claims and the launchpad books what they paid.
Sync ==
  LET p == hook.platform
      c == hook.creator
  IN /\ phase # "curve" /\ made.syncs < MaxSyncs /\ p + c > 0
     /\ hook' = [platform |-> 0, creator |-> 0, claims |-> hook.claims - (p + c)]
     /\ manager' = [manager EXCEPT !.usdc = @ - (p + c)]
     /\ pad' = [pad EXCEPT !.usdc = @ + p + c, !.pendingFees = @ + p, !.creator = @ + c]
     /\ made' = [made EXCEPT !.syncs = @ + 1]
     /\ UNCHANGED <<block, rec, curve, st, positions, batch, phase, plannedAt, lowest>>

\* collectCreatorFees syncs first, then pays all that is booked.
Collect ==
  LET p == hook.platform
      c == hook.creator
  IN /\ phase = "after" /\ made.syncs < MaxSyncs /\ pad.creator + c > 0
     /\ hook' = [platform |-> 0, creator |-> 0, claims |-> hook.claims - (p + c)]
     /\ manager' = [manager EXCEPT !.usdc = @ - (p + c)]
     /\ pad' = [pad EXCEPT !.usdc = @ + p - pad.creator, !.pendingFees = @ + p, !.creator = 0]
     /\ made' = [made EXCEPT !.syncs = @ + 1]
     /\ UNCHANGED <<block, rec, curve, st, positions, batch, phase, plannedAt, lowest>>

\* Nothing depends on the block once the windows are over, so blocks are counted to MaxBlock only.
NextBlock ==
  /\ block < (IF phase = "curve" THEN SNIPE_BLOCKS ELSE MaxBlock) /\ phase # "after"
  /\ block' = block + 1
  /\ UNCHANGED <<rec, curve, pad, hook, st, positions, manager, batch, phase, plannedAt, lowest, made>>

VInit ==
  /\ block = 0
  /\ \E usdcIs0, feature \in BOOLEAN, creatorBps \in CreatorFees :
       rec = [usdcIs0 |-> usdcIs0, creatorBps |-> creatorBps, feature |-> feature, openBlock |-> 0, graduationTick |-> 0]
  /\ curve = [virtualUsdc |-> VIRTUAL_USDC_0, virtualTokens |-> VIRTUAL_TOKENS_0, tokensSold |-> 0]
  /\ pad = [usdc |-> 0, pendingFees |-> 0, creator |-> 0, snipe |-> 0]
  /\ hook = [platform |-> 0, creator |-> 0, claims |-> 0]
  /\ st = [pool |-> PoolModel(Q96, 0), held |-> 0, bids |-> 0, bidRef |-> 0]
  /\ positions = {} /\ manager = [usdc |-> 0, tokens |-> 0]
  /\ batch = <<>> /\ phase = "curve" /\ plannedAt = 0 /\ lowest = Q96
  /\ made = [curve |-> 0, got |-> 0, after |-> 0, syncs |-> 0]

VNext ==
  \/ CurveBuy \/ CurveSell \/ SellOut \/ NextBlock
  \/ BatchLands \/ PlanLift \/ WindowOver
  \/ Trade \/ AddOutside \/ RemoveOutside
  \/ Sync \/ Collect

VSpec == VInit /\ [][VNext]_vVars

(***************************************************************************)
(* Properties.                                                             *)
(***************************************************************************)
\* What the code reads back from the chain before every check: active liquidity and every tick are the sums of
\* the positions recorded, and the price lies in its tick (poolAt, 1393-1427).
PoolIsItsPositions ==
  phase # "curve" =>
    /\ st.pool.liquidity = MapThenSumSet(LAMBDA p : p.liquidity, {p \in positions : p.lower <= st.pool.tick /\ st.pool.tick < p.upper})
    /\ \A t \in UsableTicks :
         /\ st.pool.ticks[t].gross = MapThenSumSet(LAMBDA p : p.liquidity, {p \in positions : t \in {p.lower, p.upper}})
         /\ st.pool.ticks[t].net = MapThenSumSet(LAMBDA p : p.liquidity, {p \in positions : t = p.lower})
                                   - MapThenSumSet(LAMBDA p : p.liquidity, {p \in positions : t = p.upper})
    /\ SQRT[st.pool.tick] <= st.pool.sqrtPrice /\ st.pool.sqrtPrice <= SQRT[st.pool.tick + 1]

\* The PoolManager holds what every position could take out now, on top of the hook's claims: no order of window
\* buys, dumps through the bids, outside liquidity and syncs rounds in a trader's favour.
Solvent ==
  phase # "curve" =>
    LET owed(which) == MapThenSumSet(LAMBDA p : LET d == modifyLiquidity(st.pool, p.lower, p.upper, -p.liquidity)
                                                IN IF (which = "usdc") = rec.usdcIs0 THEN d.amount0 ELSE d.amount1, positions)
    IN manager.usdc - hook.claims >= owed("usdc") /\ manager.tokens >= owed("tokens")

\* The pool is backed and is what its positions say it is (invariants and poolAt of the rehearsal).
PoolIsBacked == PoolIsItsPositions /\ Solvent

\* The launchpad's USDC is what it owes and the curve's float, the hook's claims are its fees and the rounding it
\* holds, and a surcharge never waits: at most two units are ever held (invariants, 1292-1307).
BooksBalance ==
  /\ pad.usdc = pad.pendingFees + pad.creator + pad.snipe + (curve.virtualUsdc - VIRTUAL_USDC_0)
  /\ hook.claims = hook.platform + hook.creator + st.held
  /\ st.held <= 2

\* A bid never starts above half the lowest price any window buy, its own included, started from: in prices, not
\* in ticks, so that neither rounding onto the spacing nor the tick of a falling price lets it creep up.
BidsStartUnderHalf ==
  \A p \in positions : p.owner = "hook" /\ p.salt = st.bids /\ st.bids > 0 =>
    IF rec.usdcIs0 THEN sqrtAtTick(p.lower) * sqrtAtTick(p.lower) >= 2 * lowest * lowest
    ELSE 2 * sqrtAtTick(p.upper) * sqrtAtTick(p.upper) <= lowest * lowest

\* No trade of a batch would revert, whichever blocks the trades before it landed in: the floors of whole batches
\* bound any split (batchFloors, 2108-2110), no bid is refused, and the fees never eat a trade.
BatchesLand ==
  phase \in {"first", "second"} /\ batch # <<>> /\ block > plannedAt =>
    LET r == StepAt(st, Head(batch).trade, block)
    IN r.ok /\ r.m.received >= Head(batch).minOut

\* A launch stays whole through its window and after: backed, balanced, with its bids low and its batches landing.
LaunchHolds == PoolIsBacked /\ BooksBalance /\ BidsStartUnderHalf /\ BatchesLand

\* The lift back, sized for the next block's surcharge, brings the price above graduation wherever it lands.
LiftReaches ==
  [][batch # <<>> /\ Head(batch).trade.name = "back" /\ st' # st => PastTarget(st'.pool.tick)]_vVars
=============================================================================
