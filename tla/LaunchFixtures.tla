---------------------------- MODULE LaunchFixtures ----------------------------
(***************************************************************************)
(* The market the site runs in memory when it is built with its launch     *)
(* fixtures (lib/launchFixtures.ts): one token, from its launch on v1.3 or *)
(* v1.4 through its curve, its pool and everything its creator fees can be *)
(* sent to.  Every call works on the one store, and what it wrote before   *)
(* it threw stays written: an operation here returns [ok, s], the store    *)
(* as the call left it.                                                    *)
(*                                                                         *)
(* `tally` is not in the code: the USDC delivered to wallets outside and   *)
(* the dividends paid, for the properties, and the trades made.           *)
(***************************************************************************)
EXTENDS LaunchQuotes, Sequences, FiniteSetsExt, SequencesExt

CONSTANTS
  Owners, Creator,         \* the wallets that visit
  Buyers,                  \* and those that buy
  Plugin,                  \* the wallet a run trades from
  FIXTURE_USDC_BALANCE, FIXTURE_LAUNCH_FEE,
  Launches,                \* what seedMarket and the builder launch
  Shares,                  \* of the payees of a Split
  MAGNITUDE, DRIP_PERIOD, MIN_ELIGIBLE,
  RUN_INTERVAL, RUN_CAP_BPS, MIN_RUN_USDC,
  BuyAmounts, SellAmounts, FirstBuys, Approvals, Steps,
  HintTarget,              \* the impact a size hint stays under
  MaxTime, MaxTrades       \* bounds of the model: the last second, the visitors' trades

Wallets == Owners \cup {Plugin}
Unset == -1

ASSUME FixtureAssumption ==
  /\ Creator \in Owners /\ Buyers \subseteq Owners /\ Plugin \notin Owners
  /\ Shares \in [Owners -> Nat]
  /\ RUN_INTERVAL > 0 /\ DRIP_PERIOD > 0 /\ MAGNITUDE > 0

VARIABLES now, store, tally
vars == <<now, store, tally>>

BlockAt(time) == time \div 2

NoBook == [usdcIs0 |-> FALSE, openBlock |-> 0, bids |-> 0, locked |-> 0,
           graduationTick |-> 0, bidRefTick |-> 0]

\* Nothing launched yet; what visitors hold is the default until it is written.
Init ==
  /\ now \in Steps
  /\ store = [created |-> FALSE,
              usdc |-> [w \in Wallets |-> IF w = Plugin THEN 0 ELSE FIXTURE_USDC_BALANCE],
              allowed |-> [o \in Owners |-> [launchpad |-> 0, router |-> 0]]]
  /\ tally = [left |-> 0, claimed |-> 0, trades |-> 0]

-----------------------------------------------------------------------------
(* Where a launch's creator fees go. *)

\* The kinds of fee plugin a destination sets up (configure); a Combo's entries too.
Configured(dest) ==
  IF dest.kind = "combo" THEN {dest.entries[i].kind : i \in DOMAIN dest.entries} ELSE {dest.kind}

NewRun == [held |-> 0, spent |-> 0, burned |-> 0, lastRunBlock |-> 0, lastRunAt |-> 0,
           usdcAdded |-> 0, tokensAdded |-> 0, liquidity |-> 0]

NewHolders == [rate |-> 0, last |-> 0, end |-> 0, perShare |-> 0, distributed |-> 0,
               snaps |-> [w \in Wallets |-> 0], accrued |-> [w \in Wallets |-> 0]]

-----------------------------------------------------------------------------
(* The dividend stream of the token. *)

TokenBalance(s, w) == IF s.tokens[w] = Unset THEN s.launch.seeded ELSE s.tokens[w]

\* The wallets the store has a balance of, and the holders it does not track.
RawEligible(s) ==
  s.launch.others + MapThenSumSet(LAMBDA w : s.tokens[w], {w \in Wallets : s.tokens[w] # Unset})

PerShareAt(s, time) ==
  LET h == s.holders
  IN  IF h.last >= h.end \/ RawEligible(s) < MIN_ELIGIBLE THEN h.perShare
      ELSE h.perShare + (h.rate * (Least(time, h.end) - h.last)) \div RawEligible(s)

(* Pays the stream up to now, or moves its end out while fewer than one    *)
(* token is eligible.                                                      *)
AccrueStream(s, time) ==
  LET h == s.holders
  IN  IF h.last >= h.end \/ h.last >= time THEN s
      ELSE IF RawEligible(s) < MIN_ELIGIBLE
        THEN [s EXCEPT !.holders.end = @ + (time - h.last), !.holders.last = time]
      ELSE [s EXCEPT !.holders.perShare = PerShareAt(s, time),
                     !.holders.last = Least(time, h.end)]

(* The amount joins what the stream owes; the end moves to the             *)
(* amount-weighted average.                                                *)
Distribute(s, amount, time) ==
  LET a == AccrueStream(s, time)
      h == a.holders
      owed == IF h.end > time THEN h.rate * (h.end - time) ELSE 0
      added == amount * MAGNITUDE
      from == Most(h.end, time)
      to == time + DRIP_PERIOD
      end == Most(from + (added * (to - from)) \div (owed + added), time + 1)
  IN  IF amount = 0 THEN s
      ELSE [a EXCEPT !.holders.rate = (owed + added) \div (end - time),
                     !.holders.last = time, !.holders.end = end,
                     !.holders.distributed = @ + amount]

Undistributed(s, time) ==
  LET h == s.holders
      from == IF RawEligible(s) < MIN_ELIGIBLE THEN h.last ELSE Least(time, h.end)
  IN  IF h.last >= h.end THEN 0 ELSE (h.rate * (h.end - from)) \div MAGNITUDE

Earned(s, w, perShare) == ((perShare - s.holders.snaps[w]) * TokenBalance(s, w)) \div MAGNITUDE

\* Fault: a wallet's per-share value is not moved on.
SettleTwice(s, w, time) ==
  LET a == AccrueStream(s, time)
  IN  [a EXCEPT !.holders.accrued[w] = @ + Earned(a, w, a.holders.perShare)]

SettleHolder(s, w, time) ==
  LET a == AccrueStream(s, time)
  IN  [a EXCEPT !.holders.accrued[w] = @ + Earned(a, w, a.holders.perShare),
                !.holders.snaps[w] = a.holders.perShare]

HolderClaimable(s, w, time) == s.holders.accrued[w] + Earned(s, w, PerShareAt(s, time))

-----------------------------------------------------------------------------
(* Balances. *)

Done(s, tokens, usdc) == [ok |-> TRUE, s |-> s, tokens |-> tokens, usdc |-> usdc]
Threw(s)              == [ok |-> FALSE, s |-> s, tokens |-> 0, usdc |-> 0]

\* setBalance of the token: the stream is settled first.
SetTokens(s, w, value, time) ==
  LET settled == IF "holders" \in Configured(s.launch.dest) THEN SettleHolder(s, w, time) ELSE s
  IN  [settled EXCEPT !.tokens[w] = value]

SpendAllowance(s, owner, spender, amount) == [s EXCEPT !.allowed[owner][spender] = @ - amount]

(* What a trader pays: the allowance first, unless the trader is a plugin  *)
(* or the launch itself, then the balance.                                 *)
Pay(s, who, spender, amount) ==
  LET spends == spender # "none"
      after  == IF spends THEN SpendAllowance(s, who, spender, amount) ELSE s
  IN  IF spends /\ s.allowed[who][spender] < amount THEN Threw(s)
      ELSE IF s.usdc[who] < amount THEN Threw(after)
      ELSE Done([after EXCEPT !.usdc[who] = @ - amount], 0, amount)

-----------------------------------------------------------------------------
(* Trading. *)

\* What is recorded of a trade: here, only its platform fee.
Record(s, platformFee) == [s EXCEPT !.platformFees = @ + platformFee]

\* The fees of a trade: the creator's to collect, the platform's recorded.
Accrue(s, fees) == [Record(s, fees.platform) EXCEPT !.pending = @ + fees.creator]

\* A v1.4 pool's price, as its root.
BookSqrtPrice(s) ==
  LET amounts == IF s.launch.v4.usdcIs0 THEN <<s.launch.pool.usdc, s.launch.pool.tokens>>
                                        ELSE <<s.launch.pool.tokens, s.launch.pool.usdc>>
  IN  Sqrt((amounts[2] * (Q96 * Q96)) \div amounts[1])

\* A trade in a v1.4 pool, the hook's fees on the USDC side.
PoolTrade(s, side, amountIn, snipe) ==
  LET pool  == s.launch.pool
      gross == IF side = "buy" THEN amountIn
               ELSE (amountIn * pool.usdc) \div (pool.tokens + amountIn)
      fees  == PoolFeesOnGross(gross, s.launch.fee, IF side = "buy" THEN snipe ELSE 0)
      taken == fees.platform + fees.creator + fees.snipe
      net   == gross - taken
      out   == IF side = "buy" THEN (net * pool.tokens) \div (pool.usdc + net) ELSE net
  IN  [ok |-> amountIn > 0 /\ fees.ok /\ (side = "buy" => out > 0),
       out |-> out, gross |-> gross, fees |-> fees,
       next |-> IF side = "buy" THEN [usdc |-> pool.usdc + net, tokens |-> pool.tokens - out]
                ELSE [usdc |-> pool.usdc - gross, tokens |-> pool.tokens + amountIn]]

SnipeAt(s, time) ==
  IF s.launch.version # "v14" THEN 0
  ELSE SnipeBps(IF s.launch.graduated THEN s.launch.v4.openBlock ELSE s.launch.createdBlock,
                BlockAt(time), s.launch.fee)

(* Graduation into Uniswap: the pool opens with the curve's USDC and the   *)
(* pool's tokens, and the curve's snipe fees become its first bid.         *)
OpenPool(s, curve, time) ==
  LET opened == [s EXCEPT !.launch.pool = [usdc |-> RealUsdc(curve), tokens |-> POOL_SUPPLY]]
      tick   == TickAt(BookSqrtPrice(opened))
  IN  [opened EXCEPT !.launch.v4.openBlock = BlockAt(time),
                     !.launch.v4.bids = IF s.snipe > 0 THEN 1 ELSE 0,
                     !.launch.v4.locked = s.snipe,
                     !.launch.v4.graduationTick = tick,
                     !.launch.v4.bidRefTick = tick,
                     !.snipe = 0]

Graduated(s, curve, time) ==
  LET g == [s EXCEPT !.launch.graduated = TRUE]
  IN  IF s.launch.version = "v14" THEN OpenPool(g, curve, time)
      ELSE [g EXCEPT !.launch.pool = [usdc |-> RealUsdc(curve), tokens |-> POOL_SUPPLY]]

\* A buyer has paid and is given tokens.
Receives(s, who, tokensOut, time) == SetTokens(s, who, TokenBalance(s, who) + tokensOut, time)

CurveBuy(s, who, usdcIn, time, spender, first) ==
  LET Keeping(q, held) ==
        Done(IF q.graduates THEN Graduated(held, q.next, time) ELSE held, q.tokensOut, q.usdcSpent)
      Having(q, paid) ==
        IF ~paid.ok THEN paid
        ELSE Keeping(q, [Accrue(Receives(paid.s, who, q.tokensOut, time), q) EXCEPT
                           !.launch.curve = q.next, !.snipe = @ + q.snipe])
      Quoted(q) == IF ~q.ok THEN Threw(s) ELSE Having(q, Pay(s, who, spender, q.usdcSpent))
  IN  Quoted(QuoteBuy(s.launch.curve, usdcIn, s.launch.fee, IF first THEN 0 ELSE SnipeAt(s, time)))

(* A window buy places its own snipe fee as a bid, from half the lower of  *)
(* the price before it and the pool's reference, which it becomes.         *)
V4Buy(s, who, usdcIn, time, spender) ==
  LET tickBefore == TickAt(BookSqrtPrice(s))
      Keeping(trade, held) ==
        Done(IF trade.fees.snipe = 0 THEN held
             ELSE [held EXCEPT !.launch.v4.bids = @ + 1,
                               !.launch.v4.locked = @ + trade.fees.snipe,
                               !.launch.v4.bidRefTick =
                                  CheaperOf(s.launch.v4.usdcIs0, tickBefore, @)],
             trade.out, usdcIn)
      Having(trade, paid) ==
        IF ~paid.ok THEN paid
        ELSE Keeping(trade, [Accrue(Receives(paid.s, who, trade.out, time), trade.fees) EXCEPT
                               !.launch.pool = trade.next])
      Quoted(trade) == IF ~trade.ok THEN Threw(s) ELSE Having(trade, Pay(s, who, spender, usdcIn))
  IN  Quoted(PoolTrade(s, "buy", usdcIn, SnipeAt(s, time)))

PoolBuy(s, who, usdcIn, time, spender) ==
  LET Having(q, paid) ==
        IF ~paid.ok THEN paid
        ELSE Done([Accrue(Receives(paid.s, who, q.tokensOut, time), q) EXCEPT
                     !.launch.pool = q.next], q.tokensOut, usdcIn)
      Quoted(q) == IF ~q.ok THEN Threw(s) ELSE Having(q, Pay(s, who, spender, usdcIn))
  IN  Quoted(QuotePoolBuy(s.launch.pool, usdcIn, s.launch.fee))

BuyInternal(s, who, usdcIn, time, spender, first) ==
  IF ~s.launch.graduated THEN CurveBuy(s, who, usdcIn, time, spender, first)
  ELSE IF s.launch.version = "v14" THEN V4Buy(s, who, usdcIn, time, spender)
  ELSE PoolBuy(s, who, usdcIn, time, spender)

\* The seller hands the tokens over, then is paid.
Sold(s, who, tokensIn, usdcOut, fees, time) ==
  LET Given(g) == IF g.usdc[who] + usdcOut < 0 THEN Threw(g)
                  ELSE Done(Accrue([g EXCEPT !.usdc[who] = @ + usdcOut], fees), tokensIn, usdcOut)
  IN  Given(SetTokens(s, who, TokenBalance(s, who) - tokensIn, time))

SellInternal(s, who, tokensIn, time) ==
  LET Trade(ok, usdcOut, fees) ==
        IF ok THEN Sold(s, who, tokensIn, usdcOut, fees, time) ELSE Threw(s)
      LeaveCurve(sold, next) == IF sold.ok THEN [sold EXCEPT !.s.launch.curve = next] ELSE sold
      LeavePool(sold, next)  == IF sold.ok THEN [sold EXCEPT !.s.launch.pool = next] ELSE sold
      OnCurve(q) == LeaveCurve(Trade(q.ok, q.usdcOut, q), q.next)
      InPool(q)  == LeavePool(Trade(q.ok, q.usdcOut, q), q.next)
      InV4(t)    == LeavePool(Trade(t.ok, t.out, t.fees), t.next)
  IN  IF TokenBalance(s, who) < tokensIn THEN Threw(s)
      ELSE IF ~s.launch.graduated THEN OnCurve(QuoteSell(s.launch.curve, tokensIn, s.launch.fee))
      ELSE IF s.launch.version = "v14" THEN InV4(PoolTrade(s, "sell", tokensIn, 0))
      ELSE InPool(QuotePoolSell(s.launch.pool, tokensIn, s.launch.fee))

-----------------------------------------------------------------------------
(* Launching. *)

NewLaunch(l, time) ==
  [version |-> l.version, createdBlock |-> BlockAt(time), fee |-> l.fee, dest |-> l.dest,
   seeded |-> l.seeded, others |-> l.others,
   graduated |-> FALSE, curve |-> InitialCurve, pool |-> [usdc |-> 0, tokens |-> 0],
   v4 |-> [NoBook EXCEPT !.usdcIs0 = l.usdcIs0]]

\* The store with the launch and the books of its plugins in it.
Launched(s, l, time) ==
  [created |-> TRUE, usdc |-> s.usdc, allowed |-> s.allowed, launch |-> NewLaunch(l, time),
   tokens |-> [w \in Wallets |-> Unset], pending |-> 0, snipe |-> 0, platformFees |-> 0,
   split |-> [received |-> 0, released |-> [o \in Owners |-> 0]],
   buyback |-> NewRun, deepen |-> NewRun, holders |-> NewHolders]

(* The first buy is quoted on a new curve and approved with the launch     *)
(* fee; it runs in the launch and pays no snipe fee.  Where it throws the  *)
(* launch stays.                                                           *)
CreateInternal(s, owner, l, firstBuy, time) ==
  LET quote == QuoteBuy(InitialCurve, firstBuy, l.fee, 0)
      cost  == FIXTURE_LAUNCH_FEE + (IF firstBuy > 0 THEN quote.usdcSpent ELSE 0)
      spent == SpendAllowance(s, owner, "launchpad", cost)
      paid  == [spent EXCEPT !.usdc[owner] = @ - FIXTURE_LAUNCH_FEE]
      launched == Launched(paid, l, time)
  IN  IF firstBuy > 0 /\ ~quote.ok THEN Threw(s)
      ELSE IF s.allowed[owner].launchpad < cost THEN Threw(s)
      ELSE IF s.usdc[owner] < FIXTURE_LAUNCH_FEE THEN Threw(spent)
      ELSE IF firstBuy = 0 THEN Done(launched, 0, 0)
      ELSE BuyInternal(launched, owner, firstBuy, time, "none", TRUE)

-----------------------------------------------------------------------------
(* Runs of Buyback & burn and of Deepen pool. *)

\* Fault: the budget is always full.
PacedOfferFull(s, book, time) ==
  LET cap == ((IF s.launch.graduated THEN s.launch.pool.usdc ELSE s.launch.curve.usdc)
                * RUN_CAP_BPS) \div BPS
      offer == Least(book.held, cap)
  IN  IF BlockAt(time) < book.lastRunBlock + 1 \/ offer < MIN_RUN_USDC THEN 0 ELSE offer

(* What a run may offer: what is held, within the cap on the USDC side     *)
(* prorated by the time since the last run; none twice in a block or under *)
(* three units.                                                            *)
PacedOffer(s, book, time) ==
  LET cap == ((IF s.launch.graduated THEN s.launch.pool.usdc ELSE s.launch.curve.usdc)
                * RUN_CAP_BPS) \div BPS
      elapsed == IF book.lastRunAt = 0 THEN RUN_INTERVAL
                 ELSE Least(Most(0, time - book.lastRunAt), RUN_INTERVAL)
      offer == Least(book.held, (cap * elapsed) \div RUN_INTERVAL)
  IN  IF BlockAt(time) < book.lastRunBlock + 1 \/ offer < MIN_RUN_USDC THEN 0 ELSE offer

(* The burn side and the rest; a side too small to buy anything goes       *)
(* through the other.                                                      *)
DeepenSides(offer, burnBps) ==
  LET toBurn == (offer * burnBps) \div BPS
  IN  IF toBurn < MIN_RUN_USDC THEN [toBurn |-> 0, toDeepen |-> offer]
      ELSE IF offer - toBurn < MIN_RUN_USDC THEN [toBurn |-> offer, toDeepen |-> 0]
      ELSE [toBurn |-> toBurn, toDeepen |-> offer - toBurn]

\* The part of the deepen side that buys, so that the add takes all it buys.
DeepenBuy(usdcToDeepen, reserveUsdc, feeBps) ==
  LET q == BPS - feeBps
      s == BPS + q
      root == Sqrt(s * s * reserveUsdc * reserveUsdc + 4 * q * q * usdcToDeepen * reserveUsdc)
      toBuy == (2 * BPS * usdcToDeepen * reserveUsdc) \div (s * reserveUsdc + root)
  IN  Most(MIN_RUN_USDC, Least(toBuy, usdcToDeepen))

NoAdd == [tokens |-> 0, usdc |-> 0, liquidity |-> 0]

(* All the tokens with the USDC they pair with, or all the USDC left with  *)
(* the tokens it matches, and the LP that mints.                           *)
DeepenAdd(tokens, usdcLeft, pool) ==
  LET paired == (tokens * pool.usdc) \div pool.tokens
      usdc   == Least(paired, usdcLeft)
      added  == IF paired > usdcLeft THEN (usdcLeft * pool.tokens) \div pool.usdc ELSE tokens
      supply == Sqrt(pool.tokens * pool.usdc)
      liquidity == Least((added * supply) \div pool.tokens, (usdc * supply) \div pool.usdc)
  IN  IF tokens = 0 \/ usdcLeft = 0 \/ liquidity = 0 THEN NoAdd
      ELSE [tokens |-> added, usdc |-> usdc, liquidity |-> liquidity]

\* The plugin is lent the offer for the run, and keeps nothing after it.
Lent(s, offer) == [s EXCEPT !.usdc[Plugin] = offer]
Returned(s)    == [s EXCEPT !.usdc[Plugin] = 0, !.tokens[Plugin] = Unset]

\* The book after a run, its block marked last.
Ran(book, spent, burned, added, time) ==
  [book EXCEPT !.held = @ - spent, !.spent = @ + spent, !.burned = @ + burned,
               !.usdcAdded = @ + added.usdc, !.tokensAdded = @ + added.tokens,
               !.liquidity = @ + added.liquidity, !.lastRunBlock = BlockAt(time)]

RunBuybackInternal(s, time) ==
  LET offer == PacedOffer(s, s.buyback, time)
      begun == Lent([s EXCEPT !.buyback.lastRunAt = time], offer)
      Burnt(bought) ==
        IF ~bought.ok THEN bought
        ELSE Done([Returned(bought.s) EXCEPT
                     !.buyback = Ran(@, bought.usdc, bought.tokens, NoAdd, time)], 0, 0)
  IN  IF offer = 0 THEN Threw(s) ELSE Burnt(BuyInternal(begun, Plugin, offer, time, "none", FALSE))

\* The deepen side of a pool run: buy, then add what was bought.
Deepened(s, toDeepen, time) ==
  LET toBuy == DeepenBuy(toDeepen, s.launch.pool.usdc, FEE_BPS + s.launch.fee)
      Adding(bought, add) ==
        [ok |-> bought.ok,
         s |-> [bought.s EXCEPT !.launch.pool.usdc = @ + add.usdc, !.launch.pool.tokens = @ + add.tokens],
         usdc |-> bought.usdc + add.usdc, tokens |-> bought.tokens - add.tokens, add |-> add]
      Bought(b) == Adding(b, DeepenAdd(b.tokens, toDeepen - b.usdc, b.s.launch.pool))
  IN  Bought(BuyInternal(s, Plugin, toBuy, time, "none", FALSE))

(* On the curve a run buys and burns; in the pool the burn side buys and   *)
(* burns, then the deepen side buys and adds.  What the add does not take  *)
(* is burned; USDC that does not fit stays held.                           *)
RunDeepenInternal(s, time) ==
  LET offer == PacedOffer(s, s.deepen, time)
      begun == Lent([s EXCEPT !.deepen.lastRunAt = time], offer)
      Spend(amount) == BuyInternal(begun, Plugin, amount, time, "none", FALSE)
      After(run, spent, burned, added) ==
        Done([Returned(run) EXCEPT !.deepen = Ran(@, spent, burned, added, time)], 0, 0)
      OnCurve(curve) ==
        IF ~curve.ok THEN curve ELSE After(curve.s, curve.usdc, curve.tokens, NoAdd)
      Both(burn, rest) ==
        IF ~burn.ok THEN burn
        ELSE IF ~rest.ok THEN Threw(rest.s)
        ELSE After(rest.s, burn.usdc + rest.usdc, burn.tokens + rest.tokens, rest.add)
      Deepening(sides, burn) ==
        Both(burn, IF sides.toDeepen = 0
                     THEN [ok |-> burn.ok, s |-> burn.s, usdc |-> 0, tokens |-> 0, add |-> NoAdd]
                   ELSE Deepened(burn.s, sides.toDeepen, time))
      InPool(sides) ==
        Deepening(sides, IF sides.toBurn = 0 THEN Done(begun, 0, 0) ELSE Spend(sides.toBurn))
  IN  IF offer = 0 THEN Threw(s)
      ELSE IF ~s.launch.graduated THEN OnCurve(Spend(offer))
      ELSE InPool(DeepenSides(offer, s.launch.dest.burnBps))

-----------------------------------------------------------------------------
(* Fees. *)

\* To one plugin; to any other address the USDC simply leaves.
DeliverTo(s, kind, amount, time) ==
  CASE amount = 0       -> s
    [] kind = "split"   -> [s EXCEPT !.split.received = @ + amount]
    [] kind = "buyback" -> [s EXCEPT !.buyback.held = @ + amount]
    [] kind = "deepen"  -> [s EXCEPT !.deepen.held = @ + amount]
    [] kind = "holders" -> Distribute(s, amount, time)
    [] OTHER            -> s

\* What each entry of a Combo gets: its percentage, and the last one the rest.
Slices(entries, amount) ==
  LET slice[i \in DOMAIN entries] == (amount * entries[i].bps) \div BPS
      last == Len(entries)
  IN  [i \in DOMAIN entries |->
         IF i < last THEN slice[i]
         ELSE amount - FoldFunctionOnSet(+, 0, slice, 1..(last - 1))]

Deliver(s, dest, amount, time) ==
  LET slices == Slices(dest.entries, amount)
  IN  IF dest.kind # "combo" THEN DeliverTo(s, dest.kind, amount, time)
      ELSE FoldLeftDomain(LAMBDA at, i : DeliverTo(at, dest.entries[i].kind, slices[i], time),
                          s, dest.entries)

\* The USDC of a delivery that leaves for a wallet.
LeftFor(dest, amount) ==
  LET slices == Slices(dest.entries, amount)
  IN  IF dest.kind = "combo"
        THEN MapThenSumSet(LAMBDA i : slices[i], {i \in DOMAIN dest.entries : dest.entries[i].kind = "wallet"})
      ELSE IF dest.kind = "wallet" THEN amount ELSE 0

TotalShares == MapThenSumSet(LAMBDA o : Shares[o], Owners)

Releasable(split, payee) ==
  Most(0, (split.received * Shares[payee]) \div TotalShares - split.released[payee])

-----------------------------------------------------------------------------
(* What the site asks of the fixture. *)

(* The site asks for an allowance when the one there is falls short. *)
Approve(owner, spender, value) ==
  /\ \A x \in BuyAmounts : store.allowed[owner][spender] < x
  /\ store' = [store EXCEPT !.allowed[owner][spender] = value]
  /\ UNCHANGED <<now, tally>>

Create(l, firstBuy) ==
  /\ ~store.created
  /\ store' = CreateInternal(store, Creator, l, firstBuy, now).s
  /\ UNCHANGED <<now, tally>>

Counted ==
  /\ tally.trades < MaxTrades
  /\ tally' = [tally EXCEPT !.trades = @ + 1]
  /\ UNCHANGED now

Buy(owner, usdcIn) ==
  /\ store.created
  /\ store' = BuyInternal(store, owner, usdcIn, now,
                          IF store.launch.graduated THEN "router" ELSE "launchpad", FALSE).s
  /\ Counted

Sell(owner, tokensIn) ==
  /\ store.created
  /\ store' = SellInternal(store, owner, tokensIn, now).s
  /\ Counted

Collect ==
  /\ store.created
  /\ store' = Deliver([store EXCEPT !.pending = 0], store.launch.dest, store.pending, now)
  /\ tally' = [tally EXCEPT !.left = @ + LeftFor(store.launch.dest, store.pending)]
  /\ UNCHANGED now

Release(payee) ==
  LET amount == Releasable(store.split, payee)
  IN  /\ store.created
      /\ amount > 0
      /\ store' = [store EXCEPT !.split.released[payee] = @ + amount, !.usdc[payee] = @ + amount]
      /\ UNCHANGED <<now, tally>>

RunBuyback ==
  /\ store.created /\ "buyback" \in Configured(store.launch.dest)
  /\ store' = RunBuybackInternal(store, now).s
  /\ UNCHANGED <<now, tally>>

RunDeepen ==
  /\ store.created /\ "deepen" \in Configured(store.launch.dest)
  /\ store' = RunDeepenInternal(store, now).s
  /\ UNCHANGED <<now, tally>>

Claim(owner) ==
  LET settled == SettleHolder(store, owner, now)
      paid == settled.holders.accrued[owner]
  IN  /\ store.created /\ "holders" \in Configured(store.launch.dest)
      /\ store' = [settled EXCEPT !.holders.accrued[owner] = 0, !.usdc[owner] = @ + paid]
      /\ tally' = [tally EXCEPT !.claimed = @ + paid]
      /\ UNCHANGED now

Tick(seconds) ==
  /\ now + seconds <= MaxTime
  /\ now' = now + seconds
  /\ UNCHANGED <<store, tally>>

Next ==
  \/ \E v \in Approvals : ~store.created /\ Approve(Creator, "launchpad", v)
  \/ \E o \in Buyers, spender \in {"launchpad", "router"}, v \in Approvals : Approve(o, spender, v)
  \/ \E l \in Launches, x \in FirstBuys : Create(l, x)
  \/ \E o \in Buyers, x \in BuyAmounts : Buy(o, x)
  \/ \E o \in Owners, n \in SellAmounts : Sell(o, n)
  \/ \E o \in Owners : store.created /\ Sell(o, TokenBalance(store, o))
  \/ Collect
  \/ \E o \in Owners : Release(o)
  \/ RunBuyback
  \/ RunDeepen
  \/ \E o \in Owners : Claim(o)
  \/ \E d \in Steps : Tick(d)

Spec == Init /\ [][Next]_vars

-----------------------------------------------------------------------------
SumOver(set, amount(_)) == MapThenSumSet(amount, set)

(* All the USDC there was is somewhere: in a wallet, in the curve or the   *)
(* pool, waiting to be collected or to be bid, held by a plugin for its    *)
(* payees, holders or next run, or gone to the platform, the launch fee or *)
(* a wallet the fees go to.  Selling out, graduating, runs that buy and    *)
(* add, and calls that throw halfway neither make nor lose a unit.         *)
UsdcAccounted ==
  LET s == store
      l == s.launch
      split == s.split.received - SumOver(Owners, LAMBDA o : s.split.released[o])
  IN  s.created =>
        SumOver(Wallets, LAMBDA w : s.usdc[w])
          + (IF l.graduated THEN l.pool.usdc ELSE RealUsdc(l.curve))
          + s.pending + s.snipe + l.v4.locked + split + s.buyback.held + s.deepen.held
          + (s.holders.distributed - tally.claimed)
          + s.platformFees + FIXTURE_LAUNCH_FEE + tally.left
        = Cardinality(Owners) * FIXTURE_USDC_BALANCE

(* And every token sold by the curve or the pool is held by a wallet, burned,  *)
(* or back in the pool, beside those some wallets are seeded with.         *)
TokensAccounted ==
  LET s == store
      l == s.launch
      held == SumOver(Owners, LAMBDA o : TokenBalance(s, o) - l.seeded) + s.buyback.burned + s.deepen.burned
  IN  s.created =>
        /\ held + (IF l.graduated THEN l.pool.tokens ELSE 0)
             = l.curve.sold + (IF l.graduated THEN POOL_SUPPLY ELSE 0)
        /\ l.graduated => l.curve.sold = CURVE_SUPPLY

(* No holder is promised what was not distributed: all that wallets could  *)
(* claim now, all they claimed and all the stream still owes is within it, *)
(* through any transfers, deposits and pauses.                             *)
DividendsCovered ==
  LET s == store
  IN  s.created /\ "holders" \in Configured(s.launch.dest) =>
        SumOver(Wallets, LAMBDA w : HolderClaimable(s, w, now)) + tally.claimed + Undistributed(s, now)
          <= s.holders.distributed

(* Whatever the order payees release in while fees keep arriving, each has *)
(* had no more than its share, and releasing to all leaves less than a     *)
(* unit for each (SplitPlugin: "owed = received * share / total").         *)
SplitIsFair ==
  LET b == store.split
  IN  store.created =>
        /\ \A o \in Owners : b.released[o] * TotalShares <= b.received * Shares[o]
        /\ b.received - SumOver(Owners, LAMBDA o : b.released[o] + Releasable(b, o))
             \in 0..(Cardinality(Owners) - 1)

(* The books of the market balance after any calls. *)
MarketBalances == UsdcAccounted /\ TokensAccounted

UsdcSide == IF store.launch.graduated THEN store.launch.pool.usdc ELSE store.launch.curve.usdc

SinceRun(book) == IF book.lastRunAt = 0 THEN RUN_INTERVAL ELSE Least(now - book.lastRunAt, RUN_INTERVAL)

Paced(before, after) ==
  /\ after.held >= 0
  /\ after.spent > before.spent =>
       (after.spent - before.spent) * RUN_INTERVAL * BPS <= UsdcSide * RUN_CAP_BPS * SinceRun(before)

(* A run spends, in all its buys and in what it adds, no more than the cap *)
(* on the USDC side for the time since the last run (V13-SPEC: 0.25% an    *)
(* hour), and never more than the fees it was given.                       *)
RunsArePaced ==
  [][store.created => Paced(store.buyback, store'.buyback) /\ Paced(store.deepen, store'.deepen)]_vars

(* "None starts above half the graduation price" (launchV14.ts): wherever  *)
(* the price went since, the next window buy's bid starts no dearer than   *)
(* the pool's first bid.                                                   *)
BidsStartLow ==
  LET b == store.launch.v4
      next == WindowBidTop(b.usdcIs0, TickAt(BookSqrtPrice(store)), b.bidRefTick)
  IN  store.created /\ store.launch.graduated /\ store.launch.version = "v14" =>
        /\ CheaperOf(b.usdcIs0, next, BidTop(b.usdcIs0, b.graduationTick)) = next
        /\ b.bids = 0 <=> b.locked = 0

(* A market's own promises: nothing appears or vanishes, holders and payees *)
(* are covered, and bids stay low.                                         *)
MarketIsSound == MarketBalances /\ DividendsCovered /\ SplitIsFair /\ BidsStartLow

-----------------------------------------------------------------------------
(* The quotes, in every state the market gets to. *)

Contract == INSTANCE CurveMath

\* Two quotes that agree on whether to trade and, if so, on these figures.
Same(site, chain, fields) == site.ok = chain.ok /\ (site.ok => fields)

(* curve.ts: "a quote here equals quoteBuy / quoteSell on-chain to the     *)
(* last unit".  Without the snipe fee the site's quotes are those of       *)
(* ArchitexLaunchpad and LaunchRouter, refusals and sell-out included.     *)
QuotesAreTheContracts ==
  LET l == store.launch
      c == l.curve
      BuySame(x) ==
        LET site == QuoteBuy(c, x, l.fee, 0)
            chain == Contract!CalcBuy(c.usdc, c.tokens, CURVE_SUPPLY - c.sold, x, l.fee)
        IN  Same(site, chain,
                 /\ site.tokensOut = chain.tokensOut /\ site.usdcSpent = chain.usdcSpent
                 /\ site.platform = chain.platformFee /\ site.creator = chain.creatorFee
                 /\ site.graduates = chain.graduates)
      SellSame(n) ==
        LET site == QuoteSell(c, n, l.fee)
            chain == Contract!CalcSell(c.usdc, c.tokens, c.sold, n, l.fee)
        IN  Same(site, chain,
                 /\ site.usdcOut = chain.usdcOut
                 /\ site.platform = chain.platformFee /\ site.creator = chain.creatorFee)
      PoolBuySame(x) ==
        LET site == QuotePoolBuy(l.pool, x, l.fee)
            chain == Contract!RouterBuyQuote(l.pool.tokens, l.pool.usdc, x, l.fee)
        IN  Same(site, chain,
                 /\ site.tokensOut = chain.tokensOut
                 /\ site.platform = chain.platformFee /\ site.creator = chain.creatorFee)
      PoolSellSame(n) ==
        LET site == QuotePoolSell(l.pool, n, l.fee)
            chain == Contract!RouterSellQuote(l.pool.tokens, l.pool.usdc, n, l.fee)
        IN  Same(site, chain,
                 /\ site.usdcOut = chain.usdcOut /\ site.gross = chain.gross
                 /\ site.platform = chain.platformFee /\ site.creator = chain.creatorFee)
  IN  store.created =>
        IF ~l.graduated
          THEN (\A x \in BuyAmounts : BuySame(x)) /\ (\A n \in SellAmounts : SellSame(n))
          ELSE (\A x \in BuyAmounts : PoolBuySame(x)) /\ (\A n \in SellAmounts : PoolSellSame(n))

Sides == {"buy", "sell"}
Offers(side) == IF side = "buy" THEN BuyAmounts ELSE SellAmounts

\* The sheet the site shows for an offer now.
SheetOf(side, offer) ==
  LET l == store.launch
      snipe == IF side = "buy" THEN SnipeAt(store, now) ELSE 0
      trade == PoolTrade(store, side, offer, snipe)
  IN  IF l.graduated /\ l.version = "v14"
        THEN (IF trade.ok THEN V4Quote(l, BookSqrtPrice(store), side, offer, trade.out, snipe) ELSE NoQuote)
        ELSE LaunchQuote(l, side, offer, snipe)

(* impactGuard.ts: in a v1.4 pool "the impact is this cost itself, as a     *)
(* share", and elsewhere the price move "runs ahead of this cost": the two *)
(* figures of one sheet, worked out apart, never contradict each other,    *)
(* and the fees of a v1.4 sell, known only from what is left after them,   *)
(* are those the pool took.  Each to two units of USDC, for rounding.      *)
SheetsAgree ==
  LET l == store.launch
      v4 == l.graduated /\ l.version = "v14"
      root == IF v4 THEN BookSqrtPrice(store) ELSE 0
      Usdc(side, q, fees) == IF side = "buy" THEN q.amountIn - fees ELSE q.amountOut + fees
      Agrees(side, x, q, loss, usdc) ==
        IF v4 /\ side = "buy" THEN q.impact = (loss * BPS) \div usdc
        ELSE IF v4 THEN PoolTrade(store, side, x, 0).gross - usdc \in 0..2
        ELSE (loss - 2) * BPS <= (q.impact + 1) * (IF side = "buy" THEN usdc ELSE usdc + loss)
      Holds(side, x, q) ==
        q.ok => Agrees(side, x, q, ImpactLoss(l, root, side, q),
                       Usdc(side, q, q.platform + q.creator + q.snipe))
  IN  store.created => \A side \in Sides : \A x \in Offers(side) : Holds(side, x, SheetOf(side, x))

(* The size hint under a sheet: the move of a trade of that size, in whole  *)
(* basis points as the sheet has it, is under the hint's target            *)
(* (impactGuard.ts: "the largest trade whose impact stays under this").    *)
HintStaysUnder ==
  LET l == store.launch
      snipe == SnipeAt(store, now)
  IN  store.created /\ ~(l.graduated /\ l.version = "v14") =>
        \A side \in Sides :
          LET q == LaunchQuote(l, side, SizeHint(l, side, HintTarget, snipe), snipe)
          IN  q.ok => q.impact < HintTarget

(* What a sheet shows is what the contracts would do, and its figures and  *)
(* its hint agree with one another.                                        *)
SheetsAreTrue == QuotesAreTheContracts /\ SheetsAgree /\ HintStaysUnder
=============================================================================
