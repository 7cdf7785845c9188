------------------------------ MODULE AmmQuotes ------------------------------
(***************************************************************************)
(* What the site's Swap, Add liquidity and position sheets promise from    *)
(* the reserves they read (lib/amm.ts), against what ArchitexRouter does   *)
(* with the transaction they send, if nothing moves the pools in between.  *)
(***************************************************************************)
EXTENDS ArchitexRouter

CONSTANTS
  USDC,            \* the token routes may go through
  Slippages,       \* accepted slippages, as parts of BPS_DENOMINATOR
  BPS_DENOMINATOR

ASSUME QuotesAssumption ==
  USDC \in Tokens /\ BPS_DENOMINATOR \in Nat \ {0} /\ Slippages \subseteq 0..BPS_DENOMINATOR

(* Stands for an amount no pool gives, where getAmountIn throws. *)
TooMuch == -1

RatioQuote(amountA, reserveA, reserveB) ==
  IF amountA <= 0 \/ reserveA <= 0 \/ reserveB <= 0 THEN 0 ELSE (amountA * reserveB) \div reserveA

SheetAmountOut(amountIn, reserveIn, reserveOut) ==
  LET withFee == amountIn * (FEE_BASE - FEE)
  IN  IF amountIn <= 0 \/ reserveIn <= 0 \/ reserveOut <= 0 THEN 0
      ELSE (withFee * reserveOut) \div (reserveIn * FEE_BASE + withFee)

SheetAmountIn(amountOut, reserveIn, reserveOut) ==
  IF amountOut = TooMuch \/ (amountOut >= reserveOut /\ reserveIn > 0 /\ reserveOut > 0) THEN TooMuch
  ELSE IF amountOut <= 0 \/ reserveIn <= 0 \/ reserveOut <= 0 THEN 0
  ELSE (reserveIn * amountOut * FEE_BASE) \div ((reserveOut - amountOut) * (FEE_BASE - FEE)) + 1

MinReceived(amountOut, slippage) == (amountOut * (BPS_DENOMINATOR - slippage)) \div BPS_DENOMINATOR
MaxSent(amountIn, slippage) == (amountIn * (BPS_DENOMINATOR + slippage)) \div BPS_DENOMINATOR

ReservesFor(p, tokenIn) ==
  IF IsToken0(tokenIn, p) THEN <<pools[p].reserve0, pools[p].reserve1>>
                          ELSE <<pools[p].reserve1, pools[p].reserve0>>

CandidatePaths(tokenIn, tokenOut) ==
  {<<tokenIn, tokenOut>>}
    \cup IF USDC \in {tokenIn, tokenOut} THEN {} ELSE {<<tokenIn, USDC, tokenOut>>}

(* pairsForPath: every pair of the path exists and is not empty. *)
PairsForPath(path) ==
  \A i \in Hops(path) :
    LET p == HopPair(path, i)
    IN  p \in created /\ pools[p].reserve0 # 0 /\ pools[p].reserve1 # 0

SheetQuoteHop(amountIn, path, i) ==
  LET r == ReservesFor(HopPair(path, i), path[i]) IN SheetAmountOut(amountIn, r[1], r[2])

SheetAskHop(amountOut, path, i) ==
  LET r == ReservesFor(HopPair(path, i), path[i]) IN SheetAmountIn(amountOut, r[1], r[2])

SheetOuts(amountIn, path) ==
  LET out[i \in 1..Len(path)] ==
        IF i = 1 THEN amountIn ELSE SheetQuoteHop(out[i - 1], path, i - 1)
  IN  out

SheetIns(amountOut, path) ==
  LET in[i \in 1..Len(path)] ==
        IF i = Len(path) THEN amountOut ELSE SheetAskHop(in[i + 1], path, i)
  IN  in

SheetAlong(mode, amount, path) ==
  IF mode = "exactIn"
    THEN [path |-> path, amountIn |-> amount, amountOut |-> SheetOuts(amount, path)[Len(path)]]
    ELSE [path |-> path, amountIn |-> SheetIns(amount, path)[1], amountOut |-> amount]

Routes(mode, amount, tokenIn, tokenOut) ==
  {route \in {SheetAlong(mode, amount, path) :
                path \in {q \in CandidatePaths(tokenIn, tokenOut) : PairsForPath(q)}} :
     route.amountIn > 0 /\ route.amountOut > 0}

(* findBestRoute: of two routes as good, the direct one. *)
Better(mode, a, b) ==
  LET gain == IF mode = "exactIn" THEN a.amountOut - b.amountOut ELSE b.amountIn - a.amountIn
  IN  gain > 0 \/ (gain = 0 /\ Len(a.path) <= Len(b.path))

BestRoutes(mode, amount, tokenIn, tokenOut) ==
  LET routes == Routes(mode, amount, tokenIn, tokenOut)
  IN  {a \in routes : \A b \in routes : Better(mode, a, b)}

LiquidityMinted(amountA, amountB, reserveA, reserveB, totalSupply) ==
  IF amountA <= 0 \/ amountB <= 0 THEN 0
  ELSE IF totalSupply = 0 THEN
    LET initial == Sqrt(amountA * amountB)
    IN  IF initial > MINIMUM_LIQUIDITY THEN initial - MINIMUM_LIQUIDITY ELSE 0
  ELSE IF reserveA = 0 \/ reserveB = 0 THEN 0
  ELSE Smaller((amountA * totalSupply) \div reserveA, (amountB * totalSupply) \div reserveB)

RemoveAmounts(liquidity, p) ==
  IF liquidity <= 0 \/ pools[p].supply <= 0 THEN <<0, 0>>
  ELSE <<(liquidity * pools[p].reserve0) \div pools[p].supply,
         (liquidity * pools[p].reserve1) \div pools[p].supply>>

-----------------------------------------------------------------------------
(* A swap sent from the sheet's quote is what the router carries out: along *)
(* its path the router quotes the same amounts, within the slippage bound,  *)
(* and no pair refuses a hop whose balances it can record; a swap the sheet *)
(* finds no route for, or a better path, the router does not have either.   *)
SwapsAsQuoted ==
  \A tokenIn, tokenOut \in Tokens, amount \in Payments \cup Purchases : tokenIn # tokenOut =>
    LET sold == BestRoutes("exactIn", amount, tokenIn, tokenOut)
        bought == BestRoutes("exactOut", amount, tokenIn, tokenOut)
    IN  /\ \A path \in CandidatePaths(tokenIn, tokenOut) :
             LET out == AmountsOut(amount, path)
                 in == AmountsIn(amount, path)
             IN  /\ Quoted(out) => \E best \in sold : best.amountOut >= out[Len(path)]
                 /\ Quoted(in) => \E best \in bought : best.amountIn <= in[1]
        /\ \A best \in sold :
             LET amounts == AmountsOut(amount, best.path)
             IN  /\ \A slippage \in Slippages :
                      amounts[Len(best.path)] >= MinReceived(best.amountOut, slippage)
                 /\ Recordable(best.path, amounts) => Swapped(best.path, amounts).ok
        /\ \A best \in bought :
             LET amounts == AmountsIn(amount, best.path)
             IN  /\ \A slippage \in Slippages : amounts[1] <= MaxSent(best.amountIn, slippage)
                 /\ Recordable(best.path, amounts) => Swapped(best.path, amounts).ok

(* The other amount the Add form fills in is one the router takes to the    *)
(* unit, so the minimums of the add hold at any slippage, and the shares    *)
(* are never fewer than the form says, whatever was sent to the pair.  (A   *)
(* gift of one token synced before the first add leaves a pair no ratio     *)
(* prices: the form fills in nothing.)                                      *)
AddsAsShown ==
  \A p \in created : \A a \in p : \A amountA \in Deposits, slippage \in Slippages :
    LET b == Other(a, p)
        r == ReservesFor(p, a)
        first == r = <<0, 0>>
        amountB == IF first THEN amountA ELSE RatioQuote(amountA, r[1], r[2])
        add == IF first THEN AmountsToAdd(p, a, b, amountA, amountB)
               ELSE OptimalAmount(amountA, amountB, MinReceived(amountA, slippage),
                                  MinReceived(amountB, slippage), r[1], r[2])
        m == MintOf(Given(Given(pools[p], p, a, add.amountA), p, b, add.amountB), FeeOn)
    IN  amountB > 0 =>
          /\ add.ok /\ add.amountA = amountA /\ add.amountB = amountB
          /\ m.ok => m.shares >= LiquidityMinted(amountA, amountB, r[1], r[2], pools[p].supply)

(* What the pair's root of k grew since liquidity last moved: a sixth of it *)
(* is the protocol's, and no sheet counts it.                               *)
Growth(q) ==
  IF FeeOn /\ q.kLast # 0 /\ Root(Product(q)) > Root(q.kLast)
    THEN Root(Product(q)) - Root(q.kLast) ELSE 0

(* A removal pays what its sheet showed: the sheet counts the reserves, the *)
(* pair pays out of its balances.  While the protocol fee is on, the pair   *)
(* first mints the protocol its shares, so the payment falls short of what  *)
(* was shown, by no more than a sixth of the growth and one unit; and the   *)
(* minimums the sheet sends hold if that share is within the slippage.      *)
PositionsPayWhatTheyShow ==
  \A p \in created : \A liquidity \in Removals :
    LET q == pools[p]
        shown == RemoveAmounts(liquidity, p)
        b == BurnOf(q, liquidity, FeeOn)
        root == Root(Product(q))
        Pays(paid, promised) ==
          /\ Growth(q) = 0 => paid >= promised
          /\ Growth(q) > 0 => (paid + 1) * (6 * root) > promised * (6 * root - Growth(q))
          /\ \A slippage \in Slippages :
               Growth(q) * BPS_DENOMINATOR <= 6 * root * slippage =>
                 paid >= MinReceived(promised, slippage)
    IN  liquidity <= q.supply => Pays(b.amount0, shown[1]) /\ Pays(b.amount1, shown[2])

(* The sheets of the site promise no more than the contracts do, on pools  *)
(* others have sent tokens to, synced and skimmed (useSwap.ts, useLiquidity *)
(* .ts: the minimums sent are cut from these quotes).                       *)
SheetsKeepTheirWord == SwapsAsQuoted /\ AddsAsShown /\ PositionsPayWhatTheyShow

(* Every price given is kept: the router's own quotes along a path, and     *)
(* what the site's sheets make of the pools.                                *)
TradesAreFair == QuotesHold /\ SheetsKeepTheirWord
=============================================================================
