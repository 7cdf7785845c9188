----------------------------- MODULE CurveTrades -----------------------------
(***************************************************************************)
(* One bonding curve of ArchitexLaunchpad traded on its own: only the      *)
(* numbers a trade reads and writes, so that amounts can be large enough   *)
(* for rounding to matter.  Launchpad.tla has the whole contract; here the *)
(* question is what the arithmetic promises in every state that a sequence *)
(* of trades can leave the curve in.                                       *)
(***************************************************************************)
EXTENDS CurveMath

CONSTANTS
  CURVE_SUPPLY,       \* tokens the curve sells
  VIRTUAL_TOKENS_0,   \* the curve's starting reserves
  VIRTUAL_USDC_0,
  CreatorFees,        \* the creator fees a launch may choose
  BuyAmounts,         \* the USDC amounts offered
  SellAmounts,        \* the token amounts sold
  MaxVirtualUsdc      \* bound of the model: no trade takes the USDC reserve above it

ASSUME CurveAssumption ==
  /\ CURVE_SUPPLY \in Nat /\ CURVE_SUPPLY > 0
  /\ VIRTUAL_TOKENS_0 \in Nat /\ CURVE_SUPPLY < VIRTUAL_TOKENS_0
  /\ VIRTUAL_USDC_0 \in Nat /\ VIRTUAL_USDC_0 > 0
  /\ CreatorFees \subseteq 0..(BPS - FEE_BPS - 1)
  /\ BuyAmounts \subseteq Nat
  /\ SellAmounts \subseteq Nat

VARIABLES
  virtualUsdc, virtualTokens, tokensSold,
  creatorFeeBps,
  soldOut

tradesVars == <<virtualUsdc, virtualTokens, tokensSold, creatorFeeBps, soldOut>>

Remaining == CURVE_SUPPLY - tokensSold

BuyQuote(usdcIn) ==
  CalcBuy(virtualUsdc, virtualTokens, Remaining, usdcIn, creatorFeeBps)

SellQuote(tokensIn) ==
  CalcSell(virtualUsdc, virtualTokens, tokensSold, tokensIn, creatorFeeBps)

TradesInit ==
  /\ virtualUsdc = VIRTUAL_USDC_0
  /\ virtualTokens = VIRTUAL_TOKENS_0
  /\ tokensSold = 0
  /\ creatorFeeBps \in CreatorFees
  /\ soldOut = FALSE

Buy(usdcIn) ==
  LET q == BuyQuote(usdcIn)
      newUsdc == virtualUsdc + (q.usdcSpent - q.platformFee - q.creatorFee)
  IN  /\ ~soldOut
      /\ q.ok
      /\ newUsdc <= MaxVirtualUsdc
      /\ virtualUsdc' = newUsdc
      /\ virtualTokens' = virtualTokens - q.tokensOut
      /\ tokensSold' = tokensSold + q.tokensOut
      /\ soldOut' = q.graduates
      /\ UNCHANGED creatorFeeBps

Sell(tokensIn) ==
  LET q == SellQuote(tokensIn)
  IN  /\ ~soldOut
      /\ q.ok
      /\ virtualUsdc' = virtualUsdc - q.gross
      /\ virtualTokens' = virtualTokens + tokensIn
      /\ tokensSold' = tokensSold - tokensIn
      /\ UNCHANGED <<creatorFeeBps, soldOut>>

TradesNext ==
  \/ \E usdcIn \in BuyAmounts : Buy(usdcIn)
  \/ \E tokensIn \in SellAmounts : Sell(tokensIn)

TradesSpec == TradesInit /\ [][TradesNext]_tradesVars

-----------------------------------------------------------------------------
(* The curve has taken in enough to buy back every token it has sold, in   *)
(* one sale: however the trades before rounded, the USDC the curve raised  *)
(* covers the gross of selling everything back (_calcSell).                *)
BuysBackEverything ==
  ~soldOut =>
    CalcSell(virtualUsdc, virtualTokens, tokensSold, tokensSold, creatorFeeBps).gross
      <= virtualUsdc - VIRTUAL_USDC_0

(* A buy gives the most tokens the product rule allows for the USDC left   *)
(* after fees, and not one more; a sell pays the most USDC it allows.      *)
(* This is what "rounding favours the curve" means for _calcBuy/_calcSell. *)
QuotesAreExact ==
  LET k == virtualUsdc * virtualTokens
  IN  /\ \A x \in BuyAmounts :
           LET q   == BuyQuote(x)
               net == q.usdcSpent - q.platformFee - q.creatorFee
           IN  q.ok /\ ~q.graduates =>
                 /\ (virtualUsdc + net) * (virtualTokens - q.tokensOut) >= k
                 /\ (virtualUsdc + net) * (virtualTokens - q.tokensOut - 1) < k
      /\ \A n \in SellAmounts :
           LET q == SellQuote(n)
           IN  q.ok =>
                 /\ (virtualUsdc - q.gross) * (virtualTokens + n) >= k
                 /\ (virtualUsdc - q.gross - 1) * (virtualTokens + n) < k

(* The sell-out buy: what is pulled never exceeds what was offered, the    *)
(* "cap" in _calcBuy never binds (its comment claims so), and the platform *)
(* and the two fees together get at least their rate of what was pulled.   *)
CapNeverBinds ==
  \A x \in BuyAmounts :
    LET q   == BuyQuote(x)
        net == FillNet(virtualUsdc, virtualTokens, Remaining)
        fees == q.platformFee + q.creatorFee
    IN  q.ok /\ q.graduates =>
          /\ FillGross(net, FEE_BPS + creatorFeeBps) <= x
          /\ fees * BPS >= q.usdcSpent * (FEE_BPS + creatorFeeBps)
          /\ q.platformFee * BPS >= q.usdcSpent * FEE_BPS
          /\ q.creatorFee >= 0

(* Buying and selling straight back never returns more USDC than was paid  *)
(* (V13-SPEC 6.4), from any state of the curve.                            *)
RoundTripLoses ==
  \A x \in BuyAmounts :
    LET q == BuyQuote(x)
        back == CalcSell(virtualUsdc + q.usdcSpent - q.platformFee - q.creatorFee,
                         virtualTokens - q.tokensOut, tokensSold + q.tokensOut,
                         q.tokensOut, creatorFeeBps)
    IN  q.ok /\ ~q.graduates /\ back.ok => back.usdcOut < q.usdcSpent

(* Splitting a trade in two gains next to nothing: two buys get no more    *)
(* tokens than one for the same USDC, and two sells at most one unit of    *)
(* USDC more than one for the same tokens.  (The unit is real: one more    *)
(* unit of gross can raise both rounded-up fees.)                          *)
SplittingHardlyPays ==
  /\ \A x, y \in BuyAmounts :
       LET whole  == BuyQuote(x + y)
           first  == BuyQuote(x)
           second == CalcBuy(virtualUsdc + x - first.platformFee - first.creatorFee,
                             virtualTokens - first.tokensOut,
                             Remaining - first.tokensOut, y, creatorFeeBps)
       IN  whole.ok /\ ~whole.graduates /\ first.ok /\ ~first.graduates /\ second.ok =>
             first.tokensOut + second.tokensOut <= whole.tokensOut
  /\ \A m, n \in SellAmounts :
       LET whole  == SellQuote(m + n)
           first  == SellQuote(m)
           second == CalcSell(virtualUsdc - first.gross, virtualTokens + m,
                              tokensSold - m, n, creatorFeeBps)
       IN  whole.ok /\ first.ok /\ second.ok =>
             first.usdcOut + second.usdcOut <= whole.usdcOut + 1

(* No way of cutting up a trade or of turning it back is worth more than   *)
(* the unit that rounding leaves.                                          *)
TradingPlaysLose == RoundTripLoses /\ SplittingHardlyPays

(* What V13-SPEC 6 asks of the curve's arithmetic, after any trades: it    *)
(* can buy everything back, it rounds in its own favour by less than one   *)
(* unit, it never asks a buyer for more than was offered, turning a trade  *)
(* back loses, and cutting one up gains a unit at most.                    *)
CurveKeepsItsWord ==
  BuysBackEverything /\ QuotesAreExact /\ CapNeverBinds /\ TradingPlaysLose
=============================================================================
