------------------------------ MODULE CurveMath ------------------------------
(***************************************************************************)
(* The pure arithmetic of a bonding-curve trade (ArchitexLaunchpad) and of *)
(* a launch-pool quote (LaunchRouter).  Nothing here has state: a caller   *)
(* passes the curve or pool it reads and applies what is returned.         *)
(*                                                                         *)
(* A quote is a record.  Its field "ok" is FALSE exactly where the code    *)
(* reverts; the other fields are then of no interest.                      *)
(***************************************************************************)
EXTENDS Integers

CONSTANTS
  FEE_BPS,      \* the platform fee, out of BPS
  BPS           \* the fee denominator (10_000 in the code)

ASSUME FeeAssumption ==
  /\ BPS \in Nat
  /\ FEE_BPS \in Nat
  /\ 0 < FEE_BPS
  /\ FEE_BPS < BPS

DivCeil(a, b) == (a + b - 1) \div b

(* A fee of bps on an amount, rounded up. *)
FeeRoundedUp(amount, bps) == DivCeil(amount * bps, BPS)

-----------------------------------------------------------------------------
(* The curve. *)

(* A buy that does not empty the curve: fees come off the USDC offered and *)
(* the rest buys along the curve.  Fees that eat it all buy nothing.       *)
NormalBuy(vUsdc, vTokens, usdcIn, creatorFeeBps) ==
  LET platformFee == FeeRoundedUp(usdcIn, FEE_BPS)
      creatorFee  == FeeRoundedUp(usdcIn, creatorFeeBps)
      net         == usdcIn - platformFee - creatorFee
      tokensOut   == IF net > 0 THEN vTokens - DivCeil(vUsdc * vTokens, vUsdc + net)
                                ELSE 0
  IN  [ok          |-> tokensOut # 0,
       tokensOut   |-> tokensOut,
       platformFee |-> platformFee,
       creatorFee  |-> creatorFee,
       usdcSpent   |-> usdcIn,
       graduates   |-> FALSE]

(* What the remaining tokens cost, before fees. *)
FillNet(vUsdc, vTokens, remaining) ==
  DivCeil(vUsdc * vTokens, vTokens - remaining) - vUsdc

(* Fault: the fee is taken of the net where it should be of the gross. *)
FillGrossOfNet(net, feeBps) == net + DivCeil(net * feeBps, BPS)

(* What is pulled for the remaining tokens, fees included, before the cap. *)
FillGross(net, feeBps) == net + DivCeil(net * feeBps, BPS - feeBps)

(* The sell-out buy: only what the remaining tokens cost is pulled. *)
ExactFill(vUsdc, vTokens, remaining, usdcIn, creatorFeeBps) ==
  LET feeBps      == FEE_BPS + creatorFeeBps
      net         == FillNet(vUsdc, vTokens, remaining)
      gross       == FillGross(net, feeBps)
      usdcSpent   == IF gross < usdcIn THEN gross ELSE usdcIn
      totalFee    == usdcSpent - net
      platformFee == DivCeil(totalFee * FEE_BPS, feeBps)
  IN  [ok          |-> TRUE,
       tokensOut   |-> remaining,
       platformFee |-> platformFee,
       creatorFee  |-> totalFee - platformFee,
       usdcSpent   |-> usdcSpent,
       graduates   |-> TRUE]

NoTrade == [ok |-> FALSE, tokensOut |-> 0, platformFee |-> 0,
            creatorFee |-> 0, usdcSpent |-> 0, graduates |-> FALSE]

(* _calcBuy; an amount of zero nets zero and is refused like the rest. *)
CalcBuy(vUsdc, vTokens, remaining, usdcIn, creatorFeeBps) ==
  LET normal == NormalBuy(vUsdc, vTokens, usdcIn, creatorFeeBps)
  IN  IF ~normal.ok THEN NoTrade
      ELSE IF normal.tokensOut >= remaining
             THEN ExactFill(vUsdc, vTokens, remaining, usdcIn, creatorFeeBps)
             ELSE normal

(* _sellQuote over _calcSell: gross comes off the curve, fees off gross. *)
CalcSell(vUsdc, vTokens, tokensSold, tokensIn, creatorFeeBps) ==
  LET gross       == vUsdc - DivCeil(vUsdc * vTokens, vTokens + tokensIn)
      platformFee == FeeRoundedUp(gross, FEE_BPS)
      creatorFee  == FeeRoundedUp(gross, creatorFeeBps)
  IN  [ok          |-> /\ tokensIn # 0
                       /\ tokensIn <= tokensSold
                       /\ platformFee + creatorFee < gross,
       gross       |-> gross,
       platformFee |-> platformFee,
       creatorFee  |-> creatorFee,
       usdcOut     |-> gross - platformFee - creatorFee]

-----------------------------------------------------------------------------
(* The launch pool, quoted by the router from the pair's reserves. *)

RouterBuyQuote(reserveToken, reserveUsdc, usdcIn, creatorFeeBps) ==
  LET platformFee == FeeRoundedUp(usdcIn, FEE_BPS)
      creatorFee  == FeeRoundedUp(usdcIn, creatorFeeBps)
      net         == usdcIn - platformFee - creatorFee
      tokensOut   == IF net > 0 THEN (net * reserveToken) \div (reserveUsdc + net)
                                ELSE 0
  IN  [ok          |-> tokensOut # 0,
       tokensOut   |-> tokensOut,
       platformFee |-> platformFee,
       creatorFee  |-> creatorFee,
       net         |-> net]

RouterSellQuote(reserveToken, reserveUsdc, tokensIn, creatorFeeBps) ==
  LET gross       == (tokensIn * reserveUsdc) \div (reserveToken + tokensIn)
      platformFee == FeeRoundedUp(gross, FEE_BPS)
      creatorFee  == FeeRoundedUp(gross, creatorFeeBps)
  IN  [ok          |-> tokensIn # 0 /\ platformFee + creatorFee < gross,
       gross       |-> gross,
       platformFee |-> platformFee,
       creatorFee  |-> creatorFee,
       usdcOut     |-> gross - platformFee - creatorFee]
=============================================================================
