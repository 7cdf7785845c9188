------------------------------ MODULE PairMath ------------------------------
(***************************************************************************)
(* What the functions of an ArchitexPair do to the pool they are called    *)
(* on, and the quotes ArchitexRouter makes from a pool's reserves.         *)
(*                                                                         *)
(* A pool is a record: the two token balances of the pair contract, the    *)
(* reserves it has recorded, kLast and the LP supply.  An operator named   *)
(* after a function returns what the function mints, pays and leaves       *)
(* behind; its field "ok" is FALSE exactly where the code reverts, and the *)
(* other fields are then of no interest.                                   *)
(***************************************************************************)
EXTENDS Integers

CONSTANTS
  FEE, FEE_BASE,         \* the swap fee: 3 of 1000 in the code
  MINIMUM_LIQUIDITY,
  MaxReserve             \* type(uint112).max

ASSUME PairMathAssumption ==
  /\ FEE \in Nat /\ FEE_BASE \in Nat /\ FEE < FEE_BASE
  /\ MINIMUM_LIQUIDITY \in Nat /\ MINIMUM_LIQUIDITY > 0
  /\ MaxReserve \in Nat

PoolShape == [balance0 : Nat, balance1 : Nat, reserve0 : Nat, reserve1 : Nat,
              kLast : Nat, supply : Nat]

EmptyPool == [balance0 |-> 0, balance1 |-> 0, reserve0 |-> 0, reserve1 |-> 0,
              kLast |-> 0, supply |-> 0]

Product(p) == p.reserve0 * p.reserve1

Smaller(a, b) == IF a <= b THEN a ELSE b

(* The largest whole number whose square is within y. *)
Root(y) == CHOOSE z \in 0..y : z * z <= y /\ y < (z + 1) * (z + 1)

(* _sqrt: Newton's iteration from above, for as long as it descends. *)
Sqrt(y) ==
  LET Descend[x \in 1..(y \div 2 + 1)] ==
        LET next == (y \div x + x) \div 2
        IN  IF next < x THEN Descend[next] ELSE x
  IN  IF y > 3 THEN Descend[y \div 2 + 1] ELSE IF y # 0 THEN 1 ELSE 0

-----------------------------------------------------------------------------
(* Liquidity. *)

(* Fault: the protocol takes a fifth. *)
FeeSharesFifth(p, feeOn) ==
  LET rootK == Root(Product(p))
      rootKLast == Root(p.kLast)
  IN  IF feeOn /\ p.kLast # 0 /\ rootK > rootKLast
        THEN (p.supply * (rootK - rootKLast)) \div (rootK * 4 + rootKLast)
        ELSE 0

(* Fault: the protocol takes all of the growth. *)
FeeSharesWhole(p, feeOn) ==
  LET rootK == Root(Product(p))
      rootKLast == Root(p.kLast)
  IN  IF feeOn /\ p.kLast # 0 /\ rootK > rootKLast
        THEN (p.supply * (rootK - rootKLast)) \div rootKLast
        ELSE 0

(* The shares _mintFee gives the protocol for the growth since kLast. *)
FeeShares(p, feeOn) ==
  LET rootK == Root(Product(p))
      rootKLast == Root(p.kLast)
  IN  IF feeOn /\ p.kLast # 0 /\ rootK > rootKLast
        THEN (p.supply * (rootK - rootKLast)) \div (rootK * 5 + rootKLast)
        ELSE 0

(* Fault: kLast is left as it was while the fee is off. *)
RecordedStaleK(p, balance0, balance1, supply, feeOn) ==
  [balance0 |-> balance0, balance1 |-> balance1,
   reserve0 |-> balance0, reserve1 |-> balance1,
   kLast    |-> IF feeOn THEN balance0 * balance1 ELSE p.kLast,
   supply   |-> supply]

(* A pool after mint or burn: reserves are the balances, and kLast their   *)
(* product when the fee is on, zero when it is off (_mintFee, _update).    *)
Recorded(p, balance0, balance1, supply, feeOn) ==
  [balance0 |-> balance0, balance1 |-> balance1,
   reserve0 |-> balance0, reserve1 |-> balance1,
   kLast    |-> IF feeOn THEN balance0 * balance1 ELSE 0,
   supply   |-> supply]

Fits(balance0, balance1) == balance0 <= MaxReserve /\ balance1 <= MaxReserve

(* The shares a deposit buys; a division by zero refuses it. *)
SharesFor(amount0, amount1, reserve0, reserve1, supply) ==
  IF supply = 0 THEN Root(amount0 * amount1) - MINIMUM_LIQUIDITY
  ELSE IF reserve0 = 0 \/ reserve1 = 0 THEN 0
  ELSE Smaller((amount0 * supply) \div reserve0, (amount1 * supply) \div reserve1)

(* mint: what has arrived since the reserves were recorded buys shares. *)
MintOf(p, feeOn) ==
  LET amount0 == p.balance0 - p.reserve0
      amount1 == p.balance1 - p.reserve1
      fee     == FeeShares(p, feeOn)
      supply  == p.supply + fee
      locked  == IF supply = 0 THEN MINIMUM_LIQUIDITY ELSE 0
      shares  == IF amount0 < 0 \/ amount1 < 0 THEN 0
                 ELSE SharesFor(amount0, amount1, p.reserve0, p.reserve1, supply)
  IN  [ok |-> shares > 0 /\ Fits(p.balance0, p.balance1),
       fee |-> fee, locked |-> locked, shares |-> shares,
       pool |-> Recorded(p, p.balance0, p.balance1,
                         (supply + locked) + shares, feeOn)]

(* burn: the shares that were sent to the pair are paid their part of its  *)
(* balances, something of both.                                            *)
BurnOf(p, liquidity, feeOn) ==
  LET fee     == FeeShares(p, feeOn)
      supply  == p.supply + fee
      amount0 == IF supply = 0 THEN 0 ELSE (liquidity * p.balance0) \div supply
      amount1 == IF supply = 0 THEN 0 ELSE (liquidity * p.balance1) \div supply
  IN  [ok |-> /\ amount0 \in 1..p.balance0 /\ amount1 \in 1..p.balance1
              /\ Fits(p.balance0 - amount0, p.balance1 - amount1),
       fee |-> fee, amount0 |-> amount0, amount1 |-> amount1,
       pool |-> Recorded(p, p.balance0 - amount0, p.balance1 - amount1,
                         supply - liquidity, feeOn)]

-----------------------------------------------------------------------------
(* Swaps. *)

Payable(p, out0, out1) ==
  /\ out0 # 0 \/ out1 # 0
  /\ out0 < p.reserve0 /\ out1 < p.reserve1

(* The pool with other balances, its records as they were. *)
WithBalances(p, balance0, balance1) ==
  [balance0 |-> balance0, balance1 |-> balance1,
   reserve0 |-> p.reserve0, reserve1 |-> p.reserve1,
   kLast    |-> p.kLast, supply |-> p.supply]

Paid(p, out0, out1) == WithBalances(p, p.balance0 - out0, p.balance1 - out1)

(* skim: what is above the reserves is gone. *)
Skimmed(p) == WithBalances(p, p.reserve0, p.reserve1)

AmountPaidIn(balance, left) == IF balance > left THEN balance - left ELSE 0

(* Fault: the product is not checked. *)
SettlesUnchecked(p, out0, out1) ==
  LET in0 == AmountPaidIn(p.balance0, p.reserve0 - out0)
      in1 == AmountPaidIn(p.balance1, p.reserve1 - out1)
  IN  (in0 # 0 \/ in1 # 0) /\ Fits(p.balance0, p.balance1)

(* Something was paid in, and the product of the balances, less the fee on *)
(* what was paid in, is at least that of the reserves.                     *)
Settles(p, out0, out1) ==
  LET in0 == AmountPaidIn(p.balance0, p.reserve0 - out0)
      in1 == AmountPaidIn(p.balance1, p.reserve1 - out1)
  IN  /\ in0 # 0 \/ in1 # 0
      /\ (p.balance0 * FEE_BASE - in0 * FEE) * (p.balance1 * FEE_BASE - in1 * FEE)
           >= Product(p) * FEE_BASE * FEE_BASE
      /\ Fits(p.balance0, p.balance1)

(* _update, where the supply does not change. *)
Synced(p) ==
  [balance0 |-> p.balance0, balance1 |-> p.balance1,
   reserve0 |-> p.balance0, reserve1 |-> p.balance1,
   kLast    |-> p.kLast, supply |-> p.supply]

-----------------------------------------------------------------------------
(* The router's quotes; 0 stands for a revert. *)

(* quote: the amount of B of the same worth, at the pool's price. *)
Quote(amountA, reserveA, reserveB) ==
  IF reserveA = 0 \/ reserveB = 0 THEN 0 ELSE (amountA * reserveB) \div reserveA

(* _optimalAmount: as much of both desired amounts as keeps the ratio.     *)
OptimalAmount(desiredA, desiredB, minA, minB, reserveA, reserveB) ==
  LET optimalB == Quote(desiredA, reserveA, reserveB)
      optimalA == Quote(desiredB, reserveB, reserveA)
      priced   == reserveA > 0 /\ reserveB > 0
  IN  IF optimalB <= desiredB
        THEN [ok |-> priced /\ desiredA > 0 /\ optimalB >= minB,
              amountA |-> desiredA, amountB |-> optimalB]
        ELSE [ok |-> priced /\ desiredA > 0 /\ desiredB > 0 /\ optimalA >= minA,
              amountA |-> optimalA, amountB |-> desiredB]

(* Fault: rounded up. *)
AmountOutCeil(amountIn, reserveIn, reserveOut) ==
  LET withFee == amountIn * (FEE_BASE - FEE)
  IN  IF amountIn = 0 \/ reserveIn = 0 \/ reserveOut = 0 THEN 0
      ELSE (withFee * reserveOut) \div (reserveIn * FEE_BASE + withFee) + 1

(* getAmountOut: what a pool gives for an exact input. *)
AmountOut(amountIn, reserveIn, reserveOut) ==
  LET withFee == amountIn * (FEE_BASE - FEE)
  IN  IF amountIn = 0 \/ reserveIn = 0 \/ reserveOut = 0 THEN 0
      ELSE (withFee * reserveOut) \div (reserveIn * FEE_BASE + withFee)

(* getAmountIn: what a pool asks for an exact output. *)
AmountIn(amountOut, reserveIn, reserveOut) ==
  IF amountOut = 0 \/ reserveIn = 0 \/ reserveOut <= amountOut THEN 0
  ELSE (reserveIn * amountOut * FEE_BASE) \div ((reserveOut - amountOut) * (FEE_BASE - FEE)) + 1
=============================================================================
