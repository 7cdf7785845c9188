------------------------------- MODULE V4Math -------------------------------
(***************************************************************************)
(* Uniswap v4's pool arithmetic as scripts/v14-v4-math.ts carries it for   *)
(* the v1.4 rehearsal: prices on a grid of ticks, concentrated liquidity,  *)
(* positions and swaps with a zero fee.  Every division rounds the way the *)
(* code rounds it.  The grid is scaled down: SQRT gives the square root    *)
(* price of each tick in units of 1/Q96, a bitmap word holds WORD spacings *)
(* and the 256-bit overflow branches, which scaled numbers cannot reach,   *)
(* are left out.                                                           *)
(***************************************************************************)
EXTENDS Integers, FiniteSets, FiniteSetsExt

CONSTANTS
  Q96,            \* one, in square root prices
  MIN_TICK,       \* the first and the last tick of the grid
  MAX_TICK,
  TICK_SPACING,
  MAX_TURNS,      \* turns after which a swap counts as a runaway loop (10 000 in the code)
  WORD,           \* spacings in one word of the bitmap (256 in the code)
  SQRT            \* [MIN_TICK..MAX_TICK -> square root prices], increasing

ASSUME GridAssumption ==
  /\ Q96 \in Nat \ {0} /\ TICK_SPACING \in Nat \ {0} /\ WORD \in Nat \ {0} /\ MAX_TURNS \in Nat \ {0}
  /\ MIN_TICK \in Int /\ MAX_TICK \in Int /\ MIN_TICK < MAX_TICK
  /\ \A t \in MIN_TICK..MAX_TICK : SQRT[t] \in Nat \ {0}
  /\ \A t \in MIN_TICK..(MAX_TICK - 1) : SQRT[t] < SQRT[t + 1]

minUsableTick == -((-MIN_TICK) \div TICK_SPACING) * TICK_SPACING
maxUsableTick == (MAX_TICK \div TICK_SPACING) * TICK_SPACING

UsableTicks == {t \in minUsableTick..maxUsableTick : t % TICK_SPACING = 0}

Lesser(a, b) == IF a < b THEN a ELSE b
Larger(a, b) == IF a > b THEN a ELSE b

mulDiv(a, b, d) == (a * b) \div d
divUp(a, b) == a \div b + (IF a % b > 0 THEN 1 ELSE 0)
mulDivUp(a, b, d) == divUp(a * b, d)

isqrt(n) == CHOOSE r \in 0..SQRT[MAX_TICK] : r * r <= n /\ n < (r + 1) * (r + 1)

sqrtAtTick(tick) == SQRT[tick]

tickAtSqrt(sqrtPrice) ==
  CHOOSE t \in MIN_TICK..(MAX_TICK - 1) : SQRT[t] <= sqrtPrice /\ sqrtPrice < SQRT[t + 1]

(***************************************************************************)
(* The price after an amount enters or leaves, and the amounts between two *)
(* prices.                                                                 *)
(***************************************************************************)
nextFromAmount0RoundingUp(sqrtP, liquidity, amount, add) ==
  IF amount = 0 THEN sqrtP
  ELSE LET numerator1 == liquidity * Q96
           product == amount * sqrtP
       IN mulDivUp(numerator1, sqrtP, IF add THEN numerator1 + product ELSE numerator1 - product)

nextFromAmount1RoundingDown(sqrtP, liquidity, amount, add) ==
  IF add THEN sqrtP + (amount * Q96) \div liquidity
  ELSE sqrtP - divUp(amount * Q96, liquidity)

nextFromInput(sqrtP, liquidity, amountIn, zeroForOne) ==
  IF zeroForOne THEN nextFromAmount0RoundingUp(sqrtP, liquidity, amountIn, TRUE)
  ELSE nextFromAmount1RoundingDown(sqrtP, liquidity, amountIn, TRUE)

nextFromOutput(sqrtP, liquidity, amountOut, zeroForOne) ==
  IF zeroForOne THEN nextFromAmount1RoundingDown(sqrtP, liquidity, amountOut, FALSE)
  ELSE nextFromAmount0RoundingUp(sqrtP, liquidity, amountOut, FALSE)

amount0Delta(p, q, liquidity, roundUp) ==
  LET a == Lesser(p, q)
      b == Larger(p, q)
  IN IF roundUp THEN divUp(mulDivUp(liquidity * Q96, b - a, b), a)
     ELSE mulDiv(liquidity * Q96, b - a, b) \div a

amount1Delta(p, q, liquidity, roundUp) ==
  LET diff == Larger(p, q) - Lesser(p, q)
  IN IF roundUp THEN mulDivUp(liquidity, diff, Q96) ELSE mulDiv(liquidity, diff, Q96)

liquidityForAmount0(p, q, amount0) ==
  LET a == Lesser(p, q)
      b == Larger(p, q)
  IN mulDiv(amount0, mulDiv(a, b, Q96), b - a)

liquidityForAmount1(p, q, amount1) == mulDiv(amount1, Q96, Larger(p, q) - Lesser(p, q))

liquidityForAmounts(sqrtP, p, q, amount0, amount1) ==
  LET a == Lesser(p, q)
      b == Larger(p, q)
  IN IF sqrtP <= a THEN liquidityForAmount0(a, b, amount0)
     ELSE IF sqrtP < b THEN Lesser(liquidityForAmount0(sqrtP, b, amount0),
                                   liquidityForAmount1(a, sqrtP, amount1))
     ELSE liquidityForAmount1(a, b, amount1)

(***************************************************************************)
(* A pool: its price, its tick, the liquidity active there, and gross and  *)
(* net liquidity of every usable tick.                                     *)
(***************************************************************************)
PoolModel(sqrtPrice, tick) ==
  [sqrtPrice |-> sqrtPrice, tick |-> tick, liquidity |-> 0,
   ticks |-> [t \in UsableTicks |-> [gross |-> 0, net |-> 0]]]

initializedTicks(p) == {t \in UsableTicks : p.ticks[t].gross > 0}

\* What a position change takes (negative) or gives, from its owner's side: down when it gives.
modifyLiquidity(p, lower, upper, delta) ==
  LET signed(Amount(_, _, _, _), a, b) ==
        IF delta < 0 THEN Amount(a, b, -delta, FALSE) ELSE -Amount(a, b, delta, TRUE)
      inRange == lower <= p.tick /\ p.tick < upper
      from == IF p.tick < lower THEN sqrtAtTick(lower) ELSE p.sqrtPrice
      to == IF p.tick >= upper THEN sqrtAtTick(upper) ELSE p.sqrtPrice
      bump(t) == [gross |-> p.ticks[t].gross + (IF t \in {lower, upper} THEN delta ELSE 0),
                  net |-> p.ticks[t].net + (IF t = lower THEN delta ELSE IF t = upper THEN -delta ELSE 0)]
  IN [amount0 |-> IF p.tick < upper THEN signed(amount0Delta, from, sqrtAtTick(upper)) ELSE 0,
      amount1 |-> IF p.tick >= lower THEN signed(amount1Delta, sqrtAtTick(lower), to) ELSE 0,
      pool |-> [p EXCEPT !.liquidity = IF inRange THEN @ + delta ELSE @,
                         !.ticks = [t \in UsableTicks |-> bump(t)]]]

nextInitializedTickWithinOneWord(tick, lte, initialized) ==
  LET compressed == tick \div TICK_SPACING + (IF lte THEN 0 ELSE 1)
      wordStart == (compressed \div WORD) * WORD
      found == {t \div TICK_SPACING : t \in initialized} \cap
               (IF lte THEN wordStart..compressed ELSE compressed..(wordStart + WORD - 1))
  IN IF found # {}
     THEN [tick |-> (IF lte THEN Max(found) ELSE Min(found)) * TICK_SPACING, initialized |-> TRUE]
     ELSE [tick |-> (IF lte THEN wordStart ELSE wordStart + WORD - 1) * TICK_SPACING, initialized |-> FALSE]

(***************************************************************************)
(* One step of a swap inside a range of constant liquidity; a negative     *)
(* amount is an exact input.                                               *)
(***************************************************************************)
computeSwapStep(current, target, liquidity, remaining) ==
  LET zeroForOne == current >= target
      In(next) == IF zeroForOne THEN amount0Delta(next, current, liquidity, TRUE)
                  ELSE amount1Delta(current, next, liquidity, TRUE)
      Out(next) == IF zeroForOne THEN amount1Delta(next, current, liquidity, FALSE)
                   ELSE amount0Delta(current, next, liquidity, FALSE)
  IN IF remaining < 0
     THEN IF -remaining >= In(target)
          THEN [next |-> target, amountIn |-> In(target), amountOut |-> Out(target)]
          ELSE LET next == nextFromInput(current, liquidity, -remaining, zeroForOne)
               IN [next |-> next, amountIn |-> -remaining, amountOut |-> Out(next)]
     ELSE IF remaining >= Out(target)
          THEN [next |-> target, amountIn |-> In(target), amountOut |-> Out(target)]
          ELSE LET next == nextFromOutput(current, liquidity, remaining, zeroForOne)
               IN [next |-> next, amountIn |-> In(next), amountOut |-> remaining]

\* One turn of the swap's loop, to the next tick of the word or to the end of the amount.
SwapTurn(s, zeroForOne, exactOut, limit) ==
  LET p == s.pool
      found == nextInitializedTickWithinOneWord(p.tick, zeroForOne, initializedTicks(p))
      tickNext == Larger(MIN_TICK, Lesser(MAX_TICK, found.tick))
      sqrtNext == sqrtAtTick(tickNext)
      target == IF zeroForOne THEN Larger(sqrtNext, limit) ELSE Lesser(sqrtNext, limit)
      Crossed(step, reached, net) ==
        [pool |-> [p EXCEPT !.sqrtPrice = step.next,
                            !.liquidity = IF zeroForOne THEN @ - net ELSE @ + net,
                            !.tick = IF reached THEN (IF zeroForOne THEN tickNext - 1 ELSE tickNext)
                                     ELSE IF step.next # p.sqrtPrice THEN tickAtSqrt(step.next)
                                     ELSE @],
         remaining |-> IF exactOut THEN s.remaining - step.amountOut ELSE s.remaining + step.amountIn,
         calculated |-> IF exactOut THEN s.calculated - step.amountIn ELSE s.calculated + step.amountOut]
      Stepped(step, reached) ==
        Crossed(step, reached, IF reached /\ found.initialized THEN p.ticks[tickNext].net ELSE 0)
      Taken(step) == Stepped(step, step.next = sqrtNext)
  IN Taken(computeSwapStep(p.sqrtPrice, target, p.liquidity, s.remaining))

swap(p, zeroForOne, amountSpecified, limit) ==
  LET over(s) == s.remaining = 0 \/ s.pool.sqrtPrice = limit
      turn[n \in 0..MAX_TURNS] ==
        IF n = 0 THEN [pool |-> p, remaining |-> amountSpecified, calculated |-> 0]
        ELSE LET s == turn[n - 1]
             IN IF over(s) THEN s ELSE SwapTurn(s, zeroForOne, amountSpecified > 0, limit)
      ended(end, specified) ==
        [pool |-> end.pool,
         amount0 |-> IF zeroForOne = (amountSpecified < 0) THEN specified ELSE end.calculated,
         amount1 |-> IF zeroForOne = (amountSpecified < 0) THEN end.calculated ELSE specified]
      moved(end) == ended(end, amountSpecified - end.remaining)
  IN moved(turn[MAX_TURNS])
=============================================================================
