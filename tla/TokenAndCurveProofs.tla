------------------------- MODULE TokenAndCurveProofs --------------------------
(***************************************************************************)
(* What a launched token and the curve it is sold on promise, the two that *)
(* run launch_token checks together.                                       *)
(*                                                                         *)
(* First the curve, for every curve, every creator fee the launchpad       *)
(* accepts and every amount: the facts about one quote are lemmas on       *)
(* numbers, and TradesInv says in which numbers any sequence of trades can *)
(* leave a curve (V13-SPEC 6).                                             *)
(*                                                                         *)
(* Then the token's dividends, for every finite set of holders and every   *)
(* amount, supply, period and magnitude: the stream's arithmetic never     *)
(* fails, nothing distributed is overpaid or dropped, holders earn by time *)
(* alone, and the token implements HolderDividends.  IInv is what keeps    *)
(* the stream within its bounds and claims covered; it does not know that  *)
(* the eligible supply is the sum of the balances that earn.  TotalsInv    *)
(* adds that, and the totals: the dust of the rounding is never negative,  *)
(* and the USDC of what is not claimed is held.                            *)
(***************************************************************************)
EXTENDS CurveTrades, LaunchToken, ArithmeticProofs

-----------------------------------------------------------------------------
(* Rounding up. *)

(* A rounded-up quotient of natural numbers is the least that covers. *)
LEMMA DivCeilUp ==
  ASSUME NEW a \in Nat, NEW b \in Nat, 0 < b
  PROVE  /\ DivCeil(a, b) \in Nat
         /\ a <= DivCeil(a, b) * b
         /\ (DivCeil(a, b) - 1) * b < a
<1>1. a \in Int
  OBVIOUS
<1>2. DivCeil(a, b) \in Nat
  BY DivCeilNat
<1>3. a <= DivCeil(a, b) * b
  BY <1>1, DivCeilBounds
<1>4. (DivCeil(a, b) - 1) * b < a
  BY <1>1, DivCeilBounds
<1> QED BY <1>2, <1>3, <1>4

(* A positive factor on both sides goes away. *)
LEMMA FactorOut ==
  ASSUME NEW a \in Int, NEW b \in Int, NEW c \in Nat, 0 < c, a * c <= b * c
  PROVE  a <= b
<1>1. SUFFICES ASSUME b < a PROVE FALSE
  OBVIOUS
<1>2. b + 1 <= a
  BY <1>1
<1>3. (b + 1) * c <= a * c
  BY <1>2, MulMono
<1>4. (b + 1) * c = b * c + c
  OBVIOUS
<1>5. a * c \in Int /\ b * c \in Int
  OBVIOUS
<1> QED BY <1>3, <1>4, <1>5

(* A larger dividend over a smaller divisor has no smaller quotient. *)
LEMMA DivCeilOrder ==
  ASSUME NEW a \in Nat, NEW b \in Nat, NEW c \in Nat, NEW d \in Nat,
         0 < b, b <= d, c <= a
  PROVE  DivCeil(c, d) <= DivCeil(a, b)
<1> DEFINE q == DivCeil(a, b)
<1>1. q \in Nat /\ a <= q * b
  BY DivCeilNat, DivCeilBounds
<1> HIDE DEF q
<1>2. b * q <= d * q
  BY <1>1, MulMono
<1>3. c <= q * d
  BY <1>1, <1>2
<1>4. DivCeil(c, d) <= q
  BY <1>1, <1>3, DivCeilLeast
<1> QED BY <1>4 DEF q

(* Two amounts pay no less in fees than their sum, *)
LEMMA FeeOnSum ==
  ASSUME NEW a \in Nat, NEW b \in Nat, NEW bps \in Nat
  PROVE  FeeRoundedUp(a + b, bps) <= FeeRoundedUp(a, bps) + FeeRoundedUp(b, bps)
<1> DEFINE fa == FeeRoundedUp(a, bps)
           fb == FeeRoundedUp(b, bps)
<1>1. /\ fa \in Nat /\ a * bps <= fa * BPS
      /\ fb \in Nat /\ b * bps <= fb * BPS
  BY FeeOnBounds
<1> HIDE DEF fa, fb
<1>2. (a + b) * bps = a * bps + b * bps /\ (fa + fb) * BPS = fa * BPS + fb * BPS
  BY <1>1, FeeAssumption
<1> DEFINE p == (a + b) * bps
<1>3. p \in Nat /\ p <= (fa + fb) * BPS
  BY <1>1, <1>2, FeeAssumption
<1> HIDE DEF p
<1>4. DivCeil(p, BPS) <= fa + fb
  BY <1>1, <1>3, DivCeilLeast, FeeAssumption
<1> QED BY <1>4 DEF FeeRoundedUp, fa, fb, p

(* nothing costs nothing, *)
LEMMA NothingCostsNothing ==
  ASSUME NEW bps \in Nat, NEW b \in Nat, 0 < b
  PROVE  DivCeil(0 * bps, b) = 0
<1>1. 0 * bps = 0
  OBVIOUS
<1>2. DivCeil(0, b) \in Nat
  BY DivCeilNat
<1>3. DivCeil(0, b) <= 0
  BY DivCeilLeast
<1> QED BY <1>1, <1>2, <1>3

(* and the two fees on an amount exceed it by one unit at most. *)
LEMMA FeesBarelyExceed ==
  ASSUME NEW x \in Nat, NEW fee \in Nat, FEE_BPS + fee < BPS
  PROVE  FeeRoundedUp(x, FEE_BPS) + FeeRoundedUp(x, fee) <= x + 1
<1> DEFINE f == FeeRoundedUp(x, FEE_BPS)
           g == FeeRoundedUp(x, fee)
<1>1. f \in Nat /\ g \in Nat
  BY FeeOnBounds, FeeAssumption
<1>2. CASE x = 0
  <2>1. f = 0 /\ g = 0
    BY <1>2, NothingCostsNothing, FeeAssumption DEF FeeRoundedUp
  <2> QED BY <1>2, <2>1
<1>3. CASE x > 0
  <2> DEFINE p == x * FEE_BPS
             r == x * fee
  <2>1. p \in Int /\ r \in Int /\ BPS \in Nat /\ BPS > 0
    BY FeeAssumption
  <2>2. (f - 1) * BPS < p
    <3> HIDE DEF p
    <3> QED BY <2>1, DivCeilBounds DEF FeeRoundedUp, p
  <2>3. (g - 1) * BPS < r
    <3> HIDE DEF r
    <3> QED BY <2>1, DivCeilBounds DEF FeeRoundedUp, r
  <2>4. p + r = x * (FEE_BPS + fee)
    BY FeeAssumption
  <2>5. (FEE_BPS + fee) * x <= BPS * x
    BY MulMono, FeeAssumption
  <2>6. (f - 1) * BPS + (g - 1) * BPS = (f + g - 2) * BPS
    BY <1>1, FeeAssumption
  <2>7. (f + g - 2) * BPS < x * BPS
    <3> HIDE DEF f, g, p, r
    <3>1. (f - 1) * BPS \in Int /\ (g - 1) * BPS \in Int
      BY <1>1, <2>1
    <3>2. (FEE_BPS + fee) * x = x * (FEE_BPS + fee) /\ BPS * x = x * BPS
      BY <2>1, FeeAssumption
    <3>3. x * (FEE_BPS + fee) \in Int /\ x * BPS \in Int
      BY <2>1, FeeAssumption
    <3> QED BY <2>1, <2>2, <2>3, <2>4, <2>5, <2>6, <3>1, <3>2, <3>3
  <2>8. f + g - 2 < x
    <3> HIDE DEF f, g
    <3>1. f + g - 2 \in Int
      BY <1>1
    <3> QED BY <2>1, <2>7, <3>1, MulCancel
  <2> QED BY <1>1, <2>8
<1> QED BY <1>2, <1>3

-----------------------------------------------------------------------------
(* One quote. *)

Net(x, fee) == x - FeeRoundedUp(x, FEE_BPS) - FeeRoundedUp(x, fee)

(* A buy along the curve leaves exactly the tokens the product rule needs. *)
LEMMA NormalBuyExact ==
  ASSUME NEW u \in Nat, NEW t \in Nat, NEW x \in Nat, NEW fee \in Nat, 0 < u,
         NEW q, q = NormalBuy(u, t, x, fee), q.ok
  PROVE  /\ Net(x, fee) \in Nat /\ 0 < Net(x, fee) /\ Net(x, fee) < x
         /\ q.tokensOut \in Nat /\ 0 < q.tokensOut
         /\ q.usdcSpent - q.platformFee - q.creatorFee = Net(x, fee)
         /\ q.platformFee = FeeRoundedUp(x, FEE_BPS) /\ q.creatorFee = FeeRoundedUp(x, fee)
         /\ q.usdcSpent = x
         /\ DivCeil(u * t, u + Net(x, fee)) \in Nat
         /\ DivCeil(u * t, u + Net(x, fee)) = t - q.tokensOut
         /\ (u + Net(x, fee)) * (t - q.tokensOut) >= u * t
         /\ (u + Net(x, fee)) * (t - q.tokensOut - 1) < u * t
<1> DEFINE pf  == FeeRoundedUp(x, FEE_BPS)
           cf  == FeeRoundedUp(x, fee)
           net == x - pf - cf
           k == u * t
           s == u + net
           d == DivCeil(k, s)
<1>1. /\ pf \in Nat /\ cf \in Nat /\ x * FEE_BPS <= pf * BPS
  BY FeeOnBounds, FeeAssumption
<1>2. /\ q.platformFee = pf /\ q.creatorFee = cf /\ q.usdcSpent = x
      /\ q.tokensOut = (IF net > 0 THEN t - d ELSE 0)
      /\ q.tokensOut # 0
  BY DEF NormalBuy
<1>3. net \in Int /\ net > 0 /\ q.tokensOut = t - d
  BY <1>1, <1>2
<1>4. k \in Nat /\ s \in Nat /\ s > 0
  BY <1>3
<1>5. pf > 0
  <2>1. x > 0
    BY <1>1, <1>3
  <2>2. x * FEE_BPS > 0
    BY <2>1, FeeAssumption
  <2>3. 0 * BPS < pf * BPS
    <3> HIDE DEF pf
    <3>1. x * FEE_BPS \in Int /\ pf * BPS \in Int
      BY <1>1, FeeAssumption
    <3> QED BY <1>1, <2>2, <3>1, FeeAssumption
  <2> HIDE DEF pf
  <2> QED BY <1>1, <2>3, MulCancel, FeeAssumption
<1>6. d \in Nat /\ k <= d * s /\ (d - 1) * s < k
  <2> HIDE DEF k, s
  <2>1. d \in Nat
    BY <1>4, DivCeilNat
  <2>2. k <= d * s
    BY <1>4, DivCeilBounds
  <2>3. (d - 1) * s < k
    BY <1>4, DivCeilBounds
  <2> QED BY <2>1, <2>2, <2>3
<1>7. d <= t
  <2>1. k <= t * s
    BY <1>3
  <2> HIDE DEF k, s
  <2> QED BY <1>4, <2>1, DivCeilLeast
<1>8. net < x
  BY <1>1, <1>3, <1>5
<1> HIDE DEF d, pf, cf
<1>9. t - q.tokensOut = d /\ q.tokensOut \in Nat /\ q.tokensOut > 0
  BY <1>2, <1>3, <1>6, <1>7
<1>10. x - pf - cf = net
  OBVIOUS
<1>11. s * d >= k /\ s * (d - 1) < k
  <2> HIDE DEF k, s
  <2> QED BY <1>4, <1>6
<1>12. t - q.tokensOut - 1 = d - 1
  BY <1>9
<1>13. Net(x, fee) = net
  BY DEF Net, pf, cf
<1> HIDE DEF net
<1> QED BY <1>2, <1>3, <1>6, <1>8, <1>9, <1>10, <1>11, <1>12, <1>13 DEF k, s, d, pf, cf

LEMMA NormalBuyLeaves ==
  ASSUME NEW u \in Nat, NEW t \in Nat, NEW x \in Nat, NEW fee \in Nat, 0 < u,
         NormalBuy(u, t, x, fee).ok
  PROVE  LET q == NormalBuy(u, t, x, fee)
             net == Net(x, fee)
         IN  /\ net \in Nat /\ 0 < net
             /\ q.usdcSpent - q.platformFee - q.creatorFee = net
             /\ DivCeil(u * t, u + net) \in Nat
             /\ q.tokensOut = t - DivCeil(u * t, u + net)
             /\ (u + net) * (t - q.tokensOut) >= u * t
             /\ (u + net) * (t - q.tokensOut - 1) < u * t
<1> DEFINE q == NormalBuy(u, t, x, fee)
           net == Net(x, fee)
<1>1. q = NormalBuy(u, t, x, fee) /\ q.ok
  OBVIOUS
<1> HIDE DEF q
<1>2. /\ Net(x, fee) \in Nat /\ 0 < Net(x, fee) /\ q.tokensOut \in Nat
      /\ DivCeil(u * t, u + Net(x, fee)) \in Nat
      /\ DivCeil(u * t, u + Net(x, fee)) = t - q.tokensOut
  BY <1>1, NormalBuyExact
<1>4. q.usdcSpent - q.platformFee - q.creatorFee = Net(x, fee)
  BY <1>1, NormalBuyExact
<1>5. /\ (u + Net(x, fee)) * (t - q.tokensOut) >= u * t
      /\ (u + Net(x, fee)) * (t - q.tokensOut - 1) < u * t
  BY <1>1, NormalBuyExact
<1>3. q.tokensOut = t - DivCeil(u * t, u + Net(x, fee))
  BY <1>2
<1> QED BY <1>2, <1>3, <1>4, <1>5 DEF q

(* A buy that does not sell out is the normal one, of fewer tokens than remain. *)
LEMMA NotTheLastBuy ==
  ASSUME NEW u, NEW t, NEW remaining, NEW x, NEW fee,
         NEW q, q = CalcBuy(u, t, remaining, x, fee), q.ok, ~q.graduates
  PROVE  /\ q = NormalBuy(u, t, x, fee)
         /\ ~(q.tokensOut >= remaining)
BY DEF CalcBuy, NormalBuy, ExactFill, NoTrade

(* A buy that sells out is the exact fill, where a normal one had enough. *)
LEMMA TheLastBuy ==
  ASSUME NEW u, NEW t, NEW remaining, NEW x, NEW fee,
         NEW q, q = CalcBuy(u, t, remaining, x, fee), q.ok, q.graduates
  PROVE  /\ q = ExactFill(u, t, remaining, x, fee)
         /\ NormalBuy(u, t, x, fee).ok
         /\ NormalBuy(u, t, x, fee).tokensOut >= remaining
BY DEF CalcBuy, NormalBuy, ExactFill, NoTrade

(* What a sell quote holds. *)
LEMMA SellFields ==
  ASSUME NEW u, NEW t, NEW sold, NEW n, NEW fee,
         NEW q, q = CalcSell(u, t, sold, n, fee)
  PROVE  LET gross == u - DivCeil(u * t, t + n)
             pf == FeeRoundedUp(gross, FEE_BPS)
             cf == FeeRoundedUp(gross, fee)
         IN  /\ q.gross = gross
             /\ q.usdcOut = gross - pf - cf
             /\ q.ok = (n # 0 /\ n <= sold /\ pf + cf < gross)
BY DEF CalcSell

(* Buying and selling straight back loses. *)
LEMMA RoundTrip ==
  ASSUME NEW u \in Nat, NEW t \in Nat, NEW remaining \in Nat, NEW sold \in Nat,
         NEW x \in Nat, NEW fee \in Nat, 0 < u,
         NEW q, q = CalcBuy(u, t, remaining, x, fee), q.ok, ~q.graduates,
         NEW back,
         back = CalcSell(u + q.usdcSpent - q.platformFee - q.creatorFee, t - q.tokensOut,
                         sold + q.tokensOut, q.tokensOut, fee),
         back.ok
  PROVE  back.usdcOut < q.usdcSpent
<1> DEFINE net == Net(x, fee)
           out == q.tokensOut
           k == u * t
           k2 == (u + net) * (t - out)
           left == DivCeil(k2, t - out + out)
           gross == (u + net) - left
           pf == FeeRoundedUp(gross, FEE_BPS)
           cf == FeeRoundedUp(gross, fee)
<1>1. q = NormalBuy(u, t, x, fee)
  BY NotTheLastBuy
<1>2. /\ net \in Nat /\ net < x /\ out \in Nat /\ 0 < out
      /\ q.usdcSpent - q.platformFee - q.creatorFee = net
      /\ q.platformFee = FeeRoundedUp(x, FEE_BPS) /\ q.creatorFee = FeeRoundedUp(x, fee)
      /\ q.usdcSpent = x
      /\ t - out \in Nat
      /\ k2 >= k
  BY <1>1, NormalBuyExact
<1>3. FeeRoundedUp(x, FEE_BPS) \in Nat /\ FeeRoundedUp(x, fee) \in Nat
  BY FeeOnBounds, FeeAssumption
<1> HIDE DEF net, out
<1>4. u + q.usdcSpent - q.platformFee - q.creatorFee = u + net
  BY <1>2, <1>3
<1>5. back = CalcSell(u + net, t - out, sold + out, out, fee)
  BY <1>4 DEF out
<1>6. t - out + out = t /\ t > 0
  BY <1>2
<1>7. back.usdcOut = gross - pf - cf
  BY <1>5, SellFields
<1>8. k \in Nat /\ k2 \in Nat /\ left = DivCeil(k2, t)
  BY <1>2, <1>6
<1>9. left \in Nat /\ u <= left
  <2>1. u * t <= left * t
    <3>1. k2 <= left * t
      <4> HIDE DEF k2, left
      <4> QED BY <1>6, <1>8, DivCeilBounds
    <3>2. left \in Nat
      <4> HIDE DEF k2, left
      <4> QED BY <1>6, <1>8, DivCeilNat
    <3> HIDE DEF left, k2
    <3> QED BY <1>2, <1>8, <3>1, <3>2
  <2>2. left \in Nat
    <3> HIDE DEF k2, left
    <3> QED BY <1>6, <1>8, DivCeilNat
  <2> HIDE DEF left
  <2> QED BY <1>6, <2>1, <2>2, FactorOut
<1>10. left <= u + net
  <2>1. k2 <= (u + net) * t
    <3>1. (t - out) * (u + net) <= t * (u + net)
      BY <1>2, MulMono
    <3> QED BY <1>2, <3>1
  <2> HIDE DEF k2, left
  <2> QED BY <1>2, <1>6, <1>8, <2>1, DivCeilLeast
<1> HIDE DEF left
<1>11. gross \in Nat /\ gross <= net
  BY <1>2, <1>9, <1>10
<1> HIDE DEF gross
<1>12. pf \in Nat /\ cf \in Nat
  BY <1>11, FeeOnBounds, FeeAssumption
<1> HIDE DEF pf, cf
<1> QED BY <1>2, <1>7, <1>11, <1>12

(* Two buys get no more tokens than one for the same USDC. *)
LEMMA TwoBuys ==
  ASSUME NEW u \in Nat, NEW t \in Nat, NEW remaining \in Nat,
         NEW x \in Nat, NEW y \in Nat, NEW fee \in Nat, 0 < u,
         NEW whole, whole = CalcBuy(u, t, remaining, x + y, fee),
         NEW first, first = CalcBuy(u, t, remaining, x, fee),
         NEW second,
         second = CalcBuy(u + x - first.platformFee - first.creatorFee, t - first.tokensOut,
                          remaining - first.tokensOut, y, fee),
         whole.ok, ~whole.graduates, first.ok, ~first.graduates, second.ok
  PROVE  first.tokensOut + second.tokensOut <= whole.tokensOut
<1> DEFINE net  == Net(x, fee)
           net2 == Net(y, fee)
           all  == Net(x + y, fee)
           out  == first.tokensOut
           u2 == u + net
           t2 == t - out
           n == NormalBuy(u2, t2, y, fee)
           left == DivCeil(u2 * t2, u2 + net2)
           least == DivCeil(u * t, u + all)
<1>1. /\ first = NormalBuy(u, t, x, fee)
      /\ whole = NormalBuy(u, t, x + y, fee) /\ ~(whole.tokensOut >= remaining)
  <2>1. first = NormalBuy(u, t, x, fee)
    BY NotTheLastBuy
  <2>2. whole = NormalBuy(u, t, x + y, fee) /\ ~(whole.tokensOut >= remaining)
    BY NotTheLastBuy
  <2> QED BY <2>1, <2>2
<1>2. /\ net \in Nat /\ out \in Nat /\ t - out \in Nat
      /\ first.platformFee = FeeRoundedUp(x, FEE_BPS) /\ first.creatorFee = FeeRoundedUp(x, fee)
      /\ (u + net) * (t - out) >= u * t
  <2>1. first = NormalBuy(u, t, x, fee) /\ first.ok
    BY <1>1
  <2>2. /\ Net(x, fee) \in Nat /\ first.tokensOut \in Nat
        /\ first.platformFee = FeeRoundedUp(x, FEE_BPS) /\ first.creatorFee = FeeRoundedUp(x, fee)
        /\ DivCeil(u * t, u + Net(x, fee)) \in Nat
        /\ DivCeil(u * t, u + Net(x, fee)) = t - first.tokensOut
        /\ (u + Net(x, fee)) * (t - first.tokensOut) >= u * t
    BY <2>1, NormalBuyExact
  <2> QED BY <2>2
<1>3. /\ all \in Nat /\ least \in Nat /\ whole.tokensOut = t - least /\ 0 < all
  <2> DEFINE z == x + y
  <2>1. z \in Nat /\ whole = NormalBuy(u, t, z, fee) /\ whole.ok
    BY <1>1
  <2> HIDE DEF z
  <2>2. /\ Net(z, fee) \in Nat /\ 0 < Net(z, fee) /\ whole.tokensOut \in Nat
        /\ DivCeil(u * t, u + Net(z, fee)) \in Nat
        /\ DivCeil(u * t, u + Net(z, fee)) = t - whole.tokensOut
    BY <2>1, NormalBuyExact, SMTT(40)
  <2>3. whole.tokensOut = t - DivCeil(u * t, u + Net(z, fee))
    BY <2>2
  <2> QED BY <2>2, <2>3 DEF z
<1>4. /\ FeeRoundedUp(x, FEE_BPS) \in Nat /\ FeeRoundedUp(x, fee) \in Nat
      /\ FeeRoundedUp(y, FEE_BPS) \in Nat /\ FeeRoundedUp(y, fee) \in Nat
  BY FeeOnBounds, FeeAssumption
<1>5. u + x - first.platformFee - first.creatorFee = u + net
  BY <1>2, <1>4 DEF Net
<1>6. second = CalcBuy(u2, t2, remaining - out, y, fee)
  BY <1>5
<1>7. n.ok /\ second.tokensOut = (IF n.tokensOut >= remaining - out THEN remaining - out
                                                                    ELSE n.tokensOut)
  <2>1. second = CalcBuy(u2, t2, remaining - out, y, fee) /\ second.ok
    BY <1>6
  <2> HIDE DEF u2, t2, out
  <2>2. n.ok
    BY <2>1 DEF CalcBuy, NoTrade
  <2>3. second = IF n.tokensOut >= remaining - out
                 THEN ExactFill(u2, t2, remaining - out, y, fee) ELSE n
    BY <2>1, <2>2 DEF CalcBuy
  <2>4. ExactFill(u2, t2, remaining - out, y, fee).tokensOut = remaining - out
    BY DEF ExactFill
  <2> HIDE DEF n
  <2> QED BY <2>2, <2>3, <2>4
<1>8. u2 \in Nat /\ 0 < u2 /\ t2 \in Nat
  BY <1>2
<1>9. net2 \in Nat /\ 0 < net2 /\ left \in Nat /\ n.tokensOut = t2 - left
  <2> HIDE DEF u2, t2
  <2>1. NormalBuy(u2, t2, y, fee).ok
    BY <1>7
  <2> QED BY <1>8, <2>1, NormalBuyLeaves
<1>10. net + net2 <= all
  <2>1. /\ FeeRoundedUp(x + y, FEE_BPS) <= FeeRoundedUp(x, FEE_BPS) + FeeRoundedUp(y, FEE_BPS)
        /\ FeeRoundedUp(x + y, fee) <= FeeRoundedUp(x, fee) + FeeRoundedUp(y, fee)
    BY FeeOnSum, FeeAssumption
  <2>2. FeeRoundedUp(x + y, FEE_BPS) \in Nat /\ FeeRoundedUp(x + y, fee) \in Nat
    <3> DEFINE z == x + y
    <3>1. z \in Nat
      OBVIOUS
    <3> HIDE DEF z
    <3>2. FeeRoundedUp(z, FEE_BPS) \in Nat /\ FeeRoundedUp(z, fee) \in Nat
      BY <3>1, FeeOnBounds, FeeAssumption
    <3> QED BY <3>2 DEF z
  <2> QED BY <1>4, <2>1, <2>2 DEF Net
<1>11. least <= left
  <2> DEFINE k == u * t
             k2 == u2 * t2
             s == u + all
             s2 == u2 + net2
  <2>1. k \in Nat /\ k2 \in Nat /\ s \in Nat /\ s2 \in Nat
    <3> HIDE DEF u2, t2, net2, all
    <3> QED BY <1>3, <1>8, <1>9
  <2>2. k <= k2
    BY <1>2
  <2>3. 0 < s2 /\ s2 <= s
    <3> HIDE DEF net, net2, all
    <3> QED BY <1>2, <1>3, <1>9, <1>10
  <2> HIDE DEF k, k2, s, s2
  <2>4. DivCeil(k, s) <= DivCeil(k2, s2)
    BY <2>1, <2>2, <2>3, DivCeilOrder
  <2> QED BY <2>4 DEF k, k2, s, s2
<1> HIDE DEF left, least, n
<1>12. out + n.tokensOut <= whole.tokensOut
  <2> HIDE DEF out
  <2> QED BY <1>2, <1>3, <1>9, <1>11
<1> HIDE DEF out
<1>13. n.tokensOut \in Int
  BY <1>2, <1>9
<1>14. whole.tokensOut \in Int
  BY <1>3
<1>15. CASE n.tokensOut >= remaining - out
  BY <1>1, <1>2, <1>12, <1>13, <1>14, <1>15
<1>16. CASE ~(n.tokensOut >= remaining - out)
  BY <1>7, <1>12, <1>16 DEF out
<1> QED BY <1>15, <1>16

(* Two sells get at most one unit more than one for the same tokens. *)
LEMMA TwoSells ==
  ASSUME NEW u \in Nat, NEW t \in Nat, NEW sold \in Nat,
         NEW m \in Nat, NEW n \in Nat, NEW fee \in Nat, FEE_BPS + fee < BPS, 0 < t,
         NEW whole, whole = CalcSell(u, t, sold, m + n, fee),
         NEW first, first = CalcSell(u, t, sold, m, fee),
         NEW second, second = CalcSell(u - first.gross, t + m, sold - m, n, fee)
  PROVE  first.usdcOut + second.usdcOut <= whole.usdcOut + 1
<1> DEFINE k == u * t
           left == DivCeil(k, t + m)
           k2 == left * (t + m)
           left2 == DivCeil(k2, (t + m) + n)
           least == DivCeil(k, t + (m + n))
           g1 == u - left
           g2 == left - left2
           g == u - least
           d == g - (g1 + g2)
           F(z) == FeeRoundedUp(z, FEE_BPS) + FeeRoundedUp(z, fee)
<1>1. k \in Nat /\ k <= u * (t + m)
  <2>1. t * u <= (t + m) * u
    BY MulMono
  <2> QED BY <2>1
<1>2. left \in Nat /\ left <= u /\ k <= k2
  <2> DEFINE s == t + m
  <2>1. s \in Nat /\ 0 < s
    OBVIOUS
  <2>2. k <= u * s
    BY <1>1
  <2> HIDE DEF k, s
  <2>3. DivCeil(k, s) \in Nat
    BY <1>1, <2>1, DivCeilNat
  <2>4. DivCeil(k, s) <= u
    BY <1>1, <2>1, <2>2, DivCeilLeast
  <2>5. k <= DivCeil(k, s) * s
    BY <1>1, <2>1, DivCeilBounds
  <2> QED BY <2>3, <2>4, <2>5 DEF s
<1>3. first.gross = g1 /\ first.usdcOut = g1 - FeeRoundedUp(g1, FEE_BPS) - FeeRoundedUp(g1, fee)
  BY SellFields
<1>4. u - first.gross = left
  <2> HIDE DEF left
  <2> QED BY <1>2, <1>3
<1>5. second = CalcSell(left, t + m, sold - m, n, fee)
  BY <1>4
<1>6. second.usdcOut = g2 - FeeRoundedUp(g2, FEE_BPS) - FeeRoundedUp(g2, fee)
  <2> HIDE DEF left
  <2> QED BY <1>5, SellFields
<1>7. whole.usdcOut = g - FeeRoundedUp(g, FEE_BPS) - FeeRoundedUp(g, fee)
  BY SellFields
<1>8. k2 \in Nat
  <2> HIDE DEF left
  <2> QED BY <1>2
<1>9. left2 \in Nat /\ left2 <= left
  <2> DEFINE s == (t + m) + n
  <2>1. s \in Nat /\ 0 < s
    OBVIOUS
  <2>2. k2 <= left * s
    <3> HIDE DEF left
    <3>1. (t + m) * left <= s * left
      BY <1>2, MulMono
    <3> QED BY <1>2, <3>1
  <2> HIDE DEF k2, s
  <2>3. DivCeil(k2, s) \in Nat
    BY <1>8, <2>1, DivCeilNat
  <2> HIDE DEF left
  <2>4. DivCeil(k2, s) <= left
    BY <1>2, <1>8, <2>1, <2>2, DivCeilLeast
  <2> QED BY <2>3, <2>4 DEF s
<1>10. least \in Nat /\ least <= left2
  <2> DEFINE s == t + (m + n)
  <2>1. s \in Nat /\ 0 < s /\ (t + m) + n = s
    OBVIOUS
  <2>2. left2 = DivCeil(k2, s)
    BY <2>1
  <2> HIDE DEF left2, k2, k, s
  <2>3. DivCeil(k, s) \in Nat
    BY <1>1, <2>1, DivCeilNat
  <2>4. DivCeil(k, s) <= DivCeil(k2, s)
    BY <1>1, <1>2, <1>8, <2>1, DivCeilOrder
  <2> QED BY <2>2, <2>3, <2>4 DEF s
<1> HIDE DEF left, left2, least
<1>11. g1 \in Nat /\ g2 \in Nat /\ g \in Nat /\ d \in Nat /\ g = (g1 + g2) + d
  BY <1>2, <1>9, <1>10
<1> HIDE DEF g1, g2, g, d
<1>12. \A z \in Nat : FeeRoundedUp(z, FEE_BPS) \in Nat /\ FeeRoundedUp(z, fee) \in Nat
  BY FeeOnBounds, FeeAssumption
<1>13. \A a, b \in Nat : F(a + b) <= F(a) + F(b)
  <2> SUFFICES ASSUME NEW a \in Nat, NEW b \in Nat PROVE F(a + b) <= F(a) + F(b)
    OBVIOUS
  <2>1. /\ FeeRoundedUp(a + b, FEE_BPS) <= FeeRoundedUp(a, FEE_BPS) + FeeRoundedUp(b, FEE_BPS)
        /\ FeeRoundedUp(a + b, fee) <= FeeRoundedUp(a, fee) + FeeRoundedUp(b, fee)
    BY FeeOnSum, FeeAssumption
  <2>2. a + b \in Nat
    OBVIOUS
  <2> QED BY <1>12, <2>1, <2>2
<1>14. F(d) <= d + 1
  BY <1>11, FeesBarelyExceed
<1>15. F(g) <= F(g1) + F(g2) + F(d)
  <2>1. F((g1 + g2) + d) <= F(g1 + g2) + F(d)
    <3>1. g1 + g2 \in Nat
      BY <1>11
    <3> HIDE DEF F
    <3> QED BY <1>11, <1>13, <3>1
  <2>2. F(g1 + g2) <= F(g1) + F(g2)
    BY <1>11, <1>13
  <2>3. F(g1 + g2) \in Nat /\ F(g1) \in Nat /\ F(g2) \in Nat /\ F(d) \in Nat
    BY <1>11, <1>12
  <2>4. F(g) \in Nat
    BY <1>11, <1>12
  <2>5. F(g) <= F(g1 + g2) + F(d)
    BY <1>11, <2>1
  <2> HIDE DEF F
  <2> QED BY <2>2, <2>3, <2>4, <2>5
<1>16. /\ first.usdcOut = g1 - F(g1) /\ second.usdcOut = g2 - F(g2)
       /\ whole.usdcOut = g - F(g)
  BY <1>3, <1>6, <1>7, <1>11, <1>12
<1>17. F(g) \in Nat /\ F(g1) \in Nat /\ F(g2) \in Nat /\ F(d) \in Nat
  BY <1>11, <1>12
<1> HIDE DEF F
<1> QED BY <1>11, <1>14, <1>15, <1>16, <1>17

(* What the sell-out buy pulls covers its fees at their rates, and no more *)
(* than was offered: the cap of _calcBuy never binds.                      *)
LEMMA FillCoversItsFees ==
  ASSUME NEW u \in Nat, NEW t \in Nat, NEW remaining \in Nat, NEW x \in Nat, NEW fee \in Nat,
         0 < u, remaining < t, FEE_BPS + fee < BPS,
         NEW q, q = CalcBuy(u, t, remaining, x, fee), q.ok, q.graduates
  PROVE  /\ FillGross(FillNet(u, t, remaining), FEE_BPS + fee) <= x
         /\ (q.platformFee + q.creatorFee) * BPS >= q.usdcSpent * (FEE_BPS + fee)
         /\ q.platformFee * BPS >= q.usdcSpent * FEE_BPS
         /\ q.creatorFee >= 0
<1> DEFINE feeBps == FEE_BPS + fee
           keep == BPS - feeBps
           net == FillNet(u, t, remaining)
           extra == DivCeil(net * feeBps, keep)
           spent == IF FillGross(net, feeBps) < x THEN FillGross(net, feeBps) ELSE x
           total == spent - net
           pf == DivCeil(total * FEE_BPS, feeBps)
<1>1. /\ feeBps \in Nat /\ 0 < feeBps /\ keep \in Nat /\ 0 < keep /\ keep + feeBps = BPS
      /\ FEE_BPS \in Nat /\ 0 < FEE_BPS /\ BPS \in Nat
  BY FeeAssumption
<1>2. q = ExactFill(u, t, remaining, x, fee) /\ NormalBuy(u, t, x, fee).ok
  BY TheLastBuy
<1>3. /\ q.usdcSpent = spent /\ q.platformFee = pf /\ q.creatorFee = total - pf
  BY <1>2 DEF ExactFill
<1> HIDE DEF feeBps
<1>4. /\ net \in Nat /\ FillGross(net, feeBps) <= x /\ q.creatorFee \in Int /\ q.creatorFee >= 0
  <2>1. CASE remaining > 0
    <3>1. BuyFacts(q, u, t, remaining, x) /\ FillGross(net, feeBps) <= x
      BY <2>1, CalcBuyFacts DEF feeBps
    <3>2. /\ NormalBuy(u, t, x, fee).tokensOut >= remaining
          /\ Net(x, fee) \in Nat
          /\ (u + Net(x, fee)) * (t - remaining) >= u * t
      <4> DEFINE n == NormalBuy(u, t, x, fee)
      <4>1. n = NormalBuy(u, t, x, fee) /\ n.ok /\ n.tokensOut >= remaining
        BY TheLastBuy
      <4> HIDE DEF n
      <4>2. /\ Net(x, fee) \in Nat /\ n.tokensOut \in Nat
            /\ (u + Net(x, fee)) * (t - n.tokensOut) >= u * t
        BY <4>1, NormalBuyExact
      <4>3. (t - n.tokensOut) * (u + Net(x, fee)) <= (t - remaining) * (u + Net(x, fee))
        BY <4>1, <4>2, MulMono
      <4> QED BY <4>1, <4>2, <4>3 DEF n
    <3>3. net \in Nat
      BY <3>2, FillNetBounds
    <3> QED BY <3>1, <3>3 DEF BuyFacts
  <2>2. CASE remaining = 0
    <3>1. net = 0
      <4>1. DivCeil(u * t, t) = u
        <5>1. u * t \in Nat /\ t > 0
          OBVIOUS
        <5> DEFINE d == DivCeil(u * t, t)
        <5>2. d <= u
          BY <5>1, DivCeilLeast
        <5>3. d \in Nat /\ u * t <= d * t
          <6> DEFINE p == u * t
          <6>1. p \in Nat
            BY <5>1
          <6> HIDE DEF p
          <6>2. DivCeil(p, t) \in Nat /\ p <= DivCeil(p, t) * t
            BY <5>1, <6>1, DivCeilUp
          <6> QED BY <6>2 DEF p
        <5> HIDE DEF d
        <5>4. u <= d
          BY <5>1, <5>3, FactorOut
        <5> QED BY <5>2, <5>3, <5>4 DEF d
      <4>2. t - remaining = t
        BY <2>2
      <4> QED BY <4>1, <4>2 DEF FillNet
    <3>2. FillGross(0, feeBps) = 0
      BY <1>1, NothingCostsNothing DEF FillGross
    <3>3. total = 0
      <4> HIDE DEF net
      <4> QED BY <3>1, <3>2
    <3>4. pf = 0
      <4> HIDE DEF total
      <4> QED BY <1>1, <3>3, NothingCostsNothing
    <3> HIDE DEF net, total, pf
    <3> QED BY <1>3, <3>1, <3>2, <3>3, <3>4
  <2> QED BY <2>1, <2>2
<1> HIDE DEF net, keep
<1>5. /\ extra \in Nat /\ net * feeBps <= extra * keep /\ FillGross(net, feeBps) = net + extra
  <2> DEFINE p == net * feeBps
  <2>1. p \in Nat
    BY <1>1, <1>4
  <2> HIDE DEF p
  <2>2. DivCeil(p, keep) \in Nat /\ p <= DivCeil(p, keep) * keep
    BY <1>1, <2>1, DivCeilUp
  <2> QED BY <2>2 DEF p, FillGross, keep
<1>6. spent = net + extra /\ total = extra
  <2> HIDE DEF extra
  <2> QED BY <1>4, <1>5
<1> HIDE DEF extra, spent, total
<1>7. extra * BPS >= (net + extra) * feeBps
  <2>1. extra * BPS = extra * keep + extra * feeBps
    BY <1>1, <1>5
  <2>2. (net + extra) * feeBps = net * feeBps + extra * feeBps
    BY <1>1, <1>4, <1>5
  <2>3. extra * keep \in Int /\ extra * feeBps \in Int /\ net * feeBps \in Int
    BY <1>1, <1>4, <1>5
  <2> QED BY <1>5, <2>1, <2>2, <2>3
<1>8. pf \in Nat /\ total * FEE_BPS <= pf * feeBps
  <2> DEFINE p == total * FEE_BPS
  <2>1. p \in Nat
    BY <1>1, <1>5, <1>6
  <2> HIDE DEF p
  <2>2. DivCeil(p, feeBps) \in Nat /\ p <= DivCeil(p, feeBps) * feeBps
    BY <1>1, <2>1, DivCeilUp
  <2> QED BY <2>2 DEF p
<1> HIDE DEF pf
<1>9. (net + extra) * FEE_BPS <= pf * BPS
  <2> DEFINE a == (net + extra) * FEE_BPS
             b == pf * BPS
  <2>1. a \in Int /\ b \in Int
    BY <1>1, <1>4, <1>5, <1>8
  <2>2. a * feeBps <= b * feeBps
    <3>1. a * feeBps = ((net + extra) * feeBps) * FEE_BPS
      BY <1>1, <1>4, <1>5
    <3>2. ((net + extra) * feeBps) * FEE_BPS <= (extra * BPS) * FEE_BPS
      <4>1. (net + extra) * feeBps \in Int /\ extra * BPS \in Int
        BY <1>1, <1>4, <1>5
      <4> QED BY <1>1, <1>7, <4>1, MulMono
    <3>3. (extra * BPS) * FEE_BPS = (extra * FEE_BPS) * BPS
      BY <1>1, <1>5
    <3>4. (extra * FEE_BPS) * BPS <= (pf * feeBps) * BPS
      <4>1. extra * FEE_BPS \in Int /\ pf * feeBps \in Int /\ extra * FEE_BPS <= pf * feeBps
        BY <1>1, <1>5, <1>6, <1>8
      <4> QED BY <1>1, <4>1, MulMono
    <3>5. (pf * feeBps) * BPS = b * feeBps
      BY <1>1, <1>8
    <3>6. /\ a * feeBps \in Int /\ b * feeBps \in Int
          /\ (extra * BPS) * FEE_BPS \in Int
      BY <1>1, <1>5, <2>1
    <3> QED BY <3>1, <3>2, <3>3, <3>4, <3>5, <3>6
  <2> HIDE DEF a, b
  <2>3. a <= b
    BY <1>1, <2>1, <2>2, FactorOut
  <2> QED BY <2>3 DEF a, b
<1>10. q.platformFee + q.creatorFee = extra
  BY <1>3, <1>5, <1>6, <1>8
<1>11. q.usdcSpent = net + extra
  BY <1>3, <1>6
<1> QED BY <1>3, <1>4, <1>7, <1>9, <1>10, <1>11 DEF feeBps, net

(* A sell leaves exactly the USDC the product rule needs. *)
LEMMA SellExact ==
  ASSUME NEW u \in Nat, NEW t \in Nat, NEW sold, NEW n \in Nat, NEW fee, 0 < t,
         NEW q, q = CalcSell(u, t, sold, n, fee)
  PROVE  /\ q.gross \in Int
         /\ (u - q.gross) * (t + n) >= u * t
         /\ (u - q.gross - 1) * (t + n) < u * t
<1> DEFINE k == u * t
           s == t + n
           d == DivCeil(k, s)
<1>1. q.gross = u - d
  BY SellFields
<1>2. k \in Nat /\ s \in Nat /\ 0 < s
  OBVIOUS
<1>3. d \in Nat /\ k <= d * s /\ (d - 1) * s < k
  <2> HIDE DEF k, s
  <2> QED BY <1>2, DivCeilUp
<1> HIDE DEF d
<1>4. q.gross \in Int /\ u - q.gross = d /\ u - q.gross - 1 = d - 1
  BY <1>1, <1>3
<1> QED BY <1>3, <1>4

-----------------------------------------------------------------------------
(* The numbers trades can leave a curve in: tokens are conserved, the      *)
(* product of the reserves never falls below what it was at the start, and *)
(* the curve has closed exactly when nothing is left.                      *)
TradesInv ==
  /\ virtualUsdc \in Nat /\ 0 < virtualUsdc
  /\ virtualTokens \in Nat
  /\ tokensSold \in Nat /\ tokensSold <= CURVE_SUPPLY
  /\ virtualTokens + tokensSold = VIRTUAL_TOKENS_0
  /\ VIRTUAL_USDC_0 * VIRTUAL_TOKENS_0 <= virtualUsdc * virtualTokens
  /\ creatorFeeBps \in Nat /\ FEE_BPS + creatorFeeBps < BPS
  /\ soldOut \in BOOLEAN
  /\ soldOut <=> tokensSold = CURVE_SUPPLY

LEMMA StartProduct ==
  /\ VIRTUAL_USDC_0 * VIRTUAL_TOKENS_0 \in Nat
  /\ 0 < VIRTUAL_USDC_0 * VIRTUAL_TOKENS_0
  /\ 0 < VIRTUAL_TOKENS_0
BY CurveAssumption

LEMMA TradesStart == TradesInit => TradesInv
<1> SUFFICES ASSUME TradesInit PROVE TradesInv
  OBVIOUS
<1>1. creatorFeeBps \in 0 .. (BPS - FEE_BPS - 1)
  BY CurveAssumption DEF TradesInit
<1>2. creatorFeeBps \in Nat /\ FEE_BPS + creatorFeeBps < BPS
  BY <1>1, FeeAssumption
<1>3. VIRTUAL_USDC_0 * VIRTUAL_TOKENS_0 <= virtualUsdc * virtualTokens
  <2> DEFINE c == VIRTUAL_USDC_0 * VIRTUAL_TOKENS_0
  <2>1. virtualUsdc * virtualTokens = c /\ c \in Nat
    BY StartProduct DEF TradesInit
  <2> HIDE DEF c
  <2>2. c <= virtualUsdc * virtualTokens
    BY <2>1
  <2> QED BY <2>2 DEF c
<1>4. tokensSold <= CURVE_SUPPLY /\ virtualTokens + tokensSold = VIRTUAL_TOKENS_0
      /\ (soldOut <=> tokensSold = CURVE_SUPPLY)
  BY CurveAssumption DEF TradesInit
<1>5. /\ virtualUsdc \in Nat /\ 0 < virtualUsdc /\ virtualTokens \in Nat /\ tokensSold \in Nat
      /\ soldOut \in BOOLEAN
  BY CurveAssumption DEF TradesInit
<1> QED BY <1>2, <1>3, <1>4, <1>5 DEF TradesInv

LEMMA ProductNat ==
  ASSUME NEW a \in Nat, NEW b \in Nat
  PROVE  a * b \in Nat
OBVIOUS

(* Reserves whose product is positive are positive. *)
LEMMA ProductPositive ==
  ASSUME NEW a \in Nat, NEW b \in Nat, NEW c \in Nat, 0 < c, c <= a * b
  PROVE  0 < a
<1>1. CASE a = 0
  <2>1. a * b = 0
    BY <1>1
  <2> QED BY <2>1
<1>2. CASE a # 0
  BY <1>2
<1> QED BY <1>1, <1>2

(* A buy keeps it, *)
LEMMA BuyKeepsInv ==
  ASSUME TradesInv, NEW usdcIn \in Nat, Buy(usdcIn)
  PROVE  TradesInv'
<1> DEFINE q == BuyQuote(usdcIn)
           net == q.usdcSpent - q.platformFee - q.creatorFee
<1>1. /\ ~soldOut /\ q.ok
      /\ virtualUsdc' = virtualUsdc + net
      /\ virtualTokens' = virtualTokens - q.tokensOut
      /\ tokensSold' = tokensSold + q.tokensOut
      /\ soldOut' = q.graduates
      /\ creatorFeeBps' = creatorFeeBps
  BY DEF Buy
<1>2. /\ Remaining \in Nat /\ 0 < Remaining /\ Remaining < virtualTokens
  BY <1>1, CurveAssumption DEF TradesInv, Remaining
<1>3. BuyFacts(q, virtualUsdc, virtualTokens, Remaining, usdcIn)
  BY <1>1, <1>2, CalcBuyFacts DEF TradesInv, BuyQuote
<1> HIDE DEF q
<1>4. /\ q.tokensOut \in Nat /\ q.tokensOut <= Remaining
      /\ q.platformFee \in Nat /\ q.creatorFee \in Nat /\ q.usdcSpent \in Nat
      /\ q.platformFee + q.creatorFee <= q.usdcSpent
      /\ (virtualUsdc + net) * (virtualTokens - q.tokensOut) >= virtualUsdc * virtualTokens
      /\ q.graduates \in BOOLEAN /\ (q.graduates <=> q.tokensOut = Remaining)
  BY <1>3 DEF BuyFacts
<1>5. net \in Nat
  BY <1>4
<1> HIDE DEF net
<1>6. /\ virtualUsdc' \in Nat /\ 0 < virtualUsdc'
      /\ virtualTokens' \in Nat /\ tokensSold' \in Nat /\ tokensSold' <= CURVE_SUPPLY
      /\ virtualTokens' + tokensSold' = VIRTUAL_TOKENS_0
      /\ (tokensSold' = CURVE_SUPPLY <=> q.tokensOut = Remaining)
  BY <1>1, <1>2, <1>4, <1>5, CurveAssumption DEF TradesInv, Remaining
<1>7. VIRTUAL_USDC_0 * VIRTUAL_TOKENS_0 <= virtualUsdc' * virtualTokens'
  <2> DEFINE k == virtualUsdc * virtualTokens
             j == virtualUsdc' * virtualTokens'
             c == VIRTUAL_USDC_0 * VIRTUAL_TOKENS_0
  <2>1. c <= k /\ k \in Nat /\ j \in Nat /\ c \in Nat
    <3>1. c <= k
      BY DEF TradesInv
    <3>2. k \in Nat
      BY DEF TradesInv
    <3>3. j \in Nat
      <4>1. virtualUsdc' \in Nat /\ virtualTokens' \in Nat
        BY <1>6
      <4> QED BY <4>1, ProductNat
    <3> QED BY <3>1, <3>2, <3>3, StartProduct
  <2>2. j >= k
    BY <1>1, <1>4
  <2> HIDE DEF k, j, c
  <2>3. c <= j
    BY <2>1, <2>2
  <2> QED BY <2>3 DEF c, j
<1>8. soldOut' \in BOOLEAN /\ (soldOut' <=> tokensSold' = CURVE_SUPPLY)
  BY <1>1, <1>4, <1>6, Zenon
<1> QED BY <1>1, <1>6, <1>7, <1>8 DEF TradesInv

(* and a sell. *)
LEMMA SellKeepsInv ==
  ASSUME TradesInv, NEW tokensIn \in Nat, Sell(tokensIn)
  PROVE  TradesInv'
<1> DEFINE q == SellQuote(tokensIn)
<1>1. /\ ~soldOut /\ q.ok
      /\ virtualUsdc' = virtualUsdc - q.gross
      /\ virtualTokens' = virtualTokens + tokensIn
      /\ tokensSold' = tokensSold - tokensIn
      /\ soldOut' = soldOut
      /\ creatorFeeBps' = creatorFeeBps
  BY DEF Sell
<1>2. virtualTokens \in Nat /\ 0 < virtualTokens
  BY CurveAssumption DEF TradesInv
<1>3. SellFacts(q, virtualUsdc, virtualTokens, tokensSold, tokensIn)
  BY <1>1, <1>2, CalcSellFacts DEF TradesInv, SellQuote
<1> HIDE DEF q
<1>4. /\ 0 < tokensIn /\ tokensIn <= tokensSold
      /\ q.gross \in Nat /\ q.gross <= virtualUsdc
      /\ (virtualUsdc - q.gross) * (virtualTokens + tokensIn) >= virtualUsdc * virtualTokens
  BY <1>3 DEF SellFacts
<1>5. /\ virtualUsdc' \in Nat
      /\ virtualTokens' \in Nat /\ tokensSold' \in Nat /\ tokensSold' < CURVE_SUPPLY
      /\ virtualTokens' + tokensSold' = VIRTUAL_TOKENS_0
  BY <1>1, <1>2, <1>4, CurveAssumption DEF TradesInv
<1>6. VIRTUAL_USDC_0 * VIRTUAL_TOKENS_0 <= virtualUsdc' * virtualTokens'
  <2> DEFINE k == virtualUsdc * virtualTokens
             j == virtualUsdc' * virtualTokens'
             c == VIRTUAL_USDC_0 * VIRTUAL_TOKENS_0
  <2>1. c <= k /\ k \in Nat /\ j \in Nat /\ c \in Nat
    <3>1. c <= k
      BY DEF TradesInv
    <3>2. k \in Nat
      BY DEF TradesInv
    <3>3. j \in Nat
      <4>1. virtualUsdc' \in Nat /\ virtualTokens' \in Nat
        BY <1>5
      <4> QED BY <4>1, ProductNat
    <3> QED BY <3>1, <3>2, <3>3, StartProduct
  <2>2. j >= k
    BY <1>1, <1>4
  <2> HIDE DEF k, j, c
  <2>3. c <= j
    BY <2>1, <2>2
  <2> QED BY <2>3 DEF c, j
<1>7. 0 < virtualUsdc'
  <2> DEFINE a == virtualUsdc'
             b == virtualTokens'
             c == VIRTUAL_USDC_0 * VIRTUAL_TOKENS_0
  <2>1. a \in Nat /\ b \in Nat /\ c \in Nat /\ 0 < c /\ c <= a * b
    BY <1>5, <1>6, StartProduct
  <2> HIDE DEF a, b, c
  <2>2. 0 < a
    BY <2>1, ProductPositive
  <2> QED BY <2>2 DEF a
<1>8. soldOut = FALSE
  BY <1>1 DEF TradesInv
<1>9. soldOut' \in BOOLEAN /\ (soldOut' <=> tokensSold' = CURVE_SUPPLY)
  <2>1. tokensSold' # CURVE_SUPPLY
    BY <1>5, CurveAssumption
  <2> QED BY <1>1, <1>8, <2>1
<1>10. creatorFeeBps' \in Nat /\ FEE_BPS + creatorFeeBps' < BPS
  BY <1>1 DEF TradesInv
<1>11. tokensSold' <= CURVE_SUPPLY
  BY <1>5, CurveAssumption
<1> QED BY <1>5, <1>6, <1>7, <1>9, <1>10, <1>11 DEF TradesInv

(* Every sequence of trades keeps the numbers of a curve in TradesInv. *)
THEOREM TradesInvariance == TradesSpec => []TradesInv
<1>1. TradesInit => TradesInv
  BY TradesStart
<1>2. TradesInv /\ [TradesNext]_tradesVars => TradesInv'
  <2> SUFFICES ASSUME TradesInv, [TradesNext]_tradesVars PROVE TradesInv'
    OBVIOUS
  <2>1. ASSUME NEW usdcIn \in BuyAmounts, Buy(usdcIn) PROVE TradesInv'
    BY <2>1, CurveAssumption, BuyKeepsInv
  <2>2. ASSUME NEW tokensIn \in SellAmounts, Sell(tokensIn) PROVE TradesInv'
    BY <2>2, CurveAssumption, SellKeepsInv
  <2>3. CASE UNCHANGED tradesVars
    BY <2>3 DEF tradesVars, TradesInv
  <2> QED BY <2>1, <2>2, <2>3 DEF TradesNext
<1> QED BY <1>1, <1>2, PTL DEF TradesSpec

-----------------------------------------------------------------------------
(* In every such state the curve keeps its word, part by part. *)
LEMMA AlwaysBuysBack == TradesInv => BuysBackEverything
<1> SUFFICES ASSUME TradesInv PROVE BuysBackEverything
  OBVIOUS
<1> DEFINE u == virtualUsdc
           t == virtualTokens
           q == CalcSell(u, t, tokensSold, tokensSold, creatorFeeBps)
           left == u - q.gross
<1>1. u \in Nat /\ t \in Nat /\ tokensSold \in Nat /\ 0 < t
      /\ t + tokensSold = VIRTUAL_TOKENS_0 /\ VIRTUAL_USDC_0 * VIRTUAL_TOKENS_0 <= u * t
  BY CurveAssumption DEF TradesInv
<1>2. q.gross \in Int /\ left * (t + tokensSold) >= u * t
  BY <1>1, SellExact
<1> HIDE DEF q
<1>3. left \in Int
  BY <1>1, <1>2
<1> HIDE DEF left
<1>4. VIRTUAL_USDC_0 * VIRTUAL_TOKENS_0 <= left * VIRTUAL_TOKENS_0
  <2> DEFINE k == u * t
             c == VIRTUAL_USDC_0 * VIRTUAL_TOKENS_0
             j == left * VIRTUAL_TOKENS_0
  <2>1. c <= k /\ j >= k
    BY <1>1, <1>2
  <2>2. c \in Int /\ k \in Int /\ j \in Int
    BY <1>1, <1>3, CurveAssumption
  <2> HIDE DEF c, k, j
  <2>3. c <= j
    BY <2>1, <2>2
  <2> QED BY <2>3 DEF c, j
<1>5. VIRTUAL_USDC_0 <= left
  BY <1>3, <1>4, StartProduct, CurveAssumption, FactorOut
<1>6. q.gross <= u - VIRTUAL_USDC_0
  BY <1>1, <1>2, <1>5, CurveAssumption DEF left
<1> QED BY <1>6 DEF BuysBackEverything, q

LEMMA AlwaysExact == TradesInv => QuotesAreExact
<1> SUFFICES ASSUME TradesInv PROVE QuotesAreExact
  OBVIOUS
<1>1. /\ virtualUsdc \in Nat /\ 0 < virtualUsdc
      /\ virtualTokens \in Nat /\ 0 < virtualTokens /\ creatorFeeBps \in Nat
  BY CurveAssumption DEF TradesInv
<1>2. ASSUME NEW x \in BuyAmounts, BuyQuote(x).ok, ~BuyQuote(x).graduates
      PROVE  LET q == BuyQuote(x)
                 net == q.usdcSpent - q.platformFee - q.creatorFee
             IN  /\ (virtualUsdc + net) * (virtualTokens - q.tokensOut)
                      >= virtualUsdc * virtualTokens
                 /\ (virtualUsdc + net) * (virtualTokens - q.tokensOut - 1)
                      < virtualUsdc * virtualTokens
  <2> DEFINE q == BuyQuote(x)
  <2>1. x \in Nat
    BY CurveAssumption
  <2>2. q = NormalBuy(virtualUsdc, virtualTokens, x, creatorFeeBps) /\ q.ok
    BY <1>2, NotTheLastBuy DEF BuyQuote
  <2>3. /\ q.usdcSpent - q.platformFee - q.creatorFee = Net(x, creatorFeeBps)
        /\ (virtualUsdc + Net(x, creatorFeeBps)) * (virtualTokens - q.tokensOut)
             >= virtualUsdc * virtualTokens
        /\ (virtualUsdc + Net(x, creatorFeeBps)) * (virtualTokens - q.tokensOut - 1)
             < virtualUsdc * virtualTokens
    <3> HIDE DEF q
    <3>1. NormalBuy(virtualUsdc, virtualTokens, x, creatorFeeBps).ok
      BY <2>2
    <3> QED BY <1>1, <2>1, <2>2, <3>1, NormalBuyLeaves
  <2> HIDE DEF q
  <2> QED BY <2>3 DEF q
<1>3. ASSUME NEW n \in SellAmounts, SellQuote(n).ok
      PROVE  LET q == SellQuote(n)
             IN  /\ (virtualUsdc - q.gross) * (virtualTokens + n)
                      >= virtualUsdc * virtualTokens
                 /\ (virtualUsdc - q.gross - 1) * (virtualTokens + n)
                      < virtualUsdc * virtualTokens
  BY <1>1, CurveAssumption, SellExact DEF SellQuote
<1> QED BY <1>2, <1>3 DEF QuotesAreExact

LEMMA NeverOverdrawn == TradesInv => CapNeverBinds
<1> SUFFICES ASSUME TradesInv, NEW x \in BuyAmounts, BuyQuote(x).ok, BuyQuote(x).graduates
             PROVE  LET q   == BuyQuote(x)
                        net == FillNet(virtualUsdc, virtualTokens, Remaining)
                        fees == q.platformFee + q.creatorFee
                    IN  /\ FillGross(net, FEE_BPS + creatorFeeBps) <= x
                        /\ fees * BPS >= q.usdcSpent * (FEE_BPS + creatorFeeBps)
                        /\ q.platformFee * BPS >= q.usdcSpent * FEE_BPS
                        /\ q.creatorFee >= 0
  BY DEF CapNeverBinds
<1>1. /\ virtualUsdc \in Nat /\ 0 < virtualUsdc
      /\ virtualTokens \in Nat /\ creatorFeeBps \in Nat /\ FEE_BPS + creatorFeeBps < BPS
      /\ Remaining \in Nat /\ Remaining < virtualTokens /\ x \in Nat
  BY CurveAssumption DEF TradesInv, Remaining
<1> QED BY <1>1, FillCoversItsFees DEF BuyQuote

LEMMA TurningBackLoses == TradesInv => RoundTripLoses
<1> SUFFICES ASSUME TradesInv, NEW x \in BuyAmounts
             PROVE  LET q == BuyQuote(x)
                        back == CalcSell(virtualUsdc + q.usdcSpent - q.platformFee - q.creatorFee,
                                         virtualTokens - q.tokensOut, tokensSold + q.tokensOut,
                                         q.tokensOut, creatorFeeBps)
                    IN  q.ok /\ ~q.graduates /\ back.ok => back.usdcOut < q.usdcSpent
  BY DEF RoundTripLoses
<1>1. /\ virtualUsdc \in Nat /\ 0 < virtualUsdc /\ tokensSold \in Nat
      /\ virtualTokens \in Nat /\ creatorFeeBps \in Nat
      /\ Remaining \in Nat /\ x \in Nat
  BY CurveAssumption DEF TradesInv, Remaining
<1> QED BY <1>1, RoundTrip DEF BuyQuote

LEMMA CuttingUpHardlyPays == TradesInv => SplittingHardlyPays
<1> SUFFICES ASSUME TradesInv PROVE SplittingHardlyPays
  OBVIOUS
<1>1. /\ virtualUsdc \in Nat /\ 0 < virtualUsdc /\ tokensSold \in Nat
      /\ virtualTokens \in Nat /\ 0 < virtualTokens
      /\ creatorFeeBps \in Nat /\ FEE_BPS + creatorFeeBps < BPS
      /\ Remaining \in Nat
  BY CurveAssumption DEF TradesInv, Remaining
<1>2. ASSUME NEW x \in BuyAmounts, NEW y \in BuyAmounts
      PROVE  LET whole  == BuyQuote(x + y)
                 first  == BuyQuote(x)
                 second == CalcBuy(virtualUsdc + x - first.platformFee - first.creatorFee,
                                   virtualTokens - first.tokensOut,
                                   Remaining - first.tokensOut, y, creatorFeeBps)
             IN  whole.ok /\ ~whole.graduates /\ first.ok /\ ~first.graduates /\ second.ok =>
                   first.tokensOut + second.tokensOut <= whole.tokensOut
  <2>1. x \in Nat /\ y \in Nat
    BY CurveAssumption
  <2> QED BY <1>1, <2>1, TwoBuys DEF BuyQuote
<1>3. ASSUME NEW m \in SellAmounts, NEW n \in SellAmounts
      PROVE  LET whole  == SellQuote(m + n)
                 first  == SellQuote(m)
                 second == CalcSell(virtualUsdc - first.gross, virtualTokens + m,
                                    tokensSold - m, n, creatorFeeBps)
             IN  whole.ok /\ first.ok /\ second.ok =>
                   first.usdcOut + second.usdcOut <= whole.usdcOut + 1
  <2>1. m \in Nat /\ n \in Nat
    BY CurveAssumption
  <2> QED BY <1>1, <2>1, TwoSells DEF SellQuote
<1> QED BY <1>2, <1>3 DEF SplittingHardlyPays

(* After any trades on any curve: the USDC it raised covers buying every   *)
(* token back, every quote is exact to the unit in the curve's favour, the *)
(* sell-out buy never pulls more than was offered and collects its fees,   *)
(* turning a trade back loses, and cutting one up gains a unit at most     *)
(* (_calcBuy, _calcSell and V13-SPEC 6).                                   *)
THEOREM CurvesKeepTheirWord == TradesSpec => []CurveKeepsItsWord
<1>1. TradesInv => CurveKeepsItsWord
  BY AlwaysBuysBack, AlwaysExact, NeverOverdrawn, TurningBackLoses, CuttingUpHardlyPays
  DEF CurveKeepsItsWord, TradingPlaysLose
<1> QED BY <1>1, TradesInvariance, PTL

-----------------------------------------------------------------------------
(* The token. *)

StreamType ==
  /\ now \in Nat
  /\ eligible \in Int
  /\ lastAccrual \in Nat /\ end \in Nat /\ rate \in Nat /\ perShare \in Nat

LedgerType ==
  /\ bal \in [Accounts -> Nat]
  /\ corrections \in [Accounts -> Int]
  /\ claimed \in [Accounts -> Nat]

IInv == StreamType /\ LedgerType /\ EndsWithinPeriod /\ ClaimsCovered

-----------------------------------------------------------------------------
(* The quotient and its remainder. *)
LEMMA Quotients ==
  ASSUME NEW a \in Int, NEW d \in Nat, 0 < d
  PROVE  /\ a \div d \in Int
         /\ d * (a \div d) <= a
         /\ a < d * (a \div d) + d
OBVIOUS

(* A natural number divides to a natural number. *)
LEMMA QuotientNat ==
  ASSUME NEW a \in Nat, NEW d \in Nat, 0 < d
  PROVE  a \div d \in Nat
<1>1. /\ a \div d \in Int /\ a < d * (a \div d) + d
  BY Quotients
<1>2. SUFFICES ASSUME a \div d < 0 PROVE FALSE
  BY <1>1
<1> DEFINE q == a \div d
<1>3. q \in Int /\ q + 1 <= 0 /\ a < d * q + d
  BY <1>1, <1>2
<1> HIDE DEF q
<1>4. d * (q + 1) <= d * 0 /\ d * (q + 1) = d * q + d * 1
  BY <1>3, Products
<1> QED BY <1>3, <1>4

(* A weight of at most one takes at most the whole. *)
LEMMA WeightedPart ==
  ASSUME NEW x \in Nat, NEW y \in Nat, 0 < x, NEW g \in Nat
  PROVE  /\ (x * g) \div (y + x) \in Nat
         /\ (x * g) \div (y + x) <= g
<1> DEFINE d == y + x
           q == (x * g) \div d
<1>1. d \in Nat /\ 0 < d /\ x <= d
  OBVIOUS
<1>2. x * g \in Nat
  BY Products
<1>3. q \in Nat /\ d * q <= x * g
  BY <1>1, <1>2, Quotients, QuotientNat
<1>4. x * g <= d * g
  <2>1. g * x <= g * d
    BY <1>1, Products
  <2> QED BY <2>1, <1>1, Products
<1> SUFFICES ASSUME q > g PROVE FALSE
  BY <1>3
<1> HIDE DEF d, q
<1>5. d * (g + 1) <= d * q /\ d * (g + 1) = d * g + d * 1
  BY <1>1, <1>3, Products
<1> QED BY <1>1, <1>2, <1>3, <1>4, <1>5, Products

-----------------------------------------------------------------------------
(* The stream brought up to now: the per-share value does not fall, and if *)
(* the stream still runs it does so from now and for a period at most.     *)
AccruedFacts(s) ==
  /\ s.last \in Nat /\ s.end \in Nat /\ s.perShare \in Nat
  /\ s.perShare >= perShare
  /\ s.last <= now
  /\ s.last < s.end => s.last = now
  /\ s.end <= now + DRIP_PERIOD
  /\ s.last < s.end => s.end - s.last <= DRIP_PERIOD

(* Bringing the stream up to now keeps its bounds (_accrue). *)
LEMMA AccruedOK ==
  ASSUME StreamType, EndsWithinPeriod
  PROVE  AccruedFacts(Accrued)
<1> USE TokenAssumption DEF StreamType, EndsWithinPeriod
<1>1. CASE lastAccrual >= end
  <2>1. Accrued = [last |-> lastAccrual, end |-> end, perShare |-> perShare]
    BY <1>1 DEF Accrued
  <2> QED BY <1>1, <2>1 DEF AccruedFacts
<1>2. CASE lastAccrual < end /\ Paused
  <2>1. Accrued = [last |-> now, end |-> end + (now - lastAccrual), perShare |-> perShare]
    BY <1>2 DEF Accrued
  <2> QED BY <1>2, <2>1 DEF AccruedFacts
<1>3. CASE lastAccrual < end /\ ~Paused
  <2> DEFINE upTo == Least(now, end)
             paid == (rate * (upTo - lastAccrual)) \div eligible
  <2>1. /\ upTo \in Nat /\ lastAccrual <= upTo /\ upTo <= now
        /\ upTo < end => upTo = now
        /\ upTo <= end
    BY <1>3 DEF Least
  <2>2. eligible \in Nat /\ 0 < eligible
    BY <1>3 DEF Paused
  <2>3. rate * (upTo - lastAccrual) \in Nat
    <3>1. upTo - lastAccrual \in Nat
      BY <2>1
    <3> HIDE DEF upTo
    <3> QED BY <3>1, Products
  <2>4. paid \in Nat
    BY <2>2, <2>3, QuotientNat
  <2>5. Accrued = [last |-> upTo, end |-> end, perShare |-> perShare + paid]
    BY <1>3 DEF Accrued
  <2> HIDE DEF paid, upTo
  <2> QED BY <1>3, <2>1, <2>4, <2>5 DEF AccruedFacts
<1> QED BY <1>1, <1>2, <1>3

(* A step that accrues keeps the stream within its bounds. *)
LEMMA AccrueStream ==
  ASSUME StreamType, EndsWithinPeriod, Accrue,
         now' = now, rate' = rate, eligible' \in Int
  PROVE  StreamType' /\ EndsWithinPeriod' /\ perShare' >= perShare
BY AccruedOK DEF AccruedFacts, Accrue, StreamType, EndsWithinPeriod

(* What a holder has earned does not fall when the per-share value rises.  *)
LEMMA MagnifiedGrows ==
  ASSUME NEW b \in Nat, NEW c \in Int, NEW x \in Nat, NEW y \in Nat, x <= y
  PROVE  x * b + c <= y * b + c
<1>1. b * x <= b * y /\ b * x = x * b /\ b * y = y * b
  BY Products
<1>2. x * b \in Nat /\ y * b \in Nat
  BY Products
<1> QED BY <1>1, <1>2

(* An account either earns or is excluded. *)
LEMMA AccountsSplit ==
  /\ \A a \in Earning : a \in Accounts /\ a \notin Excluded
  /\ \A a \in Accounts : a \in Earning \/ a \in Excluded
BY TokenAssumption DEF Accounts

(* A step of the stream that leaves the ledger alone keeps claims covered. *)
LEMMA ClaimsStayCovered ==
  ASSUME StreamType, LedgerType, ClaimsCovered, perShare' \in Nat, perShare' >= perShare,
         UNCHANGED <<bal, corrections, claimed>>
  PROVE  ClaimsCovered'
<1> SUFFICES ASSUME NEW a \in Accounts
             PROVE  /\ Magnified(a, perShare)' >= MAGNITUDE * claimed'[a]
                    /\ a \in Excluded => claimed'[a] = 0 /\ corrections'[a] = 0
  BY DEF ClaimsCovered
<1>1. /\ Magnified(a, perShare) >= MAGNITUDE * claimed[a]
      /\ a \in Excluded => claimed[a] = 0 /\ corrections[a] = 0
  BY DEF ClaimsCovered
<1>2. CASE a \in Earning
  <2>1. /\ Magnified(a, perShare) = perShare * bal[a] + corrections[a]
        /\ Magnified(a, perShare)' = perShare' * bal[a] + corrections[a]
    BY <1>2 DEF Magnified
  <2>2. bal[a] \in Nat /\ corrections[a] \in Int /\ perShare \in Nat /\ claimed[a] \in Nat
    BY DEF LedgerType, StreamType
  <2>3. perShare * bal[a] + corrections[a] <= perShare' * bal[a] + corrections[a]
    BY <2>2, MagnifiedGrows
  <2>4. perShare * bal[a] \in Nat /\ perShare' * bal[a] \in Nat /\ MAGNITUDE * claimed[a] \in Nat
    BY <2>2, Products, TokenAssumption
  <2> QED BY <1>1, <2>1, <2>2, <2>3, <2>4
<1>3. CASE a \notin Earning
  BY <1>1, <1>3 DEF Magnified
<1> QED BY <1>2, <1>3

-----------------------------------------------------------------------------
(* The actions. *)

(* A token that was just launched has no stream and no claims. *)
LEMMA InitInv == Init => IInv
<1> SUFFICES ASSUME Init PROVE IInv
  OBVIOUS
<1>1. StreamType /\ LedgerType /\ EndsWithinPeriod
  BY TokenAssumption DEF Init, StreamType, LedgerType, EndsWithinPeriod
<1>2. ClaimsCovered
  <2> SUFFICES ASSUME NEW a \in Accounts
               PROVE  Magnified(a, perShare) >= MAGNITUDE * claimed[a]
    BY DEF Init, ClaimsCovered
  <2>1. perShare = 0 /\ bal[a] \in Nat /\ corrections[a] = 0 /\ claimed[a] = 0
    BY TokenAssumption DEF Init
  <2> QED BY <2>1, TokenAssumption DEF Magnified
<1> QED BY <1>1, <1>2 DEF IInv

(* A deposit weights the end of the stream to within a period from now. *)
LEMMA DistributeInv ==
  ASSUME IInv, NEW amount \in Nat, Distribute(amount)
  PROVE  IInv'
<1> DEFINE s == Accrued
           owed == IF s.end > now THEN rate * (s.end - now) ELSE 0
           added == amount * MAGNITUDE
           from == Most(s.end, now)
           room == (now + DRIP_PERIOD) - from
           part == (added * room) \div (owed + added)
           newEnd == WeightedEnd(owed, s.end, added)
<1>1. /\ StreamType /\ LedgerType /\ EndsWithinPeriod /\ ClaimsCovered
      /\ now \in Nat /\ rate \in Nat
  BY DEF IInv, StreamType
<1>2. AccruedFacts(s)
  BY <1>1, AccruedOK
<1>3. /\ amount > 0
      /\ rate' = (owed + added) \div (newEnd - now)
      /\ lastAccrual' = now /\ end' = newEnd /\ perShare' = s.perShare
      /\ UNCHANGED <<now, ledger, claimed>>
  BY Zenon DEF Distribute
<1>5. s.end \in Nat /\ s.perShare \in Nat /\ s.perShare >= perShare /\ s.end <= now + DRIP_PERIOD
  BY <1>2 DEF AccruedFacts
<1> HIDE DEF s
<1>6. owed \in Nat
  <2>1. s.end > now => s.end - now \in Nat
    BY <1>1, <1>5
  <2> QED BY <1>1, <2>1, Products
<1>7. added \in Nat /\ 0 < added
  <2>1. MAGNITUDE * 1 <= MAGNITUDE * amount
    BY <1>3, TokenAssumption, Products
  <2> QED BY <2>1, TokenAssumption, Products
<1>8. from \in Nat /\ room \in Nat /\ from >= now
  BY <1>1, <1>5, TokenAssumption DEF Most
<1> HIDE DEF owed, added
<1>4. newEnd = Most(from + part, now + 1)
  BY DEF WeightedEnd
<1> HIDE DEF from, room, newEnd
<1>9. part \in Nat /\ part <= room
  BY <1>6, <1>7, <1>8, WeightedPart
<1> HIDE DEF part
<1>10. newEnd \in Nat /\ newEnd > now /\ newEnd <= now + DRIP_PERIOD
  BY <1>1, <1>4, <1>8, <1>9, TokenAssumption DEF Most, room
<1>11. rate' \in Nat
  BY <1>1, <1>3, <1>6, <1>7, <1>10, QuotientNat
<1>12. StreamType' /\ EndsWithinPeriod'
  BY <1>1, <1>3, <1>5, <1>10, <1>11, TokenAssumption
     DEF StreamType, EndsWithinPeriod, ledger
<1>13. LedgerType'
  BY <1>1, <1>3 DEF LedgerType, ledger
<1>14. ClaimsCovered'
  BY <1>1, <1>3, <1>5, ClaimsStayCovered DEF ledger
<1> QED BY <1>12, <1>13, <1>14 DEF IInv

(* A claim takes no more than was earned. *)
LEMMA ClaimInv ==
  ASSUME IInv, NEW a \in Accounts, Claim(a)
  PROVE  IInv'
<1> DEFINE share == Accrued.perShare
           amount == Accumulated(a, share) - claimed[a]
<1>1. StreamType /\ LedgerType /\ EndsWithinPeriod /\ ClaimsCovered
  BY DEF IInv
<1>2. /\ Magnified(a, share) >= 0 /\ amount >= 0
      /\ Accrue /\ perShare' = share
      /\ claimed' = [claimed EXCEPT ![a] = @ + amount]
      /\ UNCHANGED <<now, ledger, rate>>
  BY Zenon DEF Claim, Accrue
<1>3. share \in Nat /\ share >= perShare
  BY <1>1, AccruedOK DEF AccruedFacts
<1> HIDE DEF share
<1>4. StreamType' /\ EndsWithinPeriod'
  BY <1>1, <1>2, AccrueStream DEF StreamType, ledger
<1>5. Magnified(a, share) \in Int
  <2>1. a \in Earning => bal[a] \in Nat /\ corrections[a] \in Int
    BY <1>1 DEF LedgerType
  <2>2. a \in Earning => share * bal[a] \in Nat
    BY <1>3, <2>1, Products
  <2> QED BY <2>1, <2>2 DEF Magnified
<1>6. /\ Accumulated(a, share) \in Nat
      /\ MAGNITUDE * Accumulated(a, share) <= Magnified(a, share)
  BY <1>2, <1>5, TokenAssumption, Quotients, QuotientNat DEF Accumulated
<1>7. claimed[a] \in Nat
  BY <1>1 DEF LedgerType
<1>8. claimed' = [claimed EXCEPT ![a] = Accumulated(a, share)]
  <2>1. claimed[a] + amount = Accumulated(a, share)
    BY <1>6, <1>7
  <2> HIDE DEF amount
  <2> QED BY <1>2, <2>1, Zenon
<1>9. LedgerType'
  BY <1>1, <1>2, <1>6, <1>8 DEF LedgerType, ledger
<1>10. UNCHANGED <<bal, corrections>>
  BY <1>2 DEF ledger
<1>11. ASSUME NEW b \in Accounts
       PROVE  /\ Magnified(b, perShare)' >= MAGNITUDE * claimed'[b]
              /\ b \in Excluded => claimed'[b] = 0 /\ corrections'[b] = 0
  <2>1. Magnified(b, perShare)' = Magnified(b, share)
    BY <1>2, <1>10 DEF Magnified
  <2>2. CASE b = a
    <3>1. claimed'[b] = Accumulated(a, share)
      BY <1>1, <1>8, <2>2 DEF LedgerType
    <3>2. a \in Excluded => Magnified(a, share) = 0
      BY AccountsSplit DEF Magnified
    <3>3. a \in Excluded => Accumulated(a, share) = 0
      <4> SUFFICES ASSUME a \in Excluded PROVE Accumulated(a, share) = 0
        OBVIOUS
      <4>1. MAGNITUDE * Accumulated(a, share) <= 0
        BY <1>6, <3>2
      <4> DEFINE q == Accumulated(a, share)
      <4>2. q \in Nat
        BY <1>6
      <4> HIDE DEF q
      <4>3. q > 0 => MAGNITUDE * 1 <= MAGNITUDE * q
        BY <4>2, TokenAssumption, Products
      <4> QED BY <4>1, <4>2, <4>3, TokenAssumption DEF q
    <3>4. a \in Excluded => corrections[a] = 0
      BY <1>1 DEF ClaimsCovered
    <3> QED BY <1>6, <1>10, <2>1, <2>2, <3>1, <3>3, <3>4
  <2>3. CASE b # a
    <3>1. claimed'[b] = claimed[b]
      BY <1>1, <1>8, <2>3 DEF LedgerType
    <3>2. /\ Magnified(b, perShare) >= MAGNITUDE * claimed[b]
          /\ b \in Excluded => claimed[b] = 0 /\ corrections[b] = 0
      BY <1>1 DEF ClaimsCovered
    <3>3. /\ Magnified(b, perShare) <= Magnified(b, share)
          /\ Magnified(b, perShare) \in Int /\ Magnified(b, share) \in Int
      <4>1. bal[b] \in Nat /\ corrections[b] \in Int /\ perShare \in Nat
        BY <1>1 DEF LedgerType, StreamType
      <4>2. perShare * bal[b] \in Nat /\ share * bal[b] \in Nat
        BY <1>3, <4>1, Products
      <4>3. perShare * bal[b] + corrections[b] <= share * bal[b] + corrections[b]
        BY <1>3, <4>1, MagnifiedGrows
      <4> QED BY <4>1, <4>2, <4>3 DEF Magnified
    <3>4. MAGNITUDE * claimed[b] \in Nat
      BY <1>1, Products, TokenAssumption DEF LedgerType
    <3> QED BY <1>10, <2>1, <3>1, <3>2, <3>3, <3>4
  <2> QED BY <2>2, <2>3
<1>12. ClaimsCovered'
  BY <1>11 DEF ClaimsCovered
<1> QED BY <1>4, <1>9, <1>12 DEF IInv

(* Tokens move from one account to another, or out of existence: balances  *)
(* stay natural, and what each account has earned at the accrued per-share *)
(* value is what it had earned at that value before the move.              *)
LEMMA UpdateLedger ==
  ASSUME StreamType, LedgerType, EndsWithinPeriod,
         NEW from \in Accounts, NEW to, NEW value \in Nat, Update(from, to, value)
  PROVE  /\ LedgerType'
         /\ \A a \in Earning :
              perShare' * bal'[a] + corrections'[a] = perShare' * bal[a] + corrections[a]
         /\ \A a \in Excluded : corrections'[a] = corrections[a]
<1> DEFINE g(a) == Gained(a, from, to, value)
<1>1. /\ bal[from] >= value /\ Accrue
      /\ bal' = [a \in Accounts |-> bal[a] + g(a)]
      /\ corrections' = [a \in Accounts |-> IF a \in Earning THEN Correction(a, g(a))
                                                            ELSE corrections[a]]
      /\ claimed' = claimed
  BY Zenon DEF Update, cash
<1>2. perShare' \in Nat
  BY <1>1, AccruedOK DEF AccruedFacts, Accrue
<1>3. \A a \in Accounts : bal[a] \in Nat /\ corrections[a] \in Int
  BY DEF LedgerType
<1>4. \A a \in Accounts : g(a) \in Int /\ bal[a] + g(a) \in Nat
  BY <1>1, <1>3 DEF Gained
<1> HIDE DEF g
<1>5. \A a \in Accounts : Correction(a, g(a)) = corrections[a] - perShare' * g(a)
  BY DEF Correction
<1>6. \A a \in Accounts : perShare' * g(a) \in Int /\ corrections'[a] \in Int
  BY <1>1, <1>2, <1>3, <1>4, <1>5
<1>7. LedgerType'
  BY <1>1, <1>4, <1>6 DEF LedgerType
<1>8. ASSUME NEW a \in Earning
      PROVE  perShare' * bal'[a] + corrections'[a] = perShare' * bal[a] + corrections[a]
  <2>1. a \in Accounts
    BY AccountsSplit
  <2>2. bal'[a] = bal[a] + g(a) /\ corrections'[a] = corrections[a] - perShare' * g(a)
    BY <1>1, <1>5, <2>1
  <2>3. bal[a] \in Int /\ g(a) \in Int /\ perShare' \in Int
    BY <1>2, <1>3, <1>4, <2>1
  <2>4. perShare' * (bal[a] + g(a)) = perShare' * bal[a] + perShare' * g(a)
    BY <2>3, Products
  <2>5. perShare' * bal[a] \in Int /\ perShare' * g(a) \in Int /\ corrections[a] \in Int
    BY <1>3, <2>1, <2>3
  <2> QED BY <2>2, <2>4, <2>5
<1>9. ASSUME NEW a \in Excluded PROVE corrections'[a] = corrections[a]
  BY <1>1, AccountsSplit DEF Accounts
<1> QED BY <1>7, <1>8, <1>9

(* A move accrues first and leaves what everyone has earned. *)
LEMMA UpdateInv ==
  ASSUME IInv, NEW from \in Accounts, NEW to, NEW value \in Nat, Update(from, to, value)
  PROVE  IInv'
<1>1. StreamType /\ LedgerType /\ EndsWithinPeriod /\ ClaimsCovered
  BY DEF IInv
<1>2. /\ Accrue /\ now' = now /\ rate' = rate /\ claimed' = claimed
      /\ eligible' = EligibleAfter(from, to, value)
  BY Zenon DEF Update, cash
<1>3. eligible' \in Int
  BY <1>1, <1>2 DEF EligibleAfter, StreamType
<1>4. StreamType' /\ EndsWithinPeriod' /\ perShare' >= perShare
  BY <1>1, <1>2, <1>3, AccrueStream
<1>5. LedgerType'
  BY <1>1, UpdateLedger
<1>6. ASSUME NEW a \in Accounts
      PROVE  /\ Magnified(a, perShare)' >= MAGNITUDE * claimed'[a]
             /\ a \in Excluded => claimed'[a] = 0 /\ corrections'[a] = 0
  <2>1. /\ Magnified(a, perShare) >= MAGNITUDE * claimed[a]
        /\ a \in Excluded => claimed[a] = 0 /\ corrections[a] = 0
    BY <1>1 DEF ClaimsCovered
  <2>2. CASE a \in Earning
    <3>1. /\ Magnified(a, perShare) = perShare * bal[a] + corrections[a]
          /\ Magnified(a, perShare)' = perShare' * bal'[a] + corrections'[a]
      BY <2>2 DEF Magnified
    <3>2. perShare' * bal'[a] + corrections'[a] = perShare' * bal[a] + corrections[a]
      BY <1>1, <2>2, UpdateLedger
    <3>3. /\ bal[a] \in Nat /\ corrections[a] \in Int /\ perShare \in Nat
          /\ perShare' \in Nat /\ claimed[a] \in Nat
      BY <1>1, <1>4 DEF LedgerType, StreamType
    <3>4. perShare * bal[a] + corrections[a] <= perShare' * bal[a] + corrections[a]
      BY <1>4, <3>3, MagnifiedGrows
    <3>5. /\ perShare * bal[a] \in Nat /\ perShare' * bal[a] \in Nat
          /\ MAGNITUDE * claimed[a] \in Nat
      BY <3>3, Products, TokenAssumption
    <3> QED BY <1>2, <2>1, <2>2, <3>1, <3>2, <3>3, <3>4, <3>5, AccountsSplit
  <2>3. CASE a \in Excluded
    <3>1. Magnified(a, perShare)' = 0 /\ MAGNITUDE * 0 = 0
      BY <2>3, AccountsSplit, TokenAssumption DEF Magnified
    <3>2. corrections'[a] = corrections[a]
      BY <1>1, <2>3, UpdateLedger
    <3> QED BY <1>2, <2>1, <2>3, <3>1, <3>2
  <2> QED BY <2>2, <2>3, AccountsSplit
<1>7. ClaimsCovered'
  BY <1>6 DEF ClaimsCovered
<1> QED BY <1>4, <1>5, <1>7 DEF IInv

(* Time, graduation and steps of others leave the stream and the ledger. *)
LEMMA SameInv ==
  ASSUME IInv, now' \in Nat, now' >= now,
         UNCHANGED <<bal, eligible, corrections, stream, rate, claimed>>
  PROVE  IInv'
<1>1. StreamType /\ LedgerType /\ EndsWithinPeriod /\ ClaimsCovered
  BY DEF IInv
<1>2. StreamType' /\ EndsWithinPeriod' /\ LedgerType'
  BY <1>1 DEF StreamType, EndsWithinPeriod, LedgerType, stream
<1>3. ClaimsCovered'
  BY <1>1, ClaimsStayCovered DEF StreamType, stream
<1> QED BY <1>2, <1>3 DEF IInv

(* Every step is one of time, a deposit, a claim, a move, or a graduation. *)
LEMMA Moves ==
  ASSUME Next
  PROVE  \/ \E seconds \in Steps : Tick(seconds)
         \/ \E amount \in Nat : Distribute(amount)
         \/ \E a \in Accounts : Claim(a)
         \/ \E from \in Accounts, to \in Accounts \cup {NoOne}, value \in Nat :
              Update(from, to, value)
         \/ MarkGraduated
<1>1. CASE \E seconds \in Steps : Tick(seconds)
  BY <1>1
<1>2. CASE \E amount \in Deposits : Distribute(amount)
  BY <1>2, TokenAssumption
<1>3. CASE \E a \in Accounts : Claim(a)
  BY <1>3
<1> USE TokenAssumption DEF Accounts, Earning, Excluded
<1>4. CASE \E from \in Users \cup {launchpad, pair}, to \in Recipients, value \in Amounts :
             Transfer(from, to, value)
  BY <1>4 DEF Transfer
<1>5. CASE \E from \in Users, value \in Amounts : Burn(from, value)
  BY <1>5 DEF Burn
<1>6. CASE \E from \in Users, to \in {launchpad, pair}, value \in Amounts :
             Pull(from, to, value)
  BY <1>6 DEF Pull
<1>7. CASE MarkGraduated
  BY <1>7
<1> QED BY <1>1, <1>2, <1>3, <1>4, <1>5, <1>6, <1>7 DEF Next

(* Every step preserves IInv. *)
LEMMA NextInv == IInv /\ [Next]_vars => IInv'
<1> SUFFICES ASSUME IInv, [Next]_vars PROVE IInv'
  OBVIOUS
<1>1. now \in Nat
  BY DEF IInv, StreamType
<1>2. CASE UNCHANGED vars
  BY <1>1, <1>2, SameInv DEF vars, ledger, cash
<1>3. ASSUME NEW seconds \in Steps, Tick(seconds) PROVE IInv'
  BY <1>1, <1>3, SameInv, TokenAssumption DEF Tick, ledger, cash
<1>4. ASSUME NEW amount \in Nat, Distribute(amount) PROVE IInv'
  BY <1>4, DistributeInv
<1>5. ASSUME NEW a \in Accounts, Claim(a) PROVE IInv'
  BY <1>5, ClaimInv
<1>6. ASSUME NEW from \in Accounts, NEW to, NEW value \in Nat, Update(from, to, value)
      PROVE  IInv'
  BY <1>6, UpdateInv
<1>7. CASE MarkGraduated
  BY <1>1, <1>7, SameInv DEF MarkGraduated, cash
<1> QED BY <1>2, <1>3, <1>4, <1>5, <1>6, <1>7, Moves

-----------------------------------------------------------------------------
(* The inductive invariant holds in every reachable state of LaunchToken.  *)
THEOREM TokenInvariance == Spec => []IInv
BY InitInv, NextInv, PTL DEF Spec

(* A running stream never ends more than DRIP_PERIOD after its last        *)
(* accrual, so distribute never reverts (LaunchToken._weightedEnd).        *)
THEOREM StreamBounded == Spec => []EndsWithinPeriod
<1>1. IInv => EndsWithinPeriod
  BY DEF IInv
<1> QED BY <1>1, TokenInvariance, PTL

(* What an account has earned covers what it has claimed, so _claim never  *)
(* reverts, and excluded accounts earn and claim nothing.                  *)
THEOREM ClaimsNeverRevert == Spec => []ClaimsCovered
<1>1. IInv => ClaimsCovered
  BY DEF IInv
<1> QED BY <1>1, TokenInvariance, PTL

-----------------------------------------------------------------------------
(* The stream was brought up to now, or does not run. *)
UpToDate == lastAccrual < end => lastAccrual = now

(* Bringing it up to now once more changes nothing. *)
LEMMA Settled == StreamType /\ UpToDate => Accrued.perShare = perShare
<1> SUFFICES ASSUME StreamType, UpToDate PROVE Accrued.perShare = perShare
  OBVIOUS
<1> USE DEF StreamType, UpToDate
<1>1. CASE lastAccrual >= end
  BY <1>1 DEF Accrued
<1>2. CASE lastAccrual < end /\ Paused
  BY <1>2 DEF Accrued
<1>3. CASE lastAccrual < end /\ ~Paused
  <2>1. Least(now, end) = lastAccrual
    BY <1>3 DEF Least
  <2>2. eligible \in Nat /\ 0 < eligible
    BY <1>3, TokenAssumption DEF Paused
  <2>3. rate * (lastAccrual - lastAccrual) = 0 /\ 0 \div eligible = 0
    BY <2>2
  <2>4. Accrued.perShare = perShare + (rate * (lastAccrual - lastAccrual)) \div eligible
    BY <1>3, <2>1 DEF Accrued
  <2> QED BY <2>3, <2>4
<1> QED BY <1>1, <1>2, <1>3

(* A step that leaves what everyone has earned at the accrued value.       *)
LEMMA EarnedKept ==
  ASSUME StreamType', UpToDate', perShare' = Accrued.perShare,
         \A a \in Earning : perShare' * bal'[a] + corrections'[a]
                              = perShare' * bal[a] + corrections[a]
  PROVE  EarnedNow' = EarnedNow
<1>1. Accrued.perShare' = Accrued.perShare
  <2>1. (StreamType /\ UpToDate => Accrued.perShare = perShare)'
    BY Settled, PTL
  <2> QED BY <2>1
<1>2. ASSUME NEW a \in Accounts
      PROVE  Accumulated(a, Accrued.perShare)' = Accumulated(a, Accrued.perShare)
  <2> DEFINE share == Accrued.perShare
  <2>1. share' = share /\ share = perShare'
    BY <1>1
  <2>2. \A b \in Earning : share * bal'[b] + corrections'[b] = share * bal[b] + corrections[b]
    BY <2>1
  <2>3. Accumulated(a, share)' = (IF a \in Earning THEN share' * bal'[a] + corrections'[a] ELSE 0)
                                   \div MAGNITUDE
    BY DEF Accumulated, Magnified
  <2>4. Accumulated(a, share) = (IF a \in Earning THEN share * bal[a] + corrections[a] ELSE 0)
                                  \div MAGNITUDE
    BY DEF Accumulated, Magnified
  <2> HIDE DEF share
  <2>5. Accumulated(a, share)' = Accumulated(a, share)
    BY <2>1, <2>2, <2>3, <2>4
  <2> QED BY <2>5 DEF share
<1> QED BY <1>2 DEF EarnedNow

(* No step within a block changes what anyone has earned. *)
LEMMA StepEarnsNothing ==
  ASSUME IInv, [Next]_vars, now' = now
  PROVE  EarnedNow' = EarnedNow
<1>1. /\ StreamType /\ LedgerType /\ EndsWithinPeriod /\ AccruedFacts(Accrued)
      /\ StreamType' /\ now \in Nat
  BY NextInv, AccruedOK DEF IInv, StreamType
<1>2. Accrue => UpToDate'
  BY <1>1 DEF Accrue, AccruedFacts, UpToDate
<1>3. CASE UNCHANGED <<ledger, stream, rate>>
  BY <1>3 DEF EarnedNow, Accumulated, Magnified, Accrued, Paused, ledger, stream
<1>4. ASSUME NEW amount \in Nat, Distribute(amount) PROVE EarnedNow' = EarnedNow
  <2>1. lastAccrual' = now /\ perShare' = Accrued.perShare /\ UNCHANGED <<bal, corrections>>
    BY <1>4 DEF Distribute, ledger
  <2> QED BY <1>1, <2>1, EarnedKept DEF UpToDate
<1>5. ASSUME NEW a \in Accounts, Claim(a) PROVE EarnedNow' = EarnedNow
  <2>1. Accrue /\ UNCHANGED <<bal, corrections>>
    BY <1>5 DEF Claim, ledger
  <2> QED BY <1>1, <1>2, <2>1, EarnedKept DEF Accrue
<1>6. ASSUME NEW from \in Accounts, NEW to, NEW value \in Nat, Update(from, to, value)
      PROVE  EarnedNow' = EarnedNow
  <2>1. Accrue
    BY <1>6 DEF Update
  <2>2. \A a \in Earning : perShare' * bal'[a] + corrections'[a]
                             = perShare' * bal[a] + corrections[a]
    BY <1>1, <1>6, UpdateLedger
  <2> QED BY <1>1, <1>2, <2>1, <2>2, EarnedKept DEF Accrue
<1>7. CASE MarkGraduated
  BY <1>7 DEF MarkGraduated, EarnedNow, Accumulated, Magnified, Accrued, Paused, stream
<1>8. ASSUME NEW seconds \in Steps, Tick(seconds) PROVE FALSE
  BY <1>1, <1>8, TokenAssumption DEF Tick
<1>9. CASE UNCHANGED vars
  BY <1>3, <1>9 DEF vars
<1> QED BY <1>4, <1>5, <1>6, <1>7, <1>8, <1>9, Moves

(* Holders earn by time passing and by nothing else: within a block no     *)
(* move, burn, deposit or claim changes what anyone has earned.            *)
THEOREM NothingEarnedInABlock == Spec => EarnsByTimeOnly
<1>1. IInv /\ [Next]_vars => [now' = now => EarnedNow' = EarnedNow]_vars
  BY StepEarnsNothing
<1> QED BY <1>1, TokenInvariance, PTL DEF Spec, EarnsByTimeOnly

-----------------------------------------------------------------------------
(* The totals: sums over the accounts. *)

(* There are finitely many accounts, so amounts can be summed over them. *)
LEMMA AccountsFinite == IsFiniteSet(Earning) /\ IsFiniteSet(Accounts)
<1>1. IsFiniteSet({Self}) /\ IsFiniteSet(Excluded)
  <2>1. IsFiniteSet({Self}) /\ IsFiniteSet({launchpad}) /\ IsFiniteSet({pair}) /\ IsFiniteSet({Dead})
    BY FS_Singleton
  <2>2. IsFiniteSet(({launchpad} \cup {pair}) \cup {Dead})
    BY <2>1, FS_Union
  <2>3. Excluded = ({launchpad} \cup {pair}) \cup {Dead}
    BY DEF Excluded
  <2> QED BY <2>1, <2>2, <2>3
<1> QED BY <1>1, FS_Union, TokenAssumption DEF Earning, Accounts

(* All the accounts have earned at a per-share value, magnified. *)
EarnedAt(share) == SumOver(Accounts, [a \in Accounts |-> Magnified(a, share)])

(* The sum of all earnings is linear in the per-share value. *)
LEMMA EarnedAtIs ==
  ASSUME LedgerType, NEW share \in Int
  PROVE  /\ EarnedAt(share) = SumOver(Earning, corrections) + share * SumOver(Earning, bal)
         /\ SumOver(Earning, corrections) \in Int
         /\ SumOver(Earning, bal) \in Nat
<1> DEFINE m == [a \in Accounts |-> Magnified(a, share)]
<1>1. /\ Earning \subseteq Accounts
      /\ \A a \in Earning : bal[a] \in Nat /\ corrections[a] \in Int
  BY DEF LedgerType, Accounts
<1>2. \A a \in Earning : m[a] = corrections[a] + share * bal[a] /\ share * bal[a] \in Int
  BY <1>1 DEF Magnified
<1>3. \A a \in Accounts : m[a] \in Int /\ (a \notin Earning => m[a] = 0)
  BY <1>1, <1>2 DEF Magnified
<1> HIDE DEF m
<1>4. SumOver(Accounts, m) = SumOver(Earning, m)
  BY <1>1, <1>3, AccountsFinite, SumPart
<1>5. SumOver(Earning, m) = SumOver(Earning, corrections) + share * SumOver(Earning, bal)
  BY <1>1, <1>2, AccountsFinite, SumLinear
<1>6. SumOver(Earning, corrections) \in Int /\ SumOver(Earning, bal) \in Nat
  BY <1>1, AccountsFinite, SumInt, SumNat
<1> QED BY <1>4, <1>5, <1>6 DEF EarnedAt, m

(* What an accrued stream still pays. *)
StillOf(s) == IF s.last < s.end THEN rate * (s.end - s.last) ELSE 0

(* An accrual pays the eligible supply all that leaves the stream but what *)
(* rounding takes: less than one magnified unit for each eligible unit.    *)
LEMMA AccrualRounds ==
  ASSUME StreamType, EndsWithinPeriod, eligible \in Nat
  PROVE  LET lost == (StillToPay - StillOf(Accrued)) - (Accrued.perShare - perShare) * eligible
         IN  /\ StillOf(Accrued) \in Nat /\ StillToPay \in Nat
             /\ lost \in Nat
             /\ lost <= IF eligible = 0 THEN 0 ELSE eligible - 1
<1> USE TokenAssumption DEF StreamType
<1>0. \A a, b \in Nat : a < b => rate * (b - a) \in Nat
  <2> SUFFICES ASSUME NEW a \in Nat, NEW b \in Nat, a < b PROVE rate * (b - a) \in Nat
    OBVIOUS
  <2>1. b - a \in Nat
    OBVIOUS
  <2> DEFINE d == b - a
  <2> HIDE DEF d
  <2> QED BY <2>1, Products DEF d
<1>1. StillToPay \in Nat
  BY <1>0 DEF StillToPay
<1>2. CASE lastAccrual >= end
  <2>1. Accrued = [last |-> lastAccrual, end |-> end, perShare |-> perShare]
    BY <1>2 DEF Accrued
  <2>2. StillOf(Accrued) = 0 /\ StillToPay = 0 /\ Accrued.perShare - perShare = 0
    BY <1>2, <2>1 DEF StillOf, StillToPay
  <2> QED BY <2>2
<1>3. CASE lastAccrual < end /\ Paused
  <2>1. Accrued = [last |-> now, end |-> end + (now - lastAccrual), perShare |-> perShare]
    BY <1>3 DEF Accrued
  <2>2. /\ (end + (now - lastAccrual)) - now = end - lastAccrual
        /\ now < end + (now - lastAccrual)
    BY <1>3
  <2>3. StillOf(Accrued) = StillToPay /\ Accrued.perShare - perShare = 0
    BY <1>3, <2>1, <2>2 DEF StillOf, StillToPay
  <2> QED BY <1>1, <2>3
<1>4. CASE lastAccrual < end /\ ~Paused
  <2> DEFINE upTo == Least(now, end)
             paid == rate * (upTo - lastAccrual)
             q == paid \div eligible
  <2>1. upTo \in Nat /\ lastAccrual <= upTo /\ upTo <= end
    BY <1>4 DEF Least, EndsWithinPeriod
  <2>2. 0 < eligible
    BY <1>4 DEF Paused
  <2>3. Accrued = [last |-> upTo, end |-> end, perShare |-> perShare + q]
    BY <1>4 DEF Accrued
  <2> HIDE DEF upTo
  <2>4. paid \in Nat
    BY <2>1, Products
  <2>5. q \in Nat /\ eligible * q <= paid /\ paid < eligible * q + eligible
    BY <2>2, <2>4, Quotients, QuotientNat
  <2>6. StillOf(Accrued) = rate * (end - upTo)
    BY <2>1, <2>3 DEF StillOf
  <2>7. rate * (end - upTo) \in Nat
    BY <2>1, Products
  <2>8. StillToPay = rate * (end - upTo) + paid
    BY <1>4, <2>1 DEF StillToPay
  <2>9. Accrued.perShare - perShare = q
    BY <2>3, <2>5
  <2>10. q * eligible = eligible * q /\ eligible * q \in Nat
    BY <2>5, Products
  <2> DEFINE x == rate * (end - upTo)
             y == eligible * q
  <2> HIDE DEF q, paid, x, y
  <2>11. x \in Nat /\ paid \in Nat /\ y \in Nat /\ y <= paid /\ paid < y + eligible
    BY <2>4, <2>5, <2>7, <2>10 DEF x, y
  <2>12. StillOf(Accrued) = x /\ StillToPay = x + paid
    BY <2>6, <2>8 DEF x
  <2>13. (Accrued.perShare - perShare) * eligible = y
    BY <2>9, <2>10 DEF y
  <2> QED BY <2>2, <2>11, <2>12, <2>13
<1> QED BY <1>2, <1>3, <1>4

(* Rounding loss an accrual may add. *)
AccrualLoss == IF eligible = 0 THEN 0 ELSE eligible - 1

AccruedDust == MAGNITUDE * totalDistributed - StillOf(Accrued) - EarnedAt(Accrued.perShare)

(* An accrual adds to the dust what its division drops, and nothing else. *)
LEMMA DustAccrued ==
  ASSUME StreamType, LedgerType, EndsWithinPeriod, EligibleTracked, totalDistributed \in Nat
  PROVE  /\ Dust \in Int /\ AccruedDust \in Int
         /\ AccruedDust - Dust \in Nat
         /\ AccruedDust - Dust <= AccrualLoss
         /\ eligible \in Nat /\ AccrualLoss \in Nat
<1>1. eligible \in Nat
  BY EarnedAtIs DEF EligibleTracked, StreamType
<1> DEFINE share == Accrued.perShare
           c == SumOver(Earning, corrections)
           x == StillToPay
           y == StillOf(Accrued)
           m == MAGNITUDE * totalDistributed
           e0 == EarnedAt(perShare)
           e1 == EarnedAt(share)
           p0 == perShare * eligible
           p1 == share * eligible
           d  == (share - perShare) * eligible
<1>2. share \in Nat /\ perShare \in Nat
  BY AccruedOK DEF AccruedFacts, StreamType
<1>3. /\ y \in Nat /\ x \in Nat
      /\ (x - y) - d \in Nat
      /\ (x - y) - d <= AccrualLoss
  BY <1>1, AccrualRounds DEF AccrualLoss
<1>4. Dust = m - x - e0
  BY DEF Dust, EarnedAt
<1>5. AccruedDust = m - y - e1
  BY DEF AccruedDust
<1> HIDE DEF share
<1>6. /\ e0 = c + p0 /\ e1 = c + p1 /\ c \in Int
  BY <1>2, EarnedAtIs DEF EligibleTracked
<1>7. d = p1 - p0 /\ p0 \in Int /\ p1 \in Int
  <2>1. eligible * (share - perShare) = eligible * share - eligible * perShare
    BY <1>1, <1>2, Products
  <2>2. d = eligible * (share - perShare) /\ p1 = eligible * share /\ p0 = eligible * perShare
    BY <1>1, <1>2, Products
  <2>3. p0 \in Int /\ p1 \in Int
    BY <1>1, <1>2, Products
  <2> QED BY <2>1, <2>2, <2>3
<1>8. m \in Nat
  BY TokenAssumption, Products
<1>9. AccrualLoss \in Nat
  BY <1>1 DEF AccrualLoss
<1> HIDE DEF c, x, y, m, e0, e1, p0, p1, d
<1> QED BY <1>1, <1>3, <1>4, <1>5, <1>6, <1>7, <1>8, <1>9

(* Dust after a step that accrues the stream and leaves what everyone has  *)
(* earned at the accrued value.                                            *)
LEMMA DustAfterAccrual ==
  ASSUME perShare' = Accrued.perShare, lastAccrual' = Accrued.last, end' = Accrued.end,
         rate' = rate, totalDistributed' = totalDistributed,
         \A a \in Accounts : Magnified(a, perShare)' = Magnified(a, Accrued.perShare)
  PROVE  Dust' = AccruedDust
<1>1. StillToPay' = StillOf(Accrued)
  BY DEF StillToPay, StillOf
<1>2. [a \in Accounts |-> Magnified(a, perShare)]' = [a \in Accounts |-> Magnified(a, Accrued.perShare)]
  OBVIOUS
<1> DEFINE f == [a \in Accounts |-> Magnified(a, perShare)]
<1>3. Dust' = MAGNITUDE * totalDistributed' - StillToPay' - SumOver(Accounts, f')
  BY DEF Dust
<1> QED BY <1>1, <1>2, <1>3 DEF AccruedDust, EarnedAt

(* A move keeps the tracked eligible supply equal to what the earning      *)
(* accounts hold.                                                          *)
LEMMA EligibleMoves ==
  ASSUME StreamType, LedgerType, EligibleTracked, NEW from \in Accounts, NEW to, NEW value \in Nat,
         Update(from, to, value)
  PROVE  EligibleTracked'
<1> DEFINE minus == IF from \in Earning THEN -value ELSE 0
           plus  == IF to \in Earning THEN value ELSE 0
           mid == [a \in Accounts |-> bal[a] + (IF a = from THEN -value ELSE 0)]
<1>1. /\ bal' = [a \in Accounts |-> bal[a] + Gained(a, from, to, value)]
      /\ eligible' = EligibleAfter(from, to, value)
  BY Zenon DEF Update
<1>2. Earning \subseteq Accounts /\ \A a \in Accounts : bal[a] \in Nat
  BY DEF LedgerType, Accounts
<1>3. \A a \in Earning : bal[a] \in Int /\ mid[a] = bal[a] + (IF a = from THEN -value ELSE 0)
  BY <1>2
<1>4. \A a \in Earning : mid[a] \in Int /\ bal'[a] = mid[a] + (IF a = to THEN value ELSE 0)
  BY <1>1, <1>2 DEF Gained
<1>5. -value \in Int /\ value \in Int
  OBVIOUS
<1> HIDE DEF mid
<1>6. SumOver(Earning, mid) = SumOver(Earning, bal) + minus
  BY <1>3, <1>5, AccountsFinite, SumAdded
<1>7. SumOver(Earning, bal') = SumOver(Earning, mid) + plus
  BY <1>4, <1>5, AccountsFinite, SumAdded
<1>8. SumOver(Earning, bal) \in Int
  BY <1>2, AccountsFinite, SumInt
<1>9. eligible' = eligible + plus - (IF from \in Earning THEN value ELSE 0)
  BY <1>1 DEF EligibleAfter
<1>10. eligible' = eligible + plus + minus
  BY <1>8, <1>9 DEF EligibleTracked
<1> HIDE DEF plus, minus
<1>11. plus \in Int /\ minus \in Int
  BY DEF plus, minus
<1> QED BY <1>6, <1>7, <1>8, <1>10, <1>11 DEF EligibleTracked

-----------------------------------------------------------------------------
(* The books of the deposits and claims: what the contract has been given  *)
(* covers what was earned and is still to come, and it holds what is not   *)
(* claimed.                                                                *)
TotalsInv ==
  /\ graduated \in BOOLEAN
  /\ totalDistributed \in Nat
  /\ held \in Nat
  /\ EligibleTracked
  /\ NeverOverpaid

(* The claimed amounts sum to a natural number. *)
LEMMA ClaimedSum ==
  ASSUME LedgerType
  PROVE  SumOver(Accounts, claimed) \in Nat
BY AccountsFinite, SumNat DEF LedgerType

(* The deposit's rate pays out the deposit and what was owed, but what     *)
(* rounding takes: less than one magnified unit for each second.           *)
LEMMA DustDeposited ==
  ASSUME IInv, EligibleTracked, totalDistributed \in Nat,
         NEW amount \in Nat, Distribute(amount)
  PROVE  /\ Dust' \in Int
         /\ Dust' - AccruedDust \in Nat
         /\ Dust' - AccruedDust <= DRIP_PERIOD - 1
<1> DEFINE s == Accrued
           owed == IF s.end > now THEN rate * (s.end - now) ELSE 0
           added == amount * MAGNITUDE
           newEnd == WeightedEnd(owed, s.end, added)
           d == newEnd - now
           e == EarnedAt(s.perShare)
           m == MAGNITUDE * totalDistributed
<1>1. StreamType /\ LedgerType /\ EndsWithinPeriod /\ StreamType' /\ EndsWithinPeriod'
  BY DistributeInv DEF IInv
<1>2. AccruedFacts(s) /\ s.perShare \in Nat
  BY <1>1, AccruedOK DEF AccruedFacts
<1>3. /\ rate' = (owed + added) \div (newEnd - now)
      /\ lastAccrual' = now /\ end' = newEnd /\ perShare' = s.perShare
      /\ totalDistributed' = totalDistributed + amount
      /\ bal' = bal /\ corrections' = corrections
  BY Zenon DEF Distribute, ledger
<1>4. now \in Nat /\ newEnd \in Nat /\ newEnd > now /\ d \in Nat /\ 0 < d /\ d <= DRIP_PERIOD
  <2>1. now \in Nat /\ end' \in Nat
    BY <1>1 DEF StreamType
  <2>2. newEnd > now
    <3> DEFINE from == Most(s.end, now)
               x == from + (added * ((now + DRIP_PERIOD) - from)) \div (owed + added)
    <3>1. newEnd = Most(x, now + 1)
      <4> HIDE DEF s, owed, added
      <4> QED BY DEF WeightedEnd
    <3>2. newEnd \in Nat
      BY <1>3, <2>1
    <3> HIDE DEF x, newEnd
    <3> QED BY <2>1, <3>1, <3>2 DEF Most
  <2> HIDE DEF newEnd
  <2>3. end' - lastAccrual' <= DRIP_PERIOD
    BY <1>1, <1>3, <2>1, <2>2 DEF EndsWithinPeriod
  <2> QED BY <1>3, <2>1, <2>2, <2>3
<1>5. owed = StillOf(s) /\ owed \in Nat
  <2>1. StillOf(s) \in Nat
    BY <1>1, AccrualRounds, EarnedAtIs DEF EligibleTracked
  <2>2. s.last < s.end <=> s.end > now
    BY <1>2, <1>4 DEF AccruedFacts
  <2>3. s.last < s.end => s.last = now
    BY <1>2 DEF AccruedFacts
  <2> QED BY <2>1, <2>2, <2>3 DEF StillOf
<1>6. added \in Nat /\ added = MAGNITUDE * amount
  BY TokenAssumption, Products
<1>7. e \in Int /\ EarnedAt(perShare)' = e
  <2>1. e \in Int
    <3>1. LedgerType
      BY <1>1
    <3> DEFINE p == s.perShare * SumOver(Earning, bal)
    <3>2. e = SumOver(Earning, corrections) + p /\ SumOver(Earning, corrections) \in Int
          /\ SumOver(Earning, bal) \in Nat
      BY <1>2, EarnedAtIs, <3>1
    <3>3. p \in Nat
      BY <1>2, <3>2, Products
    <3> QED BY <3>2, <3>3
  <2>2. [a \in Accounts |-> Magnified(a, perShare)]' = [a \in Accounts |-> Magnified(a, s.perShare)]
    BY <1>3 DEF Magnified
  <2> QED BY <2>1, <2>2 DEF EarnedAt
<1>8. StillToPay' = rate' * d
  BY <1>3, <1>4 DEF StillToPay
<1>9. m \in Nat /\ MAGNITUDE * totalDistributed' = m + added
  <2>1. MAGNITUDE * (totalDistributed + amount) = m + MAGNITUDE * amount
    BY TokenAssumption, Products
  <2> QED BY <1>3, <1>6, <2>1, TokenAssumption, Products
<1>10. Dust' = MAGNITUDE * totalDistributed' - StillToPay' - EarnedAt(perShare)'
  BY DEF Dust, EarnedAt
<1>11. AccruedDust = m - StillOf(s) - e
  BY DEF AccruedDust
<1> HIDE DEF s, owed, added, newEnd, d, e, m
<1> DEFINE q == (owed + added) \div d
<1>12. q \in Int /\ d * q <= owed + added /\ owed + added < d * q + d
  BY <1>4, <1>5, <1>6, Quotients
<1>13. rate' = q
  BY <1>3 DEF d
<1>14. rate' * d = d * q /\ d * q \in Int
  BY <1>4, <1>12, <1>13, Products
<1> DEFINE z == d * q
<1> HIDE DEF q, z
<1>15. z \in Int /\ z <= owed + added /\ owed + added < z + d /\ StillToPay' = z
  BY <1>8, <1>12, <1>14 DEF z
<1>16. Dust' = (m + added) - z - e /\ AccruedDust = m - owed - e
  BY <1>5, <1>7, <1>9, <1>10, <1>11, <1>15
<1>17. Dust' - AccruedDust = (owed + added) - z
  BY <1>5, <1>6, <1>7, <1>9, <1>15, <1>16
<1>18. Dust' \in Int
  BY <1>6, <1>7, <1>9, <1>15, <1>16
<1> QED BY <1>4, <1>5, <1>6, <1>15, <1>17, <1>18, TokenAssumption

(* A step that leaves the stream, the ledger and the deposits. *)
LEMMA SameDust ==
  ASSUME UNCHANGED <<bal, corrections, stream, rate, totalDistributed>>
  PROVE  Dust' = Dust
<1>1. [a \in Accounts |-> Magnified(a, perShare)]' = [a \in Accounts |-> Magnified(a, perShare)]
  BY DEF Magnified, stream
<1>2. StillToPay' = StillToPay
  BY DEF StillToPay, stream
<1> QED BY <1>1, <1>2 DEF Dust

(* A claim adds no dust but that of its accrual. *)
LEMMA ClaimDust ==
  ASSUME NEW a \in Accounts, Claim(a)
  PROVE  Dust' = AccruedDust
<1>1. Accrue /\ UNCHANGED <<bal, corrections, rate, totalDistributed>>
  BY Zenon DEF Claim, ledger
<1>2. perShare' = Accrued.perShare /\ lastAccrual' = Accrued.last /\ end' = Accrued.end
  BY <1>1 DEF Accrue
<1>3. \A b \in Accounts : Magnified(b, perShare)' = Magnified(b, Accrued.perShare)
  BY <1>1, <1>2 DEF Magnified
<1> QED BY <1>1, <1>2, <1>3, DustAfterAccrual

(* A move adds no dust but that of its accrual. *)
LEMMA UpdateDust ==
  ASSUME IInv, NEW from \in Accounts, NEW to, NEW value \in Nat, Update(from, to, value)
  PROVE  Dust' = AccruedDust
<1>1. Accrue /\ UNCHANGED <<rate, totalDistributed>>
  BY Zenon DEF Update, cash
<1>2. perShare' = Accrued.perShare /\ lastAccrual' = Accrued.last /\ end' = Accrued.end
  BY <1>1 DEF Accrue
<1>3. \A a \in Earning :
        perShare' * bal'[a] + corrections'[a] = perShare' * bal[a] + corrections[a]
  BY UpdateLedger DEF IInv
<1>4. \A a \in Accounts : Magnified(a, perShare)' = Magnified(a, Accrued.perShare)
  BY <1>2, <1>3 DEF Magnified
<1> QED BY <1>1, <1>2, <1>4, DustAfterAccrual

(* A claim takes from the contract what it adds to the claimed amounts.    *)
LEMMA ClaimTotals ==
  ASSUME IInv, TotalsInv, NEW a \in Accounts, Claim(a)
  PROVE  /\ held' \in Nat
         /\ held' >= totalDistributed' - SumOver(Accounts, claimed')
<1> DEFINE amount == Accumulated(a, Accrued.perShare) - claimed[a]
<1>1. /\ amount >= 0 /\ held >= amount
      /\ claimed' = [claimed EXCEPT ![a] = @ + amount]
      /\ held' = IF a = Self THEN held ELSE held - amount
      /\ totalDistributed' = totalDistributed
  BY Zenon DEF Claim
<1>2. claimed \in [Accounts -> Nat] /\ claimed' \in [Accounts -> Nat]
  BY ClaimInv DEF IInv, LedgerType
<1> HIDE DEF amount
<1>3. claimed'[a] = claimed[a] + amount
  BY <1>1, <1>2
<1>4. SumOver(Accounts, claimed') = SumOver(Accounts, claimed) + (claimed'[a] - claimed[a])
  <2> DEFINE d == claimed'[a] - claimed[a]
  <2>1. d \in Int
    BY <1>2
  <2>2. \A b \in Accounts : claimed[b] \in Int /\ claimed'[b] = claimed[b] + (IF b = a THEN d ELSE 0)
    BY <1>1, <1>2
  <2> HIDE DEF d
  <2>3. SumOver(Accounts, claimed') = SumOver(Accounts, claimed) + (IF a \in Accounts THEN d ELSE 0)
    BY <2>1, <2>2, AccountsFinite, SumAdded
  <2> QED BY <2>3 DEF d
<1>5. SumOver(Accounts, claimed) \in Nat
  BY ClaimedSum DEF IInv
<1> DEFINE spent == claimed'[a] - claimed[a]
<1>6. spent \in Int /\ spent >= 0 /\ held >= spent
      /\ held' = IF a = Self THEN held ELSE held - spent
  <2>1. claimed[a] \in Nat /\ claimed'[a] \in Nat
    BY <1>2
  <2>2. amount \in Int /\ amount = spent
    <3>1. amount \in Int
      <4>1. MAGNITUDE \in Nat /\ MAGNITUDE > 0
        BY TokenAssumption
      <4>2. Magnified(a, Accrued.perShare) \in Int
        <5>1. Accrued.perShare \in Nat
          BY AccruedOK DEF AccruedFacts, IInv
        <5>2. a \in Earning => bal[a] \in Nat /\ corrections[a] \in Int
          BY DEF IInv, LedgerType
        <5> DEFINE share == Accrued.perShare
        <5> HIDE DEF share
        <5>3. a \in Earning => share * bal[a] \in Nat
          BY <5>1, <5>2, Products DEF share
        <5>4. Magnified(a, share) \in Int
          BY <5>2, <5>3 DEF Magnified
        <5> QED BY <5>4 DEF share
      <4>3. Accumulated(a, Accrued.perShare) \in Int
        BY <4>1, <4>2, Quotients DEF Accumulated
      <4> QED BY <2>1, <4>3 DEF amount
    <3> QED BY <1>3, <2>1, <3>1
  <2> QED BY <1>1, <2>1, <2>2
<1> HIDE DEF spent
<1>7. held \in Nat /\ totalDistributed \in Nat
      /\ held >= totalDistributed - SumOver(Accounts, claimed)
  BY DEF TotalsInv, NeverOverpaid
<1>8. SumOver(Accounts, claimed') = SumOver(Accounts, claimed) + spent
  BY <1>4 DEF spent
<1> QED BY <1>1, <1>5, <1>6, <1>7, <1>8

(* A token that was just launched has no totals. *)
LEMMA InitTotals == Init => TotalsInv
<1> SUFFICES ASSUME Init PROVE TotalsInv
  OBVIOUS
<1>1. /\ \A a \in Earning : bal[a] = 0
      /\ \A a \in Accounts : claimed[a] = 0 /\ bal[a] \in Nat /\ corrections[a] = 0
  BY AccountsSplit, TokenAssumption DEF Init, Accounts, Excluded
<1>2. /\ graduated = FALSE /\ totalDistributed = 0 /\ held = 0 /\ perShare = 0 /\ eligible = 0
      /\ lastAccrual = 0 /\ end = 0
  BY DEF Init
<1>3. EligibleTracked
  BY <1>1, <1>2, AccountsFinite, SumZero DEF EligibleTracked
<1>4. SumOver(Accounts, claimed) = 0
  BY <1>1, AccountsFinite, SumZero
<1> DEFINE m == [a \in Accounts |-> Magnified(a, perShare)]
<1>5. SumOver(Accounts, m) = 0
  <2>1. \A a \in Accounts : m[a] = 0
    BY <1>1, <1>2 DEF Magnified
  <2> HIDE DEF m
  <2> QED BY <2>1, AccountsFinite, SumZero
<1>6. Dust = 0
  <2>1. StillToPay = 0 /\ MAGNITUDE * totalDistributed = 0
    BY <1>2, TokenAssumption DEF StillToPay
  <2>2. Dust = MAGNITUDE * totalDistributed - StillToPay - SumOver(Accounts, m)
    BY DEF Dust
  <2> HIDE DEF m
  <2> QED BY <1>5, <2>1, <2>2
<1>7. NeverOverpaid
  BY <1>2, <1>4, <1>6 DEF NeverOverpaid
<1> QED BY <1>2, <1>3, <1>7 DEF TotalsInv

(* A step keeps the books when it keeps the eligible supply tracked, what  *)
(* is held ahead of what is not claimed, and adds only dust.               *)
DustAdded == Dust' - Dust \in Nat /\ Dust' - Dust <= AccrualLoss + (DRIP_PERIOD - 1)

(* What a step shows to keep the totals. *)
LEMMA TotalsKept ==
  ASSUME TotalsInv, Dust \in Int, Dust' \in Int, DustAdded,
         EligibleTracked', graduated' \in BOOLEAN, totalDistributed' \in Nat, held' \in Nat,
         held' >= totalDistributed' - SumOver(Accounts, claimed')
  PROVE  TotalsInv'
<1>1. Dust' >= 0
  <2>1. Dust' - Dust \in Nat
    BY DEF DustAdded
  <2>2. Dust >= 0
    BY DEF TotalsInv, NeverOverpaid
  <2> DEFINE x == Dust
             y == Dust'
  <2>3. x \in Int /\ y \in Int /\ x >= 0 /\ y - x \in Nat
    BY <2>1, <2>2
  <2> HIDE DEF x, y
  <2>4. y >= 0
    BY <2>3
  <2> QED BY <2>4 DEF y
<1>2. NeverOverpaid'
  BY <1>1 DEF NeverOverpaid
<1> QED BY <1>2 DEF TotalsInv

(* Every step preserves TotalsInv, and adds no more dust than rounding does. *)
LEMMA StepTotals ==
  ASSUME IInv, TotalsInv, [Next]_vars
  PROVE  TotalsInv' /\ DustAdded
<1>1. /\ StreamType /\ LedgerType /\ EndsWithinPeriod /\ LedgerType'
      /\ EligibleTracked /\ graduated \in BOOLEAN
      /\ totalDistributed \in Nat /\ held \in Nat
      /\ held >= totalDistributed - SumOver(Accounts, claimed)
  BY NextInv DEF IInv, TotalsInv, NeverOverpaid
<1>2. /\ Dust \in Int /\ AccruedDust \in Int
      /\ AccruedDust - Dust \in Nat /\ AccruedDust - Dust <= AccrualLoss
      /\ AccrualLoss \in Nat /\ DRIP_PERIOD \in Nat /\ DRIP_PERIOD - 1 \in Nat
  BY <1>1, DustAccrued, TokenAssumption
<1>3. SumOver(Accounts, claimed) \in Nat
  BY <1>1, ClaimedSum
<1>4. ASSUME UNCHANGED <<bal, eligible, corrections, stream, rate, cash>>, graduated' \in BOOLEAN
      PROVE  TotalsInv' /\ DustAdded
  <2>1. Dust' = Dust
    BY <1>4, SameDust DEF cash
  <2>2. DustAdded
    BY <1>2, <2>1 DEF DustAdded
  <2>3. EligibleTracked'
    BY <1>1, <1>4 DEF EligibleTracked
  <2> QED BY <1>1, <1>2, <1>4, <2>1, <2>2, <2>3, TotalsKept DEF cash
<1>5. ASSUME NEW amount \in Nat, Distribute(amount) PROVE TotalsInv' /\ DustAdded
  <2>1. /\ Dust' \in Int
        /\ Dust' - AccruedDust \in Nat /\ Dust' - AccruedDust <= DRIP_PERIOD - 1
    BY <1>1, <1>5, DustDeposited
  <2>2. DustAdded
    <3> DEFINE x == Dust
               y == AccruedDust
               z == Dust'
               p == DRIP_PERIOD - 1
               l == AccrualLoss
    <3>1. /\ x \in Int /\ y \in Int /\ z \in Int /\ l \in Nat /\ p \in Nat
          /\ y - x \in Nat /\ y - x <= l /\ z - y \in Nat /\ z - y <= p
      BY <1>2, <2>1
    <3> HIDE DEF x, y, z, l, p
    <3>2. z - x \in Nat /\ z - x <= l + p
      BY <3>1
    <3> QED BY <3>2 DEF DustAdded, x, z, l, p
  <2>3. /\ totalDistributed' = totalDistributed + amount /\ held' = held + amount
        /\ UNCHANGED <<bal, graduated, eligible, claimed>>
    BY Zenon, <1>5 DEF Distribute, ledger
  <2>4. EligibleTracked'
    BY <1>1, <2>3 DEF EligibleTracked
  <2>5. held' >= totalDistributed' - SumOver(Accounts, claimed')
    BY <1>1, <1>3, <2>3
  <2>6. totalDistributed' \in Nat /\ held' \in Nat /\ graduated' \in BOOLEAN
    BY <1>1, <2>3
  <2> QED BY <1>2, <2>1, <2>2, <2>4, <2>5, <2>6, TotalsKept
<1>6. ASSUME NEW a \in Accounts, Claim(a) PROVE TotalsInv' /\ DustAdded
  <2>1. Dust' = AccruedDust
    BY <1>6, ClaimDust
  <2>2. DustAdded
    BY <1>2, <2>1 DEF DustAdded
  <2>3. UNCHANGED <<bal, graduated, eligible, totalDistributed>>
    BY Zenon, <1>6 DEF Claim, ledger
  <2>4. EligibleTracked'
    BY <1>1, <2>3 DEF EligibleTracked
  <2>5. held' \in Nat /\ held' >= totalDistributed' - SumOver(Accounts, claimed')
    BY <1>6, ClaimTotals
  <2> QED BY <1>1, <1>2, <2>1, <2>2, <2>3, <2>4, <2>5, TotalsKept
<1>7. ASSUME NEW from \in Accounts, NEW to, NEW value \in Nat, Update(from, to, value)
      PROVE  TotalsInv' /\ DustAdded
  <2>1. Dust' = AccruedDust
    BY <1>7, UpdateDust
  <2>2. DustAdded
    BY <1>2, <2>1 DEF DustAdded
  <2>3. UNCHANGED <<graduated, claimed, totalDistributed, held>>
    BY Zenon, <1>7 DEF Update, cash
  <2>4. EligibleTracked'
    BY <1>1, <1>7, EligibleMoves
  <2> QED BY <1>1, <1>2, <2>1, <2>2, <2>3, <2>4, TotalsKept
<1>8. CASE MarkGraduated
  BY <1>4, <1>8 DEF MarkGraduated
<1>9. ASSUME NEW seconds \in Steps, Tick(seconds) PROVE TotalsInv' /\ DustAdded
  BY <1>1, <1>4, <1>9 DEF Tick, ledger
<1>10. CASE UNCHANGED vars
  BY <1>1, <1>4, <1>10 DEF vars, ledger
<1> QED BY <1>5, <1>6, <1>7, <1>8, <1>9, <1>10, Moves

(* Both invariants hold in every reachable state of LaunchToken. *)
THEOREM BooksInvariance == Spec => [](IInv /\ TotalsInv)
<1>1. Init => IInv /\ TotalsInv
  BY InitInv, InitTotals
<1>2. IInv /\ TotalsInv /\ [Next]_vars => (IInv /\ TotalsInv)'
  BY NextInv, StepTotals
<1> QED BY <1>1, <1>2, PTL DEF Spec

(* All that is earned and still to come never exceeds what was distributed, *)
(* the contract holds what is not claimed, and a step loses less than one   *)
(* magnified unit for each eligible unit and each second (distribute, _accrue, *)
(* _update, _claim).                                                        *)
THEOREM BooksKept == Spec => NothingMadeOrLost
<1>1. IInv /\ TotalsInv => TypeOK /\ NeverOverpaid
  BY DustAccrued DEF IInv, TotalsInv, TypeOK, StreamType, LedgerType
<1>2. IInv /\ TotalsInv /\ [Next]_vars
        => [Dust' - Dust <= (IF eligible = 0 THEN 0 ELSE eligible - 1) + (DRIP_PERIOD - 1)]_vars
  BY StepTotals DEF DustAdded, AccrualLoss
<1> QED BY <1>1, <1>2, BooksInvariance, PTL DEF Spec, NothingMadeOrLost, OnlyDustLost

-----------------------------------------------------------------------------
(* What an account has earned by now covers what it has claimed. *)
LEMMA AccruedEarned ==
  ASSUME IInv, NEW a \in Accounts
  PROVE  /\ Magnified(a, Accrued.perShare) \in Int
         /\ Magnified(a, Accrued.perShare) >= Magnified(a, perShare)
         /\ MAGNITUDE * EarnedNow[a] <= Magnified(a, Accrued.perShare)
         /\ EarnedNow[a] \in Nat /\ claimed[a] \in Nat
         /\ EarnedNow[a] >= claimed[a]
<1> DEFINE share == Accrued.perShare
<1>1. /\ StreamType /\ LedgerType /\ ClaimsCovered
      /\ share \in Nat /\ share >= perShare
  BY AccruedOK DEF AccruedFacts, IInv
<1>2. EarnedNow[a] = Magnified(a, share) \div MAGNITUDE
  BY DEF EarnedNow, Accumulated
<1> HIDE DEF share
<1>3. bal[a] \in Nat /\ corrections[a] \in Int /\ claimed[a] \in Nat /\ perShare \in Nat
  BY <1>1 DEF LedgerType, StreamType
<1>4. share * bal[a] \in Nat /\ perShare * bal[a] \in Nat
      /\ perShare * bal[a] + corrections[a] <= share * bal[a] + corrections[a]
  BY <1>1, <1>3, Products, MagnifiedGrows
<1>5. /\ Magnified(a, share) \in Int /\ Magnified(a, perShare) \in Int
      /\ Magnified(a, share) >= Magnified(a, perShare)
  BY <1>3, <1>4 DEF Magnified
<1>6. Magnified(a, perShare) >= MAGNITUDE * claimed[a]
  BY <1>1 DEF ClaimsCovered
<1>7. MAGNITUDE \in Nat /\ 0 < MAGNITUDE /\ MAGNITUDE * claimed[a] \in Nat
  BY <1>3, TokenAssumption, Products
<1> DEFINE m == Magnified(a, share)
           q == m \div MAGNITUDE
           c == claimed[a]
<1>8. m \in Nat /\ m >= MAGNITUDE * c
  BY <1>5, <1>6, <1>7
<1> HIDE DEF m, c
<1>9. q \in Nat /\ MAGNITUDE * q <= m /\ m < MAGNITUDE * q + MAGNITUDE
  BY <1>7, <1>8, Quotients, QuotientNat
<1> HIDE DEF q
<1>10. c \in Nat
  BY <1>3 DEF c
<1>11. q >= c
  <2> SUFFICES ASSUME q + 1 <= c PROVE FALSE
    BY <1>9, <1>10
  <2>1. MAGNITUDE * (q + 1) <= MAGNITUDE * c /\ MAGNITUDE * (q + 1) = MAGNITUDE * q + MAGNITUDE * 1
    BY <1>7, <1>9, <1>10, Products
  <2>2. MAGNITUDE * q \in Nat /\ MAGNITUDE * c \in Nat
    BY <1>7, <1>9, <1>10, Products
  <2> QED BY <1>7, <1>8, <1>9, <2>1, <2>2
<1> QED BY <1>2, <1>3, <1>5, <1>9, <1>11 DEF share, m, q, c

(* All the accounts have earned is never more than what was distributed.   *)
LEMMA EarnedDistributed ==
  ASSUME IInv, TotalsInv
  PROVE  SumOver(Accounts, EarnedNow) \in Nat /\ SumOver(Accounts, EarnedNow) <= totalDistributed
<1> DEFINE share == Accrued.perShare
           m == [a \in Accounts |-> Magnified(a, share)]
           none == [a \in Accounts |-> 0]
           scaled == [a \in Accounts |-> MAGNITUDE * EarnedNow[a]]
           total == SumOver(Accounts, EarnedNow)
<1>1. MAGNITUDE \in Nat /\ 0 < MAGNITUDE /\ totalDistributed \in Nat
  BY TokenAssumption DEF TotalsInv
<1>2. \A a \in Accounts : /\ EarnedNow[a] \in Nat /\ scaled[a] \in Nat
                          /\ m[a] \in Int /\ scaled[a] <= m[a]
                          /\ none[a] = 0 /\ scaled[a] = none[a] + MAGNITUDE * EarnedNow[a]
  BY <1>1, AccruedEarned, Products
<1>3. EarnedAt(share) = SumOver(Accounts, m)
  BY DEF EarnedAt
<1>4. /\ StillOf(Accrued) \in Nat /\ AccruedDust \in Int /\ AccruedDust >= 0
      /\ AccruedDust = MAGNITUDE * totalDistributed - StillOf(Accrued) - EarnedAt(share)
  <2>1. /\ StreamType /\ LedgerType /\ EndsWithinPeriod /\ EligibleTracked /\ totalDistributed \in Nat
        /\ Dust >= 0
    BY DEF IInv, TotalsInv, NeverOverpaid
  <2>2. AccruedDust \in Int /\ AccruedDust - Dust \in Nat /\ Dust \in Int /\ eligible \in Nat
    BY <2>1, DustAccrued
  <2>3. StillOf(Accrued) \in Nat
    BY <2>1, <2>2, AccrualRounds
  <2>4. AccruedDust = MAGNITUDE * totalDistributed - StillOf(Accrued) - EarnedAt(share)
    BY DEF AccruedDust
  <2> DEFINE x == AccruedDust
             y == Dust
  <2> HIDE DEF x, y
  <2>5. x \in Int /\ y \in Int /\ y >= 0 /\ x - y \in Nat
    BY <2>1, <2>2 DEF x, y
  <2>6. x >= 0
    BY <2>5
  <2> QED BY <2>2, <2>3, <2>4, <2>6 DEF x
<1> HIDE DEF m, none, scaled
<1>5. total \in Nat /\ SumOver(Accounts, none) = 0 /\ SumOver(Accounts, m) \in Int
  BY <1>2, AccountsFinite, SumNat, SumZero, SumInt
<1>6. SumOver(Accounts, scaled) = SumOver(Accounts, none) + MAGNITUDE * total
  <2>1. \A a \in Accounts : none[a] \in Int /\ EarnedNow[a] \in Int
                            /\ scaled[a] = none[a] + MAGNITUDE * EarnedNow[a]
    BY <1>2
  <2> QED BY <1>1, <2>1, AccountsFinite, SumLinear
<1>7. SumOver(Accounts, scaled) <= SumOver(Accounts, m)
  <2>1. \A a \in Accounts : scaled[a] \in Int /\ m[a] \in Int /\ scaled[a] <= m[a]
    BY <1>2
  <2> QED BY <2>1, AccountsFinite, SumMonotone
<1> DEFINE e == SumOver(Accounts, m)
           still == StillOf(Accrued)
           x == MAGNITUDE * total
           y == MAGNITUDE * totalDistributed
<1>8. e \in Int /\ still \in Nat /\ y - still - e >= 0 /\ x <= e /\ x \in Nat /\ y \in Nat
  BY <1>1, <1>3, <1>4, <1>5, <1>6, <1>7, Products
<1> HIDE DEF e, still, x, y, total
<1>9. x <= y
  BY <1>8
<1>10. total <= totalDistributed
  <2> SUFFICES ASSUME totalDistributed + 1 <= total PROVE FALSE
    BY <1>1, <1>5
  <2>1. MAGNITUDE * (totalDistributed + 1) <= MAGNITUDE * total
        /\ MAGNITUDE * (totalDistributed + 1) = MAGNITUDE * totalDistributed + MAGNITUDE * 1
    BY <1>1, <1>5, Products
  <2> QED BY <1>1, <1>8, <1>9, <2>1 DEF x, y
<1> QED BY <1>5, <1>10 DEF total

(* The contract holds what any account can claim. *)
LEMMA ClaimsArePaid ==
  ASSUME IInv, TotalsInv
  PROVE  ClaimsPaid
<1> SUFFICES ASSUME NEW a \in Accounts PROVE EarnedNow[a] - claimed[a] \in 0..held
  BY DEF ClaimsPaid
<1> DEFINE due == [b \in Accounts |-> EarnedNow[b] - claimed[b]]
<1>1. \A b \in Accounts : /\ EarnedNow[b] \in Int /\ claimed[b] \in Int
                          /\ due[b] = EarnedNow[b] + (-1) * claimed[b]
                          /\ due[b] \in Nat
  BY AccruedEarned
<1> HIDE DEF due
<1>2. SumOver(Accounts, due) = SumOver(Accounts, EarnedNow) + (-1) * SumOver(Accounts, claimed)
  <2>1. -1 \in Int
    OBVIOUS
  <2> QED BY <1>1, <2>1, AccountsFinite, SumLinear
<1>3. due[a] <= SumOver(Accounts, due) /\ SumOver(Accounts, due) \in Nat
  BY <1>1, AccountsFinite, SumMember, SumNat
<1>4. /\ SumOver(Accounts, EarnedNow) \in Nat /\ SumOver(Accounts, EarnedNow) <= totalDistributed
      /\ SumOver(Accounts, claimed) \in Nat
      /\ held \in Nat /\ totalDistributed \in Nat
      /\ held >= totalDistributed - SumOver(Accounts, claimed)
  BY EarnedDistributed, ClaimedSum DEF IInv, TotalsInv, NeverOverpaid
<1>5. due[a] <= held
  BY <1>1, <1>2, <1>3, <1>4
<1> QED BY <1>1, <1>4, <1>5 DEF due

(* Nothing the token does on every move, deposit or claim can fail: the tracked *)
(* eligible supply is what the earning accounts hold, the stream stays within *)
(* a period, and every claim is covered and paid.                           *)
THEOREM StreamSafe == Spec => []StreamNeverFails
<1>1. IInv /\ TotalsInv => StreamNeverFails
  BY ClaimsArePaid DEF IInv, TotalsInv, StreamNeverFails
<1> QED BY <1>1, BooksInvariance, PTL

-----------------------------------------------------------------------------
(* A larger amount divides to no less. *)
LEMMA QuotientMonotone ==
  ASSUME NEW a \in Nat, NEW b \in Nat, a <= b, NEW d \in Nat, 0 < d
  PROVE  a \div d <= b \div d
<1> DEFINE p == a \div d
           q == b \div d
<1>1. p \in Nat /\ q \in Nat /\ d * p <= a /\ b < d * q + d
  BY Quotients, QuotientNat
<1> HIDE DEF p, q
<1> SUFFICES ASSUME q + 1 <= p PROVE FALSE
  BY <1>1 DEF p, q
<1>2. d * (q + 1) <= d * p /\ d * (q + 1) = d * q + d * 1
  BY <1>1, Products
<1>3. d * p \in Nat /\ d * q \in Nat
  BY <1>1, Products
<1> QED BY <1>1, <1>2, <1>3

(* As time passes the per-share value brought up to now does not fall.     *)
LEMMA AccruedGrows ==
  ASSUME StreamType, EndsWithinPeriod, now' \in Nat, now' >= now,
         UNCHANGED <<eligible, stream, rate>>
  PROVE  Accrued.perShare' >= Accrued.perShare /\ Accrued.perShare \in Nat
         /\ Accrued.perShare' \in Nat
<1> USE TokenAssumption DEF StreamType
<1>1. UNCHANGED <<lastAccrual, end, perShare, eligible, rate>>
  BY DEF stream
<1>2. CASE lastAccrual >= end \/ Paused
  <2>1. Accrued.perShare = perShare
    BY <1>2 DEF Accrued
  <2>2. Accrued.perShare' = perShare'
    BY <1>1, <1>2 DEF Accrued, Paused
  <2> QED BY <1>1, <2>1, <2>2
<1>3. CASE lastAccrual < end /\ ~Paused
  <2> DEFINE upTo == Least(now, end)
             later == Least(now', end)
             p == (rate * (upTo - lastAccrual)) \div eligible
             q == (rate * (later - lastAccrual)) \div eligible
  <2>1. 0 < eligible /\ eligible \in Nat
    BY <1>3 DEF Paused
  <2>2. /\ Accrued.perShare = perShare + p
        /\ Accrued.perShare' = perShare + q
    BY <1>1, <1>3 DEF Accrued, Paused
  <2>3. upTo - lastAccrual \in Nat /\ later - lastAccrual \in Nat
        /\ upTo - lastAccrual <= later - lastAccrual
    <3>1. upTo \in Nat /\ later \in Nat /\ lastAccrual <= upTo /\ upTo <= later
      BY <1>3 DEF Least, EndsWithinPeriod
    <3> HIDE DEF upTo, later
    <3> QED BY <3>1
  <2> DEFINE x == upTo - lastAccrual
             y == later - lastAccrual
  <2>4. x \in Nat /\ y \in Nat /\ x <= y
    BY <2>3
  <2> HIDE DEF upTo, later, x, y
  <2>5. rate * x \in Nat /\ rate * y \in Nat /\ rate * x <= rate * y
    BY <2>4, Products
  <2>6. (rate * x) \div eligible \in Nat /\ (rate * y) \div eligible \in Nat
        /\ (rate * x) \div eligible <= (rate * y) \div eligible
    BY <2>1, <2>5, QuotientNat, QuotientMonotone
  <2>7. p \in Nat /\ q \in Nat /\ p <= q
    BY <2>6 DEF x, y
  <2> HIDE DEF p, q
  <2> QED BY <2>2, <2>7
<1> QED BY <1>2, <1>3

(* As time passes nobody's earnings fall. *)
LEMMA EarningsGrow ==
  ASSUME IInv, now' \in Nat, now' >= now, UNCHANGED <<bal, corrections, eligible, stream, rate>>,
         IInv', NEW a \in Accounts
  PROVE  EarnedNow'[a] >= EarnedNow[a] /\ (a \in Excluded => EarnedNow'[a] = 0)
<1> DEFINE share == Accrued.perShare
           later == Accrued.perShare'
           b == bal[a]
           c == corrections[a]
<1>1. share \in Nat /\ later \in Nat /\ share <= later
  BY AccruedGrows DEF IInv
<1>2. /\ EarnedNow[a] = Magnified(a, share) \div MAGNITUDE
      /\ EarnedNow'[a] = (IF a \in Earning THEN later * b + c ELSE 0) \div MAGNITUDE
  BY DEF EarnedNow, Accumulated, Magnified
<1>3. Magnified(a, share) \in Int /\ EarnedNow[a] \in Nat /\ claimed[a] \in Nat
      /\ Magnified(a, share) >= Magnified(a, perShare)
      /\ Magnified(a, perShare) >= MAGNITUDE * claimed[a]
  BY AccruedEarned DEF IInv, ClaimsCovered
<1>4. MAGNITUDE \in Nat /\ 0 < MAGNITUDE /\ 0 \div MAGNITUDE = 0
  BY TokenAssumption
<1>5. b \in Nat /\ c \in Int /\ perShare \in Nat /\ bal[a] = b /\ corrections[a] = c
  BY DEF IInv, LedgerType, StreamType
<1> HIDE DEF share, later, b, c
<1>6. CASE a \in Earning
  <2>1. Magnified(a, share) = share * b + c /\ Magnified(a, perShare) = perShare * b + c
    BY <1>5, <1>6 DEF Magnified
  <2>2. share * b + c <= later * b + c /\ share * b \in Nat /\ later * b \in Nat /\ perShare * b \in Nat
    BY <1>1, <1>5, MagnifiedGrows, Products
  <2>3. MAGNITUDE * claimed[a] \in Nat
    BY <1>3, <1>4, Products
  <2> DEFINE x == share * b + c
             y == later * b + c
  <2>4. x \in Nat /\ y \in Nat /\ x <= y
    BY <1>3, <1>5, <2>1, <2>2, <2>3
  <2>5. EarnedNow[a] = x \div MAGNITUDE /\ EarnedNow'[a] = y \div MAGNITUDE
    BY <1>2, <1>6, <2>1
  <2> HIDE DEF x, y
  <2>6. x \div MAGNITUDE \in Nat /\ y \div MAGNITUDE \in Nat /\ x \div MAGNITUDE <= y \div MAGNITUDE
    BY <1>4, <2>4, QuotientNat, QuotientMonotone
  <2> QED BY <1>6, <2>5, <2>6, AccountsSplit
<1>7. CASE a \notin Earning
  BY <1>2, <1>4, <1>7 DEF Magnified
<1> QED BY <1>6, <1>7

(* A claim pays out all the account has earned by now. *)
LEMMA ClaimPays ==
  ASSUME IInv, NEW a \in Accounts, Claim(a)
  PROVE  claimed' = [claimed EXCEPT ![a] = EarnedNow[a]]
<1> DEFINE earned == Accumulated(a, Accrued.perShare)
<1>1. claimed' = [claimed EXCEPT ![a] = @ + (earned - claimed[a])]
  BY Zenon DEF Claim
<1>2. earned = EarnedNow[a]
  BY DEF EarnedNow
<1>3. EarnedNow[a] \in Nat /\ claimed[a] \in Nat
  BY AccruedEarned
<1> HIDE DEF earned
<1>4. claimed[a] + (earned - claimed[a]) = EarnedNow[a]
  BY <1>2, <1>3
<1> QED BY <1>1, <1>4, Zenon

(* Nobody has earned anything when the token is launched. *)
LEMMA InitEarned == Init => EarnedNow = [a \in Accounts |-> 0]
<1> SUFFICES ASSUME Init, NEW a \in Accounts PROVE Accumulated(a, Accrued.perShare) = 0
  BY DEF EarnedNow
<1>1. Accrued.perShare = 0
  BY DEF Init, Accrued
<1>2. bal[a] \in Nat /\ corrections[a] = 0
  BY TokenAssumption DEF Init
<1>3. Magnified(a, 0) = 0
  BY <1>2 DEF Magnified
<1> QED BY <1>1, <1>3, TokenAssumption DEF Accumulated

(* HolderDividends adds amounts up as LaunchToken does. *)
LEMMA SameTotal == \A amounts : Dividends!Total(amounts) = SumOver(Accounts, amounts)
BY DEF Dividends!Total, Dividends!SumOver, SumOver, Dividends!MapThenSumSet, MapThenSumSet,
       Dividends!MapThenFoldSet, MapThenFoldSet

(* Every step of the token is a step of HolderDividends, or none. *)
LEMMA StepRefines ==
  ASSUME IInv, TotalsInv, IInv', TotalsInv', [Next]_vars
  PROVE  [Dividends!Next]_<<now, totalDistributed, EarnedNow, claimed>>
<1>1. now \in Nat /\ totalDistributed \in Nat
  BY DEF IInv, StreamType, TotalsInv
<1>2. ASSUME NEW seconds \in Steps, Tick(seconds) PROVE Dividends!TimePasses
  <2>1. /\ now' \in Nat /\ now' > now
        /\ UNCHANGED <<bal, corrections, eligible, stream, rate, claimed, totalDistributed>>
    BY <1>1, <1>2, TokenAssumption DEF Tick, ledger, cash
  <2>2. \A a \in Accounts : EarnedNow'[a] >= EarnedNow[a] /\ (a \in Excluded => EarnedNow'[a] = 0)
    BY <2>1, EarningsGrow, <1>1
  <2>3. \A a \in Excluded : a \in Accounts
    BY DEF Accounts
  <2>4. SumOver(Accounts, EarnedNow') <= totalDistributed
    <3>1. (SumOver(Accounts, EarnedNow) <= totalDistributed)'
      <4>1. (IInv /\ TotalsInv => SumOver(Accounts, EarnedNow) <= totalDistributed)'
        BY EarnedDistributed, PTL
      <4> QED BY <4>1
    <3> QED BY <2>1, <3>1
  <2>5. Dividends!Total(EarnedNow') <= totalDistributed
    BY <2>4, SameTotal
  <2>6. /\ \A a \in Accounts : EarnedNow'[a] >= EarnedNow[a]
        /\ \A a \in Excluded : EarnedNow'[a] = 0
    BY <2>2, <2>3
  <2> QED BY Zenon, <2>1, <2>5, <2>6 DEF Dividends!TimePasses
<1>3. ASSUME NEW amount \in Nat, Distribute(amount) PROVE Dividends!Give
  <2>1. /\ now' = now /\ claimed' = claimed /\ amount > 0
        /\ totalDistributed' = totalDistributed + amount
    BY Zenon, <1>3 DEF Distribute
  <2>2. EarnedNow' = EarnedNow
    BY <2>1, StepEarnsNothing
  <2> QED BY <1>1, <2>1, <2>2 DEF Dividends!Give
<1>4. ASSUME NEW a \in Accounts, Claim(a) PROVE Dividends!PayOut(a)
  <2>1. now' = now /\ totalDistributed' = totalDistributed
    BY Zenon, <1>4 DEF Claim
  <2>2. EarnedNow' = EarnedNow
    BY <2>1, StepEarnsNothing
  <2> QED BY <1>4, <2>1, <2>2, ClaimPays DEF Dividends!PayOut
<1>5. ASSUME now' = now, totalDistributed' = totalDistributed, claimed' = claimed
      PROVE  UNCHANGED <<now, totalDistributed, EarnedNow, claimed>>
  BY <1>5, StepEarnsNothing
<1>6. ASSUME NEW from \in Accounts, NEW to, NEW value \in Nat, Update(from, to, value)
      PROVE  UNCHANGED <<now, totalDistributed, EarnedNow, claimed>>
  <2>1. now' = now /\ totalDistributed' = totalDistributed /\ claimed' = claimed
    BY Zenon, <1>6 DEF Update, cash
  <2> QED BY <1>5, <2>1
<1>7. CASE MarkGraduated
  BY <1>5, <1>7 DEF MarkGraduated, cash
<1>8. CASE UNCHANGED vars
  BY <1>5, <1>8 DEF vars, cash
<1> QED BY <1>2, <1>3, <1>4, <1>6, <1>7, <1>8, Moves DEF Dividends!Next

(* LaunchToken implements HolderDividends: time is all that earns, never more *)
(* than was distributed, and a claim pays out all of it.                    *)
THEOREM Refinement == Spec => DividendsRefined
<1>1. Init => Dividends!Init
  BY InitEarned, TokenAssumption DEF Dividends!Init, Init
<1>2. IInv /\ TotalsInv /\ (IInv /\ TotalsInv)' /\ [Next]_vars => [Dividends!Next]_Dividends!dividendVars
  BY StepRefines DEF Dividends!dividendVars
<1> QED BY <1>1, <1>2, BooksInvariance, PTL DEF Spec, DividendsRefined, Dividends!Spec
===============================================================================
