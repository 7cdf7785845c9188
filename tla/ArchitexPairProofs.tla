------------------------- MODULE ArchitexPairProofs -------------------------
(***************************************************************************)
(* What holds of an ArchitexPair for every amount, fee and number of       *)
(* accounts, in two invariants.  IInv says what the records are worth and  *)
(* needs nothing of the LP supply, because burn pays within the balances   *)
(* it has; ShareInv, on top of it, says whose the supply is and with it    *)
(* what a share is worth.                                                  *)
(***************************************************************************)
EXTENDS ArchitexPair, ArithmeticProofs

(* A pool as the functions leave it, the supply aside. *)
IsPool(p) ==
  /\ p = [balance0 |-> p.balance0, balance1 |-> p.balance1,
          reserve0 |-> p.reserve0, reserve1 |-> p.reserve1,
          kLast |-> p.kLast, supply |-> p.supply]
  /\ p.balance0 \in Nat /\ p.balance1 \in Nat
  /\ p.reserve0 \in Nat /\ p.reserve1 \in Nat
  /\ p.kLast \in Nat

(* A pool whose records hold, but for what is lent. *)
Sound(p, out0, out1) ==
  /\ IsPool(p)
  /\ p.balance0 + out0 >= p.reserve0
  /\ p.balance1 + out1 >= p.reserve1
  /\ p.kLast <= Product(p)

-----------------------------------------------------------------------------
(* A pair that settles a swap has not lost product: the fee is on top.     *)
LEMMA SettledProduct ==
  ASSUME NEW p, IsPool(p), NEW out0 \in Nat, NEW out1 \in Nat,
         out0 <= p.reserve0, out1 <= p.reserve1,
         Settles(p, out0, out1)
  PROVE  p.reserve0 * p.reserve1 <= p.balance0 * p.balance1
<1> DEFINE in0 == AmountPaidIn(p.balance0, p.reserve0 - out0)
           in1 == AmountPaidIn(p.balance1, p.reserve1 - out1)
<1>1. /\ p.balance0 \in Nat /\ p.balance1 \in Nat
      /\ p.reserve0 - out0 \in Nat /\ p.reserve1 - out1 \in Nat
      /\ p.reserve0 * p.reserve1 \in Nat
  <2>1. /\ p.balance0 \in Nat /\ p.balance1 \in Nat
        /\ p.reserve0 \in Nat /\ p.reserve1 \in Nat
    BY DEF IsPool
  <2>2. p.reserve0 * p.reserve1 \in Nat
    BY <2>1, Products
  <2> QED BY <2>1, <2>2
<1>2. in0 \in 0..p.balance0 /\ in1 \in 0..p.balance1
  BY <1>1 DEF AmountPaidIn
<1>3. (p.balance0 * FEE_BASE - in0 * FEE) * (p.balance1 * FEE_BASE - in1 * FEE)
        >= (p.reserve0 * p.reserve1) * FEE_BASE * FEE_BASE
  BY DEF Settles, Product
<1>4. FEE \in Nat /\ FEE_BASE \in Nat /\ FEE < FEE_BASE
  BY PairMathAssumption
<1> HIDE DEF in0, in1
<1> QED BY <1>1, <1>2, <1>3, <1>4, FeeKeepsProduct

-----------------------------------------------------------------------------
(* What each function makes of a sound pool. *)

LEMMA RecordedSound ==
  ASSUME NEW p, NEW balance0 \in Nat, NEW balance1 \in Nat, NEW supply, NEW feeOn \in BOOLEAN
  PROVE  Sound(Recorded(p, balance0, balance1, supply, feeOn), 0, 0)
<1> DEFINE q == Recorded(p, balance0, balance1, supply, feeOn)
<1>1. balance0 * balance1 \in Nat
  BY Products
<1>2. /\ q = [balance0 |-> q.balance0, balance1 |-> q.balance1,
              reserve0 |-> q.reserve0, reserve1 |-> q.reserve1,
              kLast |-> q.kLast, supply |-> q.supply]
      /\ q.balance0 = balance0 /\ q.balance1 = balance1
      /\ q.reserve0 = balance0 /\ q.reserve1 = balance1
      /\ q.kLast = IF feeOn THEN balance0 * balance1 ELSE 0
  BY DEF Recorded
<1> HIDE DEF q
<1>3. IsPool(q)
  BY <1>1, <1>2 DEF IsPool
<1>4. Product(q) = balance0 * balance1
  BY <1>2 DEF Product
<1>5. Sound(q, 0, 0)
  BY <1>1, <1>2, <1>3, <1>4 DEF Sound
<1> QED BY <1>5 DEF q

LEMMA MintSound ==
  ASSUME NEW p, Sound(p, 0, 0), NEW feeOn \in BOOLEAN
  PROVE  Sound(MintOf(p, feeOn).pool, 0, 0)
<1>1. p.balance0 \in Nat /\ p.balance1 \in Nat
  BY DEF Sound, IsPool
<1>2. \A supply : Sound(Recorded(p, p.balance0, p.balance1, supply, feeOn), 0, 0)
  BY <1>1, RecordedSound
<1>3. PICK supply : MintOf(p, feeOn).pool = Recorded(p, p.balance0, p.balance1, supply, feeOn)
  BY DEF MintOf
<1> QED BY <1>2, <1>3

LEMMA BurnSound ==
  ASSUME NEW p, Sound(p, 0, 0), NEW liquidity, NEW feeOn \in BOOLEAN,
         BurnOf(p, liquidity, feeOn).ok
  PROVE  Sound(BurnOf(p, liquidity, feeOn).pool, 0, 0)
<1> DEFINE b == BurnOf(p, liquidity, feeOn)
<1>1. p.balance0 \in Nat /\ p.balance1 \in Nat
  BY DEF Sound, IsPool
<1>2. b.amount0 \in 1..p.balance0 /\ b.amount1 \in 1..p.balance1
  BY DEF BurnOf
<1>3. PICK supply : b.pool = Recorded(p, p.balance0 - b.amount0, p.balance1 - b.amount1,
                                      supply, feeOn)
  BY DEF BurnOf
<1> HIDE DEF b
<1>4. p.balance0 - b.amount0 \in Nat /\ p.balance1 - b.amount1 \in Nat
  BY <1>1, <1>2
<1>5. Sound(b.pool, 0, 0)
  BY <1>3, <1>4, RecordedSound
<1> QED BY <1>5 DEF b

LEMMA SyncedSound ==
  ASSUME NEW p, IsPool(p),
         p.kLast <= Product(p), p.reserve0 * p.reserve1 <= p.balance0 * p.balance1
  PROVE  Sound(Synced(p), 0, 0)
<1> DEFINE q == Synced(p)
<1>1. /\ q = [balance0 |-> q.balance0, balance1 |-> q.balance1,
              reserve0 |-> q.reserve0, reserve1 |-> q.reserve1,
              kLast |-> q.kLast, supply |-> q.supply]
      /\ q.balance0 = p.balance0 /\ q.balance1 = p.balance1
      /\ q.reserve0 = p.balance0 /\ q.reserve1 = p.balance1
      /\ q.kLast = p.kLast
  BY DEF Synced
<1> HIDE DEF q
<1>2. IsPool(q)
  BY <1>1 DEF IsPool
<1>3. Product(p) \in Nat /\ Product(q) \in Nat /\ Product(p) <= Product(q)
  BY <1>1, Products DEF Product, IsPool
<1>4. Sound(q, 0, 0)
  BY <1>1, <1>2, <1>3 DEF Sound, IsPool
<1> QED BY <1>4 DEF q

(* Only the balances change, and they still cover the records. *)
LEMMA WithBalancesSound ==
  ASSUME NEW p, IsPool(p), p.kLast <= Product(p),
         NEW balance0 \in Nat, NEW balance1 \in Nat, NEW out0 \in Nat, NEW out1 \in Nat,
         balance0 + out0 >= p.reserve0, balance1 + out1 >= p.reserve1
  PROVE  Sound(WithBalances(p, balance0, balance1), out0, out1)
<1> DEFINE q == WithBalances(p, balance0, balance1)
<1>1. /\ q = [balance0 |-> q.balance0, balance1 |-> q.balance1,
              reserve0 |-> q.reserve0, reserve1 |-> q.reserve1,
              kLast |-> q.kLast, supply |-> q.supply]
      /\ q.balance0 = balance0 /\ q.balance1 = balance1
      /\ q.reserve0 = p.reserve0 /\ q.reserve1 = p.reserve1
      /\ q.kLast = p.kLast
  BY DEF WithBalances
<1> HIDE DEF q
<1>2. IsPool(q) /\ Product(q) = Product(p)
  BY <1>1 DEF IsPool, Product
<1>3. Sound(q, out0, out1)
  BY <1>1, <1>2 DEF Sound
<1> QED BY <1>3 DEF q

LEMMA PaidSound ==
  ASSUME NEW p, Sound(p, 0, 0), NEW out0 \in Nat, NEW out1 \in Nat, Payable(p, out0, out1)
  PROVE  Sound(Paid(p, out0, out1), out0, out1)
<1>1. /\ p.balance0 - out0 \in Nat /\ p.balance1 - out1 \in Nat
      /\ (p.balance0 - out0) + out0 >= p.reserve0
      /\ (p.balance1 - out1) + out1 >= p.reserve1
  BY DEF Sound, IsPool, Payable
<1> QED BY <1>1, WithBalancesSound DEF Paid, Sound

(* A swap that settles leaves a sound pool, whatever arrived meanwhile.    *)
LEMMA SettledSound ==
  ASSUME NEW p, NEW out0 \in Nat, NEW out1 \in Nat, Sound(p, out0, out1),
         out0 <= p.reserve0, out1 <= p.reserve1, Settles(p, out0, out1)
  PROVE  Sound(Synced(p), 0, 0)
BY SettledProduct, SyncedSound DEF Sound

(* Tokens that arrive do no harm. *)
LEMMA GivenSound ==
  ASSUME NEW p, NEW out0 \in Nat, NEW out1 \in Nat, Sound(p, out0, out1), NEW amount \in Nat
  PROVE  /\ Sound(WithBalances(p, p.balance0 + amount, p.balance1), out0, out1)
         /\ Sound(WithBalances(p, p.balance0, p.balance1 + amount), out0, out1)
<1>1. /\ p.balance0 + amount \in Nat /\ p.balance1 + amount \in Nat
      /\ p.balance0 \in Nat /\ p.balance1 \in Nat
      /\ (p.balance0 + amount) + out0 >= p.reserve0
      /\ (p.balance1 + amount) + out1 >= p.reserve1
  BY DEF Sound, IsPool
<1> QED BY <1>1, WithBalancesSound DEF Sound

LEMMA SkimmedSound ==
  ASSUME NEW p, Sound(p, 0, 0)
  PROVE  Sound(Skimmed(p), 0, 0)
<1>1. p.reserve0 \in Nat /\ p.reserve1 \in Nat
  BY DEF Sound, IsPool
<1> QED BY <1>1, WithBalancesSound DEF Skimmed, Sound

-----------------------------------------------------------------------------
(* The inductive invariant: the pool is sound but for what is lent, what   *)
(* is lent was in its reserves, and the state a flash swap would return to *)
(* is sound and has the same records.                                      *)

FlashBacked ==
  \/ flash = NoFlash
  \/ /\ flash = [open |-> TRUE, out0 |-> flash.out0, out1 |-> flash.out1]
     /\ flash.out0 \in Nat /\ flash.out1 \in Nat
     /\ flash.out0 <= pool.reserve0 /\ flash.out1 <= pool.reserve1
     /\ Sound(saved.pool, 0, 0)
     /\ saved.pool.reserve0 = pool.reserve0 /\ saved.pool.reserve1 = pool.reserve1

Clock == now \in Nat

SumsInRange ==
  /\ sums.price0 \in 0..(SUM_WRAP - 1)
  /\ sums.price1 \in 0..(SUM_WRAP - 1)
  /\ sums.last \in Nat

IInv ==
  /\ Sound(pool, flash.out0, flash.out1)
  /\ FlashBacked
  /\ Clock
  /\ SumsInRange

LEMMA InitInv == Init => IInv
<1> SUFFICES ASSUME Init PROVE IInv
  OBVIOUS
<1>1. flash = NoFlash /\ flash.out0 = 0 /\ flash.out1 = 0
  BY DEF Init, NoFlash
<1>2. Sound(pool, 0, 0)
  BY DEF Init, EmptyPool, Sound, IsPool, Product
<1>3. SumsInRange
  BY PairAssumption DEF Init, SumsInRange
<1> QED BY <1>1, <1>2, <1>3 DEF Init, IInv, FlashBacked, Clock

LEMMA SummedInRange ==
  ASSUME IInv, Summed
  PROVE  SumsInRange'
<1>1. /\ SUM_WRAP \in Nat /\ SUM_WRAP > 0 /\ TIME_WRAP \in Nat /\ TIME_WRAP > 1
      /\ RESOLUTION \in Nat
  BY PairAssumption
<1>2. \A n \in Int : n % SUM_WRAP \in 0..(SUM_WRAP - 1)
  BY <1>1
<1>3. now % TIME_WRAP \in Nat
  BY <1>1 DEF IInv, Clock
<1>4. Elapsed \in Nat
  BY <1>1 DEF IInv, Clock, SumsInRange, Elapsed
<1>5. Priced(pool) => Price0(pool) \in Nat /\ Price1(pool) \in Nat
  <2> SUFFICES ASSUME Priced(pool) PROVE Price0(pool) \in Nat /\ Price1(pool) \in Nat
    OBVIOUS
  <2>1. /\ pool.reserve0 \in Nat /\ pool.reserve0 > 0
        /\ pool.reserve1 \in Nat /\ pool.reserve1 > 0
    BY DEF IInv, Sound, IsPool, Priced
  <2>2. pool.reserve1 * RESOLUTION \in Nat /\ pool.reserve0 * RESOLUTION \in Nat
    BY <1>1, <2>1, Products
  <2>3. \A a, b \in Nat : b > 0 => a \div b \in Nat
    OBVIOUS
  <2> QED BY <2>1, <2>2, <2>3 DEF Price0, Price1
<1>6. Priced(pool) => /\ Price0(pool) * Elapsed \in Nat
                      /\ Price1(pool) * Elapsed \in Nat
  BY <1>4, <1>5, Products
<1>7. /\ sums'.last = now % TIME_WRAP
      /\ sums'.price0 = IF Elapsed > 0 /\ Priced(pool)
                          THEN (sums.price0 + Price0(pool) * Elapsed) % SUM_WRAP
                          ELSE sums.price0
      /\ sums'.price1 = IF Elapsed > 0 /\ Priced(pool)
                          THEN (sums.price1 + Price1(pool) * Elapsed) % SUM_WRAP
                          ELSE sums.price1
  BY DEF Summed
<1>8. sums.price0 \in 0..(SUM_WRAP - 1) /\ sums.price1 \in 0..(SUM_WRAP - 1)
  BY DEF IInv, SumsInRange
<1>9. /\ sums'.price0 \in 0..(SUM_WRAP - 1)
      /\ sums'.price1 \in 0..(SUM_WRAP - 1)
  BY <1>2, <1>6, <1>7, <1>8
<1> QED BY <1>3, <1>7, <1>9 DEF SumsInRange

(* A function that is locked out while a borrower runs, brings the sums up *)
(* to date and leaves a sound pool.                                        *)
LEMMA LockedInv ==
  ASSUME IInv, Unlocked, Sound(pool', 0, 0), UNCHANGED <<now, frame>>,
         SumsInRange'
  PROVE  IInv'
<1>1. flash = NoFlash /\ flash' = NoFlash
  BY DEF IInv, FlashBacked, Unlocked, frame
<1>2. flash'.out0 = 0 /\ flash'.out1 = 0
  BY <1>1 DEF NoFlash
<1> QED BY <1>1, <1>2 DEF IInv, FlashBacked, Clock

LEMMA NoneOut ==
  ASSUME IInv, Unlocked
  PROVE  flash = NoFlash /\ Sound(pool, 0, 0)
<1>1. flash = NoFlash
  BY DEF IInv, FlashBacked, Unlocked
<1> QED BY <1>1 DEF IInv, NoFlash

LEMMA GivenInv ==
  ASSUME IInv, NEW amount \in Nat, UNCHANGED <<now, sums, frame>>,
         \/ pool' = WithBalances(pool, pool.balance0 + amount, pool.balance1)
         \/ pool' = WithBalances(pool, pool.balance0, pool.balance1 + amount)
  PROVE  IInv'
<1>1. flash.out0 \in Nat /\ flash.out1 \in Nat
  BY DEF IInv, FlashBacked, NoFlash
<1>2. Sound(pool', flash.out0, flash.out1)
  BY <1>1, GivenSound DEF IInv
<1>3. pool'.reserve0 = pool.reserve0 /\ pool'.reserve1 = pool.reserve1
  BY DEF WithBalances
<1>4. flash' = flash /\ saved' = saved /\ now' = now /\ sums' = sums
  BY DEF frame
<1>5. FlashBacked'
  BY <1>3, <1>4 DEF IInv, FlashBacked
<1> QED BY <1>2, <1>4, <1>5 DEF IInv, Clock, SumsInRange

LEMMA MintInv == ASSUME IInv, NEW to, Mint(to) PROVE IInv'
<1>1. /\ Unlocked /\ Summed /\ UNCHANGED <<now, frame>>
      /\ pool' = MintOf(pool, FeeOn).pool
  BY Zenon DEF Mint
<1>2. FeeOn \in BOOLEAN
  BY DEF FeeOn
<1>3. Sound(pool', 0, 0)
  BY <1>1, <1>2, NoneOut, MintSound
<1> QED BY <1>1, <1>3, SummedInRange, LockedInv

LEMMA BurnInv == ASSUME IInv, NEW to, Burn(to) PROVE IInv'
<1>1. /\ Unlocked /\ Summed /\ UNCHANGED <<now, frame>>
      /\ BurnOf(pool, lp[Self], FeeOn).ok
      /\ pool' = BurnOf(pool, lp[Self], FeeOn).pool
  BY Zenon DEF Burn
<1>2. FeeOn \in BOOLEAN
  BY DEF FeeOn
<1>3. Sound(pool', 0, 0)
  BY <1>1, <1>2, NoneOut, BurnSound
<1> QED BY <1>1, <1>3, SummedInRange, LockedInv

LEMMA SwapInv ==
  ASSUME IInv, NEW to, NEW out0 \in Nat, NEW out1 \in Nat, Swap(to, out0, out1)
  PROVE  IInv'
<1>1. /\ Unlocked /\ Summed /\ UNCHANGED <<now, frame>>
      /\ Payable(pool, out0, out1)
      /\ Settles(Paid(pool, out0, out1), out0, out1)
      /\ pool' = Synced(Paid(pool, out0, out1))
  BY Zenon DEF Swap
<1>2. Sound(pool, 0, 0)
  BY <1>1, NoneOut
<1>3. Sound(Paid(pool, out0, out1), out0, out1)
  BY <1>1, <1>2, PaidSound
<1>4. out0 <= Paid(pool, out0, out1).reserve0 /\ out1 <= Paid(pool, out0, out1).reserve1
  BY <1>1, <1>2 DEF Paid, WithBalances, Payable, Sound, IsPool
<1>5. Sound(pool', 0, 0)
  BY <1>1, <1>3, <1>4, SettledSound
<1> QED BY <1>1, <1>5, SummedInRange, LockedInv

LEMMA BeginFlashInv ==
  ASSUME IInv, NEW to, NEW out0 \in Nat, NEW out1 \in Nat, BeginFlash(to, out0, out1)
  PROVE  IInv'
<1>1. /\ Unlocked /\ UNCHANGED <<now, sums>>
      /\ Payable(pool, out0, out1)
      /\ pool' = Paid(pool, out0, out1)
      /\ flash' = [open |-> TRUE, out0 |-> out0, out1 |-> out1]
      /\ saved' = Snapshot
  BY Zenon DEF BeginFlash
<1>2. Sound(pool, 0, 0)
  BY <1>1, NoneOut
<1>3. Sound(pool', out0, out1)
  BY <1>1, <1>2, PaidSound
<1>4. /\ saved'.pool = pool
      /\ pool'.reserve0 = pool.reserve0 /\ pool'.reserve1 = pool.reserve1
      /\ flash' = [open |-> TRUE, out0 |-> flash'.out0, out1 |-> flash'.out1]
      /\ flash'.out0 = out0 /\ flash'.out1 = out1
  BY <1>1 DEF Snapshot, Paid, WithBalances
<1>5. out0 <= pool.reserve0 /\ out1 <= pool.reserve1
  BY <1>1, <1>2 DEF Payable, Sound, IsPool
<1>6. FlashBacked'
  BY <1>2, <1>4, <1>5 DEF FlashBacked
<1> QED BY <1>1, <1>3, <1>4, <1>6 DEF IInv, Clock, SumsInRange

LEMMA EndFlashInv == ASSUME IInv, EndFlash PROVE IInv'
<1>1. /\ flash.open /\ Settles(pool, flash.out0, flash.out1)
      /\ pool' = Synced(pool) /\ Summed
      /\ flash' = NoFlash /\ now' = now
  BY DEF EndFlash
<1>2. /\ flash.out0 \in Nat /\ flash.out1 \in Nat
      /\ flash.out0 <= pool.reserve0 /\ flash.out1 <= pool.reserve1
  BY <1>1 DEF IInv, FlashBacked, NoFlash
<1>3. Sound(pool', 0, 0)
  BY <1>1, <1>2, SettledSound DEF IInv
<1>4. flash'.out0 = 0 /\ flash'.out1 = 0
  BY <1>1 DEF NoFlash
<1> QED BY <1>1, <1>3, <1>4, SummedInRange DEF IInv, FlashBacked, Clock

LEMMA RevertFlashInv == ASSUME IInv, RevertFlash PROVE IInv'
<1>1. flash.open /\ pool' = saved.pool /\ flash' = NoFlash /\ UNCHANGED <<now, sums>>
  BY DEF RevertFlash
<1>2. Sound(pool', 0, 0)
  BY <1>1 DEF IInv, FlashBacked, NoFlash
<1>3. flash'.out0 = 0 /\ flash'.out1 = 0
  BY <1>1 DEF NoFlash
<1> QED BY <1>1, <1>2, <1>3 DEF IInv, FlashBacked, Clock, SumsInRange

LEMMA SkimInv == ASSUME IInv, NEW to, Skim(to) PROVE IInv'
<1>1. Unlocked /\ pool' = Skimmed(pool) /\ UNCHANGED <<now, sums, frame>>
  BY Zenon DEF Skim
<1>2. Sound(pool', 0, 0)
  BY <1>1, NoneOut, SkimmedSound
<1>3. SumsInRange'
  BY <1>1 DEF IInv, SumsInRange
<1> QED BY <1>1, <1>2, <1>3, LockedInv

LEMMA SyncInv == ASSUME IInv, Sync PROVE IInv'
<1>1. Unlocked /\ pool' = Synced(pool) /\ Summed /\ UNCHANGED <<now, frame>>
  BY DEF Sync
<1>2. Sound(pool, 0, 0)
  BY <1>1, NoneOut
<1>3. /\ pool.reserve0 \in Nat /\ pool.reserve1 \in Nat
      /\ pool.balance0 \in Nat /\ pool.balance1 \in Nat
      /\ pool.reserve0 <= pool.balance0 /\ pool.reserve1 <= pool.balance1
  BY <1>2 DEF Sound, IsPool
<1>4. pool.reserve0 * pool.reserve1 <= pool.balance0 * pool.balance1
  BY <1>3, ProductMono
<1>5. Sound(pool', 0, 0)
  BY <1>1, <1>2, <1>4, SyncedSound DEF Sound
<1> QED BY <1>1, <1>5, SummedInRange, LockedInv

LEMMA SameInv ==
  ASSUME IInv, UNCHANGED <<pool, sums, frame>>, now' \in Nat
  PROVE  IInv'
BY DEF IInv, FlashBacked, Clock, SumsInRange, frame

LEMMA NextInv == IInv /\ [Next]_vars => IInv'
<1> SUFFICES ASSUME IInv, [Next]_vars PROVE IInv'
  OBVIOUS
<1>1. Payments \subseteq Nat /\ Withdrawals \subseteq Nat /\ Loans \subseteq Nat
  BY PairAssumption
<1>2. now \in Nat
  BY DEF IInv, Clock
<1>3. ASSUME NEW a \in Accounts, NEW amount \in Payments,
             Send0(a, amount) \/ Send1(a, amount)
      PROVE  IInv'
  <2>1. \/ pool' = WithBalances(pool, pool.balance0 + amount, pool.balance1)
        \/ pool' = WithBalances(pool, pool.balance0, pool.balance1 + amount)
    BY <1>3 DEF Send0, Send1
  <2>2. UNCHANGED <<now, sums, frame>>
    BY <1>3 DEF Send0, Send1
  <2> QED BY <1>1, <2>1, <2>2, GivenInv
<1>4. ASSUME NEW from, NEW to, NEW amount, SendLp(from, to, amount)
      PROVE  IInv'
  BY <1>2, <1>4, SameInv DEF SendLp
<1>5. ASSUME NEW caller, NEW to, SetFeeTo(caller, to) \/ SetFeeToSetter(caller, to)
      PROVE  IInv'
  BY <1>2, <1>5, SameInv DEF SetFeeTo, SetFeeToSetter
<1>6. CASE Tick
  BY <1>2, <1>6, SameInv DEF Tick
<1>7. CASE UNCHANGED vars
  BY <1>2, <1>7, SameInv DEF vars, frame
<1>8. ASSUME NEW to, NEW out0 \in Withdrawals, NEW out1 \in Withdrawals, Swap(to, out0, out1)
      PROVE  IInv'
  BY <1>1, <1>8, SwapInv
<1>9. ASSUME NEW to, NEW out0 \in Loans, NEW out1 \in Loans, BeginFlash(to, out0, out1)
      PROVE  IInv'
  BY <1>1, <1>9, BeginFlashInv
<1> QED
  BY <1>3, <1>4, <1>5, <1>6, <1>7, <1>8, <1>9,
     MintInv, BurnInv, EndFlashInv, RevertFlashInv, SkimInv, SyncInv DEF Next

THEOREM PairInvariance == Spec => []IInv
BY InitInv, NextInv, PTL DEF Spec

(* What the pair has recorded it holds, but for an open loan: the          *)
(* subtractions of mint and skim never fail.                               *)
THEOREM PairSolvent == Spec => []ReservesBacked
<1>1. IInv => ReservesBacked
  BY DEF IInv, Sound, ReservesBacked
<1> QED BY <1>1, PairInvariance, PTL

(* kLast never runs ahead of the product, however the protocol fee is      *)
(* switched.                                                               *)
THEOREM KLastNeverAhead == Spec => []KLastBehind
<1>1. IInv => KLastBehind
  BY DEF IInv, Sound, KLastBehind
<1> QED BY <1>1, PairInvariance, PTL

(* Together: the pair's records are what mint, burn and skim take them for. *)
THEOREM PairIsSound == Spec => []PairSound
BY PairSolvent, KLastNeverAhead, PTL DEF PairSound

(* Nothing the pair has recorded changes while a borrower runs. *)
THEOREM LockHolds == Spec => RecordsFrozen
<1> DEFINE Frozen == flash.open /\ flash'.open =>
             /\ pool'.reserve0 = pool.reserve0 /\ pool'.reserve1 = pool.reserve1
             /\ pool'.kLast = pool.kLast /\ pool'.supply = pool.supply
             /\ sums' = sums
<1>1. ASSUME [Next]_vars, flash.open, flash'.open PROVE Frozen
  <2>1. ASSUME NEW to, NEW out0, NEW out1,
               Mint(to) \/ Burn(to) \/ Swap(to, out0, out1) \/ BeginFlash(to, out0, out1)
                 \/ Skim(to) \/ Sync \/ Tick
        PROVE  FALSE
    BY <1>1, <2>1, Zenon DEF Mint, Burn, Swap, BeginFlash, Skim, Sync, Tick, Unlocked
  <2>2. ASSUME EndFlash \/ RevertFlash PROVE FALSE
    BY <1>1, <2>2 DEF EndFlash, RevertFlash, NoFlash
  <2>3. ASSUME NEW a, NEW amount, Send0(a, amount) \/ Send1(a, amount) PROVE Frozen
    BY <2>3 DEF Send0, Send1, WithBalances
  <2>4. ASSUME NEW a, NEW b, NEW amount,
               SendLp(a, b, amount) \/ SetFeeTo(a, b) \/ SetFeeToSetter(a, b)
        PROVE  Frozen
    BY <2>4 DEF SendLp, SetFeeTo, SetFeeToSetter
  <2>5. CASE UNCHANGED vars
    BY <2>5 DEF vars
  <2> HIDE DEF Frozen
  <2> QED BY <1>1, <2>1, <2>2, <2>3, <2>4, <2>5, Zenon DEF Next
<1>2. [Next]_vars => [Frozen]_vars
  BY <1>1
<1> QED BY <1>2, PTL DEF Spec, RecordsFrozen

-----------------------------------------------------------------------------
(* Remainders. *)

LEMMA Division ==
  ASSUME NEW a \in Int, NEW n \in Nat, n > 0
  PROVE  a \div n \in Int /\ a % n \in 0..(n - 1) /\ a = n * (a \div n) + (a % n)
OBVIOUS

(* There is one remainder. *)
LEMMA Remainder ==
  ASSUME NEW a \in Int, NEW n \in Nat, n > 0, NEW q \in Int, NEW r \in 0..(n - 1),
         a = n * q + r
  PROVE  a % n = r
<1> DEFINE d == a \div n
           m == a % n
<1>1. d \in Int /\ m \in 0..(n - 1) /\ a = n * d + m
  BY Division
<1> HIDE DEF d, m
<1>2. CASE d < q
  <2>1. n * (d + 1) <= n * q
    BY <1>1, <1>2, Products
  <2>2. n * (d + 1) = n * d + n
    BY <1>1
  <2>3. n * d \in Int /\ n * q \in Int
    BY <1>1
  <2> QED BY <1>1, <2>1, <2>2, <2>3
<1>3. CASE q < d
  <2>1. n * (q + 1) <= n * d
    BY <1>1, <1>3, Products
  <2>2. n * (q + 1) = n * q + n
    OBVIOUS
  <2>3. n * d \in Int /\ n * q \in Int
    BY <1>1
  <2> QED BY <1>1, <2>1, <2>2, <2>3
<1>4. CASE q = d
  <2>1. n * d \in Int
    BY <1>1
  <2> QED BY <1>1, <1>4, <2>1 DEF m
<1> QED BY <1>1, <1>2, <1>3, <1>4

LEMMA SameRemainder ==
  ASSUME NEW n \in Nat, n > 0, NEW r \in 0..(n - 1)
  PROVE  r % n = r
<1>1. r = n * 0 + r
  OBVIOUS
<1> QED BY <1>1, Remainder

(* Nothing has elapsed since a reading of the wrapping clock. *)
LEMMA ReadingIsNow ==
  ASSUME NEW a \in Int, NEW n \in Nat, n > 0
  PROVE  (a - (a % n)) % n = 0
<1>1. a \div n \in Int /\ a % n \in 0..(n - 1) /\ a = n * (a \div n) + (a % n)
  BY Division
<1>2. n * (a \div n) \in Int
  BY <1>1
<1>3. a - (a % n) = n * (a \div n) + 0 /\ a - (a % n) \in Int /\ 0 \in 0..(n - 1)
  BY <1>1, <1>2
<1> QED BY <1>1, <1>3, Remainder, Zenon

(* The next second, short of a wrap. *)
LEMMA NextSecond ==
  ASSUME NEW a \in Int, NEW n \in Nat, n > 0, (a % n) + 1 < n
  PROVE  (a + 1) % n = (a % n) + 1
<1>1. a \div n \in Int /\ a % n \in 0..(n - 1) /\ a = n * (a \div n) + (a % n)
  BY Division
<1>2. n * (a \div n) \in Int
  BY <1>1
<1>3. /\ a + 1 = n * (a \div n) + ((a % n) + 1)
      /\ (a % n) + 1 \in 0..(n - 1) /\ a + 1 \in Int
  BY <1>1, <1>2
<1> QED BY <1>1, <1>3, Remainder, Zenon

(* Adding to a remainder. *)
LEMMA RemainderSum ==
  ASSUME NEW a \in Int, NEW b \in Int, NEW n \in Nat, n > 0
  PROVE  ((a % n) + b) % n = (a + b) % n
<1> DEFINE q == a \div n
           r == a % n
           s == (r + b) \div n
           t == (r + b) % n
<1>1. q \in Int /\ r \in 0..(n - 1) /\ a = n * q + r
  BY Division
<1> HIDE DEF q, r
<1>2. s \in Int /\ t \in 0..(n - 1) /\ r + b = n * s + t
  BY <1>1, Division
<1> HIDE DEF s, t
<1>3. n * (q + s) = n * q + n * s /\ n * q \in Int /\ n * s \in Int
  BY <1>1, <1>2
<1>4. a + b = n * (q + s) + t /\ a + b \in Int /\ q + s \in Int
  BY <1>1, <1>2, <1>3
<1>5. (a + b) % n = t
  BY <1>2, <1>4, Remainder, Zenon
<1>6. ((a % n) + b) % n = t
  BY DEF r, t
<1> QED BY <1>5, <1>6

-----------------------------------------------------------------------------
(* Price sums. *)

PriceFacts(p) ==
  Priced(p) => Price0(p) \in Nat /\ Price1(p) \in Nat

LEMMA PricesAreNat ==
  ASSUME NEW p, IsPool(p)
  PROVE  PriceFacts(p)
<1> SUFFICES ASSUME Priced(p) PROVE Price0(p) \in Nat /\ Price1(p) \in Nat
  BY DEF PriceFacts
<1>1. /\ p.reserve0 \in Nat /\ p.reserve0 > 0 /\ p.reserve1 \in Nat /\ p.reserve1 > 0
  BY DEF IsPool, Priced
<1>2. p.reserve1 * RESOLUTION \in Nat /\ p.reserve0 * RESOLUTION \in Nat
  BY <1>1, PairAssumption, Products
<1>3. \A a, b \in Nat : b > 0 => a \div b \in Nat
  OBVIOUS
<1> QED BY <1>1, <1>2, <1>3 DEF Price0, Price1

LEMMA ElapsedType == IInv => Elapsed \in 0..(TIME_WRAP - 1)
<1>1. TIME_WRAP \in Nat /\ TIME_WRAP > 1
  BY PairAssumption
<1>2. IInv => now - sums.last \in Int
  BY DEF IInv, Clock, SumsInRange
<1> QED BY <1>1, <1>2, Division DEF Elapsed

(* Sums just brought up to date are what anyone extrapolates. *)
LEMMA UpToDateSums ==
  ASSUME IInv, Elapsed = 0
  PROVE  SumsNow = <<sums.price0, sums.price1>>
<1>1. /\ SUM_WRAP \in Nat /\ SUM_WRAP > 0
      /\ sums.price0 \in 0..(SUM_WRAP - 1) /\ sums.price1 \in 0..(SUM_WRAP - 1)
  BY PairAssumption DEF IInv, SumsInRange
<1>2. sums.price0 % SUM_WRAP = sums.price0 /\ sums.price1 % SUM_WRAP = sums.price1
  BY <1>1, SameRemainder
<1>3. PriceFacts(pool)
  BY PricesAreNat DEF IInv, Sound
<1>4. Priced(pool) => /\ sums.price0 + Price0(pool) * Elapsed = sums.price0
                      /\ sums.price1 + Price1(pool) * Elapsed = sums.price1
  BY <1>1, <1>3 DEF PriceFacts
<1> QED BY <1>2, <1>4 DEF SumsNow

(* What a step may do to the extrapolated sums. *)
Follows ==
  SumsNow' =
    IF Priced(pool)
      THEN <<(SumsNow[1] + Price0(pool) * (now' - now)) % SUM_WRAP,
             (SumsNow[2] + Price1(pool) * (now' - now)) % SUM_WRAP>>
      ELSE SumsNow

(* No time passes and the extrapolated sums stay. *)
LEMMA StandStill ==
  ASSUME IInv, now' = now, SumsNow' = SumsNow
  PROVE  Follows
<1>1. now' - now = 0
  BY DEF IInv, Clock
<1>2. CASE ~Priced(pool)
  BY <1>2 DEF Follows
<1>3. CASE Priced(pool)
  <2>1. Price0(pool) \in Nat /\ Price1(pool) \in Nat
    BY <1>3, PricesAreNat DEF IInv, Sound, PriceFacts
  <2>2. /\ SUM_WRAP \in Nat /\ SUM_WRAP > 0
        /\ sums.price0 \in Nat /\ sums.price1 \in Nat /\ Elapsed \in Nat
    BY PairAssumption, ElapsedType DEF IInv, SumsInRange
  <2>3. /\ sums.price0 + Price0(pool) * Elapsed \in Int
        /\ sums.price1 + Price1(pool) * Elapsed \in Int
    BY <2>1, <2>2
  <2> DEFINE a == SumsNow[1]
             b == SumsNow[2]
  <2>4. SumsNow = <<a, b>>
    BY DEF SumsNow
  <2>5. /\ a = (sums.price0 + Price0(pool) * Elapsed) % SUM_WRAP
        /\ b = (sums.price1 + Price1(pool) * Elapsed) % SUM_WRAP
    BY <1>3 DEF SumsNow
  <2> HIDE DEF a, b
  <2>6. a \in 0..(SUM_WRAP - 1) /\ b \in 0..(SUM_WRAP - 1)
    BY <2>2, <2>3, <2>5, Division
  <2>7. a % SUM_WRAP = a /\ b % SUM_WRAP = b
    BY <2>2, <2>6, SameRemainder
  <2>8. a + Price0(pool) * 0 = a /\ b + Price1(pool) * 0 = b
    BY <2>1, <2>2, <2>6
  <2>9. SumsNow' = <<(a + Price0(pool) * (now' - now)) % SUM_WRAP,
                     (b + Price1(pool) * (now' - now)) % SUM_WRAP>>
    BY <1>1, <2>4, <2>7, <2>8
  <2> QED BY <1>3, <2>9 DEF Follows, a, b
<1> QED BY <1>2, <1>3

(* Bringing the sums up to date leaves what is extrapolated from them. *)
LEMMA SummedFollows ==
  ASSUME IInv, IInv', Summed, now' = now
  PROVE  Follows
<1>1. TIME_WRAP \in Nat /\ TIME_WRAP > 1 /\ now \in Int
  BY PairAssumption DEF IInv, Clock
<1>2. sums'.last = now % TIME_WRAP
  BY DEF Summed
<1>3. (now - (now % TIME_WRAP)) % TIME_WRAP = 0
  BY <1>1, ReadingIsNow
<1>4. Elapsed' = 0
  BY <1>2, <1>3 DEF Elapsed
<1>5. (IInv /\ Elapsed = 0 => SumsNow = <<sums.price0, sums.price1>>)'
  BY UpToDateSums, PTL
<1>6. SumsNow' = <<sums'.price0, sums'.price1>>
  BY <1>4, <1>5
<1>7. CASE Elapsed > 0
  <2>1. /\ sums'.price0 = IF Priced(pool)
                          THEN (sums.price0 + Price0(pool) * Elapsed) % SUM_WRAP
                          ELSE sums.price0
        /\ sums'.price1 = IF Priced(pool)
                          THEN (sums.price1 + Price1(pool) * Elapsed) % SUM_WRAP
                          ELSE sums.price1
    BY <1>7 DEF Summed
  <2>2. SumsNow' = SumsNow
    BY <1>6, <2>1 DEF SumsNow
  <2> QED BY <2>2, StandStill
<1>8. CASE Elapsed = 0
  <2>1. sums'.price0 = sums.price0 /\ sums'.price1 = sums.price1
    BY <1>8 DEF Summed
  <2>2. SumsNow' = SumsNow
    BY <1>6, <1>8, <2>1, UpToDateSums
  <2> QED BY <2>2, StandStill
<1> QED BY <1>7, <1>8, ElapsedType, PairAssumption

(* Nothing the sums depend on changes. *)
LEMMA SameFollows ==
  ASSUME IInv, UNCHANGED <<now, sums>>,
         pool'.reserve0 = pool.reserve0, pool'.reserve1 = pool.reserve1
  PROVE  Follows
<1>1. SumsNow' = SumsNow
  BY DEF SumsNow, Priced, Price0, Price1, Elapsed
<1> QED BY <1>1, StandStill

LEMMA TickFollows ==
  ASSUME IInv, Tick
  PROVE  Follows
<1>1. now' = now + 1 /\ pool' = pool /\ sums' = sums /\ Elapsed + 1 < TIME_WRAP
  BY DEF Tick
<1>2. /\ TIME_WRAP \in Nat /\ TIME_WRAP > 1 /\ SUM_WRAP \in Nat /\ SUM_WRAP > 0
      /\ now \in Nat /\ sums.last \in Nat
      /\ sums.price0 \in Nat /\ sums.price1 \in Nat /\ Elapsed \in Nat
  BY PairAssumption, ElapsedType DEF IInv, Clock, SumsInRange
<1>3. Elapsed' = Elapsed + 1
  <2> DEFINE e == now - sums.last
  <2>1. e \in Int /\ (e % TIME_WRAP) + 1 < TIME_WRAP
    BY <1>1, <1>2 DEF Elapsed
  <2>2. (e + 1) % TIME_WRAP = (e % TIME_WRAP) + 1
    BY <1>2, <2>1, NextSecond
  <2>3. now' - sums'.last = e + 1
    BY <1>1, <1>2
  <2> QED BY <2>2, <2>3 DEF Elapsed
<1>4. CASE ~Priced(pool)
  BY <1>1, <1>4 DEF Follows, SumsNow, Priced
<1>5. CASE Priced(pool)
  <2> DEFINE x == Price0(pool)
             y == Price1(pool)
  <2>1. x \in Nat /\ y \in Nat
    BY <1>5, PricesAreNat DEF IInv, Sound, PriceFacts
  <2>2. /\ SumsNow' = <<(sums.price0 + x * Elapsed') % SUM_WRAP,
                        (sums.price1 + y * Elapsed') % SUM_WRAP>>
        /\ SumsNow[1] = (sums.price0 + x * Elapsed) % SUM_WRAP
        /\ SumsNow[2] = (sums.price1 + y * Elapsed) % SUM_WRAP
    BY <1>1, <1>5 DEF SumsNow, Priced, Price0, Price1
  <2> HIDE DEF x, y
  <2>3. /\ sums.price0 + x * Elapsed \in Int
        /\ sums.price1 + y * Elapsed \in Int
    BY <1>2, <2>1
  <2>4. /\ (SumsNow[1] + x) % SUM_WRAP = ((sums.price0 + x * Elapsed) + x) % SUM_WRAP
        /\ (SumsNow[2] + y) % SUM_WRAP = ((sums.price1 + y * Elapsed) + y) % SUM_WRAP
    BY <1>2, <2>1, <2>2, <2>3, RemainderSum
  <2>5. /\ (sums.price0 + x * Elapsed) + x = sums.price0 + x * (Elapsed + 1)
        /\ (sums.price1 + y * Elapsed) + y = sums.price1 + y * (Elapsed + 1)
    BY <1>2, <2>1
  <2>6. x * (now' - now) = x /\ y * (now' - now) = y
    BY <1>1, <1>2, <2>1
  <2>7. SumsNow' = <<(SumsNow[1] + x * (now' - now)) % SUM_WRAP,
                     (SumsNow[2] + y * (now' - now)) % SUM_WRAP>>
    BY <1>3, <2>2, <2>4, <2>5, <2>6
  <2> QED BY <1>5, <2>7 DEF Follows, x, y
<1> QED BY <1>4, <1>5

LEMMA StepFollows ==
  ASSUME IInv, [Next]_vars
  PROVE  Follows
<1>1. IInv'
  BY NextInv
<1>2. ASSUME NEW to, NEW out0, NEW out1,
             Mint(to) \/ Burn(to) \/ Swap(to, out0, out1) \/ EndFlash \/ Sync
      PROVE  Follows
  <2>1. Summed /\ now' = now
    BY <1>2, Zenon DEF Mint, Burn, Swap, EndFlash, Sync
  <2> QED BY <1>1, <2>1, SummedFollows
<1>3. ASSUME NEW a, NEW amount, Send0(a, amount) \/ Send1(a, amount) \/ Skim(a)
      PROVE  Follows
  <2>1. /\ UNCHANGED <<now, sums>>
        /\ pool'.reserve0 = pool.reserve0 /\ pool'.reserve1 = pool.reserve1
    BY <1>3 DEF Send0, Send1, Skim, Skimmed, WithBalances
  <2> QED BY <2>1, SameFollows
<1>4. ASSUME NEW to, NEW out0, NEW out1, BeginFlash(to, out0, out1)
      PROVE  Follows
  <2>1. /\ UNCHANGED <<now, sums>>
        /\ pool'.reserve0 = pool.reserve0 /\ pool'.reserve1 = pool.reserve1
    BY <1>4 DEF BeginFlash, Paid, WithBalances
  <2> QED BY <2>1, SameFollows
<1>5. ASSUME NEW a, NEW b, NEW amount,
             SendLp(a, b, amount) \/ SetFeeTo(a, b) \/ SetFeeToSetter(a, b)
      PROVE  Follows
  BY <1>5, SameFollows DEF SendLp, SetFeeTo, SetFeeToSetter
<1>6. CASE RevertFlash
  <2>1. saved.pool.reserve0 = pool.reserve0 /\ saved.pool.reserve1 = pool.reserve1
    BY <1>6 DEF RevertFlash, IInv, FlashBacked, NoFlash
  <2> QED BY <1>6, <2>1, SameFollows DEF RevertFlash
<1>7. CASE UNCHANGED vars
  BY <1>7, SameFollows DEF vars
<1> QED BY <1>2, <1>3, <1>4, <1>5, <1>6, <1>7, TickFollows, Zenon DEF Next

(* Extrapolated price sums move with time and with nothing else. *)
THEOREM PricesFollowTime == Spec => SumsFollowTime
<1> DEFINE A == LET seconds == now' - now
                IN  SumsNow' =
                      IF Priced(pool)
                        THEN <<(SumsNow[1] + Price0(pool) * seconds) % SUM_WRAP,
                               (SumsNow[2] + Price1(pool) * seconds) % SUM_WRAP>>
                        ELSE SumsNow
<1>1. IInv /\ [Next]_vars => [A]_vars
  BY StepFollows DEF Follows
<1> QED BY <1>1, PairInvariance, PTL DEF Spec, SumsFollowTime

(* Together: nobody can move what another reads of a pair, within a        *)
(* borrower's call or within a block.                                      *)
THEOREM SafeToRead == Spec => ReadsAreSafe
BY LockHolds, PricesFollowTime DEF ReadsAreSafe

-----------------------------------------------------------------------------
(* Quotes. *)

(* What getAmountOut quotes is below the reserve, and the reserves it      *)
(* leaves, less the fee, make up the product there was.                    *)
LEMMA QuoteKeepsProduct ==
  ASSUME NEW a \in Nat, NEW rIn \in Nat, NEW rOut \in Nat, a > 0, rIn > 0, rOut > 0
  PROVE  /\ AmountOut(a, rIn, rOut) \in Nat
         /\ AmountOut(a, rIn, rOut) < rOut
         /\ ((rIn + a) * FEE_BASE - a * FEE) * ((rOut - AmountOut(a, rIn, rOut)) * FEE_BASE)
              >= rIn * rOut * FEE_BASE * FEE_BASE
<1>1. FEE \in Nat /\ FEE_BASE \in Nat /\ FEE < FEE_BASE
  BY PairMathAssumption
<1>2. AmountOut(a, rIn, rOut)
        = (a * (FEE_BASE - FEE) * rOut) \div (rIn * FEE_BASE + a * (FEE_BASE - FEE))
  BY DEF AmountOut
<1> QED BY <1>1, <1>2, QuoteKeeps

(* Both ways round, the pair settles for what the router quotes: a swap    *)
(* sent its exact input never fails on the product.                        *)
THEOREM QuotedSwapsSettle ==
  ASSUME NEW p, IsPool(p), NEW a \in Nat, a > 0,
         p.balance0 = p.reserve0, p.balance1 = p.reserve1,
         p.reserve0 > 0, p.reserve1 > 0,
         Fits(p.balance0 + a, p.balance1 + a)
  PROVE  LET out1 == AmountOut(a, p.reserve0, p.reserve1)
             out0 == AmountOut(a, p.reserve1, p.reserve0)
         IN  /\ out1 > 0 =>
                  Settles(WithBalances(p, p.balance0 + a, p.balance1 - out1), 0, out1)
             /\ out0 > 0 =>
                  Settles(WithBalances(p, p.balance0 - out0, p.balance1 + a), out0, 0)
<1> DEFINE r0 == p.reserve0
           r1 == p.reserve1
           out1 == AmountOut(a, r0, r1)
           out0 == AmountOut(a, r1, r0)
           q == WithBalances(p, r0 + a, r1 - out1)
           w == WithBalances(p, r0 - out0, r1 + a)
<1>1. r0 \in Nat /\ r1 \in Nat /\ r0 > 0 /\ r1 > 0
  BY DEF IsPool
<1>2. /\ out1 \in Nat /\ out1 < r1
      /\ ((r0 + a) * FEE_BASE - a * FEE) * ((r1 - out1) * FEE_BASE)
           >= r0 * r1 * FEE_BASE * FEE_BASE
  BY <1>1, QuoteKeepsProduct
<1>3. /\ out0 \in Nat /\ out0 < r0
      /\ ((r1 + a) * FEE_BASE - a * FEE) * ((r0 - out0) * FEE_BASE)
           >= r1 * r0 * FEE_BASE * FEE_BASE
  BY <1>1, QuoteKeepsProduct
<1>4. /\ q.balance0 = r0 + a /\ q.balance1 = r1 - out1
      /\ q.reserve0 = r0 /\ q.reserve1 = r1
      /\ w.balance0 = r0 - out0 /\ w.balance1 = r1 + a
      /\ w.reserve0 = r0 /\ w.reserve1 = r1
  BY DEF WithBalances
<1>5. MaxReserve \in Nat /\ FEE \in Nat /\ FEE_BASE \in Nat /\ Fits(r0 + a, r1 + a)
  BY PairMathAssumption
<1> HIDE DEF r0, r1, out0, out1, q, w
<1>6. /\ AmountPaidIn(r0 + a, r0 - 0) = a /\ AmountPaidIn(r1 - out1, r1 - out1) = 0
      /\ AmountPaidIn(r0 - out0, r0 - out0) = 0 /\ AmountPaidIn(r1 + a, r1 - 0) = a
  BY <1>1, <1>2, <1>3 DEF AmountPaidIn
<1>7. Fits(r0 + a, r1 - out1) /\ Fits(r0 - out0, r1 + a)
  BY <1>1, <1>2, <1>3, <1>5 DEF Fits
<1>8. /\ (r1 - out1) * FEE_BASE - 0 * FEE = (r1 - out1) * FEE_BASE
      /\ (r0 - out0) * FEE_BASE - 0 * FEE = (r0 - out0) * FEE_BASE
  BY <1>1, <1>2, <1>3, <1>5
<1>9. Settles(q, 0, out1)
  BY <1>2, <1>4, <1>6, <1>7, <1>8 DEF Settles, Product
<1>10. /\ r1 * r0 = r0 * r1
       /\ ((r0 - out0) * FEE_BASE) * ((r1 + a) * FEE_BASE - a * FEE)
            = ((r1 + a) * FEE_BASE - a * FEE) * ((r0 - out0) * FEE_BASE)
  BY <1>1, <1>3, <1>5, Z3
<1>11. Settles(w, out0, 0)
  BY <1>3, <1>4, <1>6, <1>7, <1>8, <1>10 DEF Settles, Product
<1> QED BY <1>9, <1>11 DEF q, w, r0, r1, out0, out1

-----------------------------------------------------------------------------
(* Roots. *)

LEMMA RootIs == \A y \in Nat : Root(y) \in Nat /\ IsRoot(Root(y), y)
<1> SUFFICES ASSUME NEW y \in Nat PROVE Root(y) \in 0..y /\ IsRoot(Root(y), y)
  OBVIOUS
<1>1. \E z \in 0..y : z * z <= y /\ y < (z + 1) * (z + 1)
  BY RootExists DEF IsRoot
<1> QED BY <1>1 DEF Root, IsRoot

(* _sqrt is the whole square root, of every number. *)
THEOREM SqrtExact == \A y \in Nat : Sqrt(y) = Root(y)
<1> SUFFICES ASSUME NEW y \in Nat PROVE Sqrt(y) = Root(y)
  OBVIOUS
<1>1. Root(y) \in Nat /\ IsRoot(Root(y), y)
  BY RootIs
<1>2. CASE y > 3
  <2>1. Sqrt(y) = Newton(y)
    BY <1>2 DEF Sqrt, Newton, Descends, Descent
  <2>2. Newton(y) \in Nat /\ IsRoot(Newton(y), y)
    BY <1>2, NewtonRoot
  <2> QED BY <1>1, <2>1, <2>2, RootOnce
<1>3. CASE y <= 3
  <2>1. Sqrt(y) = IF y # 0 THEN 1 ELSE 0
    BY <1>3 DEF Sqrt
  <2>2. IsRoot(0, 0) /\ (y # 0 => IsRoot(1, y))
    BY <1>3 DEF IsRoot
  <2> QED BY <1>1, <2>1, <2>2, RootOnce
<1> QED BY <1>2, <1>3

-----------------------------------------------------------------------------
(* Shares: what the functions do to a pool's supply and to a share's part. *)

(* Sound, with a supply that is the shares of all holders; and if there is *)
(* one, some of it is locked and both reserves are positive.               *)
Shared(p, shares) ==
  /\ p.supply \in Nat
  /\ shares \in [Holders -> Nat]
  /\ p.supply = SumOver(Holders, shares)
  /\ p.supply > 0 => /\ shares[Dead] >= MINIMUM_LIQUIDITY
                     /\ p.reserve0 > 0 /\ p.reserve1 > 0

LEMMA HoldersFinite == IsFiniteSet(Holders)
<1>1. IsFiniteSet(Accounts \cup {Dead})
  BY FS_AddElement, PairAssumption
<1>2. IsFiniteSet((Accounts \cup {Dead}) \cup {Self})
  BY <1>1, FS_AddElement
<1>3. Holders = (Accounts \cup {Dead}) \cup {Self}
  BY DEF Holders
<1> QED BY <1>2, <1>3

(* Shares given to a holder, or to nobody when there are none to give. *)
LEMMA SharesAdded ==
  ASSUME NEW shares \in [Holders -> Nat], NEW who, NEW amount \in Int,
         who \in Holders \/ amount = 0,
         who \in Holders => shares[who] + amount >= 0
  PROVE  /\ Added(shares, who, amount) \in [Holders -> Nat]
         /\ SumOver(Holders, Added(shares, who, amount)) = SumOver(Holders, shares) + amount
         /\ SumOver(Holders, shares) \in Nat
         /\ \A h \in Holders :
              Added(shares, who, amount)[h] = IF h = who THEN shares[h] + amount ELSE shares[h]
<1> DEFINE more == Added(shares, who, amount)
<1>1. /\ more \in [Holders -> Int]
      /\ \A h \in Holders : /\ shares[h] \in Nat
                            /\ more[h] = IF h = who THEN shares[h] + amount ELSE shares[h]
  BY DEF Added
<1> HIDE DEF more
<1>2. \A h \in Holders : more[h] \in Nat
  BY <1>1
<1>3. more \in [Holders -> Nat]
  BY <1>1, <1>2
<1>4. SumOver(Holders, more) = SumOver(Holders, shares) + (IF who \in Holders THEN amount ELSE 0)
  <2> DEFINE base == shares
             extra == amount
  <2>1. \A h \in Holders : base[h] \in Int /\ more[h] = base[h] + (IF h = who THEN extra ELSE 0)
    BY <1>1
  <2>2. extra \in Int
    OBVIOUS
  <2> HIDE DEF base, extra
  <2>3. SumOver(Holders, more) = SumOver(Holders, base) + (IF who \in Holders THEN extra ELSE 0)
    BY <2>1, <2>2, HoldersFinite, SumAdded
  <2> QED BY <2>3 DEF base, extra
<1>5. SumOver(Holders, shares) \in Nat
  BY <1>1, HoldersFinite, SumNat
<1>6. SumOver(Holders, more) = SumOver(Holders, shares) + amount
  BY <1>4, <1>5
<1> QED BY <1>1, <1>3, <1>5, <1>6 DEF more

(* The protocol's shares are a number, none while its fee is off, and they *)
(* leave the others at least five sixths of the growth.                    *)
LEMMA FeeSharesFacts ==
  ASSUME NEW p, IsPool(p), p.supply \in Nat, NEW on \in BOOLEAN
  PROVE  /\ FeeShares(p, on) \in Nat
         /\ ~on \/ p.supply = 0 => FeeShares(p, on) = 0
         /\ LET rootK     == Root(Product(p))
                rootKLast == Root(p.kLast)
                charged   == on /\ p.kLast # 0 /\ rootK > rootKLast
                worth     == IF charged THEN (5 * rootK + rootKLast) * (5 * rootK + rootKLast)
                                        ELSE 36 * Product(p)
                supply    == p.supply + FeeShares(p, on)
            IN  /\ worth \in Nat /\ worth <= 36 * Product(p)
                /\ worth * (supply * supply) <= 36 * Product(p) * (p.supply * p.supply)
<1> DEFINE k  == Product(p)
           a  == Root(k)
           b  == Root(p.kLast)
           s  == p.supply
           fee == FeeShares(p, on)
           charged == on /\ p.kLast # 0 /\ a > b
           w  == 5 * a + b
           s1 == s + fee
<1>1. k \in Nat /\ p.kLast \in Nat /\ s \in Nat
  BY Products DEF IsPool, Product
<1> HIDE DEF k
<1>2. a \in Nat /\ b \in Nat /\ a * a <= k /\ a * a \in Nat
  <2>1. /\ Root(k) \in Nat /\ IsRoot(Root(k), k)
        /\ Root(p.kLast) \in Nat
    BY <1>1, RootIs
  <2>2. a \in Nat /\ b \in Nat /\ IsRoot(a, k)
    BY <2>1
  <2> HIDE DEF a, b
  <2> QED BY <2>2, Squares DEF IsRoot
<1>3. fee = IF charged THEN (s * (a - b)) \div (a * 5 + b) ELSE 0
  BY DEF FeeShares, k
<1> HIDE DEF fee, a, b, s
<1>0. s = 0 => fee = 0
  <2> SUFFICES ASSUME s = 0, charged PROVE fee = 0
    BY <1>3
  <2> DEFINE d == a * 5 + b
             n == s * (a - b)
  <2>1. d \in Nat /\ d > 0 /\ a - b \in Nat
    BY <1>2
  <2>2. n = 0
    BY <2>1
  <2> HIDE DEF d, n
  <2>3. n \div d = 0
    BY <2>1, <2>2
  <2> QED BY <1>3, <2>3 DEF d, n
<1>4. CASE ~charged
  <2>1. fee = 0 /\ s1 = s
    BY <1>1, <1>3, <1>4
  <2>2. 36 * k \in Nat /\ 36 * k <= 36 * k
    BY <1>1
  <2>3. (36 * k) * (s * s) \in Nat
    BY <1>1, <2>2, Products
  <2>4. (36 * k) * (s1 * s1) <= 36 * k * (s * s)
    BY <2>1, <2>3
  <2> QED BY <1>0, <1>4, <2>1, <2>2, <2>4 DEF k, a, b, s, fee
<1>5. CASE charged
  <2>1. a > b /\ a - b \in Nat /\ w \in Nat /\ w > 0 /\ w <= 6 * a
    BY <1>2, <1>5
  <2> DEFINE n == s * (a - b)
  <2>2. n \in Nat
    BY <1>1, <2>1, Products
  <2>3. fee = n \div w
    BY <1>2, <1>3, <1>5
  <2> HIDE DEF n, w
  <2>4. fee \in Nat /\ fee * w <= n
    BY <2>1, <2>2, <2>3, QuotientBack
  <2>5. s1 \in Nat /\ w * s1 = w * s + fee * w /\ w * s + n = (6 * a) * s
    <3>1. w * s1 = w * s + fee * w
      BY <1>1, <2>1, <2>4, Z3
    <3>2. w * s + n = (6 * a) * s
      BY <1>1, <1>2, Z3 DEF w, n
    <3> QED BY <1>1, <2>4, <3>1, <3>2
  <2> DEFINE u == w * s
             v == fee * w
             x == w * s1
             y == (6 * a) * s
  <2>6. x <= y /\ x \in Nat /\ y \in Nat
    <3>1. u \in Nat /\ v \in Nat /\ x \in Nat /\ y \in Nat
      BY <1>1, <1>2, <2>1, <2>4, <2>5, SMT
    <3>2. x = u + v /\ y = u + n /\ v <= n
      BY <2>4, <2>5
    <3> HIDE DEF u, v, x, y
    <3> QED BY <2>2, <3>1, <3>2
  <2>7. x * x <= y * y /\ x * x \in Nat /\ y * y \in Nat
    BY <2>6, Squares
  <2>8. x * x = (w * w) * (s1 * s1) /\ y * y = (36 * (a * a)) * (s * s)
    BY <1>1, <1>2, <2>1, <2>5, Z3
  <2>9. (36 * (a * a)) * (s * s) <= (36 * k) * (s * s)
    <3>1. s * s \in Nat /\ 36 * (a * a) \in Nat /\ 36 * k \in Nat /\ 36 * (a * a) <= 36 * k
      BY <1>1, <1>2, Squares
    <3> QED BY <3>1, Z3
  <2>10. (36 * k) * (s * s) \in Nat
    BY <1>1, Products
  <2> HIDE DEF x, y
  <2>11. (w * w) * (s1 * s1) <= 36 * k * (s * s)
    BY <2>7, <2>8, <2>9, <2>10
  <2>12. w * w \in Nat /\ w * w <= (6 * a) * (6 * a) /\ (6 * a) * (6 * a) \in Nat
    BY <1>2, <2>1, Squares
  <2>13. (6 * a) * (6 * a) = 36 * (a * a)
    BY <1>2, Z3
  <2>14. w * w <= 36 * k
    BY <1>1, <1>2, <2>12, <2>13
  <2> QED BY <1>0, <1>5, <2>4, <2>11, <2>12, <2>14 DEF w, k, a, b, s, fee
<1> QED BY <1>4, <1>5

(* mint: the shares it gives are worth no more than what was put in. *)
LEMMA MintShares ==
  ASSUME NEW p, Sound(p, 0, 0), p.supply \in Nat, NEW on \in BOOLEAN,
         p.supply > 0 => p.reserve0 > 0 /\ p.reserve1 > 0,
         MintOf(p, on).ok
  PROVE  LET m == MintOf(p, on)
             s == p.supply + FeeShares(p, on)
         IN  /\ m.fee = FeeShares(p, on) /\ m.shares \in Nat /\ m.locked \in Nat
             /\ m.pool.supply = s + m.locked + m.shares
             /\ m.pool.reserve0 > 0 /\ m.pool.reserve1 > 0
             /\ m.locked = IF p.supply = 0 THEN MINIMUM_LIQUIDITY ELSE 0
             /\ p.supply > 0 => Product(p) * (m.pool.supply * m.pool.supply)
                                  <= Product(m.pool) * (s * s)
<1> DEFINE m == MintOf(p, on)
           s == p.supply + FeeShares(p, on)
           r0 == p.reserve0
           r1 == p.reserve1
           b0 == p.balance0
           b1 == p.balance1
           a0 == b0 - r0
           a1 == b1 - r1
           shares == SharesFor(a0, a1, r0, r1, s)
           locked == IF s = 0 THEN MINIMUM_LIQUIDITY ELSE 0
<1>1. /\ r0 \in Nat /\ r1 \in Nat /\ b0 \in Nat /\ b1 \in Nat
      /\ a0 \in Nat /\ a1 \in Nat
  BY DEF Sound, IsPool
<1>2. FeeShares(p, on) \in Nat /\ s \in Nat /\ (p.supply = 0 <=> s = 0)
  <2>1. FeeShares(p, on) \in Nat /\ (p.supply = 0 => FeeShares(p, on) = 0)
    BY FeeSharesFacts DEF Sound
  <2> QED BY <2>1
<1>3. /\ m.fee = FeeShares(p, on) /\ m.shares = shares /\ m.locked = locked
      /\ shares > 0
      /\ m.pool = Recorded(p, b0, b1, (s + locked) + shares, on)
  <2>1. /\ m.fee = FeeShares(p, on) /\ m.locked = locked
        /\ m.shares = IF a0 < 0 \/ a1 < 0 THEN 0 ELSE shares
        /\ m.ok => m.shares > 0
        /\ m.pool = Recorded(p, b0, b1, (s + locked) + m.shares, on)
    BY DEF MintOf
  <2>2. ~(a0 < 0 \/ a1 < 0) /\ m.ok
    BY <1>1
  <2> HIDE DEF m, a0, a1, shares, locked, s
  <2> QED BY <2>1, <2>2
<1>4. /\ m.pool.supply = (s + locked) + shares
      /\ m.pool.reserve0 = b0 /\ m.pool.reserve1 = b1
  BY <1>3 DEF Recorded
<1> HIDE DEF m, a0, a1
<1>5. locked \in Nat
  BY PairMathAssumption
<1>6. CASE s = 0
  <2> DEFINE y == a0 * a1
  <2>1. y \in Nat /\ shares = Root(y) - MINIMUM_LIQUIDITY
    BY <1>1, <1>6, Products DEF SharesFor
  <2>2. Root(y) \in Nat /\ Root(y) * Root(y) <= y /\ Root(y) > 0 /\ shares \in Nat
    <3> DEFINE r == Root(y)
    <3>1. r \in Nat /\ IsRoot(r, y)
      BY <2>1, RootIs
    <3> HIDE DEF r, y
    <3>2. r \in Nat /\ r * r <= y
      BY <3>1 DEF IsRoot
    <3>3. shares = r - MINIMUM_LIQUIDITY /\ shares > 0
      BY <1>3, <2>1 DEF r
    <3> HIDE DEF shares
    <3>4. r > 0 /\ shares \in Nat
      BY <3>2, <3>3, PairMathAssumption
    <3> QED BY <3>2, <3>4 DEF r
  <2>3. y > 0
    <3> DEFINE r == Root(y)
    <3>1. r \in Nat /\ r > 0 /\ r * r <= y
      BY <2>2
    <3> HIDE DEF r, y
    <3>2. r * r > 0 /\ r * r \in Nat
      BY <3>1, SMT
    <3> QED BY <2>1, <3>1, <3>2
  <2>4. a0 # 0 /\ a1 # 0
    BY <1>1, <2>3
  <2>5. b0 > 0 /\ b1 > 0
    BY <1>1, <2>4 DEF a0, a1
  <2>6. p.supply = 0
    BY <1>2, <1>6
  <2>7. locked = IF p.supply = 0 THEN MINIMUM_LIQUIDITY ELSE 0
    BY <1>6, <2>6
  <2> HIDE DEF shares, locked, y
  <2> QED BY <1>3, <1>4, <1>5, <2>2, <2>5, <2>6, <2>7 DEF m
<1>7. CASE s # 0
  <2>1. r0 > 0 /\ r1 > 0 /\ shares = Smaller((a0 * s) \div r0, (a1 * s) \div r1)
    BY <1>1, <1>3, <1>7 DEF SharesFor
  <2>2. (a0 * s) \div r0 \in Nat /\ (a1 * s) \div r1 \in Nat
    BY <1>1, <1>2, <2>1, Products, QuotientBack
  <2>3. /\ shares \in Nat
        /\ shares <= (a0 * s) \div r0 /\ shares <= (a1 * s) \div r1
    <3> DEFINE x == (a0 * s) \div r0
               y == (a1 * s) \div r1
    <3>1. x \in Nat /\ y \in Nat /\ shares = Smaller(x, y)
      BY <2>1, <2>2
    <3> HIDE DEF x, y, shares
    <3>2. shares \in Nat /\ shares <= x /\ shares <= y
      BY <3>1 DEF Smaller
    <3> QED BY <3>2 DEF x, y
  <2> HIDE DEF shares
  <2>4. locked = 0 /\ (s + locked) + shares = s + shares /\ s + shares \in Nat
    BY <1>2, <1>7, <2>3
  <2>5. r0 * (s + shares) <= (r0 + a0) * s /\ r1 * (s + shares) <= (r1 + a1) * s
    BY <1>1, <1>2, <2>1, <2>3, ShareBought
  <2>6. r0 + a0 = b0 /\ r1 + a1 = b1
    BY <1>1 DEF a0, a1
  <2>7. (r0 * r1) * ((s + shares) * (s + shares)) <= (b0 * b1) * (s * s)
    <3> DEFINE total == s + shares
    <3>1. total \in Nat /\ r0 * total <= b0 * s /\ r1 * total <= b1 * s
      BY <2>4, <2>5, <2>6
    <3> HIDE DEF total, s, r0, r1, b0, b1
    <3>2. (r0 * r1) * (total * total) <= (b0 * b1) * (s * s)
      BY <1>1, <1>2, <3>1, ScaledProduct
    <3> QED BY <3>2 DEF total
  <2>8. b0 > 0 /\ b1 > 0
    BY <1>1, <2>1, <2>6
  <2> QED BY <1>2, <1>3, <1>4, <1>5, <1>7, <2>3, <2>4, <2>7, <2>8 DEF m, Product
<1> QED BY <1>6, <1>7

(* burn: the shares sent in get no more than their part. *)
LEMMA BurnShares ==
  ASSUME NEW p, Sound(p, 0, 0), p.supply \in Nat, NEW on \in BOOLEAN,
         NEW liquidity \in Nat, liquidity <= p.supply,
         BurnOf(p, liquidity, on).ok
  PROVE  LET b == BurnOf(p, liquidity, on)
             s == p.supply + FeeShares(p, on)
         IN  /\ b.fee = FeeShares(p, on)
             /\ b.amount0 \in Nat /\ b.amount1 \in Nat
             /\ p.supply > 0
             /\ b.pool.supply = s - liquidity /\ s - liquidity \in Nat
             /\ b.pool.supply > 0 => b.pool.reserve0 > 0 /\ b.pool.reserve1 > 0
             /\ Product(p) * (b.pool.supply * b.pool.supply) <= Product(b.pool) * (s * s)
<1> DEFINE b == BurnOf(p, liquidity, on)
           fee == FeeShares(p, on)
           s == p.supply + fee
           b0 == p.balance0
           b1 == p.balance1
           x0 == (liquidity * b0) \div s
           x1 == (liquidity * b1) \div s
           left == s - liquidity
<1>1. /\ p.reserve0 \in Nat /\ p.reserve1 \in Nat /\ b0 \in Nat /\ b1 \in Nat
      /\ p.reserve0 <= b0 /\ p.reserve1 <= b1 /\ IsPool(p)
  BY DEF Sound, IsPool
<1>2. fee \in Nat /\ s \in Nat /\ left \in Nat
  <2>1. fee \in Nat
    BY <1>1, FeeSharesFacts
  <2> QED BY <2>1
<1> HIDE DEF fee
<1>3. s # 0 /\ b.fee = fee /\ b.amount0 = x0 /\ b.amount1 = x1
      /\ x0 \in 1..b0 /\ x1 \in 1..b1
      /\ b.pool = Recorded(p, b0 - x0, b1 - x1, left, on)
  BY DEF BurnOf, fee
<1>4. /\ b.pool.supply = left
      /\ b.pool.reserve0 = b0 - x0 /\ b.pool.reserve1 = b1 - x1
  BY <1>3 DEF Recorded
<1> HIDE DEF b, x0, x1
<1>5. liquidity <= s /\ s > 0
  BY <1>2, <1>3
<1>6. p.supply > 0
  <2> SUFFICES ASSUME p.supply = 0 PROVE FALSE
    OBVIOUS
  <2>1. liquidity = 0
    OBVIOUS
  <2>2. liquidity * b0 = 0
    BY <1>1, <2>1
  <2>3. x0 = 0
    BY <1>2, <1>5, <2>2 DEF x0
  <2> QED BY <1>3, <2>3
<1>7. /\ b0 * left <= (b0 - x0) * s /\ b1 * left <= (b1 - x1) * s
      /\ b0 > 0 /\ liquidity < s => x0 < b0
      /\ b1 > 0 /\ liquidity < s => x1 < b1
  BY <1>1, <1>2, <1>5, ShareSold DEF x0, x1
<1>8. x0 \in Nat /\ x1 \in Nat /\ b0 - x0 \in Nat /\ b1 - x1 \in Nat /\ b0 > 0 /\ b1 > 0
  BY <1>1, <1>3
<1>9. left > 0 => b0 - x0 > 0 /\ b1 - x1 > 0
  BY <1>1, <1>2, <1>7, <1>8
<1>10. p.reserve0 * left <= b0 * left /\ p.reserve1 * left <= b1 * left
  BY <1>1, <1>2, SMT
<1>11. p.reserve0 * left <= (b0 - x0) * s /\ p.reserve1 * left <= (b1 - x1) * s
  <2>1. /\ p.reserve0 * left \in Nat /\ b0 * left \in Nat /\ (b0 - x0) * s \in Nat
        /\ p.reserve1 * left \in Nat /\ b1 * left \in Nat /\ (b1 - x1) * s \in Nat
    BY <1>1, <1>2, <1>8, Products
  <2> QED BY <1>7, <1>10, <2>1
<1> HIDE DEF left
<1>12. (p.reserve0 * p.reserve1) * (left * left) <= ((b0 - x0) * (b1 - x1)) * (s * s)
  BY <1>1, <1>2, <1>8, <1>11, ScaledProduct
<1> QED BY <1>2, <1>3, <1>4, <1>6, <1>8, <1>9, <1>12 DEF b, left, fee, Product

-----------------------------------------------------------------------------
(* Everything the pair keeps of its shares, with what a flash swap would   *)
(* return to.                                                              *)
ShareInv ==
  /\ Shared(pool, lp)
  /\ wallet0 \in [Accounts -> Nat] /\ wallet1 \in [Accounts -> Nat]
  /\ feeTo \in Accounts \cup {NoOne} /\ feeToSetter \in Accounts \cup {NoOne}
  /\ sums = [last |-> sums.last, price0 |-> sums.price0, price1 |-> sums.price1]
  /\ sums.last \in 0..(TIME_WRAP - 1)
  /\ StateOK(saved.pool, saved.wallet0, saved.wallet1, saved.lp,
             saved.feeTo, saved.feeToSetter)
  /\ flash.open => Shared(saved.pool, saved.lp) /\ saved.pool.supply = pool.supply

(* A step that mints and burns no shares and lowers no product. *)
Steady ==
  /\ pool'.supply = pool.supply
  /\ Product(pool) <= Product(pool')

Factors == \A a, b \in Nat : a * b > 0 <=> a > 0 /\ b > 0

LEMMA PositiveFactors == Factors
<1> SUFFICES ASSUME NEW a \in Nat, NEW b \in Nat PROVE a * b > 0 <=> a > 0 /\ b > 0
  BY DEF Factors
<1>1. a = 0 \/ b = 0 => a * b = 0
  OBVIOUS
<1>2. a > 0 /\ b > 0 => a * b > 0
  BY SMT
<1> QED BY <1>1, <1>2

LEMMA SteadyShared ==
  ASSUME Steady, IsPool(pool), IsPool(pool'), NEW shares, Shared(pool, shares)
  PROVE  Shared(pool', shares)
<1> SUFFICES ASSUME pool.supply > 0 PROVE pool'.reserve0 > 0 /\ pool'.reserve1 > 0
  BY DEF Shared, Steady
<1>1. /\ pool.reserve0 \in Nat /\ pool.reserve1 \in Nat
      /\ pool'.reserve0 \in Nat /\ pool'.reserve1 \in Nat
      /\ pool.reserve0 > 0 /\ pool.reserve1 > 0
  BY DEF IsPool, Shared
<1> DEFINE k == pool.reserve0 * pool.reserve1
           l == pool'.reserve0 * pool'.reserve1
<1>2. k <= l /\ k \in Nat /\ l \in Nat
  BY <1>1, Products DEF Steady, Product
<1>3. k > 0
  BY <1>1, PositiveFactors DEF Factors
<1> HIDE DEF k
<1>4. l > 0
  BY <1>2, <1>3
<1> QED BY <1>1, <1>4, PositiveFactors DEF Factors

(* The worth of a share, as SharesKeepTheirGrowth has it. *)
GrowthKept ==
  pool.supply > 0 =>
    LET rootK     == Root(Product(pool))
        rootKLast == Root(pool.kLast)
        charged   == FeeOn /\ pool.kLast # 0 /\ rootK > rootKLast
        worth     == IF charged THEN (5 * rootK + rootKLast) * (5 * rootK + rootKLast)
                                ELSE 36 * Product(pool)
    IN  36 * Product(pool') * (pool.supply * pool.supply)
          >= worth * (pool'.supply * pool'.supply)

LEMMA SteadyGrowth ==
  ASSUME Steady, IsPool(pool), IsPool(pool'), pool.supply \in Nat
  PROVE  GrowthKept
<1> DEFINE rootK     == Root(Product(pool))
           rootKLast == Root(pool.kLast)
           charged   == FeeOn /\ pool.kLast # 0 /\ rootK > rootKLast
           worth     == IF charged THEN (5 * rootK + rootKLast) * (5 * rootK + rootKLast)
                                   ELSE 36 * Product(pool)
           k == Product(pool)
           l == Product(pool')
           sq == pool.supply * pool.supply
<1>1. FeeOn \in BOOLEAN
  BY DEF FeeOn
<1>2. worth \in Nat /\ worth <= 36 * k
  BY <1>1, FeeSharesFacts
<1>3. k \in Nat /\ l \in Nat /\ k <= l /\ sq \in Nat
  BY Products DEF IsPool, Product, Steady
<1>4. pool'.supply * pool'.supply = sq
  BY DEF Steady
<1> HIDE DEF worth, k, l, sq
<1>5. worth <= 36 * l /\ 36 * l \in Nat
  BY <1>2, <1>3
<1>6. sq * worth <= sq * (36 * l) /\ sq * worth = worth * sq /\ sq * (36 * l) = (36 * l) * sq
  BY <1>2, <1>3, <1>5, Products
<1>7. 36 * l * sq >= worth * sq
  <2> DEFINE x == sq * worth
             y == sq * (36 * l)
  <2>1. x \in Int /\ y \in Int /\ x <= y
    BY <1>2, <1>3, <1>5, <1>6, Products
  <2> HIDE DEF x, y
  <2>2. y >= x
    BY <2>1
  <2> QED BY <1>6, <2>2 DEF x, y
<1> QED BY <1>4, <1>7 DEF GrowthKept, worth, k, l, sq

(* mint and burn, when the protocol takes its part first. *)
LEMMA LiquidityGrowth ==
  ASSUME IsPool(pool), IsPool(pool'), pool.supply \in Nat, pool'.supply \in Nat,
         LET s == pool.supply + FeeShares(pool, FeeOn)
         IN  Product(pool) * (pool'.supply * pool'.supply) <= Product(pool') * (s * s)
  PROVE  GrowthKept
<1> SUFFICES ASSUME pool.supply > 0 PROVE GrowthKept
  BY DEF GrowthKept
<1> DEFINE rootK     == Root(Product(pool))
           rootKLast == Root(pool.kLast)
           charged   == FeeOn /\ pool.kLast # 0 /\ rootK > rootKLast
           worth     == IF charged THEN (5 * rootK + rootKLast) * (5 * rootK + rootKLast)
                                   ELSE 36 * Product(pool)
           k == Product(pool)
           l == Product(pool')
           s == pool.supply
           s1 == s + FeeShares(pool, FeeOn)
           s2 == pool'.supply
           a == s * s
           b == s1 * s1
           c == s2 * s2
<1>1. FeeOn \in BOOLEAN
  BY DEF FeeOn
<1>2. worth \in Nat /\ worth * b <= 36 * k * a /\ FeeShares(pool, FeeOn) \in Nat
  BY <1>1, FeeSharesFacts
<1>3. k \in Nat /\ l \in Nat /\ k * c <= l * b
  BY Products DEF IsPool, Product
<1>4. s \in Nat /\ s1 \in Nat /\ s2 \in Nat /\ s1 > 0
  BY <1>2
<1> HIDE DEF worth, k, l, s, s1, s2
<1>5. a \in Nat /\ b \in Nat /\ c \in Nat /\ b > 0
  BY <1>4, Products, PositiveFactors DEF Factors
<1> HIDE DEF a, b, c
<1>6. c * (worth * b) <= c * (36 * k * a)
  BY <1>2, <1>3, <1>5, Products
<1>7. (36 * a) * (k * c) <= (36 * a) * (l * b)
  <2>1. 36 * a \in Nat /\ k * c \in Nat /\ l * b \in Nat
    BY <1>3, <1>5, Products
  <2> QED BY <1>3, <2>1, Products
<1>8. /\ c * (worth * b) = b * (worth * c)
      /\ c * (36 * k * a) = (36 * a) * (k * c)
      /\ (36 * a) * (l * b) = b * (36 * l * a)
  BY <1>2, <1>3, <1>5, Z3
<1> DEFINE x == worth * c
           y == 36 * l * a
<1>9. x \in Nat /\ y \in Nat
  BY <1>2, <1>3, <1>5, Products
<1>10. c * (worth * b) \in Int /\ (36 * a) * (k * c) \in Int /\ (36 * a) * (l * b) \in Int
  BY <1>2, <1>3, <1>5, Products
<1>11. b * x <= b * y
  BY <1>6, <1>7, <1>8, <1>10
<1> HIDE DEF x, y
<1>12. x <= y
  BY <1>5, <1>9, <1>11, Cancel
<1>13. y >= x
  BY <1>9, <1>12
<1> QED BY <1>13 DEF GrowthKept, x, y, a, c, worth, k, l, s, s2

LEMMA GrowthAlways == (ShareInv /\ Steady /\ IsPool(pool) /\ IsPool(pool')) => GrowthKept
BY SteadyGrowth DEF ShareInv, Shared

(* Every step but mint and burn is steady. *)
LEMMA SwapSteady ==
  ASSUME IInv, NEW to, NEW out0 \in Nat, NEW out1 \in Nat, Swap(to, out0, out1)
  PROVE  Steady
<1> DEFINE p == Paid(pool, out0, out1)
<1>1. Unlocked /\ Payable(pool, out0, out1) /\ Settles(p, out0, out1) /\ pool' = Synced(p)
  BY Zenon DEF Swap
<1>2. Sound(pool, 0, 0)
  BY <1>1, NoneOut
<1>3. Sound(p, out0, out1)
  BY <1>1, <1>2, PaidSound
<1>4. /\ p.reserve0 = pool.reserve0 /\ p.reserve1 = pool.reserve1 /\ p.supply = pool.supply
      /\ out0 <= p.reserve0 /\ out1 <= p.reserve1
  BY <1>1, <1>2 DEF Paid, WithBalances, Payable, Sound, IsPool
<1> HIDE DEF p
<1>5. p.reserve0 * p.reserve1 <= p.balance0 * p.balance1
  BY <1>1, <1>3, <1>4, SettledProduct DEF Sound
<1>6. Product(pool') = p.balance0 * p.balance1 /\ pool'.supply = p.supply
  BY <1>1 DEF Synced, Product
<1> QED BY <1>4, <1>5, <1>6 DEF Steady, Product

LEMMA EndFlashSteady ==
  ASSUME IInv, EndFlash
  PROVE  Steady
<1>1. flash.open /\ Settles(pool, flash.out0, flash.out1) /\ pool' = Synced(pool)
  BY DEF EndFlash
<1>2. /\ flash.out0 \in Nat /\ flash.out1 \in Nat
      /\ flash.out0 <= pool.reserve0 /\ flash.out1 <= pool.reserve1
  BY <1>1 DEF IInv, FlashBacked, NoFlash
<1>3. pool.reserve0 * pool.reserve1 <= pool.balance0 * pool.balance1
  BY <1>1, <1>2, SettledProduct DEF IInv, Sound
<1>4. Product(pool') = pool.balance0 * pool.balance1 /\ pool'.supply = pool.supply
  BY <1>1 DEF Synced, Product
<1> QED BY <1>3, <1>4 DEF Steady, Product

LEMMA SyncSteady ==
  ASSUME IInv, Sync
  PROVE  Steady
<1>1. Unlocked /\ pool' = Synced(pool)
  BY DEF Sync
<1>2. Sound(pool, 0, 0)
  BY <1>1, NoneOut
<1>3. /\ pool.reserve0 \in Nat /\ pool.reserve1 \in Nat
      /\ pool.balance0 \in Nat /\ pool.balance1 \in Nat
      /\ pool.reserve0 <= pool.balance0 /\ pool.reserve1 <= pool.balance1
  BY <1>2 DEF Sound, IsPool
<1>4. pool.reserve0 * pool.reserve1 <= pool.balance0 * pool.balance1
  BY <1>3, ProductMono
<1>5. Product(pool') = pool.balance0 * pool.balance1 /\ pool'.supply = pool.supply
  BY <1>1 DEF Synced, Product
<1> QED BY <1>4, <1>5 DEF Steady, Product

(* A step that leaves the records as they are. *)
LEMMA RecordsSteady ==
  ASSUME IsPool(pool), pool'.reserve0 = pool.reserve0, pool'.reserve1 = pool.reserve1,
         pool'.supply = pool.supply
  PROVE  Steady
<1>1. Product(pool) \in Nat /\ Product(pool') = Product(pool)
  BY Products DEF IsPool, Product
<1> QED BY <1>1 DEF Steady

LEMMA OtherSteady ==
  ASSUME IInv, ShareInv,
         \/ \E a, amount : Send0(a, amount) \/ Send1(a, amount)
         \/ \E from, to, amount : SendLp(from, to, amount)
         \/ \E to, out0, out1 : BeginFlash(to, out0, out1)
         \/ RevertFlash
         \/ \E to : Skim(to)
         \/ \E caller, to : SetFeeTo(caller, to) \/ SetFeeToSetter(caller, to)
         \/ Tick
         \/ UNCHANGED vars
  PROVE  Steady
<1>0. IsPool(pool)
  BY DEF IInv, Sound
<1>1. CASE \E balance0, balance1 : pool' = WithBalances(pool, balance0, balance1)
  BY <1>0, <1>1, RecordsSteady DEF WithBalances
<1>2. CASE pool' = pool
  BY <1>0, <1>2, RecordsSteady
<1>3. CASE RevertFlash
  <2>1. /\ pool' = saved.pool /\ flash.open
        /\ saved.pool.reserve0 = pool.reserve0 /\ saved.pool.reserve1 = pool.reserve1
    BY <1>3 DEF RevertFlash, IInv, FlashBacked, NoFlash
  <2>2. saved.pool.supply = pool.supply
    BY <2>1 DEF ShareInv
  <2> QED BY <1>0, <2>1, <2>2, RecordsSteady
<1>4. ASSUME NEW a, NEW amount, Send0(a, amount) \/ Send1(a, amount)
      PROVE  \E balance0, balance1 : pool' = WithBalances(pool, balance0, balance1)
  BY <1>4 DEF Send0, Send1
<1>5. ASSUME NEW to, NEW out0, NEW out1, BeginFlash(to, out0, out1) \/ Skim(to)
      PROVE  \E balance0, balance1 : pool' = WithBalances(pool, balance0, balance1)
  BY <1>5, Zenon DEF BeginFlash, Skim, Paid, Skimmed
<1>6. ASSUME \/ \E from, to, amount : SendLp(from, to, amount)
             \/ \E caller, to : SetFeeTo(caller, to) \/ SetFeeToSetter(caller, to)
             \/ Tick
             \/ UNCHANGED vars
      PROVE  pool' = pool
  BY <1>6 DEF SendLp, SetFeeTo, SetFeeToSetter, Tick, vars
<1> QED BY <1>1, <1>2, <1>3, <1>4, <1>5, <1>6

(* mint gives out, and burn takes back, the shares the supply counts. *)
LEMMA MintKeepsShares ==
  ASSUME IInv, IInv', ShareInv, NEW to \in Accounts, Mint(to)
  PROVE  Shared(pool', lp') /\ GrowthKept
<1> DEFINE m == MintOf(pool, FeeOn)
           fee == FeeShares(pool, FeeOn)
           s == pool.supply + fee
           lp1 == Added(lp, to, m.shares)
           lp2 == Added(lp1, feeTo, m.fee)
           lp3 == Added(lp2, Dead, m.locked)
<1>1. Unlocked /\ m.ok /\ pool' = m.pool /\ lp' = lp3
  BY Zenon DEF Mint
<1>2. Sound(pool, 0, 0) /\ FeeOn \in BOOLEAN /\ IsPool(pool) /\ IsPool(pool')
  BY <1>1, NoneOut DEF FeeOn, IInv, Sound
<1>3. Shared(pool, lp) /\ pool.supply \in Nat
  BY DEF ShareInv, Shared
<1>4. /\ m.fee = fee /\ m.shares \in Nat /\ m.locked \in Nat
      /\ m.pool.supply = s + m.locked + m.shares
      /\ m.pool.reserve0 > 0 /\ m.pool.reserve1 > 0
      /\ m.locked = IF pool.supply = 0 THEN MINIMUM_LIQUIDITY ELSE 0
      /\ pool.supply > 0 => Product(pool) * (m.pool.supply * m.pool.supply)
                              <= Product(m.pool) * (s * s)
  BY <1>1, <1>2, <1>3, MintShares DEF Shared
<1>5. fee \in Nat /\ (feeTo \in Holders \/ fee = 0)
  <2>1. fee \in Nat /\ (~FeeOn => fee = 0)
    BY <1>2, <1>3, FeeSharesFacts
  <2>2. FeeOn => feeTo \in Holders
    BY DEF FeeOn, ShareInv, Holders
  <2> QED BY <2>1, <2>2
<1> HIDE DEF m, fee
<1>6. lp \in [Holders -> Nat] /\ to \in Holders /\ Dead \in Holders
  BY <1>3 DEF Shared, Holders
<1>7. /\ lp1 \in [Holders -> Nat]
      /\ SumOver(Holders, lp1) = SumOver(Holders, lp) + m.shares
      /\ \A h \in Holders : lp1[h] >= lp[h]
  BY <1>4, <1>6, SharesAdded
<1> HIDE DEF lp1
<1>8. /\ lp2 \in [Holders -> Nat]
      /\ SumOver(Holders, lp2) = SumOver(Holders, lp1) + m.fee
      /\ \A h \in Holders : lp2[h] >= lp1[h]
  BY <1>4, <1>5, <1>7, SharesAdded
<1> HIDE DEF lp2
<1>9. /\ lp3 \in [Holders -> Nat]
      /\ SumOver(Holders, lp3) = SumOver(Holders, lp2) + m.locked
      /\ \A h \in Holders : lp3[h] >= lp2[h]
      /\ lp3[Dead] = lp2[Dead] + m.locked
  BY <1>4, <1>6, <1>8, SharesAdded
<1> HIDE DEF lp3
<1>10. pool.supply = SumOver(Holders, lp) /\ (pool.supply > 0 => lp[Dead] >= MINIMUM_LIQUIDITY)
  BY <1>3 DEF Shared
<1>11. /\ m.pool.supply \in Nat
       /\ m.pool.supply = SumOver(Holders, lp3)
  BY <1>3, <1>4, <1>5, <1>7, <1>8, <1>9, <1>10
<1>12. lp3[Dead] >= MINIMUM_LIQUIDITY
  <2>1. /\ lp[Dead] \in Nat /\ lp1[Dead] \in Nat /\ lp2[Dead] \in Nat
        /\ lp1[Dead] >= lp[Dead] /\ lp2[Dead] >= lp1[Dead]
    BY <1>6, <1>7, <1>8
  <2> QED BY <1>3, <1>4, <1>9, <1>10, <2>1, PairMathAssumption
<1>13. Shared(pool', lp')
  BY <1>1, <1>4, <1>9, <1>11, <1>12 DEF Shared
<1>14. GrowthKept
  <2>1. CASE pool.supply = 0
    BY <2>1 DEF GrowthKept
  <2>2. CASE pool.supply # 0
    <3>1. pool'.supply \in Nat /\ pool.supply > 0
      BY <1>1, <1>3, <1>11, <2>2
    <3>2. Product(pool) * (pool'.supply * pool'.supply) <= Product(pool') * (s * s)
      BY <1>1, <1>4, <3>1
    <3> QED BY <1>2, <1>3, <3>1, <3>2, LiquidityGrowth DEF fee
  <2> QED BY <2>1, <2>2
<1> QED BY <1>13, <1>14

LEMMA BurnKeepsShares ==
  ASSUME IInv, IInv', ShareInv, NEW to \in Accounts, Burn(to)
  PROVE  /\ Shared(pool', lp') /\ GrowthKept
         /\ wallet0' \in [Accounts -> Nat] /\ wallet1' \in [Accounts -> Nat]
<1> DEFINE b == BurnOf(pool, lp[Self], FeeOn)
           fee == FeeShares(pool, FeeOn)
           s == pool.supply + fee
           sent == lp[Self]
           lp1 == Added(lp, Self, -sent)
           lp2 == Added(lp1, feeTo, b.fee)
<1>1. /\ Unlocked /\ b.ok /\ pool' = b.pool /\ lp' = lp2
      /\ wallet0' = Added(wallet0, to, b.amount0)
      /\ wallet1' = Added(wallet1, to, b.amount1)
  BY Zenon DEF Burn
<1>2. Sound(pool, 0, 0) /\ FeeOn \in BOOLEAN /\ IsPool(pool) /\ IsPool(pool')
  BY <1>1, NoneOut DEF FeeOn, IInv, Sound
<1>3. Shared(pool, lp) /\ pool.supply \in Nat
  BY DEF ShareInv, Shared
<1>4. lp \in [Holders -> Nat] /\ Self \in Holders /\ Dead \in Holders /\ Dead # Self
  BY <1>3, PairAssumption DEF Shared, Holders
<1>5. sent \in Nat /\ sent <= pool.supply
  <2>1. \A h \in Holders : lp[h] \in Nat
    BY <1>4
  <2>2. lp[Self] <= SumOver(Holders, lp)
    BY <1>4, <2>1, HoldersFinite, SumMember
  <2> QED BY <1>3, <1>4, <2>2 DEF Shared
<1>6. /\ b.fee = fee
      /\ b.amount0 \in Nat /\ b.amount1 \in Nat
      /\ pool.supply > 0
      /\ b.pool.supply = s - sent /\ s - sent \in Nat
      /\ b.pool.supply > 0 => b.pool.reserve0 > 0 /\ b.pool.reserve1 > 0
      /\ Product(pool) * (b.pool.supply * b.pool.supply) <= Product(b.pool) * (s * s)
  BY <1>1, <1>2, <1>3, <1>5, BurnShares
<1>7. fee \in Nat /\ (feeTo \in Holders \/ fee = 0) /\ feeTo # Dead /\ feeTo # Self
  <2>1. fee \in Nat /\ (~FeeOn => fee = 0)
    BY <1>2, <1>3, FeeSharesFacts
  <2>2. FeeOn => feeTo \in Holders
    BY DEF FeeOn, ShareInv, Holders
  <2>3. feeTo # Dead /\ feeTo # Self
    BY PairAssumption DEF ShareInv, Holders
  <2> QED BY <2>1, <2>2, <2>3
<1> HIDE DEF b, fee
<1>8. /\ lp1 \in [Holders -> Nat]
      /\ SumOver(Holders, lp1) = SumOver(Holders, lp) + (-sent)
      /\ lp1[Dead] = lp[Dead]
  <2>1. -sent \in Int /\ lp[Self] + (-sent) >= 0
    BY <1>5
  <2> HIDE DEF sent
  <2> QED BY <1>4, <2>1, SharesAdded
<1> HIDE DEF lp1
<1>9. /\ lp2 \in [Holders -> Nat]
      /\ SumOver(Holders, lp2) = SumOver(Holders, lp1) + b.fee
      /\ lp2[Dead] = lp1[Dead]
  BY <1>4, <1>6, <1>7, <1>8, SharesAdded
<1> HIDE DEF lp2
<1>10. pool.supply = SumOver(Holders, lp) /\ lp[Dead] >= MINIMUM_LIQUIDITY
  BY <1>3, <1>6 DEF Shared
<1>11. b.pool.supply \in Nat /\ b.pool.supply = SumOver(Holders, lp2)
  BY <1>3, <1>5, <1>6, <1>7, <1>8, <1>9, <1>10
<1>12. Shared(pool', lp')
  BY <1>1, <1>6, <1>8, <1>9, <1>10, <1>11 DEF Shared
<1>13. GrowthKept
  BY <1>1, <1>2, <1>3, <1>6, <1>11, LiquidityGrowth DEF fee
<1>14. wallet0' \in [Accounts -> Nat] /\ wallet1' \in [Accounts -> Nat]
  BY <1>1, <1>6 DEF ShareInv, Added
<1> QED BY <1>12, <1>13, <1>14

(* Every step keeps the supply and the shares together, and the growth. *)
LEMMA SharesKept ==
  ASSUME IInv, IInv', ShareInv, [Next]_vars
  PROVE  Shared(pool', lp') /\ GrowthKept
<1>1. /\ Shared(pool, lp) /\ IsPool(pool) /\ IsPool(pool')
      /\ Payments \subseteq Nat /\ Shares \subseteq Nat
      /\ Withdrawals \subseteq Nat /\ Loans \subseteq Nat
  BY PairAssumption DEF ShareInv, IInv, Sound
<1>2. (Steady /\ lp' = lp) => Shared(pool', lp') /\ GrowthKept
  BY <1>1, SteadyShared, GrowthAlways
<1>3. CASE \/ \E a, amount : Send0(a, amount) \/ Send1(a, amount)
           \/ \E to, out0, out1 : BeginFlash(to, out0, out1)
           \/ \E to : Skim(to)
           \/ \E caller, to : SetFeeTo(caller, to) \/ SetFeeToSetter(caller, to)
           \/ Tick
           \/ UNCHANGED vars
  <2>1. Steady
    BY <1>3, OtherSteady
  <2>2. lp' = lp
    BY <1>3, Zenon DEF Send0, Send1, BeginFlash, Skim, SetFeeTo, SetFeeToSetter, Tick, vars
  <2> QED BY <1>2, <2>1, <2>2
<1>4. CASE RevertFlash
  <2>1. Steady
    BY <1>4, OtherSteady
  <2>2. /\ pool' = saved.pool /\ lp' = saved.lp
        /\ Shared(saved.pool, saved.lp)
    BY <1>4 DEF RevertFlash, ShareInv
  <2> QED BY <1>1, <2>1, <2>2, GrowthAlways
<1>5. ASSUME NEW from \in Accounts, NEW to \in Accounts \cup {Self}, NEW amount \in Shares,
             SendLp(from, to, amount)
      PROVE  Shared(pool', lp') /\ GrowthKept
  <2> DEFINE lp1 == Added(lp, from, -amount)
             lp2 == Added(lp1, to, amount)
  <2>1. /\ from # to /\ lp[from] >= amount /\ lp' = lp2 /\ pool' = pool
        /\ amount \in Nat /\ from \in Holders /\ to \in Holders /\ Dead \in Holders
        /\ lp \in [Holders -> Nat] /\ from # Dead /\ to # Dead
    BY <1>1, <1>5, PairAssumption DEF SendLp, Shared, Holders
  <2>2. -amount \in Int /\ lp[from] \in Nat /\ lp[from] + (-amount) >= 0
    BY <2>1
  <2>3. /\ lp1 \in [Holders -> Nat]
        /\ SumOver(Holders, lp1) = SumOver(Holders, lp) + (-amount)
        /\ SumOver(Holders, lp) \in Nat
        /\ lp1[Dead] = lp[Dead]
    BY <2>1, <2>2, SharesAdded
  <2> HIDE DEF lp1
  <2>4. /\ lp2 \in [Holders -> Nat]
        /\ SumOver(Holders, lp2) = SumOver(Holders, lp1) + amount
        /\ lp2[Dead] = lp1[Dead]
    <3>1. lp1[to] + amount >= 0
      BY <2>1, <2>3
    <3> QED BY <2>1, <2>3, <3>1, SharesAdded
  <2> HIDE DEF lp2
  <2>5. SumOver(Holders, lp2) = SumOver(Holders, lp)
    BY <2>1, <2>3, <2>4
  <2>6. Shared(pool', lp')
    BY <1>1, <2>1, <2>3, <2>4, <2>5 DEF Shared
  <2>7. Steady
    BY <1>5, OtherSteady
  <2> QED BY <1>1, <2>6, <2>7, GrowthAlways
<1>6. ASSUME NEW to, NEW out0 \in Withdrawals, NEW out1 \in Withdrawals, Swap(to, out0, out1)
      PROVE  Steady /\ lp' = lp
  <2>1. lp' = lp
    BY <1>6, Zenon DEF Swap
  <2> QED BY <1>1, <1>6, <2>1, SwapSteady
<1>7. ASSUME EndFlash \/ Sync PROVE Steady /\ lp' = lp
  <2>1. lp' = lp
    BY <1>7 DEF EndFlash, Sync
  <2> QED BY <1>7, <2>1, EndFlashSteady, SyncSteady
<1>8. ASSUME NEW to \in Accounts, Mint(to) \/ Burn(to)
      PROVE  Shared(pool', lp') /\ GrowthKept
  BY <1>8, MintKeepsShares, BurnKeepsShares
<1> HIDE DEF vars
<1> QED
  BY <1>2, <1>3, <1>4, <1>5, <1>6, <1>7, <1>8, Zenon DEF Next

(* No wallet goes below zero. *)
LEMMA PaidOut ==
  ASSUME NEW ledger \in [Accounts -> Nat], NEW who, NEW amount \in Int,
         amount >= 0 \/ (who \in Accounts => ledger[who] + amount >= 0)
  PROVE  Added(ledger, who, amount) \in [Accounts -> Nat]
BY DEF Added

LEMMA WalletsKept ==
  ASSUME IInv, IInv', ShareInv, [Next]_vars
  PROVE  wallet0' \in [Accounts -> Nat] /\ wallet1' \in [Accounts -> Nat]
<1>1. /\ wallet0 \in [Accounts -> Nat] /\ wallet1 \in [Accounts -> Nat]
      /\ Payments \subseteq Nat /\ Withdrawals \subseteq Nat /\ Loans \subseteq Nat
  BY PairAssumption DEF ShareInv
<1>2. ASSUME NEW a \in Accounts, NEW amount \in Payments, Send0(a, amount) \/ Send1(a, amount)
      PROVE  wallet0' \in [Accounts -> Nat] /\ wallet1' \in [Accounts -> Nat]
  <2>1. amount \in Nat /\ -amount \in Int
    BY <1>1
  <2>2. wallet0[a] >= amount => wallet0[a] + (-amount) >= 0
    BY <1>1, <2>1
  <2>3. wallet1[a] >= amount => wallet1[a] + (-amount) >= 0
    BY <1>1, <2>1
  <2>4. \/ wallet0[a] >= amount /\ wallet0' = Added(wallet0, a, -amount) /\ wallet1' = wallet1
        \/ wallet1[a] >= amount /\ wallet1' = Added(wallet1, a, -amount) /\ wallet0' = wallet0
    BY <1>2 DEF Send0, Send1
  <2>5. wallet0[a] >= amount => Added(wallet0, a, -amount) \in [Accounts -> Nat]
    BY <1>1, <2>1, <2>2, PaidOut
  <2>6. wallet1[a] >= amount => Added(wallet1, a, -amount) \in [Accounts -> Nat]
    BY <1>1, <2>1, <2>3, PaidOut
  <2> QED BY <1>1, <2>4, <2>5, <2>6
<1>3. ASSUME NEW to, NEW out0 \in Nat, NEW out1 \in Nat,
             wallet0' = Added(wallet0, to, out0), wallet1' = Added(wallet1, to, out1)
      PROVE  wallet0' \in [Accounts -> Nat] /\ wallet1' \in [Accounts -> Nat]
  <2>1. out0 \in Int /\ out1 \in Int /\ out0 >= 0 /\ out1 >= 0
    OBVIOUS
  <2> QED BY <1>1, <1>3, <2>1, PaidOut, Zenon
<1>4. ASSUME NEW to, NEW out0 \in Withdrawals, NEW out1 \in Withdrawals, Swap(to, out0, out1)
      PROVE  wallet0' \in [Accounts -> Nat] /\ wallet1' \in [Accounts -> Nat]
  <2>1. wallet0' = Added(wallet0, to, out0) /\ wallet1' = Added(wallet1, to, out1)
    BY <1>4, Zenon DEF Swap
  <2> QED BY <1>1, <1>3, <2>1
<1>5. ASSUME NEW to, NEW out0 \in Loans, NEW out1 \in Loans, BeginFlash(to, out0, out1)
      PROVE  wallet0' \in [Accounts -> Nat] /\ wallet1' \in [Accounts -> Nat]
  <2>1. wallet0' = Added(wallet0, to, out0) /\ wallet1' = Added(wallet1, to, out1)
    BY <1>5, Zenon DEF BeginFlash
  <2> QED BY <1>1, <1>3, <2>1
<1>6. ASSUME NEW to, Skim(to)
      PROVE  wallet0' \in [Accounts -> Nat] /\ wallet1' \in [Accounts -> Nat]
  <2>1. /\ Unlocked
        /\ wallet0' = Added(wallet0, to, pool.balance0 - pool.reserve0)
        /\ wallet1' = Added(wallet1, to, pool.balance1 - pool.reserve1)
    BY <1>6, Zenon DEF Skim
  <2>2. pool.balance0 - pool.reserve0 \in Nat /\ pool.balance1 - pool.reserve1 \in Nat
    BY <2>1, NoneOut DEF Sound, IsPool
  <2> QED BY <1>3, <2>1, <2>2
<1>7. ASSUME RevertFlash
      PROVE  wallet0' \in [Accounts -> Nat] /\ wallet1' \in [Accounts -> Nat]
  BY <1>7 DEF RevertFlash, ShareInv, StateOK
<1>8. ASSUME \/ \E from, to, amount : SendLp(from, to, amount)
             \/ \E to : Mint(to)
             \/ EndFlash \/ Sync \/ Tick
             \/ \E caller, to : SetFeeTo(caller, to) \/ SetFeeToSetter(caller, to)
             \/ UNCHANGED vars
      PROVE  wallet0' \in [Accounts -> Nat] /\ wallet1' \in [Accounts -> Nat]
  <2>1. wallet0' = wallet0 /\ wallet1' = wallet1
    BY <1>8, Zenon
    DEF SendLp, Mint, EndFlash, Sync, Tick, SetFeeTo, SetFeeToSetter, vars, wallets
  <2> QED BY <1>1, <2>1
<1>9. ASSUME NEW to \in Accounts, Burn(to)
      PROVE  wallet0' \in [Accounts -> Nat] /\ wallet1' \in [Accounts -> Nat]
  BY <1>9, BurnKeepsShares
<1> HIDE DEF vars
<1> QED BY <1>2, <1>4, <1>5, <1>6, <1>7, <1>8, <1>9, Zenon DEF Next

LEMMA SettersKept ==
  ASSUME ShareInv, [Next]_vars
  PROVE  feeTo' \in Accounts \cup {NoOne} /\ feeToSetter' \in Accounts \cup {NoOne}
<1>1. feeTo \in Accounts \cup {NoOne} /\ feeToSetter \in Accounts \cup {NoOne}
  BY DEF ShareInv
<1>2. ASSUME NEW caller, NEW to \in Accounts \cup {NoOne},
             SetFeeTo(caller, to) \/ SetFeeToSetter(caller, to)
      PROVE  feeTo' \in Accounts \cup {NoOne} /\ feeToSetter' \in Accounts \cup {NoOne}
  BY <1>1, <1>2 DEF SetFeeTo, SetFeeToSetter
<1>3. ASSUME RevertFlash
      PROVE  feeTo' \in Accounts \cup {NoOne} /\ feeToSetter' \in Accounts \cup {NoOne}
  BY <1>3 DEF RevertFlash, ShareInv, StateOK
<1>4. ASSUME \/ \E a, amount : Send0(a, amount) \/ Send1(a, amount)
             \/ \E from, to, amount : SendLp(from, to, amount)
             \/ \E to : Mint(to) \/ Burn(to) \/ Skim(to)
             \/ \E to, out0, out1 : Swap(to, out0, out1) \/ BeginFlash(to, out0, out1)
             \/ EndFlash \/ Sync \/ Tick \/ UNCHANGED vars
      PROVE  feeTo' = feeTo /\ feeToSetter' = feeToSetter
  BY <1>4, Zenon
  DEF Send0, Send1, SendLp, Mint, Burn, Skim, Swap, BeginFlash, EndFlash, Sync, Tick, vars, admin
<1> HIDE DEF vars
<1> QED BY <1>1, <1>2, <1>3, <1>4, Zenon DEF Next

LEMMA ClockReadKept ==
  ASSUME IInv, ShareInv, [Next]_vars
  PROVE  /\ sums' = [last |-> sums'.last, price0 |-> sums'.price0, price1 |-> sums'.price1]
         /\ sums'.last \in 0..(TIME_WRAP - 1)
<1>1. /\ sums = [last |-> sums.last, price0 |-> sums.price0, price1 |-> sums.price1]
      /\ sums.last \in 0..(TIME_WRAP - 1)
  BY DEF ShareInv
<1>2. ASSUME Summed
      PROVE  /\ sums' = [last |-> sums'.last, price0 |-> sums'.price0, price1 |-> sums'.price1]
             /\ sums'.last \in 0..(TIME_WRAP - 1)
  <2>1. now \in Int /\ TIME_WRAP \in Nat /\ TIME_WRAP > 0
    BY PairAssumption DEF IInv, Clock
  <2>2. /\ sums' = [last |-> sums'.last, price0 |-> sums'.price0, price1 |-> sums'.price1]
        /\ sums'.last = now % TIME_WRAP
    BY <1>2 DEF Summed
  <2> QED BY <2>1, <2>2, Division
<1>3. \/ Summed
      \/ sums' = sums
  <2>1. ASSUME NEW to, NEW out0, NEW out1, Mint(to) \/ Burn(to) \/ Swap(to, out0, out1)
        PROVE  Summed
    BY <2>1, Zenon DEF Mint, Burn, Swap
  <2>2. ASSUME EndFlash \/ Sync PROVE Summed
    BY <2>2 DEF EndFlash, Sync
  <2>3. ASSUME \/ \E a, amount : Send0(a, amount) \/ Send1(a, amount)
               \/ \E from, to, amount : SendLp(from, to, amount)
               \/ \E to, out0, out1 : BeginFlash(to, out0, out1)
               \/ \E to : Skim(to)
               \/ RevertFlash \/ Tick
               \/ \E caller, to : SetFeeTo(caller, to) \/ SetFeeToSetter(caller, to)
               \/ UNCHANGED vars
        PROVE  sums' = sums
    BY <2>3, Zenon
    DEF Send0, Send1, SendLp, BeginFlash, Skim, RevertFlash, Tick, SetFeeTo, SetFeeToSetter, vars
  <2> HIDE DEF vars
  <2> QED BY <2>1, <2>2, <2>3, Zenon DEF Next
<1> QED BY <1>1, <1>2, <1>3

(* What a flash swap would return to. *)
SavedKept ==
  /\ StateOK(saved.pool, saved.wallet0, saved.wallet1, saved.lp, saved.feeTo, saved.feeToSetter)
  /\ flash.open => Shared(saved.pool, saved.lp) /\ saved.pool.supply = pool.supply

LEMMA NothingKept ==
  ASSUME flash = NoFlash, saved = NothingSaved
  PROVE  SavedKept
<1>1. ~flash.open
  BY DEF NoFlash
<1>2. /\ saved.pool = EmptyPool
      /\ saved.wallet0 = [a \in Accounts |-> 0] /\ saved.wallet1 = [a \in Accounts |-> 0]
      /\ saved.lp = [h \in Holders |-> 0]
      /\ saved.feeTo = NoOne /\ saved.feeToSetter = NoOne
  BY DEF NothingSaved
<1>3. EmptyPool \in PoolShape
  BY DEF EmptyPool, PoolShape
<1> QED BY <1>1, <1>2, <1>3 DEF SavedKept, StateOK

LEMMA SaveKept ==
  ASSUME IInv, IInv', ShareInv, [Next]_vars
  PROVE  SavedKept'
<1>0. SavedKept /\ (EndFlash \/ RevertFlash => flash' = NoFlash /\ saved' = NothingSaved)
  BY DEF ShareInv, SavedKept, EndFlash, RevertFlash
<1>1. ASSUME EndFlash \/ RevertFlash PROVE SavedKept'
  <2>1. (flash = NoFlash /\ saved = NothingSaved => SavedKept)'
    BY NothingKept, PTL
  <2> QED BY <1>0, <1>1, <2>1
<1>2. ASSUME NEW to, NEW out0, NEW out1, BeginFlash(to, out0, out1) PROVE SavedKept'
  <2>1. saved' = Snapshot /\ lp' = lp /\ pool' = Paid(pool, out0, out1)
    BY <1>2, Zenon DEF BeginFlash
  <2>2. /\ saved'.pool = pool /\ saved'.wallet0 = wallet0 /\ saved'.wallet1 = wallet1
        /\ saved'.lp = lp /\ saved'.feeTo = feeTo /\ saved'.feeToSetter = feeToSetter
        /\ pool'.supply = pool.supply
    BY <2>1 DEF Snapshot, Paid, WithBalances
  <2>3. pool \in PoolShape /\ Shared(pool, lp) /\ lp \in [Holders -> Nat]
    BY DEF IInv, Sound, IsPool, ShareInv, Shared, PoolShape
  <2> QED BY <2>2, <2>3 DEF SavedKept, StateOK, ShareInv
<1>3. ASSUME \/ \E a, amount : Send0(a, amount) \/ Send1(a, amount)
             \/ \E from, to, amount : SendLp(from, to, amount)
             \/ \E caller, to : SetFeeTo(caller, to) \/ SetFeeToSetter(caller, to)
             \/ Tick \/ UNCHANGED vars
      PROVE  SavedKept'
  <2>1. flash' = flash /\ saved' = saved
    BY <1>3, Zenon DEF Send0, Send1, SendLp, SetFeeTo, SetFeeToSetter, Tick, vars, frame
  <2>2. pool'.supply = pool.supply
    BY <1>3 DEF Send0, Send1, WithBalances, SendLp, SetFeeTo, SetFeeToSetter, Tick, vars
  <2> QED BY <1>0, <2>1, <2>2 DEF SavedKept
<1>4. ASSUME NEW to, NEW out0, NEW out1,
             Mint(to) \/ Burn(to) \/ Swap(to, out0, out1) \/ Skim(to) \/ Sync
      PROVE  SavedKept'
  <2>1. flash' = flash /\ saved' = saved /\ ~flash.open
    BY <1>4, Zenon DEF Mint, Burn, Swap, Skim, Sync, Unlocked, frame
  <2> QED BY <1>0, <2>1 DEF SavedKept
<1> HIDE DEF vars
<1> QED BY <1>1, <1>2, <1>3, <1>4, Zenon DEF Next

LEMMA SharesInit == Init => ShareInv
<1> SUFFICES ASSUME Init PROVE ShareInv
  OBVIOUS
<1>1. SumOver(Holders, lp) = 0
  <2>1. \A h \in Holders : lp[h] = 0
    BY DEF Init
  <2> QED BY <2>1, HoldersFinite, SumZero
<1>2. Shared(pool, lp)
  BY <1>1 DEF Init, Shared, EmptyPool
<1>3. SavedKept
  BY NothingKept DEF Init
<1> QED BY <1>2, <1>3, PairAssumption DEF Init, ShareInv, SavedKept

LEMMA SharesStep == IInv /\ IInv' /\ ShareInv /\ [Next]_vars => ShareInv'
<1> SUFFICES ASSUME IInv, IInv', ShareInv, [Next]_vars PROVE ShareInv'
  OBVIOUS
<1>1. /\ Shared(pool', lp')
      /\ wallet0' \in [Accounts -> Nat] /\ wallet1' \in [Accounts -> Nat]
      /\ feeTo' \in Accounts \cup {NoOne} /\ feeToSetter' \in Accounts \cup {NoOne}
      /\ sums' = [last |-> sums'.last, price0 |-> sums'.price0, price1 |-> sums'.price1]
      /\ sums'.last \in 0..(TIME_WRAP - 1)
      /\ SavedKept'
  BY SharesKept, WalletsKept, SettersKept, ClockReadKept, SaveKept
<1> QED BY <1>1 DEF ShareInv, SavedKept, Shared

THEOREM ShareInvariance == Spec => []ShareInv
BY SharesInit, SharesStep, PairInvariance, PTL DEF Spec

(* A pair that has liquidity keeps some: the shares of all holders make up *)
(* the supply, what is locked stays, neither reserve comes down to zero,   *)
(* nothing is subtracted below zero and every root is exact.               *)
THEOREM LiquidityStays == Spec => []LiquidityLasts
<1> SUFFICES IInv /\ ShareInv => LiquidityLasts
  BY PairInvariance, ShareInvariance, PTL
<1> SUFFICES ASSUME IInv, ShareInv PROVE LiquidityLasts
  OBVIOUS
<1>1. TypeOK
  <2>1. pool \in PoolShape /\ lp \in [Holders -> Nat]
    BY DEF IInv, Sound, IsPool, ShareInv, Shared, PoolShape
  <2>2. flash \in [open : BOOLEAN, out0 : Nat, out1 : Nat]
    <3>1. CASE flash = NoFlash
      BY <3>1 DEF NoFlash
    <3>2. CASE flash # NoFlash
      <4> DEFINE x == flash.out0
                 y == flash.out1
      <4>1. x \in Nat /\ y \in Nat /\ flash = [open |-> TRUE, out0 |-> x, out1 |-> y]
        BY <3>2 DEF IInv, FlashBacked
      <4> HIDE DEF x, y
      <4> QED BY <4>1
    <3> QED BY <3>1, <3>2
  <2>3. sums \in [last : 0..(TIME_WRAP - 1), price0 : 0..(SUM_WRAP - 1),
                  price1 : 0..(SUM_WRAP - 1)]
    BY DEF IInv, SumsInRange, ShareInv
  <2> QED BY <2>1, <2>2, <2>3 DEF IInv, Clock, ShareInv, StateOK, TypeOK
<1>2. NeverEmptied
  BY DEF ShareInv, Shared, NeverEmptied
<1>3. SqrtIsRoot
  <2>1. Product(pool) \in Nat /\ pool.kLast \in Nat /\ pool.balance0 * pool.balance1 \in Nat
    BY Products DEF IInv, Sound, IsPool, Product
  <2> QED BY <2>1, SqrtExact DEF SqrtIsRoot
<1> QED BY <1>1, <1>2, <1>3 DEF LiquidityLasts

(* No step makes a share worth less, other than for the protocol, which    *)
(* leaves five sixths of the growth since kLast.                           *)
THEOREM GrowthStays == Spec => SharesKeepTheirGrowth
<1>1. IInv /\ IInv' /\ ShareInv /\ [Next]_vars => [GrowthKept]_vars
  BY SharesKept
<1> QED BY <1>1, PairInvariance, ShareInvariance, PTL DEF Spec, SharesKeepTheirGrowth, GrowthKept
=============================================================================
