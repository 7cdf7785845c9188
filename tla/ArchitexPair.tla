----------------------------- MODULE ArchitexPair -----------------------------
(***************************************************************************)
(* An ArchitexPair with everyone at it: liquidity, swaps, flash swaps with *)
(* the borrower's call open, skim and sync, the protocol fee that          *)
(* ArchitexFactory switches, and the price sums others read averages from. *)
(*                                                                         *)
(* A function is one action, except a flash swap: BeginFlash pays out and  *)
(* calls the borrower, EndFlash checks what is there when it returns, or   *)
(* RevertFlash undoes the transaction.  While it is open the pair is       *)
(* locked and anything else may run.                                       *)
(*                                                                         *)
(* Both tokens are standard ERC-20s, as the contract asks for.  Transfers  *)
(* between accounts touch nothing here and are left out.                   *)
(***************************************************************************)
EXTENDS PairMath, Sums

CONSTANTS
  Accounts,            \* whoever holds tokens or LP, borrowers included
  Dead, Self,          \* 0x...dEaD and the pair, which also hold LP
  NoOne,               \* the zero address
  Setter,              \* the factory's first feeToSetter
  Holding0, Holding1,  \* the tokens each account starts with
  Payments,            \* token amounts sent to the pair
  Shares,              \* LP amounts sent
  Withdrawals, Loans,  \* amounts a swap and a flash swap ask for
  RESOLUTION,          \* 2^112: the fixed-point scale of prices
  SUM_WRAP,            \* 2^256: price sums wrap
  TIME_WRAP,           \* 2^32: the recorded time wraps
  MaxTime              \* bound of the model: the last timestamp

Holders == Accounts \cup {Dead, Self}

ASSUME PairAssumption ==
  /\ IsFiniteSet(Accounts)
  /\ Dead \notin Accounts /\ Self \notin Accounts /\ Dead # Self
  /\ NoOne \notin Holders
  /\ Setter \in Accounts
  /\ Holding0 \in [Accounts -> Nat] /\ Holding1 \in [Accounts -> Nat]
  /\ Payments \subseteq Nat /\ Shares \subseteq Nat /\ Withdrawals \subseteq Nat
  /\ Loans \subseteq Nat
  /\ RESOLUTION \in Nat
  /\ SUM_WRAP \in Nat /\ SUM_WRAP > 0
  /\ TIME_WRAP \in Nat /\ TIME_WRAP > 1
  /\ MaxTime \in Nat

VARIABLES
  now,             \* block.timestamp
  pool,            \* the pair's balances, reserves, kLast and LP supply
  sums,            \* the price sums and the time they were last brought up to
  wallet0, wallet1,
  lp,              \* LP balances
  feeTo, feeToSetter,
  flash,           \* the flash swap whose borrower is running
  saved            \* the state it began in

vars == <<now, pool, sums, wallet0, wallet1, lp, feeTo, feeToSetter, flash, saved>>

wallets == <<wallet0, wallet1>>
admin   == <<feeTo, feeToSetter>>
frame   == <<flash, saved>>

NoFlash == [open |-> FALSE, out0 |-> 0, out1 |-> 0]

Snapshot == [pool |-> pool, wallet0 |-> wallet0, wallet1 |-> wallet1, lp |-> lp,
             feeTo |-> feeTo, feeToSetter |-> feeToSetter]

NothingSaved == [pool |-> EmptyPool,
                 wallet0 |-> [a \in Accounts |-> 0], wallet1 |-> [a \in Accounts |-> 0],
                 lp |-> [h \in Holders |-> 0],
                 feeTo |-> NoOne, feeToSetter |-> NoOne]

Init ==
  /\ now = 0
  /\ pool = EmptyPool
  /\ sums = [last |-> 0, price0 |-> 0, price1 |-> 0]
  /\ wallet0 = Holding0 /\ wallet1 = Holding1
  /\ lp = [h \in Holders |-> 0]
  /\ feeTo = NoOne
  /\ feeToSetter = Setter
  /\ flash = NoFlash
  /\ saved = NothingSaved

FeeOn == feeTo # NoOne

Unlocked == ~flash.open

Added(ledger, who, amount) ==
  [x \in DOMAIN ledger |-> IF x = who THEN ledger[x] + amount ELSE ledger[x]]

-----------------------------------------------------------------------------
(* Price sums. *)

Price0(p) == (p.reserve1 * RESOLUTION) \div p.reserve0
Price1(p) == (p.reserve0 * RESOLUTION) \div p.reserve1

Priced(p) == p.reserve0 > 0 /\ p.reserve1 > 0

(* Seconds since the sums were brought up to date, in wrapping uint32.     *)
Elapsed == (now - sums.last) % TIME_WRAP

(* Fault: the sums grow by the price of the new reserves. *)
SummedAtNewPrice ==
  sums' = [last   |-> now % TIME_WRAP,
           price0 |-> IF Elapsed > 0 /\ Priced(pool)
                        THEN (sums.price0 + Price0(pool') * Elapsed) % SUM_WRAP
                        ELSE sums.price0,
           price1 |-> IF Elapsed > 0 /\ Priced(pool)
                        THEN (sums.price1 + Price1(pool') * Elapsed) % SUM_WRAP
                        ELSE sums.price1]

(* _update: the sums grow by the price that held until now. *)
Summed ==
  sums' = [last   |-> now % TIME_WRAP,
           price0 |-> IF Elapsed > 0 /\ Priced(pool)
                        THEN (sums.price0 + Price0(pool) * Elapsed) % SUM_WRAP
                        ELSE sums.price0,
           price1 |-> IF Elapsed > 0 /\ Priced(pool)
                        THEN (sums.price1 + Price1(pool) * Elapsed) % SUM_WRAP
                        ELSE sums.price1]

-----------------------------------------------------------------------------
(* Tokens and LP sent to the pair: a deposit not yet minted for, a payment *)
(* for a swap, a gift.                                                     *)

Send0(a, amount) ==
  /\ wallet0[a] >= amount
  /\ wallet0' = Added(wallet0, a, -amount)
  /\ pool' = WithBalances(pool, pool.balance0 + amount, pool.balance1)
  /\ UNCHANGED <<now, sums, wallet1, lp, admin, frame>>

Send1(a, amount) ==
  /\ wallet1[a] >= amount
  /\ wallet1' = Added(wallet1, a, -amount)
  /\ pool' = WithBalances(pool, pool.balance0, pool.balance1 + amount)
  /\ UNCHANGED <<now, sums, wallet0, lp, admin, frame>>

SendLp(from, to, amount) ==
  /\ from # to
  /\ lp[from] >= amount
  /\ lp' = Added(Added(lp, from, -amount), to, amount)
  /\ UNCHANGED <<now, pool, sums, wallets, admin, frame>>

-----------------------------------------------------------------------------
(* The pair's functions. *)

(* Fault: the protocol's shares are minted to nobody. *)
MintFeeLost(to) ==
  LET m == MintOf(pool, FeeOn)
  IN  /\ Unlocked
      /\ m.ok
      /\ pool' = m.pool
      /\ lp' = Added(Added(lp, to, m.shares), Dead, m.locked)
      /\ Summed
      /\ UNCHANGED <<now, wallets, admin, frame>>

Mint(to) ==
  LET m == MintOf(pool, FeeOn)
  IN  /\ Unlocked
      /\ m.ok
      /\ pool' = m.pool
      /\ lp' = Added(Added(Added(lp, to, m.shares), feeTo, m.fee), Dead, m.locked)
      /\ Summed
      /\ UNCHANGED <<now, wallets, admin, frame>>

Burn(to) ==
  LET b == BurnOf(pool, lp[Self], FeeOn)
  IN  /\ Unlocked
      /\ b.ok
      /\ pool' = b.pool
      /\ lp' = Added(Added(lp, Self, -lp[Self]), feeTo, b.fee)
      /\ wallet0' = Added(wallet0, to, b.amount0)
      /\ wallet1' = Added(wallet1, to, b.amount1)
      /\ Summed
      /\ UNCHANGED <<now, admin, frame>>

(* A swap without a callback; what it takes in was sent before. *)
Swap(to, out0, out1) ==
  LET p == Paid(pool, out0, out1)
  IN  /\ Unlocked
      /\ Payable(pool, out0, out1)
      /\ Settles(p, out0, out1)
      /\ pool' = Synced(p)
      /\ wallet0' = Added(wallet0, to, out0)
      /\ wallet1' = Added(wallet1, to, out1)
      /\ Summed
      /\ UNCHANGED <<now, lp, admin, frame>>

(* A swap with data pays out and calls the borrower. *)
BeginFlash(to, out0, out1) ==
  /\ Unlocked
  /\ Payable(pool, out0, out1)
  /\ pool' = Paid(pool, out0, out1)
  /\ wallet0' = Added(wallet0, to, out0)
  /\ wallet1' = Added(wallet1, to, out1)
  /\ flash' = [open |-> TRUE, out0 |-> out0, out1 |-> out1]
  /\ saved' = Snapshot
  /\ UNCHANGED <<now, sums, lp, admin>>

(* Fault: only one side of the loan is looked at when the call returns.    *)
EndFlashUnchecked ==
  /\ flash.open
  /\ pool.balance0 >= pool.reserve0 \/ pool.balance1 >= pool.reserve1
  /\ Fits(pool.balance0, pool.balance1)
  /\ pool' = Synced(pool)
  /\ Summed
  /\ flash' = NoFlash
  /\ saved' = NothingSaved
  /\ UNCHANGED <<now, wallets, lp, admin>>

(* The borrower has returned. *)
EndFlash ==
  /\ flash.open
  /\ Settles(pool, flash.out0, flash.out1)
  /\ pool' = Synced(pool)
  /\ Summed
  /\ flash' = NoFlash
  /\ saved' = NothingSaved
  /\ UNCHANGED <<now, wallets, lp, admin>>

(* The borrower or a check reverts: nothing has happened. *)
RevertFlash ==
  /\ flash.open
  /\ pool' = saved.pool
  /\ wallet0' = saved.wallet0 /\ wallet1' = saved.wallet1
  /\ lp' = saved.lp
  /\ feeTo' = saved.feeTo /\ feeToSetter' = saved.feeToSetter
  /\ flash' = NoFlash
  /\ saved' = NothingSaved
  /\ UNCHANGED <<now, sums>>

Skim(to) ==
  /\ Unlocked
  /\ pool.balance0 >= pool.reserve0 /\ pool.balance1 >= pool.reserve1
  /\ wallet0' = Added(wallet0, to, pool.balance0 - pool.reserve0)
  /\ wallet1' = Added(wallet1, to, pool.balance1 - pool.reserve1)
  /\ pool' = Skimmed(pool)
  /\ UNCHANGED <<now, sums, lp, admin, frame>>

Sync ==
  /\ Unlocked
  /\ Fits(pool.balance0, pool.balance1)
  /\ pool' = Synced(pool)
  /\ Summed
  /\ UNCHANGED <<now, wallets, lp, admin, frame>>

(* The factory's switches; the pair reads feeTo when it mints or burns.    *)
SetFeeTo(caller, to) ==
  /\ caller = feeToSetter
  /\ feeTo' = to
  /\ UNCHANGED <<now, pool, sums, wallets, lp, feeToSetter, frame>>

SetFeeToSetter(caller, to) ==
  /\ caller = feeToSetter
  /\ feeToSetter' = to
  /\ UNCHANGED <<now, pool, sums, wallets, lp, feeTo, frame>>

(* Time passes between transactions.  No pair is left alone for as long as *)
(* the recorded time takes to wrap (136 years).                            *)
Tick ==
  /\ Unlocked
  /\ now < MaxTime
  /\ Elapsed + 1 < TIME_WRAP
  /\ now' = now + 1
  /\ UNCHANGED <<pool, sums, wallets, lp, admin, frame>>

Next ==
  \/ \E a \in Accounts, amount \in Payments : Send0(a, amount)
  \/ \E a \in Accounts, amount \in Payments : Send1(a, amount)
  \/ \E from \in Accounts, to \in Accounts \cup {Self}, amount \in Shares :
       SendLp(from, to, amount)
  \/ \E to \in Accounts : Mint(to)
  \/ \E to \in Accounts : Burn(to)
  \/ \E to \in Accounts, out0, out1 \in Withdrawals : Swap(to, out0, out1)
  \/ \E to \in Accounts, out0, out1 \in Loans : BeginFlash(to, out0, out1)
  \/ EndFlash
  \/ RevertFlash
  \/ \E to \in Accounts : Skim(to)
  \/ Sync
  \/ \E caller \in Accounts, to \in Accounts \cup {NoOne} : SetFeeTo(caller, to)
  \/ \E caller \in Accounts, to \in Accounts \cup {NoOne} : SetFeeToSetter(caller, to)
  \/ Tick

Spec == Init /\ [][Next]_vars

-----------------------------------------------------------------------------
(* Nothing is ever subtracted below zero, and an open flash swap has a     *)
(* state to return to.                                                     *)
StateOK(p, w0, w1, shares, to, setter) ==
  /\ p \in PoolShape
  /\ w0 \in [Accounts -> Nat] /\ w1 \in [Accounts -> Nat]
  /\ shares \in [Holders -> Nat]
  /\ to \in Accounts \cup {NoOne} /\ setter \in Accounts \cup {NoOne}

TypeOK ==
  /\ now \in Nat
  /\ StateOK(pool, wallet0, wallet1, lp, feeTo, feeToSetter)
  /\ sums \in [last : 0..(TIME_WRAP - 1), price0 : 0..(SUM_WRAP - 1), price1 : 0..(SUM_WRAP - 1)]
  /\ flash \in [open : BOOLEAN, out0 : Nat, out1 : Nat]
  /\ StateOK(saved.pool, saved.wallet0, saved.wallet1, saved.lp, saved.feeTo, saved.feeToSetter)

(* What the pair has recorded it holds, less what a running borrower was   *)
(* lent: mint and skim never fail on their subtractions (the repository    *)
(* tests it as invariant_pairsAreSolvent, between calls).                  *)
ReservesBacked ==
  /\ pool.balance0 + flash.out0 >= pool.reserve0
  /\ pool.balance1 + flash.out1 >= pool.reserve1

(* kLast never runs ahead of the product it is compared with: turning the  *)
(* protocol fee off and on between any liquidity events, _mintFee never    *)
(* forgets growth that is still to come.                                   *)
KLastBehind == pool.kLast <= Product(pool)

(* Once there is liquidity, reserves and supply never come down to zero,   *)
(* and the shares of all holders make up the supply: mint and burn never   *)
(* divide by zero.                                                         *)
NeverEmptied ==
  /\ pool.supply = SumOver(Holders, lp)
  /\ pool.supply > 0 => /\ lp[Dead] >= MINIMUM_LIQUIDITY
                        /\ pool.reserve0 > 0 /\ pool.reserve1 > 0

(* _sqrt is the whole square root of whatever the pair takes it of.        *)
SqrtIsRoot ==
  \A y \in {Product(pool), pool.kLast, pool.balance0 * pool.balance1} : Sqrt(y) = Root(y)

(* The pair's records are what mint, burn and skim take them for, whatever *)
(* was sent, lent, skimmed or synced and however the fee was switched.     *)
PairSound == ReservesBacked /\ KLastBehind

(* A pair with liquidity keeps it: nothing divides by zero or goes below   *)
(* it, and roots are exact.                                                *)
LiquidityLasts == TypeOK /\ NeverEmptied /\ SqrtIsRoot

(* No step makes a share worth less, other than for the protocol: it takes *)
(* at most a sixth of the growth since kLast (IArchitexPair: "1/6 of that  *)
(* growth is minted to feeTo").  The worth of a share is the root of the   *)
(* product over the supply, here squared; after _mintFee, five sixths of   *)
(* the growth must be left.                                                *)
SharesKeepTheirGrowth ==
  [][ pool.supply > 0 =>
        LET rootK     == Root(Product(pool))
            rootKLast == Root(pool.kLast)
            charged   == FeeOn /\ pool.kLast # 0 /\ rootK > rootKLast
            worth     == IF charged THEN (5 * rootK + rootKLast) * (5 * rootK + rootKLast)
                                    ELSE 36 * Product(pool)
        IN  36 * Product(pool') * (pool.supply * pool.supply)
              >= worth * (pool'.supply * pool'.supply) ]_vars

(* While a borrower runs, nothing the pair has recorded changes, so        *)
(* whoever reads the pair inside the call reads the state before it.       *)
RecordsFrozen ==
  [][ flash.open /\ flash'.open =>
        /\ pool'.reserve0 = pool.reserve0 /\ pool'.reserve1 = pool.reserve1
        /\ pool'.kLast = pool.kLast /\ pool'.supply = pool.supply
        /\ sums' = sums ]_vars

(* The sums as anyone extrapolates them to now. *)
SumsNow ==
  <<IF Priced(pool) THEN (sums.price0 + Price0(pool) * Elapsed) % SUM_WRAP ELSE sums.price0,
    IF Priced(pool) THEN (sums.price1 + Price1(pool) * Elapsed) % SUM_WRAP ELSE sums.price1>>

(* Extrapolated price sums move with time and with nothing else: by the    *)
(* price that held, for as long as it held, through wraps of time and sum. *)
(* No swap, flash swap, donation or sync can move them within a block.     *)
SumsFollowTime ==
  [][ LET seconds == now' - now
      IN  SumsNow' =
            IF Priced(pool)
              THEN <<(SumsNow[1] + Price0(pool) * seconds) % SUM_WRAP,
                     (SumsNow[2] + Price1(pool) * seconds) % SUM_WRAP>>
              ELSE SumsNow ]_vars

(* Whoever reads a pair, inside a borrower's call or by its price sums,    *)
(* reads what nobody could move within that call or that block.            *)
ReadsAreSafe == RecordsFrozen /\ SumsFollowTime
=============================================================================
