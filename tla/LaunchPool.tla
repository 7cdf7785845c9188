------------------------------ MODULE LaunchPool ------------------------------
(***************************************************************************)
(* The assets and pools the launchpad works with: the USDC ledger, each    *)
(* launch token's balances with its transfer lock (LaunchToken._update,    *)
(* markGraduated) and each token's LaunchPair.  mint, burn, skim and sync  *)
(* are open to everyone at any time, so they are actions of their own;     *)
(* swap is open to the router only and is the pool half of its trades,     *)
(* in Launchpad.tla, which extends this module.                            *)
(*                                                                         *)
(* Dividends of a launch token do not touch its balances; LaunchToken.tla  *)
(* has them.  USDC is external: an ERC-20 whose transfers move balances.   *)
(***************************************************************************)
EXTENDS Integers, FiniteSets

CONSTANTS
  Tokens,             \* launch tokens, launched or still to be
  Users,              \* wallets: traders, creators, fee receivers
  HookPlugins,        \* contracts that declare IArchitexFeePlugin
  Pad, Router, Dead,  \* the launchpad, the launch router, 0x...dEaD
  Pair,               \* the launch pair of each token
  NoOne,              \* the zero address
  MINIMUM_LIQUIDITY,
  MaxReserve,         \* type(uint112).max
  Recipients,         \* where plain transfers go, and trades besides their caller
  UsdcAmounts,        \* amounts of plain transfers: of USDC,
  TokenAmounts,       \* of a launch token,
  LpAmounts           \* of LP tokens

Pairs    == {Pair[t] : t \in Tokens}
Holders  == Users \cup HookPlugins
Accounts == Holders \cup {Pad, Router, Dead} \cup Pairs

ASSUME PoolAssumption ==
  /\ IsFiniteSet(Tokens) /\ IsFiniteSet(Users) /\ IsFiniteSet(HookPlugins)
  /\ Pair \in [Tokens -> Pairs]
  /\ \A s, t \in Tokens : Pair[s] = Pair[t] => s = t
  /\ Pairs \cap (Holders \cup {Pad, Router, Dead}) = {}
  /\ {Pad, Router, Dead} \cap Holders = {}
  /\ Pad # Router /\ Pad # Dead /\ Router # Dead
  /\ NoOne \notin Accounts
  /\ MINIMUM_LIQUIDITY \in Nat
  /\ MaxReserve \in Nat
  /\ Recipients \subseteq Accounts
  /\ UsdcAmounts \subseteq Nat \ {0}
  /\ TokenAmounts \subseteq Nat \ {0}
  /\ LpAmounts \subseteq Nat \ {0}

VARIABLES
  usdc,       \* USDC balance of every account
  bal,        \* bal[t]: balances of launch token t
  graduated,  \* LaunchToken.graduated: transfers into the pair are open
  reserves,   \* the reserves each pair has recorded
  lp,         \* lp[t]: balances of the LP token of t's pair
  lpSupply    \* and its total supply

poolVars == <<usdc, bal, graduated, reserves, lp, lpSupply>>

-----------------------------------------------------------------------------
(* A transfer that does not revert. *)
Moved(ledger, from, to, amount) ==
  [a \in DOMAIN ledger |->
     ledger[a] - (IF a = from THEN amount ELSE 0) + (IF a = to THEN amount ELSE 0)]

Credited(ledger, to, amount) == [ledger EXCEPT ![to] = @ + amount]

(* Fault: the pair is never locked. *)
MayAlwaysReceive(t, to) == TRUE

(* LaunchToken._update refuses transfers into the pair until graduation. *)
MayReceive(t, to) == to = Pair[t] => graduated[t]

Least(a, b) == IF a <= b THEN a ELSE b

(* Reserves set to the given balances (_setReserves). *)
ReservesFit(token, usd) == token <= MaxReserve /\ usd <= MaxReserve
Synced(t, token, usd) ==
  [reserves EXCEPT ![t] = [token |-> token, usdc |-> usd]]

(* Math.sqrt: the one root of x, rounded down. *)
Roots(x) == {r \in 0..x : r * r <= x /\ x < (r + 1) * (r + 1)}

(* Fault: mint pays for the larger of the two sides. *)
LiquidityForLarger(t, token, usd) ==
  LET amountToken == token - reserves[t].token
      amountUsdc  == usd - reserves[t].usdc
      larger(a, b) == IF a <= b THEN b ELSE a
  IN  IF lpSupply[t] = 0
        THEN {root - MINIMUM_LIQUIDITY : root \in Roots(amountToken * amountUsdc)}
      ELSE IF reserves[t].token > 0 /\ reserves[t].usdc > 0
        THEN {larger((amountToken * lpSupply[t]) \div reserves[t].token,
                     (amountUsdc * lpSupply[t]) \div reserves[t].usdc)}
      ELSE {}

(* The LP mint would create for the given balances of the pair: a set of   *)
(* one amount, or of none where a division by an empty reserve reverts.    *)
LiquidityFor(t, token, usd) ==
  LET amountToken == token - reserves[t].token
      amountUsdc  == usd - reserves[t].usdc
  IN  IF lpSupply[t] = 0
        THEN {root - MINIMUM_LIQUIDITY : root \in Roots(amountToken * amountUsdc)}
      ELSE IF reserves[t].token > 0 /\ reserves[t].usdc > 0
        THEN {Least((amountToken * lpSupply[t]) \div reserves[t].token,
                    (amountUsdc * lpSupply[t]) \div reserves[t].usdc)}
      ELSE {}

(* LaunchPair.mint, given the balances it reads.  Its subtractions are     *)
(* checked: balances below the reserves would revert it.                   *)
MintTo(t, to, token, usd) ==
  /\ token >= reserves[t].token
  /\ usd >= reserves[t].usdc
  /\ ReservesFit(token, usd)
  /\ \E liquidity \in LiquidityFor(t, token, usd) :
       LET locked == IF lpSupply[t] = 0 THEN MINIMUM_LIQUIDITY ELSE 0
       IN  /\ liquidity > 0
           /\ lp' = [lp EXCEPT ![t] = Credited(Credited(@, Dead, locked), to, liquidity)]
           /\ lpSupply' = [lpSupply EXCEPT ![t] = @ + locked + liquidity]
  /\ reserves' = Synced(t, token, usd)

(* LaunchPair.swap, given the amounts out and the balances it reads after  *)
(* paying them: no fee, only the product of the reserves must not fall.    *)
SwapTo(t, tokenOut, usdcOut, token, usd) ==
  LET r == reserves[t]
  IN  /\ tokenOut < r.token
      /\ usdcOut < r.usdc
      /\ token > r.token - tokenOut \/ usd > r.usdc - usdcOut
      /\ token * usd >= r.token * r.usdc
      /\ ReservesFit(token, usd)
      /\ reserves' = Synced(t, token, usd)

-----------------------------------------------------------------------------
(* What anyone may do with the assets and the open part of a pair.         *)

TransferUsdc(from, to, amount) ==
  /\ usdc[from] >= amount
  /\ usdc' = Moved(usdc, from, to, amount)
  /\ UNCHANGED <<bal, graduated, reserves, lp, lpSupply>>

TransferToken(t, from, to, amount) ==
  /\ bal[t][from] >= amount
  /\ MayReceive(t, to)
  /\ bal' = [bal EXCEPT ![t] = Moved(@, from, to, amount)]
  /\ UNCHANGED <<usdc, graduated, reserves, lp, lpSupply>>

(* LaunchToken.burn: a holder destroys its own tokens. *)
BurnToken(t, from, amount) ==
  /\ bal[t][from] >= amount
  /\ bal' = [bal EXCEPT ![t] = Moved(@, from, NoOne, amount)]
  /\ UNCHANGED <<usdc, graduated, reserves, lp, lpSupply>>

TransferLp(t, from, to, amount) ==
  /\ lp[t][from] >= amount
  /\ lp' = [lp EXCEPT ![t] = Moved(@, from, to, amount)]
  /\ UNCHANGED <<usdc, bal, graduated, reserves, lpSupply>>

PairMint(t, to) ==
  /\ MintTo(t, to, bal[t][Pair[t]], usdc[Pair[t]])
  /\ UNCHANGED <<usdc, bal, graduated>>

PairBurn(t, to) ==
  LET pair        == Pair[t]
      liquidity   == lp[t][pair]
      amountToken == (liquidity * bal[t][pair]) \div lpSupply[t]
      amountUsdc  == (liquidity * usdc[pair]) \div lpSupply[t]
      newBal      == Moved(bal[t], pair, to, amountToken)
      newUsdc     == Moved(usdc, pair, to, amountUsdc)
  IN  /\ lpSupply[t] > 0
      /\ amountToken > 0 /\ amountToken <= bal[t][pair]
      /\ amountUsdc > 0 /\ amountUsdc <= usdc[pair]
      /\ ReservesFit(newBal[pair], newUsdc[pair])
      /\ lp' = [lp EXCEPT ![t][pair] = 0]
      /\ lpSupply' = [lpSupply EXCEPT ![t] = @ - liquidity]
      /\ bal' = [bal EXCEPT ![t] = newBal]
      /\ usdc' = newUsdc
      /\ reserves' = Synced(t, newBal[pair], newUsdc[pair])
      /\ UNCHANGED graduated

(* Fault: skim hands out everything, not the excess. *)
PairSkimAll(t, to) ==
  /\ bal[t][Pair[t]] > 0 => MayReceive(t, to)
  /\ bal' = [bal EXCEPT ![t] = Moved(@, Pair[t], to, bal[t][Pair[t]])]
  /\ usdc' = Moved(usdc, Pair[t], to, usdc[Pair[t]])
  /\ UNCHANGED <<graduated, reserves, lp, lpSupply>>

(* The token side moves only if there is an excess, so the lock is not     *)
(* asked about an empty transfer.  The subtractions are checked.           *)
PairSkim(t, to) ==
  LET pair        == Pair[t]
      excessToken == bal[t][pair] - reserves[t].token
      excessUsdc  == usdc[pair] - reserves[t].usdc
  IN  /\ excessToken >= 0 /\ excessUsdc >= 0
      /\ excessToken > 0 => MayReceive(t, to)
      /\ bal' = [bal EXCEPT ![t] = Moved(@, pair, to, excessToken)]
      /\ usdc' = Moved(usdc, pair, to, excessUsdc)
      /\ UNCHANGED <<graduated, reserves, lp, lpSupply>>

PairSync(t) ==
  /\ ReservesFit(bal[t][Pair[t]], usdc[Pair[t]])
  /\ reserves' = Synced(t, bal[t][Pair[t]], usdc[Pair[t]])
  /\ UNCHANGED <<usdc, bal, graduated, lp, lpSupply>>

(* One step on the assets of a launched token. *)
PoolStep(t) ==
  \/ \E from \in Holders, to \in Recipients, amount \in TokenAmounts :
       TransferToken(t, from, to, amount)
  \/ \E from \in Holders, amount \in TokenAmounts : BurnToken(t, from, amount)
  \/ \E from \in Holders, to \in Recipients, amount \in LpAmounts :
       TransferLp(t, from, to, amount)
  \/ \E to \in Users \cup Recipients : PairMint(t, to) \/ PairBurn(t, to) \/ PairSkim(t, to)
  \/ PairSync(t)

-----------------------------------------------------------------------------
PoolTypeOK ==
  /\ usdc \in [Accounts -> Nat]
  /\ bal \in [Tokens -> [Accounts -> Nat]]
  /\ graduated \in [Tokens -> BOOLEAN]
  /\ reserves \in [Tokens -> [token : Nat, usdc : Nat]]
  /\ lp \in [Tokens -> [Accounts -> Nat]]
  /\ lpSupply \in [Tokens -> Int]

(* A pair never records more than it holds.  LaunchPair's mint and skim    *)
(* subtract reserves from balances: an underflow would revert them for     *)
(* good.                                                                   *)
ReservesBacked ==
  \A t \in Tokens :
    /\ reserves[t].token <= bal[t][Pair[t]]
    /\ reserves[t].usdc <= usdc[Pair[t]]

(* A pool with liquidity keeps both reserves positive, and its LP supply   *)
(* never falls under the part locked on the first mint, whatever is burned *)
(* out of it: mint never divides by an empty reserve.                      *)
PoolNeverEmpties ==
  \A t \in Tokens : lpSupply[t] > 0 =>
    /\ lpSupply[t] >= MINIMUM_LIQUIDITY
    /\ reserves[t].token > 0 /\ reserves[t].usdc > 0

(* One LP share is never worth less after a step than before: the product  *)
(* of a pool's reserves per squared share does not fall, through trades,   *)
(* mints, burns, donations and syncs in any order.                         *)
SharesNotDiluted ==
  \A t \in Tokens : lpSupply[t] > 0 /\ lpSupply'[t] > 0 =>
    reserves'[t].token * reserves'[t].usdc * lpSupply[t] * lpSupply[t]
      >= reserves[t].token * reserves[t].usdc * lpSupply'[t] * lpSupply'[t]
=============================================================================
