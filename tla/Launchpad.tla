------------------------------ MODULE Launchpad ------------------------------
(***************************************************************************)
(* ArchitexLaunchpad v1.3 with the contracts one of its transactions runs  *)
(* through: the launch token's transfers, the launch pair and the launch   *)
(* router.                                                                 *)
(*                                                                         *)
(* A transaction is one step, except where the code calls out to a plugin  *)
(* (onLaunch inside createToken, onFees inside collectCreatorFees): there  *)
(* the plugin may do anything before it returns, so the call is open       *)
(* ("call") while other actions run, the reentrancy guard refuses what it  *)
(* refuses, and the transaction ends by committing or by reverting to the  *)
(* state it started from ("saved").  createToken opens such a call for a   *)
(* plain destination too, but then no other action runs inside it.         *)
(*                                                                         *)
(* A caller's own bounds (minTokensOut, minUsdcOut, deadline) only ever    *)
(* make a call revert; some value of them allows each call, so they are    *)
(* left out.                                                               *)
(***************************************************************************)
EXTENDS CurveMath, LaunchPool, Sums

CONSTANTS
  CURVE_SUPPLY, POOL_SUPPLY,
  VIRTUAL_TOKENS_0, VIRTUAL_USDC_0,
  MAX_CREATOR_FEE_BPS, MAX_LAUNCH_FEE,
  Deployer,           \* the wallet that deploys and wires the launchpad
  InitialUsdc,        \* USDC each holder starts with; all there is
  CreatorFees, LaunchFees, BuyAmounts, SellAmounts

TOTAL_SUPPLY == CURVE_SUPPLY + POOL_SUPPLY

ASSUME LaunchpadAssumption ==
  /\ CURVE_SUPPLY \in Nat /\ CURVE_SUPPLY > 0
  /\ POOL_SUPPLY \in Nat
  /\ VIRTUAL_TOKENS_0 \in Nat /\ CURVE_SUPPLY < VIRTUAL_TOKENS_0
  /\ VIRTUAL_USDC_0 \in Nat /\ VIRTUAL_USDC_0 > 0
  /\ MAX_CREATOR_FEE_BPS \in Nat /\ FEE_BPS + MAX_CREATOR_FEE_BPS < BPS
  /\ MAX_LAUNCH_FEE \in Nat
  /\ Deployer \in Users
  /\ InitialUsdc \in [Holders -> Nat]
  /\ CreatorFees \subseteq Nat /\ LaunchFees \subseteq Nat
  /\ BuyAmounts \subseteq Nat /\ SellAmounts \subseteq Nat

(* The least a sold-out curve has raised buys more LP than a first mint     *)
(* locks (with the code's constants by thirty orders of magnitude).        *)
ASSUME OpeningAssumption ==
  POOL_SUPPLY * (DivCeil(VIRTUAL_USDC_0 * VIRTUAL_TOKENS_0, VIRTUAL_TOKENS_0 - CURVE_SUPPLY)
                   - VIRTUAL_USDC_0)
    >= (MINIMUM_LIQUIDITY + 1) * (MINIMUM_LIQUIDITY + 1)

VARIABLES
  curves,              \* the registry of bonding curves
  pendingFees,         \* platform fees accrued and not collected
  pendingCreatorFees,  \* creator fees accrued, per token
  feeTo, feeToSetter, launchFee,
  wired,               \* initialize has run: pair factory and router are set
  call,                \* the open plugin call, if any
  saved                \* the state to return to if that transaction reverts

books == <<curves, pendingFees, pendingCreatorFees>>
admin == <<feeTo, feeToSetter, launchFee, wired>>
vars  == <<poolVars, books, admin, call, saved>>

NoCurve ==
  [creator |-> NoOne, virtualUsdc |-> VIRTUAL_USDC_0,
   virtualTokens |-> VIRTUAL_TOKENS_0, tokensSold |-> 0, graduated |-> FALSE,
   creatorFeeBps |-> 0, pluginHooks |-> FALSE, plugin |-> NoOne]

NoCall == [kind |-> "none", token |-> NoOne, allowance |-> 0, before |-> 0, firstBuy |-> 0]

Launched(t) == curves[t].creator # NoOne

(* ReentrancyGuard: a nonReentrant function of the launchpad is running. *)
Entered == call.kind # "none"

(* Steps of others can run: between transactions, or inside a plugin call. *)
Open == Entered => curves[call.token].pluginHooks

Snapshot ==
  [usdc |-> usdc, bal |-> bal, graduated |-> graduated, reserves |-> reserves,
   lp |-> lp, lpSupply |-> lpSupply, curves |-> curves, pendingFees |-> pendingFees,
   pendingCreatorFees |-> pendingCreatorFees,
   feeTo |-> feeTo, feeToSetter |-> feeToSetter, launchFee |-> launchFee]

NotSaved == [curves |-> <<>>]

Init ==
  /\ usdc = [a \in Accounts |-> IF a \in Holders THEN InitialUsdc[a] ELSE 0]
  /\ bal = [t \in Tokens |-> [a \in Accounts |-> 0]]
  /\ graduated = [t \in Tokens |-> FALSE]
  /\ reserves = [t \in Tokens |-> [token |-> 0, usdc |-> 0]]
  /\ lp = [t \in Tokens |-> [a \in Accounts |-> 0]]
  /\ lpSupply = [t \in Tokens |-> 0]
  /\ curves = [t \in Tokens |-> NoCurve]
  /\ pendingFees = 0
  /\ pendingCreatorFees = [t \in Tokens |-> 0]
  /\ feeTo = Deployer
  /\ feeToSetter = Deployer
  /\ launchFee \in LaunchFees
  /\ launchFee <= MAX_LAUNCH_FEE
  /\ wired = FALSE
  /\ call = NoCall
  /\ saved = NotSaved

-----------------------------------------------------------------------------
(* Wiring and administration: not behind the reentrancy guard.             *)

Initialize(who) ==
  /\ who = Deployer
  /\ ~wired
  /\ wired' = TRUE
  /\ UNCHANGED <<poolVars, books, feeTo, feeToSetter, launchFee, call, saved>>

SetFeeTo(who, to) ==
  /\ Open
  /\ who = feeToSetter
  /\ to \notin {NoOne, Pad}
  /\ feeTo' = to
  /\ UNCHANGED <<poolVars, books, feeToSetter, launchFee, wired, call, saved>>

SetFeeToSetter(who, to) ==
  /\ Open
  /\ who = feeToSetter
  /\ feeToSetter' = to
  /\ UNCHANGED <<poolVars, books, feeTo, launchFee, wired, call, saved>>

SetLaunchFee(who, fee) ==
  /\ Open
  /\ who = feeToSetter
  /\ fee <= MAX_LAUNCH_FEE
  /\ launchFee' = fee
  /\ UNCHANGED <<poolVars, books, feeTo, feeToSetter, wired, call, saved>>

-----------------------------------------------------------------------------
(* Trades on a curve. *)

(* _graduate, with the ledgers as the buy has left them: the USDC raised   *)
(* and POOL_SUPPLY tokens go to the pair, which mints its LP to 0x..dEaD.  *)
Graduation(t, raised, usdcBefore, balBefore) ==
  LET newUsdc == Moved(usdcBefore, Pad, Pair[t], raised)
      newBal  == Moved(balBefore, Pad, Pair[t], POOL_SUPPLY)
  IN  /\ lpSupply[t] = 0
      /\ usdcBefore[Pad] >= raised
      /\ balBefore[Pad] >= POOL_SUPPLY
      /\ graduated' = [graduated EXCEPT ![t] = TRUE]
      /\ usdc' = newUsdc
      /\ bal' = [bal EXCEPT ![t] = newBal]
      /\ MintTo(t, Dead, newBal[Pair[t]], newUsdc[Pair[t]])

(* Fault: the sell-out buy leaves the curve open. *)
BoughtOpen(c, q) ==
  [c EXCEPT !.virtualUsdc = @ + (q.usdcSpent - q.platformFee - q.creatorFee),
            !.virtualTokens = @ - q.tokensOut,
            !.tokensSold = @ + q.tokensOut]

(* A curve after a buy it quoted, and after a sell.                        *)
Bought(c, q) ==
  [c EXCEPT !.virtualUsdc = @ + (q.usdcSpent - q.platformFee - q.creatorFee),
            !.virtualTokens = @ - q.tokensOut,
            !.tokensSold = @ + q.tokensOut,
            !.graduated = q.graduates]

SoldBack(c, q, tokensIn) ==
  [c EXCEPT !.virtualUsdc = @ - q.gross,
            !.virtualTokens = @ + tokensIn,
            !.tokensSold = @ - tokensIn]

(* _buy: the part buy() and createToken's first buy share. *)
CurveBuy(t, payer, usdcIn, to) ==
  LET c      == curves[t]
      q      == CalcBuy(c.virtualUsdc, c.virtualTokens, CURVE_SUPPLY - c.tokensSold,
                        usdcIn, c.creatorFeeBps)
      raised == Bought(c, q).virtualUsdc - VIRTUAL_USDC_0
      paid   == Moved(usdc, payer, Pad, q.usdcSpent)
      sent   == Moved(bal[t], Pad, to, q.tokensOut)
  IN  /\ Launched(t) /\ ~c.graduated
      /\ q.ok
      /\ usdc[payer] >= q.usdcSpent
      /\ bal[t][Pad] >= q.tokensOut
      /\ MayReceive(t, to)
      /\ curves' = [curves EXCEPT ![t] = Bought(c, q)]
      /\ pendingFees' = pendingFees + q.platformFee
      /\ pendingCreatorFees' = [pendingCreatorFees EXCEPT ![t] = @ + q.creatorFee]
      /\ IF q.graduates
           THEN Graduation(t, raised, paid, sent)
           ELSE /\ usdc' = paid
                /\ bal' = [bal EXCEPT ![t] = sent]
                /\ UNCHANGED <<graduated, reserves, lp, lpSupply>>

(* Fault: buy without the reentrancy guard. *)
BuyReentrant(t, who, usdcIn, to) ==
  /\ Open
  /\ CurveBuy(t, who, usdcIn, to)
  /\ UNCHANGED <<admin, call, saved>>

Buy(t, who, usdcIn, to) ==
  /\ ~Entered
  /\ CurveBuy(t, who, usdcIn, to)
  /\ UNCHANGED <<admin, call, saved>>

Sell(t, who, tokensIn, to) ==
  LET c == curves[t]
      q == CalcSell(c.virtualUsdc, c.virtualTokens, c.tokensSold, tokensIn, c.creatorFeeBps)
  IN  /\ ~Entered
      /\ Launched(t) /\ ~c.graduated
      /\ q.ok
      /\ bal[t][who] >= tokensIn
      /\ usdc[Pad] >= q.usdcOut
      /\ curves' = [curves EXCEPT ![t] = SoldBack(c, q, tokensIn)]
      /\ pendingFees' = pendingFees + q.platformFee
      /\ pendingCreatorFees' = [pendingCreatorFees EXCEPT ![t] = @ + q.creatorFee]
      /\ bal' = [bal EXCEPT ![t] = Moved(@, who, Pad, tokensIn)]
      /\ usdc' = Moved(usdc, Pad, to, q.usdcOut)
      /\ UNCHANGED <<graduated, reserves, lp, lpSupply, admin, call, saved>>

-----------------------------------------------------------------------------
(* createToken: everything up to the plugin's onLaunch, then the rest.     *)

(* Where fees could never be passed on from.  The registry knows this      *)
(* token's own pair and those of tokens already launched.                  *)
RefusedPlugins(t) ==
  {NoOne, Pad, Router, Pair[t]} \cup {Pair[s] : s \in {u \in Tokens : Launched(u)}}

CreateToken(t, who, fee, plugin, firstBuy, maxLaunchFee) ==
  /\ ~Entered
  /\ wired
  /\ ~Launched(t)
  /\ fee <= MAX_CREATOR_FEE_BPS
  /\ plugin \notin RefusedPlugins(t)
  /\ launchFee <= maxLaunchFee
  /\ usdc[who] >= launchFee
  /\ pendingFees' = pendingFees + launchFee
  /\ usdc' = Moved(usdc, who, Pad, launchFee)
  /\ bal' = [bal EXCEPT ![t] = Credited(@, Pad, TOTAL_SUPPLY)]
  /\ curves' = [curves EXCEPT ![t] =
                  [NoCurve EXCEPT !.creator = who, !.creatorFeeBps = fee,
                                  !.plugin = plugin,
                                  !.pluginHooks = plugin \in HookPlugins]]
  /\ call' = [kind |-> "launch", token |-> t, allowance |-> 0, before |-> 0,
              firstBuy |-> firstBuy]
  /\ saved' = Snapshot
  /\ UNCHANGED <<graduated, reserves, lp, lpSupply, pendingCreatorFees, admin>>

(* onLaunch has returned; the creator's first buy, if any, and the end. *)
FinishLaunch ==
  LET t == call.token
  IN  /\ call.kind = "launch"
      /\ IF call.firstBuy = 0
           THEN UNCHANGED <<poolVars, books>>
           ELSE CurveBuy(t, curves[t].creator, call.firstBuy, curves[t].creator)
      /\ call' = NoCall
      /\ saved' = NotSaved
      /\ UNCHANGED admin

-----------------------------------------------------------------------------
(* Collection. *)

(* Fault: the balance is paid out where the books should be.               *)
CollectFeesByBalance ==
  /\ ~Entered
  /\ pendingFees > 0
  /\ pendingFees' = 0
  /\ usdc' = Moved(usdc, Pad, feeTo, usdc[Pad])
  /\ UNCHANGED <<bal, graduated, reserves, lp, lpSupply, curves, pendingCreatorFees,
                 admin, call, saved>>

CollectFees ==
  /\ ~Entered
  /\ pendingFees > 0
  /\ usdc[Pad] >= pendingFees
  /\ pendingFees' = 0
  /\ usdc' = Moved(usdc, Pad, feeTo, pendingFees)
  /\ UNCHANGED <<bal, graduated, reserves, lp, lpSupply, curves, pendingCreatorFees,
                 admin, call, saved>>

(* collectCreatorFees to an address without hooks: a plain transfer. *)
CollectToPlain(t) ==
  /\ ~Entered
  /\ Launched(t) /\ ~curves[t].pluginHooks
  /\ pendingCreatorFees[t] > 0
  /\ usdc[Pad] >= pendingCreatorFees[t]
  /\ pendingCreatorFees' = [pendingCreatorFees EXCEPT ![t] = 0]
  /\ usdc' = Moved(usdc, Pad, curves[t].plugin, pendingCreatorFees[t])
  /\ UNCHANGED <<bal, graduated, reserves, lp, lpSupply, curves, pendingFees,
                 admin, call, saved>>

(* ... and to a plugin: approve it for the amount and call onFees. *)
CollectToPlugin(t) ==
  /\ ~Entered
  /\ Launched(t) /\ curves[t].pluginHooks
  /\ pendingCreatorFees[t] > 0
  /\ pendingCreatorFees' = [pendingCreatorFees EXCEPT ![t] = 0]
  /\ call' = [kind |-> "fees", token |-> t, allowance |-> pendingCreatorFees[t],
              before |-> usdc[Pad], firstBuy |-> 0]
  /\ saved' = Snapshot
  /\ UNCHANGED <<poolVars, curves, pendingFees, admin>>

(* Inside onFees the plugin spends its allowance, to wherever it likes. *)
PluginPull(amount, to) ==
  /\ call.kind = "fees"
  /\ amount <= call.allowance
  /\ usdc[Pad] >= amount
  /\ usdc' = Moved(usdc, Pad, to, amount)
  /\ call' = [call EXCEPT !.allowance = @ - amount]
  /\ UNCHANGED <<bal, graduated, reserves, lp, lpSupply, books, admin, saved>>

(* onFees has returned: exactly the amount must have left. *)
CollectedAmount == saved.pendingCreatorFees[call.token]

(* Fault: what the plugin pulled is not checked. *)
FinishFeesUnchecked ==
  /\ call.kind = "fees"
  /\ call' = NoCall
  /\ saved' = NotSaved
  /\ UNCHANGED <<poolVars, books, admin>>

FinishFees ==
  /\ call.kind = "fees"
  /\ usdc[Pad] + CollectedAmount = call.before
  /\ call.allowance = 0
  /\ call' = NoCall
  /\ saved' = NotSaved
  /\ UNCHANGED <<poolVars, books, admin>>

(* The transaction with the open call reverts: the plugin reverted, the    *)
(* pull did not match, the first buy failed, or gas ran out.               *)
RevertCall ==
  /\ Entered
  /\ usdc' = saved.usdc
  /\ bal' = saved.bal
  /\ graduated' = saved.graduated
  /\ reserves' = saved.reserves
  /\ lp' = saved.lp
  /\ lpSupply' = saved.lpSupply
  /\ curves' = saved.curves
  /\ pendingFees' = saved.pendingFees
  /\ pendingCreatorFees' = saved.pendingCreatorFees
  /\ feeTo' = saved.feeTo
  /\ feeToSetter' = saved.feeToSetter
  /\ launchFee' = saved.launchFee
  /\ call' = NoCall
  /\ saved' = NotSaved
  /\ UNCHANGED wired

-----------------------------------------------------------------------------
(* Trades in a launch pool, through the router.  accrueTradeFees holds the *)
(* launchpad's guard, so inside a plugin call a whole trade reverts.       *)

AccrueTradeFees(t, platformFee, creatorFee) ==
  /\ ~Entered
  /\ Launched(t) /\ curves[t].graduated
  /\ pendingFees' = pendingFees + platformFee
  /\ pendingCreatorFees' = [pendingCreatorFees EXCEPT ![t] = @ + creatorFee]

RouterBuy(t, who, usdcIn, to) ==
  LET q    == RouterBuyQuote(reserves[t].token, reserves[t].usdc, usdcIn,
                             curves[t].creatorFeeBps)
      fees == q.platformFee + q.creatorFee
      paid == Moved(Moved(usdc, who, Pad, fees), who, Pair[t], q.net)
      sent == Moved(bal[t], Pair[t], to, q.tokensOut)
  IN  /\ Launched(t) /\ curves[t].graduated
      /\ q.ok
      /\ usdc[who] >= usdcIn
      /\ AccrueTradeFees(t, q.platformFee, q.creatorFee)
      /\ bal[t][Pair[t]] >= q.tokensOut
      /\ MayReceive(t, to)
      /\ SwapTo(t, q.tokensOut, 0, sent[Pair[t]], paid[Pair[t]])
      /\ usdc' = paid
      /\ bal' = [bal EXCEPT ![t] = sent]
      /\ UNCHANGED <<graduated, lp, lpSupply, curves, admin, call, saved>>

RouterSell(t, who, tokensIn, to) ==
  LET q      == RouterSellQuote(reserves[t].token, reserves[t].usdc, tokensIn,
                                curves[t].creatorFeeBps)
      fees   == q.platformFee + q.creatorFee
      pulled == Moved(bal[t], who, Pair[t], tokensIn)
      out    == Moved(usdc, Pair[t], Router, q.gross)
      paid   == Moved(Moved(out, Router, Pad, fees), Router, to, q.usdcOut)
  IN  /\ Launched(t) /\ curves[t].graduated
      /\ q.ok
      /\ bal[t][who] >= tokensIn
      /\ MayReceive(t, Pair[t])
      /\ usdc[Pair[t]] >= q.gross
      /\ SwapTo(t, 0, q.gross, pulled[Pair[t]], out[Pair[t]])
      /\ AccrueTradeFees(t, q.platformFee, q.creatorFee)
      /\ bal' = [bal EXCEPT ![t] = pulled]
      /\ usdc' = paid
      /\ UNCHANGED <<graduated, lp, lpSupply, curves, admin, call, saved>>

-----------------------------------------------------------------------------
(* Everything else anyone may do with the assets, at any time they are     *)
(* within reach: also from inside a plugin call.                           *)
Assets ==
  /\ Open
  /\ \/ \E from \in Holders, to \in Recipients, amount \in UsdcAmounts :
          TransferUsdc(from, to, amount)
     \/ \E t \in Tokens : Launched(t) /\ PoolStep(t)
  /\ UNCHANGED <<books, admin, call, saved>>

Administration ==
  \/ \E who \in Users : Initialize(who)
  \/ \E who \in Users, to \in Users \cup {Pad, NoOne} : SetFeeTo(who, to)
  \/ \E who \in Users, to \in Users \cup {NoOne} : SetFeeToSetter(who, to)
  \/ \E who \in Users, fee \in LaunchFees : SetLaunchFee(who, fee)

Creation ==
  \/ \E t \in Tokens, who \in Users, fee \in CreatorFees, plugin \in Accounts,
        firstBuy \in BuyAmounts \cup {0}, maxLaunchFee \in LaunchFees :
       CreateToken(t, who, fee, plugin, firstBuy, maxLaunchFee)
  \/ FinishLaunch

Trading ==
  \E t \in Tokens, who \in Holders :
    \E to \in {who} \cup Recipients :
      \/ \E usdcIn \in BuyAmounts : Buy(t, who, usdcIn, to) \/ RouterBuy(t, who, usdcIn, to)
      \/ \E tokensIn \in SellAmounts :
           Sell(t, who, tokensIn, to) \/ RouterSell(t, who, tokensIn, to)

Collection ==
  \/ CollectFees
  \/ \E t \in Tokens : CollectToPlain(t) \/ CollectToPlugin(t)
  \/ \E amount \in 1..call.allowance, to \in HookPlugins \cup Recipients : PluginPull(amount, to)
  \/ FinishFees

Next == Administration \/ Creation \/ Trading \/ Collection \/ RevertCall \/ Assets

Spec == Init /\ [][Next]_vars

-----------------------------------------------------------------------------
CurveRecord ==
  [creator : Users \cup {NoOne}, virtualUsdc : Nat, virtualTokens : Nat,
   tokensSold : Nat, graduated : BOOLEAN, creatorFeeBps : Nat,
   pluginHooks : BOOLEAN, plugin : (Accounts \ {Pad}) \cup {NoOne}]

SavedState ==
  [usdc : [Accounts -> Nat], bal : [Tokens -> [Accounts -> Nat]],
   graduated : [Tokens -> BOOLEAN],
   reserves : [Tokens -> [token : Nat, usdc : Nat]],
   lp : [Tokens -> [Accounts -> Nat]], lpSupply : [Tokens -> Int],
   curves : [Tokens -> CurveRecord], pendingFees : Nat,
   pendingCreatorFees : [Tokens -> Nat],
   feeTo : Users, feeToSetter : Users \cup {NoOne}, launchFee : Nat]

(* Every balance, reserve and accrual stays a natural number (the code's   *)
(* checked subtractions never leave it with less than zero), and an open   *)
(* call has the state to revert to.                                        *)
TypeOK ==
  /\ PoolTypeOK
  /\ curves \in [Tokens -> CurveRecord]
  /\ pendingFees \in Nat
  /\ pendingCreatorFees \in [Tokens -> Nat]
  /\ feeTo \in Users
  /\ feeToSetter \in Users \cup {NoOne}
  /\ launchFee \in Nat
  /\ wired \in BOOLEAN
  /\ call \in [kind : {"none", "launch", "fees"}, token : Tokens \cup {NoOne},
               allowance : Nat, before : Nat, firstBuy : Nat]
  /\ Entered => call.token \in Tokens /\ saved \in SavedState

-----------------------------------------------------------------------------
(* Safety. *)

(* The USDC a curve has raised and still holds. *)
Float(c) == IF c.creator # NoOne /\ ~c.graduated THEN c.virtualUsdc - VIRTUAL_USDC_0 ELSE 0

(* What the launchpad owes: to feeTo, to every plugin, to every live curve. *)
Owed(fees, creatorFees, cs) ==
  fees + SumOver(Tokens, [t \in Tokens |-> creatorFees[t] + Float(cs[t])])

Books == Owed(pendingFees, pendingCreatorFees, curves)

(* What it holds beyond that and beyond a plugin's open allowance. *)
Surplus == usdc[Pad] - Books - call.allowance

(* V13-SPEC 6.1: the launchpad holds what its books say, to the unit,      *)
(* through every trade, graduation and collection, at every moment a       *)
(* plugin can look (a run in which nobody sends it USDC unasked).          *)
SolventToTheUnit == Surplus = 0

(* V13-SPEC 9: USDC sent to the launchpad unasked is a surplus nothing     *)
(* ever pays out: no step but a revert makes it smaller.  With the first   *)
(* state's zero, the launchpad is solvent in every state.                  *)
SurplusNeverPaidOut == [][RevertCall \/ Surplus' >= Surplus]_vars

(* A curve's shape: what it sold and what it keeps make up its supply, the *)
(* product of its reserves is at least what it started with, so it has     *)
(* always raised enough to buy everything back, and it has graduated       *)
(* exactly when it has nothing left to sell.                               *)
CurveShape(c) ==
  /\ c.virtualTokens + c.tokensSold = VIRTUAL_TOKENS_0
  /\ c.tokensSold <= CURVE_SUPPLY
  /\ c.virtualUsdc >= VIRTUAL_USDC_0
  /\ c.virtualUsdc * c.virtualTokens >= VIRTUAL_USDC_0 * VIRTUAL_TOKENS_0
  /\ c.graduated <=> c.tokensSold = CURVE_SUPPLY

CurvesShaped == \A t \in Tokens : CurveShape(curves[t])

(* The launchpad's inventory of a live token is what the curve has left to *)
(* sell and the pool's share, and of a graduated one nothing (more if      *)
(* someone sends it tokens); the two graduation flags agree.               *)
InventoryCovered ==
  \A t \in Tokens : Launched(t) =>
    /\ graduated[t] = curves[t].graduated
    /\ ~graduated[t] => bal[t][Pad] >= TOTAL_SUPPLY - curves[t].tokensSold

(* Nothing done to a live token's pair can block its graduation, donations *)
(* and syncs included: the pair has no LP, no tokens recorded or held, and *)
(* the mint of the sell-out buy would create LP.                           *)
GraduationOpen ==
  \A t \in Tokens : Launched(t) /\ ~graduated[t] =>
    LET k      == curves[t].virtualUsdc * curves[t].virtualTokens
        raised == DivCeil(k, VIRTUAL_TOKENS_0 - CURVE_SUPPLY) - VIRTUAL_USDC_0
    IN  /\ lpSupply[t] = 0
        /\ LiquidityFor(t, bal[t][Pair[t]] + POOL_SUPPLY, usdc[Pair[t]] + raised)
              \cap (Nat \ {0}) # {}

(* The creator's first buy meets an untouched curve: until createToken has *)
(* finished, nobody holds or has bought any of the token, even from inside *)
(* the plugin's onLaunch.                                                  *)
FirstBuyUnsniped ==
  call.kind = "launch" =>
    /\ curves[call.token].tokensSold = 0
    /\ curves[call.token].virtualUsdc = VIRTUAL_USDC_0
    /\ bal[call.token][Pad] = TOTAL_SUPPLY

(* While a plugin is being paid the books stand still: it can reach no     *)
(* curve, no other token's fees and no platform fee until onFees returns.  *)
BooksFrozenInCollection ==
  call.kind = "fees" =>
    /\ curves = saved.curves
    /\ pendingFees = saved.pendingFees
    /\ pendingCreatorFees = [saved.pendingCreatorFees EXCEPT ![call.token] = 0]

(* A share of a launch pool is never worth less after a step than before,  *)
(* except where a reverted transaction undoes a gift to the pool.          *)
PoolSharesNotDiluted == [][RevertCall \/ SharesNotDiluted]_vars

(* The launchpad's numbers are what its code takes them for: each is an    *)
(* unsigned number, curves keep their shape and pairs hold what they have  *)
(* recorded, so no checked subtraction of a trade, a mint or a skim fails. *)
BooksSound == TypeOK /\ CurvesShaped /\ ReservesBacked

(* A curve always reaches a pool that lasts: the launchpad has the USDC    *)
(* and the tokens a graduation needs, nobody can block it, and the pool it *)
(* opens never runs dry.                                                   *)
GraduationIsSafe ==
  SolventToTheUnit /\ InventoryCovered /\ GraduationOpen /\ PoolNeverEmpties

(* A plugin called by the launchpad, whatever it does before it returns,   *)
(* finds a new curve untouched and the books of a collection closed.       *)
CallsKeepTheBooks == FirstBuyUnsniped /\ BooksFrozenInCollection

-----------------------------------------------------------------------------
(* The launchpad implements LaunchSale.  A token whose createToken has not *)
(* finished is not on sale yet.                                            *)
SalePhase(t) ==
  IF ~Launched(t) \/ (call.kind = "launch" /\ call.token = t) THEN "unopened"
  ELSE IF curves[t].graduated THEN "pool" ELSE "open"

Sale == INSTANCE LaunchSale WITH
  Supply       <- CURVE_SUPPLY,
  TokenReserve <- VIRTUAL_TOKENS_0,
  UsdcReserve  <- VIRTUAL_USDC_0,
  phase  <- [t \in Tokens |-> SalePhase(t)],
  sold   <- [t \in Tokens |-> curves[t].tokensSold],
  raised <- [t \in Tokens |-> curves[t].virtualUsdc - VIRTUAL_USDC_0]

(* Every step of the launchpad is a step of the abstract sale or leaves it *)
(* alone: reverted launches, callbacks and everything but curve trades.    *)
SaleRefined == Sale!Spec
=============================================================================
