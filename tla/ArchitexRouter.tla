---------------------------- MODULE ArchitexRouter ----------------------------
(***************************************************************************)
(* ArchitexRouter over every pair of some tokens: liquidity with and       *)
(* without a permit, and swaps along paths, while outsiders send tokens    *)
(* and LP to the pairs, sync and skim them.  The pairs are those of        *)
(* PairMath, and give the protocol its shares while the factory's feeTo is *)
(* set; ArchitexPair.tla has one of them with all that can happen to it,   *)
(* flash swaps included.  A borrower's call that uses the router is        *)
(* refused by the pair it borrowed from and is, for the others, a call     *)
(* like any other.                                                         *)
(*                                                                         *)
(* The router keeps nothing between calls, so it has no variable.          *)
(***************************************************************************)
EXTENDS PairMath, Sums, Sequences, FiniteSets

CONSTANTS
  Tokens,
  Address,               \* the tokens' addresses, which order a pair
  Users,
  Dead, Self,            \* 0x...dEaD and the pair, which also hold LP
  Treasuries,            \* whom the factory's feeTo may be set to
  NoOne,                 \* the zero address: no protocol fee
  Holding,               \* what each user starts with, of each token
  Deposits,              \* amounts offered to addLiquidity
  Removals,              \* LP amounts removed or sent to a pair
  Paths,
  Payments, Purchases,   \* amounts swapped in and out
  Gifts,                 \* token amounts sent to a pair
  PermitValues,          \* LP amounts approved or signed for
  Unlimited              \* type(uint256).max, the one that is not used up

Pairs   == {p \in SUBSET Tokens : Cardinality(p) = 2}
Holders == Users \cup Treasuries \cup {Dead, Self}

(* No hop trades a token for itself: getPair knows no such pair.           *)
ASSUME RouterAssumption ==
  /\ IsFiniteSet(Tokens) /\ IsFiniteSet(Users) /\ IsFiniteSet(Treasuries)
  /\ Address \in [Tokens -> Nat]
  /\ \A s, t \in Tokens : Address[s] = Address[t] => s = t
  /\ Dead \notin Users \cup Treasuries /\ Self \notin Users \cup Treasuries /\ Dead # Self
  /\ NoOne \notin Holders
  /\ Holding \in [Users -> [Tokens -> Nat]]
  /\ Deposits \subseteq Nat /\ Removals \subseteq Nat /\ Gifts \subseteq Nat
  /\ Payments \subseteq Nat /\ Purchases \subseteq Nat
  /\ PermitValues \subseteq Nat /\ Unlimited \in Nat
  /\ \A amount \in Removals : amount <= Unlimited
  /\ \A path \in Paths :
       /\ path \in Seq(Tokens) /\ Len(path) >= 2
       /\ \A i \in 1..(Len(path) - 1) : path[i] # path[i + 1]

VARIABLES
  created,       \* the pairs the factory has made
  pools,
  wallet,
  lp,
  allowance,     \* LP the router may take from its caller
  permit,        \* each user's signed permit for the router, and if it was used
  feeTo

vars == <<created, pools, wallet, lp, allowance, permit, feeTo>>

NoPermit == [signed |-> FALSE, used |-> FALSE, value |-> 0]

Init ==
  /\ created = {}
  /\ pools = [p \in Pairs |-> EmptyPool]
  /\ wallet = Holding
  /\ lp = [p \in Pairs |-> [h \in Holders |-> 0]]
  /\ allowance = [p \in Pairs |-> [u \in Users |-> 0]]
  /\ permit = [p \in Pairs |-> [u \in Users |-> NoPermit]]
  /\ feeTo = NoOne

FeeOn == feeTo # NoOne

-----------------------------------------------------------------------------
(* Sides of a pair. *)

(* A pair's token0 is the one with the lower address. *)
IsToken0(t, p) == \A s \in p : Address[t] <= Address[s]

Other(t, p) == CHOOSE s \in p : s # t

(* The pair contract's tokens of one kind, in whichever of its two places. *)
BalanceOf(pool, p, t) ==
  IF t \notin p THEN 0 ELSE IF IsToken0(t, p) THEN pool.balance0 ELSE pool.balance1

ReserveOf(pool, p, t) == IF IsToken0(t, p) THEN pool.reserve0 ELSE pool.reserve1

Given(pool, p, t, amount) ==
  IF IsToken0(t, p) THEN WithBalances(pool, pool.balance0 + amount, pool.balance1)
                    ELSE WithBalances(pool, pool.balance0, pool.balance1 + amount)

Taken(held, t, amount) == [held EXCEPT ![t] = @ - amount]
Gained(held, t, amount) == [held EXCEPT ![t] = @ + amount]

-----------------------------------------------------------------------------
(* Paths. *)

HopPair(path, i) == {path[i], path[i + 1]}

Hops(path) == 1..(Len(path) - 1)

QuoteHop(amountIn, path, i) ==
  LET p == HopPair(path, i)
  IN  AmountOut(amountIn, ReserveOf(pools[p], p, path[i]), ReserveOf(pools[p], p, path[i + 1]))

AskHop(amountOut, path, i) ==
  LET p == HopPair(path, i)
  IN  AmountIn(amountOut, ReserveOf(pools[p], p, path[i]), ReserveOf(pools[p], p, path[i + 1]))

(* getAmountsOut, getAmountsIn: every hop is quoted before the first runs. *)
AmountsOut(amountIn, path) ==
  LET amounts[i \in 1..Len(path)] ==
        IF i = 1 THEN amountIn ELSE QuoteHop(amounts[i - 1], path, i - 1)
  IN  amounts

AmountsIn(amountOut, path) ==
  LET amounts[i \in 1..Len(path)] ==
        IF i = Len(path) THEN amountOut ELSE AskHop(amounts[i + 1], path, i)
  IN  amounts

Quoted(amounts) == \A i \in DOMAIN amounts : amounts[i] > 0

(* One hop: the pair pays the next pair or, at the end, whoever is to be   *)
(* paid, and then checks what it was left with (_swap, ArchitexPair.swap). *)
Hop(run, path, amounts, i) ==
  LET p       == HopPair(path, i)
      t       == path[i + 1]
      out     == amounts[i + 1]
      out0    == IF IsToken0(t, p) THEN out ELSE 0
      out1    == out - out0
      payable == Payable(run.pools[p], out0, out1)
      paid    == [run.pools EXCEPT ![p] = Paid(@, out0, out1)]
      passed  == IF i + 1 = Len(path) THEN paid
                 ELSE [paid EXCEPT ![HopPair(path, i + 1)] =
                         Given(@, HopPair(path, i + 1), t, out)]
  IN  IF run.ok /\ payable /\ Settles(passed[p], out0, out1)
        THEN [ok |-> TRUE, pools |-> [passed EXCEPT ![p] = Synced(@)]]
        ELSE [ok |-> FALSE, pools |-> pools]

(* The whole swap: pay the first pair, then hop by hop. *)
Swapped(path, amounts) ==
  LET run[i \in 0..(Len(path) - 1)] ==
        IF i = 0
          THEN [ok |-> TRUE,
                pools |-> [pools EXCEPT ![HopPair(path, 1)] =
                             Given(@, HopPair(path, 1), path[1], amounts[1])]]
          ELSE Hop(run[i - 1], path, amounts, i)
  IN  run[Len(path) - 1]

(* The caller pays the first amount, and "to" is paid the last. *)
SwapAlong(u, to, path, amounts) ==
  LET run == Swapped(path, amounts)
  IN  /\ Quoted(amounts)
      /\ wallet[u][path[1]] >= amounts[1]
      /\ run.ok
      /\ pools' = run.pools
      /\ wallet' = LET paid == [wallet EXCEPT ![u] = Taken(@, path[1], amounts[1])]
                   IN  [paid EXCEPT ![to] = Gained(@, path[Len(path)], amounts[Len(path)])]
      /\ UNCHANGED <<created, lp, allowance, permit, feeTo>>

SwapExactTokensForTokens(u, to, path, amountIn) ==
  SwapAlong(u, to, path, AmountsOut(amountIn, path))

SwapTokensForExactTokens(u, to, path, amountOut) ==
  SwapAlong(u, to, path, AmountsIn(amountOut, path))

-----------------------------------------------------------------------------
(* Liquidity. *)

CreatePair(a, b) ==
  /\ a # b
  /\ {a, b} \notin created
  /\ created' = created \cup {{a, b}}
  /\ UNCHANGED <<pools, wallet, lp, allowance, permit, feeTo>>

AmountsToAdd(p, a, b, desiredA, desiredB) ==
  LET reserveA == ReserveOf(pools[p], p, a)
      reserveB == ReserveOf(pools[p], p, b)
  IN  IF reserveA = 0 /\ reserveB = 0
        THEN [ok |-> TRUE, amountA |-> desiredA, amountB |-> desiredB]
        ELSE OptimalAmount(desiredA, desiredB, 0, 0, reserveA, reserveB)

(* A pair's books once _mintFee has given the protocol its shares.         *)
WithFee(held, fee) == [h \in Holders |-> IF h = feeTo THEN held[h] + fee ELSE held[h]]

(* The pair is made if there is none; both amounts are pulled straight to  *)
(* it and minted for.                                                      *)
AddLiquidity(u, to, a, b, desiredA, desiredB) ==
  LET p   == {a, b}
      add == AmountsToAdd(p, a, b, desiredA, desiredB)
      m   == MintOf(Given(Given(pools[p], p, a, add.amountA), p, b, add.amountB), FeeOn)
      held == [lp[p] EXCEPT ![to] = @ + m.shares, ![Dead] = @ + m.locked]
  IN  /\ a # b
      /\ add.ok
      /\ wallet[u][a] >= add.amountA /\ wallet[u][b] >= add.amountB
      /\ m.ok
      /\ created' = created \cup {p}
      /\ wallet' = [wallet EXCEPT ![u] = Taken(Taken(@, a, add.amountA), b, add.amountB)]
      /\ pools' = [pools EXCEPT ![p] = m.pool]
      /\ lp' = [lp EXCEPT ![p] = WithFee(held, m.fee)]
      /\ UNCHANGED <<allowance, permit, feeTo>>

MaySpend(allowed, amount) == allowed >= amount

Spent(allowed, amount) == IF allowed = Unlimited THEN allowed ELSE allowed - amount

(* A permit that was used is done with once its allowance is drawn on.     *)
DoneWith(signature) == IF signature.used THEN NoPermit ELSE signature

(* Shares go to the pair, and all that lies there is burned for "to".      *)
RemoveShares(u, to, p, liquidity, allowed, signature) ==
  LET b == BurnOf(pools[p], lp[p][Self] + liquidity, FeeOn)
      held == [lp[p] EXCEPT ![u] = @ - liquidity, ![Self] = 0]
      t0 == CHOOSE t \in p : IsToken0(t, p)
  IN  /\ p \in created
      /\ MaySpend(allowed, liquidity)
      /\ lp[p][u] >= liquidity
      /\ b.ok
      /\ pools' = [pools EXCEPT ![p] = b.pool]
      /\ lp' = [lp EXCEPT ![p] = WithFee(held, b.fee)]
      /\ wallet' = [wallet EXCEPT ![to] = Gained(Gained(@, t0, b.amount0),
                                                 Other(t0, p), b.amount1)]
      /\ allowance' = [allowance EXCEPT ![p][u] = Spent(allowed, liquidity)]
      /\ permit' = [permit EXCEPT ![p][u] = DoneWith(signature)]
      /\ UNCHANGED <<created, feeTo>>

RemoveLiquidity(u, to, p, liquidity) ==
  RemoveShares(u, to, p, liquidity, allowance[p][u], permit[p][u])

(* Fault: the permit is submitted whatever the allowance, and must not     *)
(* fail.                                                                   *)
PermittedAlways(p, u, liquidity) ==
  [ok |-> ~permit[p][u].used, allowed |-> permit[p][u].value,
   signature |-> [permit[p][u] EXCEPT !.used = TRUE]]

(* The router submits for what is removed or for Unlimited (approveMax).   *)
SignedFor(signature, liquidity) == signature.value \in {liquidity, Unlimited}

(* What the caller's permit leaves it with: it is submitted only when the  *)
(* allowance is short, and one that somebody else has submitted or that    *)
(* was signed for another amount changes nothing, but does not fail the    *)
(* call.                                                                   *)
Permitted(p, u, liquidity) ==
  LET signature == permit[p][u]
  IN  IF \/ allowance[p][u] >= liquidity
         \/ signature.used \/ ~SignedFor(signature, liquidity)
        THEN [ok |-> TRUE, allowed |-> allowance[p][u], signature |-> signature]
        ELSE [ok |-> TRUE, allowed |-> signature.value,
              signature |-> [signature EXCEPT !.used = TRUE]]

RemoveLiquidityWithPermit(u, to, p, liquidity) ==
  LET permitted == Permitted(p, u, liquidity)
  IN  /\ permit[p][u].signed
      /\ permitted.ok
      /\ RemoveShares(u, to, p, liquidity, permitted.allowed, permitted.signature)

-----------------------------------------------------------------------------
(* The rest of the world. *)

Approve(u, p, value) ==
  /\ p \in created
  /\ allowance' = [allowance EXCEPT ![p][u] = value]
  /\ permit' = [permit EXCEPT ![p][u] = DoneWith(@)]
  /\ UNCHANGED <<created, pools, wallet, lp, feeTo>>

SignPermit(u, p, value) ==
  /\ p \in created
  /\ ~permit[p][u].signed
  /\ permit' = [permit EXCEPT ![p][u] = [signed |-> TRUE, used |-> FALSE, value |-> value]]
  /\ UNCHANGED <<created, pools, wallet, lp, allowance, feeTo>>

(* Anyone who sees a signed permit can submit it. *)
SubmitPermit(u, p) ==
  /\ permit[p][u].signed /\ ~permit[p][u].used
  /\ permit' = [permit EXCEPT ![p][u].used = TRUE]
  /\ allowance' = [allowance EXCEPT ![p][u] = permit[p][u].value]
  /\ UNCHANGED <<created, pools, wallet, lp, feeTo>>

Give(u, p, t, amount) ==
  /\ p \in created
  /\ wallet[u][t] >= amount
  /\ wallet' = [wallet EXCEPT ![u] = Taken(@, t, amount)]
  /\ pools' = [pools EXCEPT ![p] = Given(@, p, t, amount)]
  /\ UNCHANGED <<created, lp, allowance, permit, feeTo>>

GiveLp(u, p, amount) ==
  /\ lp[p][u] >= amount
  /\ lp' = [lp EXCEPT ![p][u] = @ - amount, ![p][Self] = @ + amount]
  /\ UNCHANGED <<created, pools, wallet, allowance, permit, feeTo>>

SyncPair(p) ==
  /\ p \in created
  /\ Fits(pools[p].balance0, pools[p].balance1)
  /\ pools' = [pools EXCEPT ![p] = Synced(@)]
  /\ UNCHANGED <<created, wallet, lp, allowance, permit, feeTo>>

SkimPair(u, p) ==
  LET t0 == CHOOSE t \in p : IsToken0(t, p)
      q  == pools[p]
  IN  /\ p \in created
      /\ q.balance0 >= q.reserve0 /\ q.balance1 >= q.reserve1
      /\ wallet' = [wallet EXCEPT ![u] = Gained(Gained(@, t0, q.balance0 - q.reserve0),
                                                Other(t0, p), q.balance1 - q.reserve1)]
      /\ pools' = [pools EXCEPT ![p] = Skimmed(@)]
      /\ UNCHANGED <<created, lp, allowance, permit, feeTo>>

(* The factory's switch; a pair reads feeTo when it mints or burns.        *)
SetFeeTo(to) ==
  /\ feeTo' = to
  /\ UNCHANGED <<created, pools, wallet, lp, allowance, permit>>

Next ==
  \/ \E a, b \in Tokens : CreatePair(a, b)
  \/ \E u, to \in Users, a, b \in Tokens, desiredA, desiredB \in Deposits :
       AddLiquidity(u, to, a, b, desiredA, desiredB)
  \/ \E u, to \in Users, p \in Pairs, liquidity \in Removals :
       RemoveLiquidity(u, to, p, liquidity)
  \/ \E u, to \in Users, p \in Pairs, liquidity \in Removals :
       RemoveLiquidityWithPermit(u, to, p, liquidity)
  \/ \E u, to \in Users, path \in Paths, amountIn \in Payments :
       SwapExactTokensForTokens(u, to, path, amountIn)
  \/ \E u, to \in Users, path \in Paths, amountOut \in Purchases :
       SwapTokensForExactTokens(u, to, path, amountOut)
  \/ \E u \in Users, p \in Pairs, value \in PermitValues : Approve(u, p, value)
  \/ \E u \in Users, p \in Pairs, value \in PermitValues : SignPermit(u, p, value)
  \/ \E u \in Users, p \in Pairs : SubmitPermit(u, p)
  \/ \E u \in Users, p \in Pairs, amount \in Gifts :
       \E t \in p : Give(u, p, t, amount)
  \/ \E u \in Users, p \in Pairs, amount \in Removals : GiveLp(u, p, amount)
  \/ \E p \in Pairs : SyncPair(p)
  \/ \E u \in Users, p \in Pairs : SkimPair(u, p)
  \/ \E to \in Treasuries \cup {NoOne} : SetFeeTo(to)

Spec == Init /\ [][Next]_vars

-----------------------------------------------------------------------------
(* Nothing is ever subtracted below zero: no wallet, pool, share or        *)
(* allowance is drawn on beyond what it has.                               *)
TypeOK ==
  /\ created \subseteq Pairs
  /\ pools \in [Pairs -> PoolShape]
  /\ wallet \in [Users -> [Tokens -> Nat]]
  /\ lp \in [Pairs -> [Holders -> Nat]]
  /\ allowance \in [Pairs -> [Users -> Nat]]
  /\ permit \in [Pairs -> [Users -> [signed : BOOLEAN, used : BOOLEAN, value : Nat]]]
  /\ feeTo \in Treasuries \cup {NoOne}

InWallets(held, t) == SumOver(Users, [u \in Users |-> held[u][t]])
InPairs(ps, t) == SumOver(Pairs, [p \in Pairs |-> BalanceOf(ps[p], p, t)])

(* No call leaves anything with the router: every token is with a user or  *)
(* in a pair (the repository tests it as invariant_routerNeverHoldsTokens),*)
(* and nobody is overdrawn.                                                *)
NothingStuck ==
  /\ TypeOK
  /\ \A t \in Tokens :
       InWallets(wallet, t) + InPairs(pools, t) = InWallets(Holding, t)

(* A path that visits no pair twice. *)
Simple(path) == \A i, j \in Hops(path) : HopPair(path, i) = HopPair(path, j) => i = j

(* What the path's pairs are left with fits what a pair can record.        *)
Recordable(path, amounts) ==
  \A i \in Hops(path) :
    LET p == HopPair(path, i)
    IN  /\ BalanceOf(pools[p], p, path[i]) + amounts[i] <= MaxReserve
        /\ BalanceOf(pools[p], p, path[i + 1]) <= MaxReserve + amounts[i + 1]

(* What the router quotes along a path it can also do: whatever was sent,  *)
(* synced or skimmed before, if every hop has a quote then no hop fails    *)
(* its pair's product check, for exact input and for exact output.         *)
QuotedPathsSettle ==
  \A path \in Paths : Simple(path) =>
    /\ \A amountIn \in Payments :
         LET amounts == AmountsOut(amountIn, path)
         IN  Quoted(amounts) /\ Recordable(path, amounts) => Swapped(path, amounts).ok
    /\ \A amountOut \in Purchases :
         LET amounts == AmountsIn(amountOut, path)
         IN  Quoted(amounts) /\ Recordable(path, amounts) => Swapped(path, amounts).ok

(* A path's exact-output price is enough and hardly more: paid in, it buys *)
(* at least the output (the last hop's rounding may leave more), and with  *)
(* two units less at the first hop that hop gives less than was asked.     *)
PricesAreTight ==
  \A path \in Paths, amountOut \in Purchases :
    LET amounts == AmountsIn(amountOut, path)
    IN  Quoted(amounts) =>
          /\ AmountsOut(amounts[1], path)[Len(path)] >= amountOut
          /\ amounts[1] > 2 => QuoteHop(amounts[1] - 2, path, 1) < amounts[2]

(* Adding liquidity takes no more than desired and no less than the        *)
(* minimums, of either token (_optimalAmount: "amountAOptimal <=           *)
(* amountADesired by construction").                                       *)
AddsWithinBounds ==
  \A p \in created : \A a \in p : \A desiredA, desiredB \in Deposits \cup {d - 1 : d \in Deposits \ {0}} :
    \A minA \in {0, 1, desiredA}, minB \in {0, 1, desiredB} :
      LET b   == Other(a, p)
          add == OptimalAmount(desiredA, desiredB, minA, minB,
                               ReserveOf(pools[p], p, a), ReserveOf(pools[p], p, b))
      IN  add.ok => add.amountA \in minA..desiredA /\ add.amountB \in minB..desiredB

(* Whoever submits a signed permit first, its owner can still remove with  *)
(* it what it was signed for (removeLiquidityWithPermit: "prevents a       *)
(* griefing DoS where a front-runner submits the permit first").           *)
PermitStaysGood ==
  \A p \in Pairs, u \in Users, liquidity \in Removals :
    permit[p][u].signed /\ SignedFor(permit[p][u], liquidity) =>
      LET permitted == Permitted(p, u, liquidity)
      IN  permitted.ok /\ permitted.allowed >= liquidity

(* A quote along a path is a price the router can be held to.              *)
QuotesHold == QuotedPathsSettle /\ PricesAreTight

(* Liquidity goes in and comes out within what its owner signed for, and   *)
(* passes through the router without a rest.                               *)
LiquidityIsSafe == NothingStuck /\ AddsWithinBounds /\ PermitStaysGood

(* Only a removal ever lowers a pair's product: not a swap, however long   *)
(* its path and however often it visits a pair whose quote was made before *)
(* the first visit, and not the protocol's shares                          *)
(* (invariant_kNeverDecreasesForEitherPair).                               *)
EveryPairGains ==
  [][ \A p \in Pairs :
        \/ Product(pools'[p]) >= Product(pools[p])
        \/ \E u, to \in Users, liquidity \in Removals :
             RemoveLiquidity(u, to, p, liquidity) \/ RemoveLiquidityWithPermit(u, to, p, liquidity) ]_vars
=============================================================================
